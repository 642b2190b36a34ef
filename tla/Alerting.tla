------------------------------ MODULE Alerting ------------------------------
(* The usage-log queue (logqueue.rs) and the loop that watches it, the usage rows, *)
(* accounts, routes, budgets, backups and credentials, and posts an alert when a   *)
(* condition begins and ends (alerts.rs). A row is counted in the queue's depth    *)
(* after it was sent, by the thread that sent it: the worker may be faster, and    *)
(* the unsigned depth wraps. An evaluation reads its sources one after the other,  *)
(* and any of its queries may fail. Whether a webhook arrives is left out: no      *)
(* answer of it is used.                                                           *)
EXTENDS Integers, Sequences, SequencesExt, FiniteSets, FiniteSetsExt

CONSTANTS
  LogRows,         \* rows that requests log: [key, hop, bad, cost]
  Capacity,        \* of the queue
  BatchSize,
  Depths,          \* values of the depth counter (2^64 in the code)
  OwnerOf,         \* account -> its provider
  RouteModels,     \* route -> its targets' models
  ModelOwner,      \* model of the registry's snapshot -> provider
  Budget,          \* virtual key -> its monthly budget, 0 for none
  MinRows, RecentRows, FallbackPct, ErrorPct,
  SampleAge, MinSamples, MaxSamples, SlowMs, Sustain,
  Latencies,       \* values of a latency sample
  NoTime, Deleted,
  MaxMoment, MaxEvents   \* bounds

VARIABLES
  moment,          \* the clock
  waiting,         \* rows in the channel
  sending,         \* threads between try_send and fetch_add
  depth, dropped,  \* the queue's two counters
  worker,          \* [at, batch]
  logged,          \* the usage_logs table
  month,           \* rows of earlier months
  acctStatus,      \* account -> status, or Deleted
  routeOn,         \* routes that are enabled
  backupFailed, credFails,
  samples,         \* [at, ms], oldest first
  breachSince,     \* LATENCY_BREACH_SINCE
  alerted,         \* CREDENTIAL_FAILURE_ALERTED
  active,          \* alerts that are firing
  eval,            \* the evaluation: [at, accts, todo]
  events,          \* what has happened so far
  ended,           \* history: requests that had a row to log
  steady,          \* history: nothing has changed or failed since the evaluation began
  calm             \* history: when an evaluation last saw no breach of the latency
queueVars == <<waiting, sending, depth, dropped, worker, logged>>
sourceVars == <<month, acctStatus, routeOn, backupFailed, credFails, samples>>
loopVars == <<breachSince, alerted, active, eval, calm>>
alertVars == <<moment, queueVars, sourceVars, loopVars, events, ended, steady>>

Accts == DOMAIN OwnerOf
RouteIds == DOMAIN RouteModels
ASSUME AlertBounds ==
  /\ Capacity \in Nat \ {0} /\ BatchSize \in Nat \ {0} /\ Depths \in Nat \ {0}
  /\ MaxSamples \in Nat /\ Sustain \in Nat /\ MaxMoment \in Nat /\ MaxEvents \in Nat
  /\ IsFiniteSet(RouteIds) /\ NoTime \notin Nat /\ Deleted \notin {"healthy", "cooldown", "exhausted"}

Occurs == events < MaxEvents /\ events' = events + 1 /\ steady' = FALSE
Happens == Occurs /\ UNCHANGED ended
RequestEnds == Occurs /\ ended' = ended + 1
Works == steady' = FALSE /\ UNCHANGED <<events, ended>>

-----------------------------------------------------------------------------
(* UsageLogQueue *)

Wrapped(n) == n % Depths

\* a full channel drops the row; a row that was sent has still to be counted
Enqueue_bug(r) ==
  /\ RequestEnds
  /\ sending' = sending + 1
  /\ IF Len(waiting) < Capacity
     THEN waiting' = Append(waiting, r) /\ UNCHANGED dropped
     ELSE dropped' = dropped + 1 /\ UNCHANGED waiting
  /\ UNCHANGED <<moment, depth, worker, logged, sourceVars, loopVars>>
Enqueue(r) ==
  /\ RequestEnds
  /\ IF Len(waiting) < Capacity
     THEN waiting' = Append(waiting, r) /\ sending' = sending + 1 /\ UNCHANGED dropped
     ELSE dropped' = dropped + 1 /\ UNCHANGED <<waiting, sending>>
  /\ UNCHANGED <<moment, depth, worker, logged, sourceVars, loopVars>>

CountUp ==
  /\ sending > 0 /\ Works
  /\ sending' = sending - 1 /\ depth' = Wrapped(depth + 1)
  /\ UNCHANGED <<moment, waiting, dropped, worker, logged, sourceVars, loopVars>>

\* recv, then try_recv until the batch is full or the channel empty
BatchFull(batch) == Len(batch) >= BatchSize
Receive ==
  /\ worker.at = "recv" /\ waiting # << >> /\ Works
  /\ waiting' = Tail(waiting)
  /\ worker' = [at |-> "drain", batch |-> <<Head(waiting)>>]
  /\ UNCHANGED <<moment, sending, depth, dropped, logged, sourceVars, loopVars>>
Drain ==
  /\ worker.at = "drain" /\ Works
  /\ IF waiting # << >> /\ ~BatchFull(worker.batch)
     THEN /\ waiting' = Tail(waiting)
          /\ worker' = [worker EXCEPT !.batch = Append(@, Head(waiting))]
     ELSE worker' = [worker EXCEPT !.at = "row"] /\ UNCHANGED waiting
  /\ UNCHANGED <<moment, sending, depth, dropped, logged, sourceVars, loopVars>>

\* each row of the batch: the depth first, then the insert, which may fail
CountDown ==
  /\ worker.at = "row" /\ Works
  /\ depth' = Wrapped(depth - 1)
  /\ worker' = [worker EXCEPT !.at = "insert"]
  /\ UNCHANGED <<moment, waiting, sending, dropped, logged, sourceVars, loopVars>>
LostRow_bug(ok) == dropped' = dropped
LostRow(ok) == dropped' = IF ok THEN dropped ELSE dropped + 1
Insert(ok) ==
  /\ worker.at = "insert" /\ Works
  /\ logged' = IF ok THEN Append(logged, Head(worker.batch)) ELSE logged
  /\ LostRow(ok)
  /\ worker' = [at |-> IF Len(worker.batch) = 1 THEN "recv" ELSE "row", batch |-> Tail(worker.batch)]
  /\ UNCHANGED <<moment, waiting, sending, depth, sourceVars, loopVars>>

-----------------------------------------------------------------------------
(* What else the loop watches *)

StatusChanges(a, s) ==
  /\ acctStatus[a] \notin {Deleted, s} /\ Happens
  /\ acctStatus' = [acctStatus EXCEPT ![a] = s]
  /\ UNCHANGED <<moment, queueVars, month, routeOn, backupFailed, credFails, samples, loopVars>>
RouteSwitched(r) ==
  /\ Happens
  /\ routeOn' = IF r \in routeOn THEN routeOn \ {r} ELSE routeOn \cup {r}
  /\ UNCHANGED <<moment, queueVars, month, acctStatus, backupFailed, credFails, samples, loopVars>>
\* scheduled_backup
BackupEnds(failed) ==
  /\ Happens
  /\ backupFailed' = failed
  /\ UNCHANGED <<moment, queueVars, month, acctStatus, routeOn, credFails, samples, loopVars>>
\* record_credential_failure, record_credential_success
CredentialResolved(ok) ==
  /\ Happens
  /\ credFails' = IF ok THEN 0 ELSE credFails + 1
  /\ UNCHANGED <<moment, queueVars, month, acctStatus, routeOn, backupFailed, samples, loopVars>>

\* record_added_latency: what is old leaves the front, then what is too much
Trimmed(s) ==
  LET old == {i \in DOMAIN s : \A j \in 1..i : s[j].at < moment - SampleAge}
      young == SubSeq(s, Cardinality(old) + 1, Len(s))
  IN SubSeq(young, Max({1, Len(young) - MaxSamples + 1}), Len(young))
RecordLatency(ms) ==
  /\ Happens
  /\ samples' = Trimmed(Append(samples, [at |-> moment, ms |-> ms]))
  /\ UNCHANGED <<moment, queueVars, month, acctStatus, routeOn, backupFailed, credFails, loopVars>>

MonthEnds ==
  /\ Happens
  /\ month' = Len(logged)
  /\ UNCHANGED <<moment, queueVars, acctStatus, routeOn, backupFailed, credFails, samples, loopVars>>
MomentPasses ==
  /\ moment < MaxMoment
  /\ moment' = moment + 1 /\ Works
  /\ UNCHANGED <<queueVars, sourceVars, loopVars>>

-----------------------------------------------------------------------------
(* evaluate *)

Fallback == <<"high_fallback_rate">>
Errors == <<"high_error_rate">>
Unhealthy(a) == <<"account_unhealthy", a>>
Unavailable(r) == <<"route_unavailable", r>>
Slow == <<"high_added_latency">>
Full == <<"usage_queue_saturated">>
Backup == <<"backup_failed">>
Spent(k) == <<"key_budget", k>>
Credential == <<"credential_refresh_failed">>

\* should_fire and should_resolve for each key that a section judges
IfBad(key, condition) == IF condition THEN {key} ELSE {}
Judge(keys, bad) == active' = (active \ keys) \cup bad
On(at) == eval.at = at /\ UNCHANGED <<moment, queueVars, sourceVars, events, ended>>
Evaluated(rec) == eval' = rec
GoOn(to) == Evaluated([eval EXCEPT !.at = to]) /\ UNCHANGED steady

\* ? of a failed query ends the evaluation; what it has done stays
QueryFails ==
  /\ eval.at \in {"usage", "accounts", "routes", "route", "budgets"}
  /\ eval.at = "route" => eval.todo # << >>
  /\ On(eval.at)
  /\ Evaluated([at |-> "idle", accts |-> << >>, todo |-> << >>])
  /\ steady' = FALSE
  /\ UNCHANGED <<breachSince, alerted, active, calm>>

EvalBegin ==
  /\ On("idle")
  /\ Evaluated([eval EXCEPT !.at = "usage"]) /\ steady' = TRUE
  /\ UNCHANGED <<breachSince, alerted, active, calm>>

RecentUsage == SubSeq(logged, Max({1, Len(logged) - RecentRows + 1}), Len(logged))
AtLeast(part, whole, pct) == part * 100 >= pct * whole
HighFallback(rows) == AtLeast(Len(SelectSeq(rows, LAMBDA r : r.hop)), Len(rows), FallbackPct)
HighErrors(rows) == AtLeast(Len(SelectSeq(rows, LAMBDA r : r.bad)), Len(rows), ErrorPct)
JudgeUsage ==
  /\ On("usage") /\ GoOn("accounts")
  /\ IF Len(RecentUsage) >= MinRows
     THEN Judge({Fallback, Errors},
                IfBad(Fallback, HighFallback(RecentUsage)) \cup IfBad(Errors, HighErrors(RecentUsage)))
     ELSE UNCHANGED active
  /\ UNCHANGED <<breachSince, alerted, calm>>

IsUnhealthy(status) == status \in {"exhausted", "circuit_open", "disabled"}
JudgeAccounts ==
  /\ On("accounts")
  /\ LET listed == {a \in Accts : acctStatus[a] # Deleted}
     IN /\ Judge({Unhealthy(a) : a \in listed}, {Unhealthy(a) : a \in {b \in listed : IsUnhealthy(acctStatus[b])}})
        /\ Evaluated([eval EXCEPT !.at = "routes", !.accts = [a \in listed |-> acctStatus[a]]])
  /\ UNCHANGED <<breachSince, alerted, calm, steady>>
ListRoutes ==
  /\ On("routes")
  /\ Evaluated([eval EXCEPT !.at = "route", !.todo = SetToSeq(routeOn)])
  /\ UNCHANGED <<breachSince, alerted, active, calm, steady>>

\* with the accounts that the evaluation has listed before
HealthyOwners(accts) == {OwnerOf[a] : a \in {b \in DOMAIN accts : accts[b] = "healthy"}}
TargetsProvider(m) == IF m \in DOMAIN ModelOwner THEN {ModelOwner[m]} ELSE {}
HasHealthyTarget(r, accts) ==
  \E m \in RouteModels[r] : TargetsProvider(m) \cap HealthyOwners(accts) # {}
JudgeRoute ==
  /\ On("route") /\ eval.todo # << >>
  /\ LET r == Head(eval.todo)
     IN Judge({Unavailable(r)},
              IfBad(Unavailable(r), RouteModels[r] # {} /\ ~HasHealthyTarget(r, eval.accts)))
  /\ Evaluated([eval EXCEPT !.todo = Tail(@)])
  /\ UNCHANGED <<breachSince, alerted, calm, steady>>
RoutesDone ==
  /\ On("route") /\ eval.todo = << >>
  /\ Evaluated([at |-> "latency", accts |-> << >>, todo |-> << >>])
  /\ UNCHANGED <<breachSince, alerted, active, calm, steady>>

\* latency_p95
P95(s) ==
  LET v == SortSeq([i \in DOMAIN s |-> s[i].ms], <)
  IN v[Min({(Len(v) * 95) \div 100, Len(v) - 1}) + 1]
Breach == Len(samples) >= MinSamples /\ P95(samples) > SlowMs
Relieved_bug == breachSince' = breachSince
Relieved == breachSince' = NoTime
JudgeLatency ==
  /\ On("latency") /\ GoOn("queue")
  /\ IF Breach
     THEN LET since == IF breachSince = NoTime THEN moment ELSE breachSince
          IN /\ breachSince' = since
             /\ active' = IF moment - since >= Sustain THEN active \cup {Slow} ELSE active
             /\ UNCHANGED calm
     ELSE Relieved /\ active' = active \ {Slow} /\ calm' = moment
  /\ UNCHANGED alerted

Saturated == AtLeast(depth, Capacity, 80) \/ dropped > 0
JudgeQueue ==
  /\ On("queue") /\ GoOn("backup")
  /\ Judge({Full}, IfBad(Full, Saturated))
  /\ UNCHANGED <<breachSince, alerted, calm>>
JudgeBackup ==
  /\ On("backup") /\ GoOn("budgets")
  /\ Judge({Backup}, IfBad(Backup, backupFailed))
  /\ UNCHANGED <<breachSince, alerted, calm>>

\* key_budget_status: what the key has cost this month
ThisMonth == SubSeq(logged, month + 1, Len(logged))
Spend(k, rows) == FoldSeq(LAMBDA r, sum : IF r.key = k THEN sum + r.cost ELSE sum, 0, rows)
JudgeBudgets ==
  /\ On("budgets") /\ GoOn("credential")
  /\ LET limited == {k \in DOMAIN Budget : Budget[k] > 0}
     IN Judge({Spent(k) : k \in limited},
              {Spent(k) : k \in {b \in limited : AtLeast(Spend(b, ThisMonth), Budget[b], 80)}})
  /\ UNCHANGED <<breachSince, alerted, calm>>

JudgeCredential_bug ==
  /\ On("credential") /\ GoOn("idle")
  /\ active' = IF credFails = 0 THEN active \ {Credential}
               ELSE IF alerted THEN active ELSE active \cup {Credential}
  /\ alerted' = (alerted \/ credFails > 0)
  /\ UNCHANGED <<breachSince, calm>>
JudgeCredential ==
  /\ On("credential") /\ GoOn("idle")
  /\ active' = IF credFails = 0 THEN active \ {Credential}
               ELSE IF alerted THEN active ELSE active \cup {Credential}
  /\ alerted' = (credFails > 0)
  /\ UNCHANGED <<breachSince, calm>>

-----------------------------------------------------------------------------
AlertInit ==
  /\ moment = 0 /\ waiting = << >> /\ sending = 0 /\ depth = 0 /\ dropped = 0
  /\ worker = [at |-> "recv", batch |-> << >>] /\ logged = << >> /\ month = 0
  /\ acctStatus = [a \in Accts |-> "healthy"] /\ routeOn = RouteIds
  /\ backupFailed = FALSE /\ credFails = 0 /\ samples = << >>
  /\ breachSince = NoTime /\ alerted = FALSE /\ active = {}
  /\ eval = [at |-> "idle", accts |-> << >>, todo |-> << >>]
  /\ events = 0 /\ ended = 0 /\ steady = FALSE /\ calm = 0

UsageNext ==
  \/ \E r \in LogRows : Enqueue(r)
  \/ CountUp \/ Receive \/ Drain \/ CountDown
  \/ \E ok \in BOOLEAN : Insert(ok)
  \/ MonthEnds
HealthNext ==
  \/ \E a \in Accts, s \in {"healthy", "cooldown", "exhausted", Deleted} : StatusChanges(a, s)
  \/ \E r \in RouteIds : RouteSwitched(r)
  \/ \E failed \in BOOLEAN : BackupEnds(failed)
SpeedNext ==
  \/ \E ok \in BOOLEAN : CredentialResolved(ok)
  \/ \E ms \in Latencies : RecordLatency(ms)
LoopNext ==
  \/ MomentPasses
  \/ EvalBegin \/ QueryFails \/ JudgeUsage \/ JudgeAccounts \/ ListRoutes \/ JudgeRoute \/ RoutesDone
  \/ JudgeLatency \/ JudgeQueue \/ JudgeBackup \/ JudgeBudgets \/ JudgeCredential
AlertNext == UsageNext \/ HealthNext \/ SpeedNext \/ LoopNext
AlertSpec == AlertInit /\ [][AlertNext]_alertVars

-----------------------------------------------------------------------------
\* Type correctness, with the bounds of the channel and of the worker's batch.
AlertTypeOK ==
  /\ moment \in 0..MaxMoment /\ events \in 0..MaxEvents /\ ended \in 0..events
  /\ waiting \in Seq(LogRows) /\ Len(waiting) <= Capacity
  /\ sending \in Nat /\ dropped \in Nat /\ depth \in 0..(Depths - 1)
  /\ worker.at \in {"recv", "drain", "row", "insert"}
  /\ worker.batch \in Seq(LogRows) /\ Len(worker.batch) <= BatchSize
  /\ (worker.at = "recv") <=> (worker.batch = << >>)
  /\ logged \in Seq(LogRows) /\ month \in 0..Len(logged)
  /\ acctStatus \in [Accts -> {"healthy", "cooldown", "exhausted", Deleted}]
  /\ routeOn \subseteq RouteIds /\ backupFailed \in BOOLEAN /\ credFails \in Nat
  /\ Len(samples) <= MaxSamples /\ breachSince \in 0..MaxMoment \cup {NoTime}
  /\ alerted \in BOOLEAN /\ steady \in BOOLEAN /\ calm \in 0..MaxMoment
  /\ eval.at \in {"idle", "usage", "accounts", "routes", "route", "latency", "queue", "backup",
                  "budgets", "credential"}

\* The depth that /metrics and the saturation alert read is the number of rows in
\* the channel and in the worker's batch, once every sender has counted its row:
\* a wrapped counter (the worker was faster) comes back by itself.
DepthSettles ==
  LET uncounted == IF worker.at = "insert" THEN 1 ELSE 0   \* its row is counted down already
  IN Wrapped(depth + sending) = Wrapped(Len(waiting) + Len(worker.batch) - uncounted)

\* A finished request's row is in the channel, in the batch, in the table, or
\* counted as dropped, each once.
RowsAreAccounted == ended = Len(waiting) + Len(worker.batch) + Len(logged) + dropped

\* After an evaluation during which nothing changed, an alert is firing exactly if
\* its condition holds, whatever the evaluations before it saw or how they failed.
\* Not judged, and as before: rates over too few rows, accounts and routes that are
\* deleted or disabled.
AlertsFollow ==
  eval.at = "idle" /\ steady =>
    /\ Len(RecentUsage) >= MinRows =>
         /\ Fallback \in active <=> HighFallback(RecentUsage)
         /\ Errors \in active <=> HighErrors(RecentUsage)
    /\ \A a \in Accts : acctStatus[a] # Deleted => (Unhealthy(a) \in active <=> IsUnhealthy(acctStatus[a]))
    /\ \A r \in routeOn : RouteModels[r] # {} =>
         (Unavailable(r) \in active <=>
            \A m \in RouteModels[r] : m \in DOMAIN ModelOwner =>
              \A a \in Accts : OwnerOf[a] = ModelOwner[m] => acctStatus[a] # "healthy")
    /\ Full \in active <=> Saturated
    /\ Backup \in active <=> backupFailed
    /\ \A k \in DOMAIN Budget : Budget[k] > 0 =>
         (Spent(k) \in active <=> Spend(k, ThisMonth) * 100 >= 80 * Budget[k])
    /\ Credential \in active <=> credFails > 0
    /\ Slow \in active <=> Breach /\ moment - breachSince >= Sustain

\* The latency alert fires only when no evaluation of the last Sustain seconds has
\* seen the p95 below its threshold (alerts.rs: "sustained for >= 10 minutes").
LatencyIsSustained == Slow \in active => moment - calm >= Sustain

\* Every row is accounted for and the depth settles; alerts follow what they watch, and
\* latency is sustained before its alert fires.
AlertingIsTrue ==
  /\ AlertTypeOK
  /\ DepthSettles
  /\ RowsAreAccounted
  /\ AlertsFollow
  /\ LatencyIsSustained
=============================================================================
