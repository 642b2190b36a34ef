---------------------------- MODULE AccountHealth ----------------------------
(***************************************************************************)
(* The health of one upstream account: its row in the database (db.rs),    *)
(* the registry snapshot that requests route by (registry.rs), and the     *)
(* writers of the row: requests (pipeline.rs), the background health probe *)
(* of plugins (server.rs), and the operator (admin.rs, cli.rs).            *)
(*                                                                         *)
(* Every SQL statement is one step.  A request keeps the row it found in   *)
(* the snapshot when it began; reload reads the table in one step and      *)
(* publishes the new snapshot in a later one.  Time is a clock of ticks.   *)
(***************************************************************************)
EXTENDS Integers, FiniteSets

CONSTANTS
  Requests,     \* slots for requests on the account; used again when idle
  Background,   \* which of "loop" (the server's reload loop), "prober" (of
                \* plugin health probes) and "operator" there are
  Threshold,    \* CIRCUIT_THRESHOLD
  OpenSecs,     \* CIRCUIT_OPEN_SECS
  ProbeGap,     \* HALF_OPEN_PROBE_MIN_GAP_SECS
  Cooldowns,    \* the cooldowns and quota windows a failure may ask for
  MaxTime,      \* bound on the clock
  MaxFailures,  \* bound on consecutive_failures
  MaxReloads,   \* bound on the reloads that overlap, the loop's not counted
  Never         \* NULL, for a timestamp

ASSUME ConstantsAssumption ==
  /\ Threshold \in Nat \ {0} /\ OpenSecs \in Nat /\ ProbeGap \in Nat
  /\ Cooldowns \subseteq Nat /\ MaxTime \in Nat /\ MaxFailures \in Nat /\ MaxReloads \in Nat
  /\ Background \subseteq {"loop", "prober", "operator"} /\ Background \cap Requests = {}
  /\ Never \notin Nat

VARIABLES
  now,       \* the clock
  row,       \* the account's row in the database
  snapshot,  \* the account's row in the active registry snapshot
  request,   \* the requests on the account
  loaded,    \* what each unfinished reload has read
  prober,    \* the plugin health probe under way: the status it has read
  operator,  \* what the operator's call has still to do
  lost       \* history: a recorder of a failure was dropped or had an error half-way

actors == <<prober, operator>>
vars == <<now, row, snapshot, request, loaded, actors, lost>>

-----------------------------------------------------------------------------
Time == Nat \cup {Never}

Status == {"healthy", "cooldown", "exhausted", "disabled"}

\* until is cooldown_until or quota_reset_at, the one that goes with the status:
\* the statement that writes one of them writes NULL into the other.
Row == [status : Status, until : Time, circuitOpenUntil : Time,
        failures : Nat, lastProbeAt : Time]

NewRow == [status |-> "healthy", until |-> Never, circuitOpenUntil |-> Never,
           failures |-> 0, lastProbeAt |-> Never]

AccountFailure == {"RateLimit", "QuotaExhausted", "AuthError"}

(***************************************************************************)
(* "idle": no request.  "routed": the row was taken from the snapshot.     *)
(* "selected": past the health check.  "sent": awaits the upstream.        *)
(* "count", "read", "open": before each statement of                       *)
(* record_account_failure.  "reload": before or in registry.reload.        *)
(***************************************************************************)
Stage == {"idle", "routed", "selected", "sent", "count", "read", "open", "reload"}

Request == [stage : Stage, row : Row, probing : BOOLEAN]

Idle == [stage |-> "idle", row |-> NewRow, probing |-> FALSE]

Reloaders == Requests \cup Background

-----------------------------------------------------------------------------
(* pool.rs *)

Elapsed(t) == t # Never /\ t <= now

\* effective_status
EffectiveStatus(a) ==
  CASE a.status = "disabled" -> "disabled"
    [] a.status \in {"cooldown", "exhausted"} /\ ~Elapsed(a.until) -> a.status
    [] OTHER -> IF a.circuitOpenUntil # Never THEN "circuit_open" ELSE "healthy"

GapOver(a) == a.lastProbeAt # Never => a.lastProbeAt + ProbeGap <= now

\* should_probe
ShouldProbe(a) ==
  /\ a.status = "healthy"
  /\ Elapsed(a.circuitOpenUntil)
  /\ GapOver(a)

-----------------------------------------------------------------------------
(* The statements of db.rs that change the row. *)

\* set_account_status with a status other than healthy.
WithStatus(a, status, until) == [a EXCEPT !.status = status, !.until = until]

\* set_account_status with "healthy": also clears the circuit and the count.
Recovered(a) == [NewRow EXCEPT !.lastProbeAt = a.lastProbeAt]

\* Wrong: the circuit is closed but the count of failures is kept.
ResetAccountFailures_bug(a) == [a EXCEPT !.circuitOpenUntil = Never]

\* reset_account_failures
ResetAccountFailures(a) == [a EXCEPT !.failures = 0, !.circuitOpenUntil = Never]

\* mark_rate_limited, mark_exhausted or disabling, as the failure demands.
Marked(a, failure, secs) ==
  CASE failure = "RateLimit"      -> WithStatus(a, "cooldown", now + secs)
    [] failure = "QuotaExhausted" -> WithStatus(a, "exhausted", now + secs)
    [] failure = "AuthError"      -> WithStatus(a, "disabled", Never)

-----------------------------------------------------------------------------
(* Registry::reload *)

\* A row as routing sees it: nobody looks at the count of failures.
Read(a) == [a EXCEPT !.failures = 0]

\* A reload reads the accounts table.
ReloadRead(x) ==
  /\ loaded[x] = {}
  /\ x # "loop" => Cardinality({y \in Reloaders \ {"loop"} : loaded[y] # {}}) < MaxReloads
  /\ loaded' = [loaded EXCEPT ![x] = {Read(row)}]
  /\ UNCHANGED <<now, row, snapshot, lost>>

\* Wrong: a disabled account is left out, and what was known of it stays.
Published_bug(x) == IF \E a \in loaded[x] : a.status = "disabled" THEN {snapshot} ELSE loaded[x]

Published(x) == loaded[x]

\* A reload publishes its snapshot, or had an error and keeps the last one.
ReloadEnd(x) ==
  /\ loaded[x] # {}
  /\ \/ snapshot' \in Published(x)
     \/ UNCHANGED snapshot
  /\ loaded' = [loaded EXCEPT ![x] = {}]
  /\ UNCHANGED <<now, row, lost>>

LoopRead == "loop" \in Background /\ ReloadRead("loop") /\ UNCHANGED <<request, actors>>

LoopEnd == "loop" \in Background /\ ReloadEnd("loop") /\ UNCHANGED <<request, actors>>

-----------------------------------------------------------------------------
(* A request on the account (pipeline.rs) *)

At(q, stage) == request' = [request EXCEPT ![q].stage = stage]

Leave(q) == request' = [request EXCEPT ![q] = Idle]

\* The next target of the request, if any, is on this account too; the request
\* keeps its old row.
Retarget(q) ==
  \/ Leave(q)
  \/ request' = [request EXCEPT ![q].stage = "routed", ![q].probing = FALSE]

\* The request takes the snapshot it will use to its end.
Route(q) ==
  /\ request[q].stage = "idle"
  /\ request' = [request EXCEPT ![q] = [stage |-> "routed", row |-> snapshot, probing |-> FALSE]]
  /\ UNCHANGED <<now, row, snapshot, loaded, actors, lost>>

\* The health check: a healthy account, or a half-open probe, or a skip.
Select(q) ==
  /\ request[q].stage = "routed"
  /\ LET a == request[q].row
     IN  \/ /\ EffectiveStatus(a) = "healthy"
            /\ At(q, "selected")
         \/ /\ EffectiveStatus(a) # "healthy" /\ ShouldProbe(a)
            /\ request' = [request EXCEPT ![q] =
                 [stage |-> "selected", row |-> a, probing |-> TRUE]]
         \/ /\ EffectiveStatus(a) # "healthy" /\ ~ShouldProbe(a)
            /\ Leave(q)
  /\ UNCHANGED <<now, row, snapshot, loaded, actors, lost>>

\* The soft quota is reached: the account is marked, without a reload.
SoftQuota(q) ==
  /\ request[q].stage = "selected"
  /\ \E secs \in Cooldowns : row' = Marked(row, "QuotaExhausted", secs)
  /\ Leave(q)
  /\ UNCHANGED <<now, snapshot, loaded, actors, lost>>

\* The credential turns out invalid: the account is disabled, then a reload.
InvalidCredential(q) ==
  /\ request[q].stage = "selected"
  /\ row' = Marked(row, "AuthError", 0)
  /\ At(q, "reload")
  /\ UNCHANGED <<now, snapshot, loaded, actors, lost>>

\* No transport, circuit, credential or permit: the next target, which may be on
\* this account again.
Skip(q) ==
  /\ request[q].stage = "selected"
  /\ Retarget(q)
  /\ UNCHANGED <<now, row, snapshot, loaded, actors, lost>>

\* The upstream request is sent; a probe writes its time into the database only.
Send(q) ==
  /\ request[q].stage = "selected"
  /\ IF request[q].probing
     THEN row' = [row EXCEPT !.lastProbeAt = now]
     ELSE UNCHANGED row
  /\ At(q, "sent")
  /\ UNCHANGED <<now, snapshot, loaded, actors, lost>>

\* clear_circuit after a valid answer; the status stays and nothing is reloaded.
ClearCircuit(q) ==
  /\ request[q].stage = "sent"
  /\ row' = ResetAccountFailures(row)
  /\ Leave(q)
  /\ UNCHANGED <<now, snapshot, loaded, actors, lost>>

\* A failure that says nothing about the account.
TransientFailure(q) ==
  /\ request[q].stage = "sent"
  /\ Retarget(q)
  /\ UNCHANGED <<now, row, snapshot, loaded, actors, lost>>

\* An auth error; the credential is rotated and the same target tried again.
AuthRetry(q) ==
  /\ request[q].stage = "sent"
  /\ request' = [request EXCEPT ![q].stage = "routed", ![q].probing = FALSE]
  /\ UNCHANGED <<now, row, snapshot, loaded, actors, lost>>

\* An auth error whose rotation failed for now: a cooldown, then a reload.
RotationFailed(q) ==
  /\ request[q].stage = "sent"
  /\ \E secs \in Cooldowns : row' = Marked(row, "RateLimit", secs)
  /\ At(q, "reload")
  /\ UNCHANGED <<now, snapshot, loaded, actors, lost>>

\* handle_key_failure: the status write of an account-scoped failure.  An error
\* of the database is ignored.
MarkFailure(q) ==
  /\ request[q].stage = "sent"
  /\ \/ \E failure \in AccountFailure, secs \in Cooldowns : row' = Marked(row, failure, secs)
     \/ UNCHANGED row
  /\ At(q, "count")
  /\ UNCHANGED <<now, snapshot, loaded, actors, lost>>

\* record_account_failure, first statement.
CountFailure(q) ==
  /\ request[q].stage = "count"
  /\ row.failures < MaxFailures
  /\ row' = [row EXCEPT !.failures = @ + 1]
  /\ At(q, "read")
  /\ UNCHANGED <<now, snapshot, loaded, actors, lost>>

ReachesThreshold(a) == a.failures >= Threshold

\* Second statement: the count is read back and compared.
ReadFailures(q) ==
  /\ request[q].stage = "read"
  /\ At(q, IF ReachesThreshold(row) THEN "open" ELSE "reload")
  /\ UNCHANGED <<now, row, snapshot, loaded, actors, lost>>

\* Third statement: the circuit opens.
OpenCircuit(q) ==
  /\ request[q].stage = "open"
  /\ row' = [row EXCEPT !.circuitOpenUntil = now + OpenSecs]
  /\ At(q, "reload")
  /\ UNCHANGED <<now, snapshot, loaded, actors, lost>>

\* A statement of record_account_failure has an error: the others are skipped.
RecordError(q) ==
  /\ request[q].stage \in {"count", "read", "open"}
  /\ lost' = (lost \/ request[q].stage # "count")
  /\ At(q, "reload")
  /\ UNCHANGED <<now, row, snapshot, loaded, actors>>

RequestReload(q) ==
  /\ request[q].stage = "reload"
  /\ \/ ReloadRead(q) /\ UNCHANGED request
     \/ ReloadEnd(q) /\ Retarget(q)
  /\ UNCHANGED actors

\* The client goes away: the request's future is dropped where it awaits.
Disconnect(q) ==
  /\ request[q].stage # "idle"
  /\ lost' = (lost \/ request[q].stage \in {"read", "open"})
  /\ loaded' = [loaded EXCEPT ![q] = {}]
  /\ Leave(q)
  /\ UNCHANGED <<now, row, snapshot, actors>>

-----------------------------------------------------------------------------
(* The plugin health probe (run_plugin_health_probes) *)

\* The row is read; an account that is disabled is not probed.
ProbeRead ==
  /\ "prober" \in Background /\ prober = "idle"
  /\ row.status # "disabled"
  /\ prober' = row.status
  /\ UNCHANGED <<now, row, snapshot, request, loaded, operator, lost>>

\* The plugin's observation is written over whatever the row is by now: quota
\* exhausted; healthy (written unless it was read as healthy) or degraded;
\* unavailable, perhaps without a time; unknown, or the plugin had an error.
ProbeObserve ==
  /\ prober \in Status
  /\ \/ /\ \E secs \in Cooldowns : row' = Marked(row, "QuotaExhausted", secs)
        /\ prober' = "reload"
     \/ /\ \/ row' = Recovered(row)
           \/ \E until \in {Never} \cup {now + secs : secs \in Cooldowns} :
                row' = WithStatus(row, "cooldown", until)
           \/ UNCHANGED row
        /\ prober' = "idle"
  /\ UNCHANGED <<now, snapshot, request, loaded, operator, lost>>

ProbeReload ==
  /\ "prober" \in Background /\ prober = "reload"
  /\ \/ ReloadRead("prober") /\ UNCHANGED prober
     \/ ReloadEnd("prober") /\ prober' = "idle"
  /\ UNCHANGED <<request, operator>>

-----------------------------------------------------------------------------
(* The operator *)

\* reset_account, first statement; the command line's account reset is this
\* statement alone.
Reset ==
  /\ "operator" \in Background /\ operator = "idle"
  /\ row' = Recovered(row)
  /\ operator' \in {"clear", "idle"}
  /\ UNCHANGED <<now, snapshot, request, loaded, prober, lost>>

\* test_account: the probe of the operator succeeded, first statement.
TestAccount ==
  /\ "operator" \in Background /\ operator = "idle"
  /\ row' = [row EXCEPT !.lastProbeAt = now]
  /\ operator' = "tested"
  /\ UNCHANGED <<now, snapshot, request, loaded, prober, lost>>

\* The second statement of both; only reset_account reloads.
OperatorClear ==
  /\ operator \in {"clear", "tested"}
  /\ row' = ResetAccountFailures(row)
  /\ operator' = IF operator = "clear" THEN "reload" ELSE "idle"
  /\ UNCHANGED <<now, snapshot, request, loaded, prober, lost>>

\* update_account writes the status alone; without one in the body it is healthy.
UpdateAccount(status) ==
  /\ "operator" \in Background /\ operator = "idle"
  /\ row' = [row EXCEPT !.status = status]
  /\ operator' = "reload"
  /\ UNCHANGED <<now, snapshot, request, loaded, prober, lost>>

OperatorReload ==
  /\ "operator" \in Background /\ operator = "reload"
  /\ \/ ReloadRead("operator") /\ UNCHANGED operator
     \/ ReloadEnd("operator") /\ operator' = "idle"
  /\ UNCHANGED <<request, prober>>

-----------------------------------------------------------------------------
\* The process stops and starts again: the row is all that is left.
Restart ==
  /\ snapshot' = Read(row)
  /\ request' = [q \in Requests |-> Idle]
  /\ loaded' = [x \in Reloaders |-> {}]
  /\ prober' = "idle" /\ operator' = "idle"
  /\ lost' = (lost \/ \E q \in Requests : request[q].stage \in {"read", "open"})
  /\ UNCHANGED <<now, row>>

Tick ==
  /\ now < MaxTime
  /\ now' = now + 1
  /\ UNCHANGED <<row, snapshot, request, loaded, actors, lost>>
-----------------------------------------------------------------------------
Init ==
  /\ now = 0
  /\ row = NewRow
  /\ snapshot = NewRow
  /\ request = [q \in Requests |-> Idle]
  /\ loaded = [x \in Reloaders |-> {}]
  /\ prober = "idle" /\ operator = "idle"
  /\ lost = FALSE

Choose(q) == Route(q) \/ Select(q) \/ SoftQuota(q) \/ InvalidCredential(q) \/ Skip(q)

Attempt(q) ==
  \/ Send(q) \/ ClearCircuit(q)
  \/ TransientFailure(q) \/ AuthRetry(q) \/ RotationFailed(q)

Record(q) ==
  \/ MarkFailure(q) \/ CountFailure(q) \/ ReadFailures(q) \/ OpenCircuit(q)
  \/ RecordError(q) \/ RequestReload(q)

Probe == ProbeRead \/ ProbeObserve \/ ProbeReload

Operate ==
  \/ Reset \/ TestAccount \/ OperatorClear \/ OperatorReload
  \/ \E status \in {"healthy", "disabled"} : UpdateAccount(status)

Next ==
  \/ \E q \in Requests : Choose(q) \/ Attempt(q) \/ Record(q) \/ Disconnect(q)
  \/ LoopRead \/ LoopEnd \/ Probe \/ Operate \/ Restart \/ Tick

Spec == Init /\ [][Next]_vars

(***************************************************************************)
(* Fairness: the reload loop ticks for ever, a reload ends, and it does    *)
(* not fail each time.  Everybody else ends the reload that they began.    *)
(***************************************************************************)
Fairness ==
  /\ WF_vars(LoopRead)
  /\ SF_vars(LoopEnd /\ snapshot' \in loaded["loop"])
  /\ WF_vars(OperatorReload) /\ WF_vars(ProbeReload)
  /\ \A q \in Requests : WF_vars(RequestReload(q))

FairSpec == Spec /\ Fairness

-----------------------------------------------------------------------------
(* Properties. *)

TypeOK ==
  /\ now \in Nat
  /\ row \in Row /\ snapshot \in Row
  /\ request \in [Requests -> Request]
  /\ loaded \in [Reloaders -> SUBSET Row]
  /\ prober \in Status \cup {"idle", "reload"}
  /\ operator \in {"idle", "clear", "tested", "reload"}
  /\ lost \in BOOLEAN

\* However failures, successes, resets and probes interleave between the three
\* statements of record_account_failure: when the count of failures is at the
\* threshold the circuit is open, or somebody is about to open it, unless a
\* recorder of a failure was cut off half-way.
ThresholdOpensCircuit ==
  row.failures >= Threshold /\ ~lost =>
    \/ row.circuitOpenUntil # Never
    \/ \E q \in Requests : request[q].stage \in {"read", "open"}

\* "Once an account's circuit-open window has elapsed it may be tried again"
\* (should_probe): an account that is out of service for its circuit alone, and
\* for long enough, may be probed.
ElapsedCircuitIsProbeable ==
  EffectiveStatus(row) = "circuit_open" /\ Elapsed(row.circuitOpenUntil) /\ GapOver(row)
    => ShouldProbe(row)

\* Reloads overlap and may publish what is out of date, but once the row's
\* status and circuit stay as they are, so does the snapshot that requests use,
\* and it shows them (Registry::reload, and the loop that repeats it).
SnapshotCatchesUp ==
  \A status \in Status, open \in BOOLEAN :
    <>[](row.status = status /\ (row.circuitOpenUntil # Never) = open)
      => <>[](snapshot.status = status /\ (snapshot.circuitOpenUntil # Never) = open)
=============================================================================
