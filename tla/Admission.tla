------------------------------ MODULE Admission ------------------------------
(***************************************************************************)
(* Per-key request, token and budget admission (src/admission.rs), for one *)
(* virtual key.  A request seeds the key's ledger from the usage log if    *)
(* nobody has, reserves an estimate, and later reconciles it with what it  *)
(* really used or is dropped, which cancels the reservation.               *)
(*                                                                         *)
(* The monotonic and the wall clock are one clock of ticks.  Every ledger  *)
(* method runs, and reads the clock, under the ledger's mutex and is one   *)
(* step; seeding awaits the database and is several.                       *)
(***************************************************************************)
EXTENDS Integers, Sequences, FiniteSets, FiniteSetsExt, SequencesExt

CONSTANTS
  Requests,   \* slots for requests of the key; a slot is used again when idle
  Window,     \* MINUTE_WINDOW
  Periods,    \* the budget periods, "daily" and "monthly"
  PeriodLen,  \* the length of each period in ticks
  Rpm,        \* rpm_limit; 0 stands for none
  Tpm,        \* tpm_limit; 0 stands for none
  Budget,     \* daily_budget and monthly_budget; 0 stands for none
  Estimates,  \* the AdmissionEstimates of requests: [tokens, cost]
  Actuals,    \* what reconcile is told: [tokens, cost]
  Prior,      \* usage-log rows of earlier processes, oldest first: [at, tokens, cost]
  Start,      \* when this process starts
  MaxTime,    \* bound on the clock
  Unknown     \* None, for a cost or a token count

\* The columns of a usage-log row that seeding reads.
LogRow == [at : 0..Start, tokens : Nat, cost : Nat]

ASSUME ConstantsAssumption ==
  /\ Window \in Nat \ {0} /\ Rpm \in Nat /\ Tpm \in Nat
  /\ PeriodLen \in [Periods -> Nat \ {0}] /\ Budget \in [Periods -> Nat]
  /\ Start \in Nat /\ MaxTime \in Nat /\ Start <= MaxTime
  /\ IsFiniteSet(Requests)
  /\ Unknown \notin Nat /\ Unknown \notin Requests
  /\ Estimates \subseteq [tokens : Nat, cost : Nat \cup {Unknown}]
  /\ Actuals \subseteq [tokens : Nat \cup {Unknown}, cost : Nat \cup {Unknown}]
  /\ Prior \in Seq(LogRow)
  /\ \A i, j \in 1..Len(Prior) : i <= j => Prior[i].at <= Prior[j].at

VARIABLES
  now,          \* the clock
  initialized,  \* KeyAdmission.initialized
  initLock,     \* the request holding init_lock, or Unknown
  minute,       \* KeyLedger.minute, the deque of settled uses
  period,       \* KeyLedger.daily_day and monthly_key; -1 stands for None
  spend,        \* KeyLedger.daily_spend and monthly_spend
  request,      \* each request and its entry in KeyLedger.active
  truth         \* history: what was really used, to compare the ledger with

ledger == <<minute, period, spend>>
vars == <<now, initialized, initLock, ledger, request, truth>>

-----------------------------------------------------------------------------
Key(p, t) == t \div PeriodLen[p]

MinuteUse == [at : Nat, tokens : Nat]

(***************************************************************************)
(* "idle": no request.  "waiting": in ensure_initialized, before the lock. *)
(* "seeding": holds init_lock, the database queries were sent at time at.  *)
(* "ready": ensure_initialized returned.  "active": holds a reservation    *)
(* made at time at.  "rejected": over a limit.                             *)
(***************************************************************************)
Request == [stage : {"idle", "waiting", "seeding", "ready", "active", "rejected"},
            at : Nat, tokens : Nat, cost : Nat \cup {Unknown}]

Idle == [stage |-> "idle", at |-> 0, tokens |-> 0, cost |-> Unknown]

Active == {r \in Requests : request[r].stage = "active"}

Amount(cost) == IF cost = Unknown THEN 0 ELSE cost

\* The sum of w over the members of S.
Total(w, S) == MapThenSumSet(LAMBDA x : w[x], S)

-----------------------------------------------------------------------------
(* KeyLedger's methods. *)

\* roll_periods: a new day or month starts with nothing spent.
PeriodAt(t) == [p \in Periods |-> Key(p, t)]

RolledSpend(t) == [p \in Periods |-> IF period[p] = Key(p, t) THEN spend[p] ELSE 0]

\* Wrong: an entry is forgotten a tick before its minute is over.
Prune_bug(uses, t) ==
  LET expired == {i \in 1..Len(uses) : \A j \in 1..i : t - uses[j].at >= Window - 1}
  IN  SubSeq(uses, Cardinality(expired) + 1, Len(uses))

\* prune pops expired entries from the front of the deque only.
Prune(uses, t) ==
  LET expired == {i \in 1..Len(uses) : \A j \in 1..i : t - uses[j].at >= Window}
  IN  SubSeq(uses, Cardinality(expired) + 1, Len(uses))

\* The reservations current() counts, and its sums, at the present time.
InWindow == {r \in Active : now - request[r].at < Window}

CurrentRequests == Len(Prune(minute, now)) + Cardinality(InWindow)

CurrentTokens ==
  FoldSeq(LAMBDA use, sum : use.tokens + sum, 0, Prune(minute, now))
    + Total([r \in Requests |-> request[r].tokens], InWindow)

\* What the active reservations of the running period will cost at most.
Reserved(p) ==
  Total([r \in Requests |-> Amount(request[r].cost)],
        {r \in Active : Key(p, request[r].at) = Key(p, now)})

\* Wrong: reservations of concurrent requests are not counted.
CurrentSpend_bug(p) == RolledSpend(now)[p]

CurrentSpend(p) == RolledSpend(now)[p] + Reserved(p)

\* The limits reserve() enforces; an estimate without a cost skips the budgets.
Exceeds(e) ==
  \/ Rpm > 0 /\ CurrentRequests + 1 > Rpm
  \/ Tpm > 0 /\ CurrentTokens + e.tokens > Tpm
  \/ e.cost # Unknown /\ \E p \in Periods :
       Budget[p] > 0 /\ CurrentSpend(p) + e.cost > Budget[p]

\* What current() leaves behind: periods rolled, expired uses gone.
Refresh ==
  /\ minute' = Prune(minute, now)
  /\ period' = PeriodAt(now)
  /\ spend' = RolledSpend(now)

-----------------------------------------------------------------------------
(* ensure_initialized *)

\* A request arrives; it goes straight on when the ledger was seeded.
Arrive(r) ==
  /\ request[r].stage = "idle"
  /\ request' = [request EXCEPT ![r] =
       [Idle EXCEPT !.stage = IF initialized THEN "ready" ELSE "waiting"]]
  /\ UNCHANGED <<now, initialized, initLock, ledger, truth>>

\* Wrong: initialized is not looked at again once the lock is held.
LockInit_bug(r) ==
  /\ request[r].stage = "waiting"
  /\ initLock = Unknown
  /\ request' = [request EXCEPT ![r] = [Idle EXCEPT !.stage = "seeding", !.at = now]]
  /\ initLock' = r
  /\ UNCHANGED <<now, initialized, ledger, truth>>

\* Get init_lock and look at initialized again: the loser of the race goes on,
\* the winner sends the queries.
LockInit(r) ==
  /\ request[r].stage = "waiting"
  /\ initLock = Unknown
  /\ \/ /\ initialized
        /\ request' = [request EXCEPT ![r] = [Idle EXCEPT !.stage = "ready"]]
        /\ UNCHANGED initLock
     \/ /\ ~initialized
        /\ request' = [request EXCEPT ![r] = [Idle EXCEPT !.stage = "seeding", !.at = now]]
        /\ initLock' = r
  /\ UNCHANGED <<now, initialized, ledger, truth>>

\* The rows each query returns for the time it was sent at, oldest first.
MinuteRows(t) ==
  LET older == {i \in 1..Len(Prior) : Prior[i].at < t - Window}
      first == Cardinality(older)
  IN  [i \in 1..(Len(Prior) - first) |->
         [at |-> Prior[first + i].at, tokens |-> Prior[first + i].tokens]]

SpendRows(p, t) ==
  Total([i \in 1..Len(Prior) |-> Prior[i].cost],
        {i \in 1..Len(Prior) : Key(p, Prior[i].at) = Key(p, t)})

\* The three queries have answered, ok being the ones without an error, and
\* the ledger is seeded; a query that failed leaves its part as it is.
Seed(r, ok) ==
  /\ request[r].stage = "seeding"
  /\ LET t == request[r].at
     IN  /\ minute' = Prune(IF "minute" \in ok THEN minute \o MinuteRows(t) ELSE minute, t)
         /\ period' = PeriodAt(t)
         /\ spend' = [p \in Periods |-> IF p \in ok THEN SpendRows(p, t) ELSE RolledSpend(t)[p]]
  /\ initialized' = TRUE
  /\ initLock' = Unknown
  /\ request' = [request EXCEPT ![r] = [Idle EXCEPT !.stage = "ready"]]
  /\ truth' = [truth EXCEPT !.seeded = ({"minute"} \cup Periods) \subseteq ok]
  /\ UNCHANGED now

\* Wrong: a dropped request keeps init_lock.
DropWaiting_bug(r) ==
  /\ request[r].stage \in {"waiting", "seeding", "ready"}
  /\ request' = [request EXCEPT ![r] = Idle]
  /\ UNCHANGED <<now, initialized, initLock, ledger, truth>>

\* The client goes away while its request awaits: the future is dropped and
\* with it the guard of init_lock.
DropWaiting(r) ==
  /\ request[r].stage \in {"waiting", "seeding", "ready"}
  /\ request' = [request EXCEPT ![r] = Idle]
  /\ initLock' = IF initLock = r THEN Unknown ELSE initLock
  /\ UNCHANGED <<now, initialized, ledger, truth>>

-----------------------------------------------------------------------------
(* Reservations *)

\* check_current: brings the ledger up to date and answers; reserves nothing.
CheckCurrent(r) ==
  /\ request[r].stage = "ready"
  /\ Refresh
  /\ request' = [request EXCEPT ![r] = Idle]
  /\ UNCHANGED <<now, initialized, initLock, truth>>

\* reserve: all limits are checked, then the estimate is inserted as active.
Reserve(r, e) ==
  /\ request[r].stage = "ready"
  /\ Refresh
  /\ request' = [request EXCEPT ![r] =
       IF Exceeds(e)
       THEN [Idle EXCEPT !.stage = "rejected"]
       ELSE [stage |-> "active", at |-> now, tokens |-> e.tokens, cost |-> e.cost]]
  /\ UNCHANGED <<now, initialized, initLock, truth>>

\* The client got its 429.
Answer(r) ==
  /\ request[r].stage = "rejected"
  /\ request' = [request EXCEPT ![r] = Idle]
  /\ UNCHANGED <<now, initialized, initLock, ledger, truth>>

\* What reconcile charges: the provider's numbers if complete, else the estimate.
ChargedTokens(r, u) == IF u.tokens = Unknown THEN request[r].tokens ELSE u.tokens

ChargedCost(r, u) ==
  IF u.tokens = Unknown \/ u.cost = Unknown THEN request[r].cost ELSE u.cost

\* Wrong: a use that is out of the window already is pushed all the same.
SettledMinute_bug(r, u) ==
  Append(Prune(minute, now), [at |-> request[r].at, tokens |-> ChargedTokens(r, u)])

\* The use joins the deque if it is still within the window of its start.
SettledMinute(r, u) ==
  IF now - request[r].at < Window
  THEN Append(Prune(minute, now), [at |-> request[r].at, tokens |-> ChargedTokens(r, u)])
  ELSE Prune(minute, now)

\* The cost is charged to the periods in which the request began.
SettledSpend(r, u) ==
  [p \in Periods |->
     RolledSpend(now)[p]
       + IF Key(p, now) = Key(p, request[r].at) THEN Amount(ChargedCost(r, u)) ELSE 0]

Times == 0..MaxTime

\* How many of some rows began at time s.
Began(rows, s) == Cardinality({i \in 1..Len(rows) : rows[i].at = s})

\* History: the use is counted at the time the request began, and charged to the
\* periods in which it began.  over is what it cost beyond its estimate.
Witnessed(r, u) ==
  LET cost == Amount(ChargedCost(r, u))
      over == IF cost > Amount(request[r].cost) THEN cost - Amount(request[r].cost) ELSE 0
      began(p) == Key(p, request[r].at) = Key(p, now)
  IN  [uses   |-> IF now - request[r].at < Window
                  THEN [truth.uses EXCEPT ![request[r].at] = @ + 1] ELSE truth.uses,
       spend  |-> [p \in Periods |-> IF began(p) THEN truth.spend[p] + cost ELSE truth.spend[p]],
       over   |-> [p \in Periods |-> IF began(p) THEN truth.over[p] + over ELSE truth.over[p]],
       seeded |-> truth.seeded]

\* reconcile, when the response was finalized.
Reconcile(r, u) ==
  /\ request[r].stage = "active"
  /\ minute' = SettledMinute(r, u)
  /\ period' = PeriodAt(now)
  /\ spend' = SettledSpend(r, u)
  /\ truth' = Witnessed(r, u)
  /\ request' = [request EXCEPT ![r] = Idle]
  /\ UNCHANGED <<now, initialized, initLock>>

\* Drop of an unsettled AdmissionReservation: cancel.
Cancel(r) ==
  /\ request[r].stage = "active"
  /\ request' = [request EXCEPT ![r] = Idle]
  /\ UNCHANGED <<now, initialized, initLock, ledger, truth>>

\* Time passes.  History keeps what the limits are about at the new time.
Tick ==
  /\ now < MaxTime
  /\ now' = now + 1
  /\ truth' = [truth EXCEPT
       !.uses  = [s \in Times |-> IF now' - s < Window THEN @[s] ELSE 0],
       !.spend = [p \in Periods |-> IF Key(p, now') = Key(p, now) THEN @[p] ELSE 0],
       !.over  = [p \in Periods |-> IF Key(p, now') = Key(p, now) THEN @[p] ELSE 0]]
  /\ UNCHANGED <<initialized, initLock, ledger, request>>

-----------------------------------------------------------------------------
Init ==
  /\ now = Start
  /\ initialized = FALSE
  /\ initLock = Unknown
  /\ minute = << >>
  /\ period = [p \in Periods |-> -1]
  /\ spend = [p \in Periods |-> 0]
  /\ request = [r \in Requests |-> Idle]
  /\ truth = [uses   |-> [s \in Times |-> IF Start - s < Window THEN Began(Prior, s) ELSE 0],
              spend  |-> [p \in Periods |-> SpendRows(p, Start)],
              over   |-> [p \in Periods |-> IF SpendRows(p, Start) > Budget[p]
                                            THEN SpendRows(p, Start) - Budget[p] ELSE 0],
              seeded |-> TRUE]

Initialize(r) ==
  \/ LockInit(r)
  \/ \E ok \in SUBSET ({"minute"} \cup Periods) : Seed(r, ok)

Settle(r) == (\E u \in Actuals : Reconcile(r, u)) \/ Cancel(r)

Admit(r) == CheckCurrent(r) \/ \E e \in Estimates : Reserve(r, e)

Next ==
  \/ Tick
  \/ \E r \in Requests :
       Arrive(r) \/ Initialize(r) \/ DropWaiting(r) \/ Admit(r) \/ Answer(r) \/ Settle(r)

Spec == Init /\ [][Next]_vars

(***************************************************************************)
(* Fairness: the mutex of tokio is fair, so a request that waits for       *)
(* init_lock gets it when it is free infinitely often; database calls      *)
(* return or fail.                                                         *)
(***************************************************************************)
Fairness ==
  \A r \in Requests :
    /\ SF_vars(LockInit(r))
    /\ WF_vars(\E ok \in SUBSET ({"minute"} \cup Periods) : Seed(r, ok))

FairSpec == Spec /\ Fairness

-----------------------------------------------------------------------------
(* Properties. *)

TypeOK ==
  /\ now \in Nat
  /\ initialized \in BOOLEAN
  /\ initLock \in Requests \cup {Unknown}
  /\ minute \in Seq(MinuteUse)
  /\ period \in [Periods -> Nat \cup {-1}]
  /\ spend \in [Periods -> Nat]
  /\ request \in [Requests -> Request]

\* However requests interleave, settle or are cancelled, at most Rpm requests
\* that were not cancelled began within any window (reserve, reconcile, prune),
\* as long as the ledger could be seeded.  A key whose limit was higher for earlier
\* processes may start with more; then nothing is admitted on top of those.
RpmHolds ==
  Rpm > 0 /\ truth.seeded =>
    LET begun == Total(truth.uses, Times)
    IN  \/ begun + Cardinality(InWindow) <= Rpm
        \/ /\ InWindow = {}
           /\ begun <= Cardinality({i \in 1..Len(Prior) : now - Prior[i].at < Window})

\* Concurrent reservations together with what was spent never exceed a budget
\* by more than the actual costs exceeded their estimates, and earlier processes
\* the budget (reserve, reconcile and roll_periods).
BudgetHolds ==
  truth.seeded => \A p \in Periods : Budget[p] > 0 =>
    truth.spend[p] + Reserved(p) <= Budget[p] + truth.over[p]

\* Once seeded, the ledger's spend of the running period is exactly what
\* requests that began in it have cost, those of earlier processes included:
\* nothing is counted twice, lost, or charged to the wrong day.
SpendIsExact ==
  initialized /\ truth.seeded => \A p \in Periods :
    period[p] = Key(p, now) => spend[p] = truth.spend[p]

\* Reservations are settled in any order, so an expired entry can wait behind
\* a younger one; it is never counted for two windows or longer (prune).
StaleUseIsBounded ==
  LET counted == Prune(minute, now)
  IN  \A i \in 1..Len(counted) : now - counted[i].at < 2 * Window

\* Everybody who waits for the ledger to be seeded gets past it, also when the
\* request that was seeding is dropped (ensure_initialized).
SeedingCompletes ==
  \A r \in Requests : request[r].stage \in {"waiting", "seeding"}
                        ~> request[r].stage \notin {"waiting", "seeding"}

\* What the ledger lets through is within the key's limits by the true use, and once it
\* was seeded its spend is the true spend, though requests seed, reserve, settle and
\* cancel in any order and periods end under them (admission.rs).
LedgerIsTrue == TypeOK /\ BudgetHolds /\ RpmHolds /\ SpendIsExact
=============================================================================
