--------------------------- MODULE ProviderCircuit ---------------------------
(***************************************************************************)
(* The provider-level circuit breaker of src/provider_circuit.rs, for one  *)
(* provider (circuits of different providers share nothing).               *)
(*                                                                         *)
(* A circuit is Closed, Open or HalfOpen.  Every upstream attempt holds a  *)
(* ProviderAttempt that remembers the generation of the circuit it began   *)
(* in and whether it is the half-open probe.  Its methods first swap the   *)
(* attempt's own atomic flag and read the clock, and only then take the    *)
(* circuit's mutex: those are two steps here, and other attempts may run,  *)
(* and the clock may tick, in between.                                     *)
(***************************************************************************)
EXTENDS Integers, Sequences, FiniteSets

CONSTANTS
  Attempts,      \* slots for ProviderAttempt values; a slot is used again once dropped
  Accounts,      \* account ids of the provider
  Targets,       \* logical target ids of the provider
  Policy,        \* the provider's ProviderCorrelationPolicy
  Window,        \* CORRELATION_WINDOW_SECS
  Cooldown,      \* OPEN_COOLDOWN_SECS
  AbandonRetry,  \* ABANDONED_PROBE_RETRY_SECS
  MaxRecent,     \* MAX_RECENT_FAILURES
  MaxSkew,       \* bound: ticks between reading the clock and holding the mutex
  MaxTime,       \* bound on the clock
  NoProber       \* stands for "nobody probes" in the abstract breaker

ASSUME ConstantsAssumption ==
  /\ Policy \in {"DistinctAccounts", "AccountlessTargets"}
  /\ Window \in Nat /\ Cooldown \in Nat /\ AbandonRetry \in Nat
  /\ MaxRecent \in Nat \ {0, 1}
  /\ MaxSkew \in Nat /\ MaxTime \in Nat
  /\ NoProber \notin Attempts

VARIABLES
  now,      \* Utc::now(), in ticks
  circuit,  \* the provider's Circuit
  attempt   \* the ProviderAttempt in each slot

vars == <<now, circuit, attempt>>

-----------------------------------------------------------------------------
Unset == "unset"

\* A FailureEvidence; generation is a history field, the generation of the
\* circuit when the evidence was recorded.
Evidence == [at : Nat, account : Accounts, target : Targets, generation : Nat]

Circuit == [state    : {"Closed", "Open", "HalfOpen"},
            failures : Seq(Evidence),
            openedAt : Nat,           \* meaningful while not Closed
            retryAt  : Nat,
            inflight : {0, 1},        \* half_open_inflight
            generation : Nat]

(***************************************************************************)
(* The stages of an attempt: "none" (slot free), "running" (upstream call  *)
(* in progress or streaming), "marking" (validated_success swapped, mutex  *)
(* not yet taken), "finishing" (finished swapped, mutex not yet taken).    *)
(***************************************************************************)
Attempt == [stage : {"none", "running", "marking", "finishing"},
            account : Accounts \cup {Unset}, target : Targets \cup {Unset},
            generation : Nat,
            probe : BOOLEAN,          \* half_open_probe
            validated : BOOLEAN,      \* validated_success
            outcome : {"success", "qualifying", "other", "neutral"},
            at : Nat]                 \* the clock as the method read it

\* A slot that holds no ProviderAttempt.
NoAttempt == [stage |-> "none", account |-> Unset, target |-> Unset,
              generation |-> 0, probe |-> FALSE, validated |-> FALSE,
              outcome |-> "neutral", at |-> 0]

\* The attempt moved to a stage, with the clock it read there.
At(r, stage, t) == [r EXCEPT !.stage = stage, !.at = t]

NoFailures == << >>

InitCircuit == [state |-> "Closed", failures |-> NoFailures, openedAt |-> 0,
                retryAt |-> 0, inflight |-> 0, generation |-> 0]

-----------------------------------------------------------------------------
(* Circuit's private methods, as functions on the record.  A definition    *)
(* named X_bug is a plausible wrong version of X, kept to show that a      *)
(* property notices it; no specification uses it.                          *)

\* Wrong: expired evidence is never purged.
PurgeOld_bug(fs, t) == fs

\* purge_old pops expired evidence from the front of the deque only.
PurgeOld(fs, t) ==
  LET expired == {i \in 1..Len(fs) : \A j \in 1..i : fs[j].at < t - Window}
  IN  SubSeq(fs, Cardinality(expired) + 1, Len(fs))

\* push_back, then pop_front while there are more than MaxRecent.
PushFailure(fs, e) ==
  LET longer == Append(fs, e)
  IN  IF Len(longer) > MaxRecent
      THEN SubSeq(longer, Len(longer) - MaxRecent + 1, Len(longer))
      ELSE longer

\* Evidence from two distinct accounts, or from two distinct targets when the
\* provider is account-less (MIN_DISTINCT_ACCOUNTS = MIN_DISTINCT_TARGETS = 2).
Correlated(fs) ==
  \E i, j \in 1..Len(fs) :
    \/ Policy = "DistinctAccounts"   /\ fs[i].account # fs[j].account
    \/ Policy = "AccountlessTargets" /\ fs[i].target # fs[j].target

\* Wrong: the retry time of the previous opening is kept.
OpenedRetry_bug(c, t) ==
  [c EXCEPT !.state = "Open", !.openedAt = t, !.inflight = 0,
            !.generation = IF c.state # "Open" THEN @ + 1 ELSE @]

\* open, and the generation bump its only caller adds when the state changed.
Opened(c, t) ==
  [state |-> "Open", failures |-> c.failures, openedAt |-> t,
   retryAt |-> t + Cooldown, inflight |-> 0,
   generation |-> IF c.state # "Open" THEN c.generation + 1 ELSE c.generation]

\* Wrong: recovery keeps the evidence that opened the circuit.
Recovered_bug(c) ==
  [c EXCEPT !.state = "Closed", !.inflight = 0, !.openedAt = 0, !.retryAt = 0]

\* The recovery branch shared by mark_validated_success and finish_success.
Recovered(c) ==
  [state |-> "Closed", failures |-> NoFailures, openedAt |-> 0, retryAt |-> 0,
   inflight |-> 0, generation |-> c.generation]

ReleaseProbeSlot(c, generation) ==
  IF generation # c.generation \/ c.state # "HalfOpen" THEN c
  ELSE [c EXCEPT !.inflight = 0]

\* Wrong: the generation of the abandoned probe is not compared.
ReopenAbandonedProbe_bug(c, generation, t) ==
  IF c.state # "HalfOpen" THEN c
  ELSE [c EXCEPT !.inflight = 0, !.state = "Open", !.retryAt = t + AbandonRetry]

ReopenAbandonedProbe(c, generation, t) ==
  IF generation # c.generation \/ c.state # "HalfOpen" THEN c
  ELSE [state |-> "Open", failures |-> c.failures, openedAt |-> c.openedAt,
        retryAt |-> t + AbandonRetry, inflight |-> 0, generation |-> c.generation]

\* A failure that is plausibly provider-wide.
Qualifies(kind, status) ==
  \/ kind \in {"ConnectionError", "Timeout"}
  \/ kind = "ServerError" /\ status \in {502, 503, 504}

FailureKinds == {"ConnectionError", "Timeout", "ServerError", "RateLimit",
                 "QuotaExhausted", "AuthError", "TargetError", "BadRequest"}
\* The upstream statuses qualifies() tells apart; 0 is None.
Statuses == {0, 500, 503}

\* What finish_failure makes of each failure it may be told of.
FailureOutcomes == {IF Qualifies(kind, status) THEN "qualifying" ELSE "other" :
                      kind \in FailureKinds, status \in Statuses}

-----------------------------------------------------------------------------
(* ProviderCircuits: the calls of the request pipeline before dispatch. *)

\* Wrong: a half-open circuit admits every caller.
Rejects_bug == circuit.state = "Open" /\ circuit.retryAt > now

\* The condition under which check_available and begin_attempt reject.
Rejects ==
  \/ circuit.state = "Open" /\ circuit.retryAt > now
  \/ circuit.state = "HalfOpen" /\ circuit.inflight > 0

\* check_available: purges old evidence and answers; a rejection changes
\* nothing but a statistics counter, so it and snapshot() are this step too.
CheckAvailable ==
  /\ circuit' = [circuit EXCEPT !.failures = PurgeOld(@, now)]
  /\ UNCHANGED <<now, attempt>>

\* begin_attempt_with_policy, accepted (a rejected call is CheckAvailable).
BeginAttempt(a, account, target) ==
  /\ attempt[a].stage = "none"
  /\ ~Rejects
  /\ LET probe == circuit.state # "Closed"
     IN  /\ circuit' = [circuit EXCEPT
              !.failures = PurgeOld(@, now),
              !.state    = IF probe THEN "HalfOpen" ELSE "Closed",
              !.inflight = IF probe THEN 1 ELSE @]
         /\ attempt' = [attempt EXCEPT ![a] =
              [stage |-> "running", account |-> account, target |-> target,
               generation |-> circuit.generation, probe |-> probe,
               validated |-> FALSE, outcome |-> "neutral", at |-> 0]]
  /\ UNCHANGED now

-----------------------------------------------------------------------------
(* ProviderAttempt: validation of a probe's response. *)

\* mark_validated_success up to the mutex.  It is called once, for probes only.
MarkBegin(a) ==
  /\ attempt[a].stage = "running"
  /\ attempt[a].probe
  /\ ~attempt[a].validated
  /\ attempt' = [attempt EXCEPT ![a] = At([@ EXCEPT !.validated = TRUE], "marking", now)]
  /\ UNCHANGED <<now, circuit>>

\* mark_validated_success under the mutex.
MarkValidatedSuccess(a) ==
  /\ attempt[a].stage = "marking"
  /\ circuit' = IF /\ circuit.generation = attempt[a].generation
                   /\ circuit.state = "HalfOpen"
                THEN Recovered(circuit) ELSE circuit
  /\ attempt' = [attempt EXCEPT ![a] = At(@, "running", 0)]
  /\ UNCHANGED now

-----------------------------------------------------------------------------
(* ProviderAttempt: the one finish_* call, or the drop, that ends it. *)

\* finished.swap(true) and the clock: the attempt is over with this outcome.
FinishBegin(a, outcome) ==
  /\ attempt[a].stage = "running"
  /\ attempt' = [attempt EXCEPT ![a] = At([@ EXCEPT !.outcome = outcome], "finishing", now)]
  /\ UNCHANGED <<now, circuit>>

Succeed(a) == FinishBegin(a, "success")

Fail(a) == \E outcome \in FailureOutcomes : FinishBegin(a, outcome)

\* finish_neutral, or Drop of an attempt nobody finished (a client that went
\* away, a cancelled task): the two do the same to the circuit.
Abandon(a) == FinishBegin(a, "neutral")

\* The attempt is dropped for good; its slot is free.
Freed(a) == attempt' = [attempt EXCEPT ![a] = NoAttempt]

\* finish_success under the mutex (not taken by an already validated probe).
FinishSuccess(a) ==
  /\ attempt[a].stage = "finishing"
  /\ attempt[a].outcome = "success"
  /\ LET current == circuit.generation = attempt[a].generation
     IN  circuit' = IF /\ current /\ circuit.state = "HalfOpen"
                       /\ attempt[a].probe /\ ~attempt[a].validated
                    THEN Recovered(circuit)
                    ELSE IF current /\ circuit.state = "Closed" /\ ~attempt[a].probe
                    THEN [circuit EXCEPT !.failures = NoFailures]
                    ELSE circuit
  /\ Freed(a)
  /\ UNCHANGED now

\* attempt_owns_state of finish_failure.
OwnsState(a) ==
  /\ circuit.generation = attempt[a].generation
  /\ IF attempt[a].probe
     THEN \/ circuit.state = "HalfOpen"
          \/ attempt[a].validated /\ circuit.state = "Closed"
     ELSE circuit.state = "Closed"

\* The failure evidence after recording that a failed.
RecordedFailures(a) ==
  PushFailure(PurgeOld(circuit.failures, attempt[a].at),
              [at |-> attempt[a].at, account |-> attempt[a].account,
               target |-> attempt[a].target, generation |-> circuit.generation])

\* finish_failure under the mutex, for a failure that qualifies.
FinishQualifyingFailure(a) ==
  /\ attempt[a].stage = "finishing"
  /\ attempt[a].outcome = "qualifying"
  /\ LET recorded == [circuit EXCEPT !.failures = RecordedFailures(a)]
         unvalidatedProbe == attempt[a].probe /\ ~attempt[a].validated
     IN  circuit' = IF ~OwnsState(a) THEN circuit
                    ELSE IF unvalidatedProbe \/ Correlated(recorded.failures)
                    THEN Opened(recorded, attempt[a].at)
                    ELSE recorded
  /\ Freed(a)
  /\ UNCHANGED now

\* finish_failure under the mutex, for any other failure: a probe gives its
\* slot back and the circuit stays half-open.
FinishOtherFailure(a) ==
  /\ attempt[a].stage = "finishing"
  /\ attempt[a].outcome = "other"
  /\ circuit' = IF OwnsState(a) /\ attempt[a].probe
                THEN ReleaseProbeSlot(circuit, attempt[a].generation)
                ELSE circuit
  /\ Freed(a)
  /\ UNCHANGED now

\* Wrong: dropping a probe does not give its lease back.
FinishNeutral_bug(a) ==
  /\ attempt[a].stage = "finishing"
  /\ attempt[a].outcome = "neutral"
  /\ Freed(a)
  /\ UNCHANGED <<now, circuit>>

\* finish_neutral and Drop under the mutex.
FinishNeutral(a) ==
  /\ attempt[a].stage = "finishing"
  /\ attempt[a].outcome = "neutral"
  /\ circuit' = IF attempt[a].probe
                THEN ReopenAbandonedProbe(circuit, attempt[a].generation, attempt[a].at)
                ELSE circuit
  /\ Freed(a)
  /\ UNCHANGED now

-----------------------------------------------------------------------------
\* Time passes, but nobody sits between the clock and the mutex for long.
Tick ==
  /\ now < MaxTime
  /\ \A a \in Attempts : attempt[a].stage \in {"marking", "finishing"}
                           => now - attempt[a].at < MaxSkew
  /\ now' = now + 1
  /\ UNCHANGED <<circuit, attempt>>

Init ==
  /\ now = 0
  /\ circuit = InitCircuit
  /\ attempt = [a \in Attempts |-> NoAttempt]

\* The steps that end the attempt in slot a, or bring it nearer its end.
Finish(a) ==
  \/ FinishSuccess(a)
  \/ FinishQualifyingFailure(a)
  \/ FinishOtherFailure(a)
  \/ FinishNeutral(a)

EndAttempt(a) ==
  \/ Succeed(a)
  \/ Fail(a)
  \/ Abandon(a)

Step(a) ==
  \/ \E account \in Accounts, target \in Targets : BeginAttempt(a, account, target)
  \/ MarkBegin(a)
  \/ MarkValidatedSuccess(a)
  \/ EndAttempt(a)
  \/ Finish(a)

Next == CheckAvailable \/ Tick \/ \E a \in Attempts : Step(a)

Spec == Init /\ [][Next]_vars

(***************************************************************************)
(* Fairness: an upstream call ends (its phases have timeouts, and dropping *)
(* the future drops the attempt), and a thread that has swapped its flag   *)
(* goes on to take the mutex.  Nothing is assumed about new requests.      *)
(***************************************************************************)
Fairness == \A a \in Attempts : WF_vars(MarkValidatedSuccess(a) \/ EndAttempt(a) \/ Finish(a))

FairSpec == Spec /\ Fairness

-----------------------------------------------------------------------------
(* Properties. *)

TypeOK ==
  /\ now \in Nat
  /\ circuit \in Circuit
  /\ attempt \in [Attempts -> Attempt]
  /\ \A a \in Attempts : attempt[a].stage # "none" =>
       attempt[a].account \in Accounts /\ attempt[a].target \in Targets

\* The attempts that hold the half-open lease: probes that have neither
\* recovered the circuit nor given the lease back.
Holders ==
  {a \in Attempts : /\ attempt[a].stage # "none"
                    /\ attempt[a].probe
                    /\ attempt[a].validated => attempt[a].stage = "marking"}

\* The half-open lease is exclusive and never lost: half_open_inflight is 1
\* exactly while one live probe of the current generation holds the lease,
\* whatever late answers of older attempts do (begin_attempt_with_policy,
\* release_probe_slot, reopen_abandoned_probe and Drop).
LeaseHeldByOneProbe ==
  /\ circuit.inflight = 1 => circuit.state = "HalfOpen" /\ Holders # {}
  /\ Holders # {} => circuit.inflight = 1
  /\ \A a, b \in Holders : a = b
  /\ \A a \in Holders : attempt[a].generation = circuit.generation

\* A closed circuit never sits on enough evidence to be open, and what it
\* counts was all recorded since it last recovered: no failure of an earlier
\* generation survives the recovery or is added after it (finish_failure).
ClosedEvidenceIsCurrent ==
  circuit.state = "Closed" =>
    /\ ~Correlated(circuit.failures)
    /\ \A i \in 1..Len(circuit.failures) :
         circuit.failures[i].generation = circuit.generation

\* A closed circuit opens only on two failures of distinct accounts (targets,
\* for an account-less provider) that lie within one correlation window of
\* each other, up to the skew of the clock reads (finish_failure, purge_old).
OpeningIsCorrelated ==
  circuit.state = "Closed" /\ circuit'.state = "Open" =>
    \E i, j \in 1..Len(circuit'.failures) :
      LET e == circuit'.failures[i]
          f == circuit'.failures[j]
      IN  /\ IF Policy = "DistinctAccounts" THEN e.account # f.account
                                            ELSE e.target # f.target
          /\ f.at - e.at \in 0..(Window + MaxSkew)
          /\ e.generation = circuit.generation
          /\ f.generation = circuit.generation

OpensOnlyOnCorrelatedFailures == [][OpeningIsCorrelated]_vars

\* Once a failure opens the circuit nothing is sent upstream for the whole
\* cooldown; only a probe that was itself allowed, and was abandoned, can be
\* followed sooner (begin_attempt_with_policy against open and
\* reopen_abandoned_probe).
BeginsAreTimely ==
  \A a \in Attempts :
    attempt[a].stage = "none" /\ attempt'[a].stage = "running" =>
      circuit.state = "Closed" \/ now >= circuit.openedAt + Cooldown

CooldownIsRespected == [][BeginsAreTimely]_vars

\* The lease is always given back, so a half-open circuit never stays shut
\* behind a probe that went away (Drop for ProviderAttempt).
LeaseIsReleased == circuit.inflight = 1 ~> circuit.inflight = 0

\* The circuit implements the abstract breaker of module ProbeLease: it is
\* closed, or open with at most one attempt probing the provider, and leaves
\* the half-open state only on that attempt's verdict.
prober == IF Holders = {} THEN NoProber ELSE CHOOSE a \in Holders : TRUE

Lease == INSTANCE ProbeLease WITH mode <- circuit.state, prober <- prober

ImplementsProbeLease == Lease!Spec

\* The circuit is well-formed, and while it is closed it counts only current failures,
\* and not enough of them to be open.
EvidenceIsCurrent == TypeOK /\ ClosedEvidenceIsCurrent
=============================================================================
