------------------------ MODULE ProviderCircuitProofs ------------------------
(***************************************************************************)
(* Proofs about the provider circuit, for every set of attempts, accounts  *)
(* and targets, every window and every bound.                              *)
(***************************************************************************)
EXTENDS ProviderCircuit, FiniteSetTheorems, SequenceTheorems, TLAPS

(***************************************************************************)
(* The strengthening that makes the lease exclusive: an attempt that does  *)
(* not hold the lease belongs to an earlier generation, or the circuit is  *)
(* closed.  Hence nothing it does can touch the circuit while it is open   *)
(* or half-open.                                                           *)
(***************************************************************************)
OthersArePast ==
  \A a \in Attempts :
    attempt[a].stage # "none" /\ a \notin Holders =>
      \/ attempt[a].generation < circuit.generation
      \/ attempt[a].generation = circuit.generation /\ circuit.state = "Closed"

\* A validated attempt is a probe, and "marking" is the stage of a validated one.
ValidatedAreProbes ==
  \A a \in Attempts :
    /\ attempt[a].stage = "marking" => attempt[a].probe /\ attempt[a].validated
    /\ attempt[a].validated => attempt[a].probe

IInv == TypeOK /\ ValidatedAreProbes /\ LeaseHeldByOneProbe /\ OthersArePast

-----------------------------------------------------------------------------
\* What purge_old keeps is evidence of the deque it was given.
LEMMA PurgeOldKeeps ==
  ASSUME NEW S, NEW fs \in Seq(S), NEW t
  PROVE  /\ PurgeOld(fs, t) \in Seq(S)
         /\ Len(PurgeOld(fs, t)) <= Len(fs)
         /\ \A i \in 1..Len(PurgeOld(fs, t)) :
              \E j \in 1..Len(fs) : PurgeOld(fs, t)[i] = fs[j]
<1> DEFINE expired == {i \in 1..Len(fs) : \A j \in 1..i : fs[j].at < t - Window}
           k == Cardinality(expired)
<1>1. k \in 0..Len(fs)
  <2>1. IsFiniteSet(1..Len(fs)) /\ Cardinality(1..Len(fs)) = Len(fs)
    <3>1. Len(fs) \in Nat
      BY LenProperties
    <3> QED BY <3>1, FS_Interval
  <2>2. IsFiniteSet(expired) /\ Cardinality(expired) <= Cardinality(1..Len(fs))
    BY <2>1, FS_Subset
  <2> QED BY <2>1, <2>2, FS_CardinalityType
<1>2. PurgeOld(fs, t) = SubSeq(fs, k + 1, Len(fs))
  BY DEF PurgeOld
<1> HIDE DEF k
<1>3. /\ SubSeq(fs, k + 1, Len(fs)) \in Seq(S)
      /\ Len(SubSeq(fs, k + 1, Len(fs))) = Len(fs) - k
      /\ \A i \in 1..(Len(fs) - k) : SubSeq(fs, k + 1, Len(fs))[i] = fs[k + i]
  BY <1>1
<1>4. \A i \in 1..(Len(fs) - k) : k + i \in 1..Len(fs)
  BY <1>1
<1> QED BY <1>1, <1>2, <1>3, <1>4

\* What recording a failure leaves is that failure, last, and evidence of the
\* deque it was given.
LEMMA PushFailureKeeps ==
  ASSUME NEW S, NEW fs \in Seq(S), NEW e \in S
  PROVE  /\ PushFailure(fs, e) \in Seq(S)
         /\ Len(PushFailure(fs, e)) <= MaxRecent
         /\ \A i \in 1..Len(PushFailure(fs, e)) :
              \/ PushFailure(fs, e)[i] = e
              \/ \E j \in 1..Len(fs) : PushFailure(fs, e)[i] = fs[j]
<1> DEFINE longer == Append(fs, e)
           n == Len(longer) - MaxRecent + 1
<1>1. /\ longer \in Seq(S) /\ Len(longer) = Len(fs) + 1
      /\ \A i \in 1..Len(longer) : longer[i] = e \/ \E j \in 1..Len(fs) : longer[i] = fs[j]
  OBVIOUS
<1>2. MaxRecent \in Nat /\ MaxRecent >= 2
  BY ConstantsAssumption
<1>3. CASE Len(longer) > MaxRecent
  <2>1. PushFailure(fs, e) = SubSeq(longer, n, Len(longer))
    BY <1>3 DEF PushFailure
  <2>2. n \in 1..Len(longer)
    BY <1>1, <1>2, <1>3
  <2>3. /\ SubSeq(longer, n, Len(longer)) \in Seq(S)
        /\ Len(SubSeq(longer, n, Len(longer))) = MaxRecent
        /\ \A i \in 1..MaxRecent : /\ n + i - 1 \in 1..Len(longer)
                                   /\ SubSeq(longer, n, Len(longer))[i] = longer[n + i - 1]
    <3> HIDE DEF longer
    <3> QED BY <1>1, <1>2, <2>2
  <2> HIDE DEF longer, n
  <2>4. ASSUME NEW i \in 1..Len(PushFailure(fs, e))
        PROVE  \/ PushFailure(fs, e)[i] = e
               \/ \E j \in 1..Len(fs) : PushFailure(fs, e)[i] = fs[j]
    <3>1. i \in 1..MaxRecent
      BY <2>1, <2>3
    <3> QED BY <3>1, <1>1, <2>1, <2>3
  <2>5. PushFailure(fs, e) \in Seq(S)
    BY <2>1, <2>3
  <2>6. Len(PushFailure(fs, e)) <= MaxRecent
    BY <1>2, <2>1, <2>3
  <2> QED BY <2>4, <2>5, <2>6
<1>4. CASE ~(Len(longer) > MaxRecent)
  <2>1. PushFailure(fs, e) = longer
    BY <1>4 DEF PushFailure
  <2> HIDE DEF longer
  <2> QED BY <1>1, <1>2, <1>4, <2>1
<1> QED BY <1>3, <1>4

-----------------------------------------------------------------------------
(* Type correctness. *)

LEMMA CircuitTypes ==
  ASSUME NEW c \in Circuit, NEW t \in Nat, NEW g
  PROVE  /\ Opened(c, t) \in Circuit
         /\ Recovered(c) \in Circuit
         /\ ReleaseProbeSlot(c, g) \in Circuit
         /\ ReopenAbandonedProbe(c, g, t) \in Circuit
         /\ [c EXCEPT !.failures = NoFailures] \in Circuit
<1>1. /\ Cooldown \in Nat /\ AbandonRetry \in Nat
      /\ NoFailures \in Seq(Evidence)
  BY ConstantsAssumption DEF NoFailures
<1>2. Opened(c, t) \in Circuit
  BY <1>1 DEF Circuit, Opened
<1>3. Recovered(c) \in Circuit
  BY <1>1 DEF Circuit, Recovered
<1>4. ReleaseProbeSlot(c, g) \in Circuit
  BY DEF Circuit, ReleaseProbeSlot
<1>5. ReopenAbandonedProbe(c, g, t) \in Circuit
  BY <1>1 DEF Circuit, ReopenAbandonedProbe
<1>6. [c EXCEPT !.failures = NoFailures] \in Circuit
  BY <1>1 DEF Circuit
<1> QED BY <1>2, <1>3, <1>4, <1>5, <1>6

LEMMA PurgedTypes ==
  ASSUME NEW c \in Circuit, NEW t
  PROVE  /\ PurgeOld(c.failures, t) \in Seq(Evidence)
         /\ [c EXCEPT !.failures = PurgeOld(@, t)] \in Circuit
<1>1. c.failures \in Seq(Evidence)
  BY DEF Circuit
<1>2. PurgeOld(c.failures, t) \in Seq(Evidence)
  BY <1>1, PurgeOldKeeps
<1> QED BY <1>2 DEF Circuit

LEMMA RecordedTypes ==
  ASSUME TypeOK, NEW a \in Attempts, attempt[a].stage # "none"
  PROVE  /\ RecordedFailures(a) \in Seq(Evidence)
         /\ [circuit EXCEPT !.failures = RecordedFailures(a)] \in Circuit
<1> DEFINE purged == PurgeOld(circuit.failures, attempt[a].at)
           e == [at |-> attempt[a].at, account |-> attempt[a].account,
                 target |-> attempt[a].target, generation |-> circuit.generation]
<1>1. purged \in Seq(Evidence)
  BY PurgedTypes DEF TypeOK
<1>2. e \in Evidence
  BY DEF TypeOK, Attempt, Circuit, Evidence
<1>3. RecordedFailures(a) = PushFailure(purged, e)
  BY DEF RecordedFailures
<1> HIDE DEF purged, e
<1>4. RecordedFailures(a) \in Seq(Evidence)
  BY <1>1, <1>2, <1>3, PushFailureKeeps
<1> QED BY <1>4 DEF TypeOK, Circuit

LEMMA NoAttemptType == NoAttempt \in Attempt
BY DEF NoAttempt, Attempt, Unset

\* Moving an attempt to another stage changes its stage and clock only.
LEMMA AtTypes ==
  ASSUME NEW r \in Attempt, NEW t \in Nat,
         NEW stage \in {"none", "running", "marking", "finishing"}
  PROVE  /\ At(r, stage, t) \in Attempt
         /\ At(r, stage, t).stage = stage /\ At(r, stage, t).at = t
         /\ At(r, stage, t).account = r.account /\ At(r, stage, t).target = r.target
         /\ At(r, stage, t).generation = r.generation
         /\ At(r, stage, t).probe = r.probe /\ At(r, stage, t).validated = r.validated
         /\ At(r, stage, t).outcome = r.outcome
BY DEF Attempt, At

\* A step that moves one live attempt and keeps its account and target.
LEMMA MovedTypes ==
  ASSUME TypeOK, NEW a \in Attempts, attempt[a].stage # "none",
         NEW r \in Attempt,
         r.account = attempt[a].account, r.target = attempt[a].target,
         attempt' = [attempt EXCEPT ![a] = r],
         circuit' \in Circuit, UNCHANGED now
  PROVE  TypeOK'
BY DEF TypeOK

\* Ending an attempt keeps the types when the circuit's type is kept.
LEMMA FreedTypes ==
  ASSUME TypeOK, NEW a \in Attempts, Freed(a), circuit' \in Circuit, UNCHANGED now
  PROVE  TypeOK'
BY NoAttemptType DEF TypeOK, Freed, NoAttempt

LEMMA TypeNext == TypeOK /\ [Next]_vars => TypeOK'
<1> SUFFICES ASSUME TypeOK, [Next]_vars PROVE TypeOK'
  OBVIOUS
<1>1. CASE UNCHANGED vars
  BY <1>1 DEF TypeOK, vars
<1>2. CASE CheckAvailable
  BY <1>2, PurgedTypes DEF CheckAvailable, TypeOK
<1>3. CASE Tick
  BY <1>3 DEF Tick, TypeOK
<1>4. ASSUME NEW a \in Attempts, Step(a) PROVE TypeOK'
  <2>1. ASSUME NEW account \in Accounts, NEW target \in Targets,
               BeginAttempt(a, account, target)
        PROVE  TypeOK'
    <3>1. PurgeOld(circuit.failures, now) \in Seq(Evidence)
      BY PurgedTypes DEF TypeOK
    <3>2. circuit' \in Circuit
      BY <2>1, <3>1 DEF BeginAttempt, TypeOK, Circuit
    <3>3. attempt' \in [Attempts -> Attempt]
      BY <2>1 DEF BeginAttempt, TypeOK, Attempt, Circuit
    <3> QED BY <2>1, <3>2, <3>3 DEF BeginAttempt, TypeOK
  <2>2. CASE MarkBegin(a)
    <3>1. [attempt[a] EXCEPT !.validated = TRUE] \in Attempt
      BY DEF TypeOK, Attempt
    <3> DEFINE r == At([attempt[a] EXCEPT !.validated = TRUE], "marking", now)
    <3>2. /\ r \in Attempt
          /\ r.account = attempt[a].account /\ r.target = attempt[a].target
      BY <3>1, AtTypes DEF TypeOK, Attempt
    <3> QED BY <2>2, <3>2, MovedTypes DEF MarkBegin, TypeOK
  <2>3. CASE MarkValidatedSuccess(a)
    <3>1. circuit' \in Circuit
      BY <2>3, CircuitTypes DEF MarkValidatedSuccess, TypeOK
    <3> DEFINE r == At(attempt[a], "running", 0)
    <3>2. /\ r \in Attempt
          /\ r.account = attempt[a].account /\ r.target = attempt[a].target
      BY AtTypes DEF TypeOK
    <3> QED BY <2>3, <3>1, <3>2, MovedTypes DEF MarkValidatedSuccess
  <2>4. ASSUME NEW outcome \in {"success", "qualifying", "other", "neutral"},
               FinishBegin(a, outcome)
        PROVE  TypeOK'
    <3>1. [attempt[a] EXCEPT !.outcome = outcome] \in Attempt
      BY DEF TypeOK, Attempt
    <3> DEFINE r == At([attempt[a] EXCEPT !.outcome = outcome], "finishing", now)
    <3>2. /\ r \in Attempt
          /\ r.account = attempt[a].account /\ r.target = attempt[a].target
      BY <3>1, AtTypes DEF TypeOK, Attempt
    <3> QED BY <2>4, <3>2, MovedTypes DEF FinishBegin, TypeOK
  <2>5. CASE EndAttempt(a)
    BY <2>4, <2>5 DEF EndAttempt, Succeed, Fail, Abandon, FailureOutcomes
  <2>6. CASE FinishSuccess(a)
    <3>1. circuit' \in Circuit
      BY <2>6, CircuitTypes DEF FinishSuccess, TypeOK
    <3> QED BY <2>6, <3>1, FreedTypes DEF FinishSuccess
  <2>7. CASE FinishQualifyingFailure(a)
    <3>1. attempt[a].at \in Nat /\ attempt[a].stage # "none"
      BY <2>7 DEF FinishQualifyingFailure, TypeOK, Attempt
    <3>2. circuit' \in Circuit
      BY <2>7, <3>1, CircuitTypes, RecordedTypes DEF FinishQualifyingFailure, TypeOK
    <3> QED BY <2>7, <3>2, FreedTypes DEF FinishQualifyingFailure
  <2>8. CASE FinishOtherFailure(a)
    <3>1. circuit' \in Circuit
      BY <2>8, CircuitTypes DEF FinishOtherFailure, TypeOK
    <3> QED BY <2>8, <3>1, FreedTypes DEF FinishOtherFailure
  <2>9. CASE FinishNeutral(a)
    <3>1. attempt[a].at \in Nat
      BY DEF TypeOK, Attempt
    <3>2. circuit' \in Circuit
      BY <2>9, <3>1, CircuitTypes DEF FinishNeutral, TypeOK
    <3> QED BY <2>9, <3>2, FreedTypes DEF FinishNeutral
  <2> QED BY <1>4, <2>1, <2>2, <2>3, <2>5, <2>6, <2>7, <2>8, <2>9 DEF Step, Finish
<1> QED BY <1>1, <1>2, <1>3, <1>4 DEF Next

LEMMA InitTypes == Init => TypeOK
BY ConstantsAssumption, NoAttemptType
   DEF Init, TypeOK, InitCircuit, Circuit, NoFailures, NoAttempt

\* The circuit record and every ProviderAttempt keep their types.
THEOREM TypeCorrect == Spec => []TypeOK
BY InitTypes, TypeNext, PTL DEF Spec

-----------------------------------------------------------------------------
(* The half-open lease. *)

LEMMA HoldersAreAttempts == Holders \subseteq Attempts
BY DEF Holders

\* Ending attempt a: the circuit must be left as it was unless a holds the
\* lease or the circuit is closed in a's generation.
LEMMA FreedInv ==
  ASSUME IInv, TypeOK', NEW a \in Attempts, attempt[a].stage = "finishing", Freed(a),
         \/ /\ a \notin Holders
            /\ circuit'.state = circuit.state /\ circuit'.inflight = circuit.inflight
            /\ circuit'.generation = circuit.generation
         \/ /\ a \notin Holders
            /\ circuit.state = "Closed" /\ circuit'.state = "Open"
            /\ circuit'.inflight = 0
            /\ circuit'.generation = circuit.generation + 1
         \/ /\ a \in Holders
            /\ circuit'.inflight = 0
            /\ \/ circuit'.generation = circuit.generation
               \/ circuit'.generation = circuit.generation + 1
  PROVE  IInv'
<1>1. /\ attempt'[a] = NoAttempt
      /\ \A b \in Attempts : b # a => attempt'[b] = attempt[b]
  BY DEF Freed, IInv, TypeOK
<1>2. \A b \in Attempts : b \in Holders' <=> b # a /\ b \in Holders
  BY <1>1 DEF Holders, NoAttempt
<1>3. Holders' \subseteq Attempts /\ Holders \subseteq Attempts
  BY DEF Holders
<1>4. ValidatedAreProbes'
  BY <1>1 DEF IInv, ValidatedAreProbes, NoAttempt
<1>5. /\ circuit.generation \in Nat /\ circuit'.generation \in Nat
      /\ circuit.inflight \in {0, 1} /\ circuit'.inflight \in {0, 1}
      /\ \A b \in Attempts : attempt[b].generation \in Nat
  BY DEF IInv, TypeOK, Circuit, Attempt
<1>6. LeaseHeldByOneProbe'
  BY <1>1, <1>2, <1>3, <1>5 DEF IInv, LeaseHeldByOneProbe
<1>7. OthersArePast'
  BY <1>1, <1>2, <1>3, <1>5 DEF IInv, LeaseHeldByOneProbe, OthersArePast, NoAttempt
<1> QED BY <1>4, <1>6, <1>7 DEF IInv

LEMMA IInvNext == IInv /\ [Next]_vars => IInv'
<1> SUFFICES ASSUME IInv, [Next]_vars PROVE IInv'
  OBVIOUS
<1>1. TypeOK /\ TypeOK'
  BY TypeNext DEF IInv
<1>2. CASE UNCHANGED vars
  BY <1>2 DEF IInv, TypeOK, ValidatedAreProbes, LeaseHeldByOneProbe, OthersArePast, Holders, vars
<1>3. CASE CheckAvailable \/ Tick
  <2>1. /\ attempt' = attempt /\ circuit'.state = circuit.state
        /\ circuit'.inflight = circuit.inflight
        /\ circuit'.generation = circuit.generation
    BY <1>1, <1>3 DEF CheckAvailable, Tick, TypeOK, Circuit
  <2>2. Holders' = Holders
    BY <2>1 DEF Holders
  <2> QED BY <1>1, <2>1, <2>2 DEF IInv, ValidatedAreProbes, LeaseHeldByOneProbe, OthersArePast
<1>4. ASSUME NEW a \in Attempts, Step(a) PROVE IInv'
  <2>0. /\ circuit \in Circuit /\ circuit' \in Circuit
        /\ attempt \in [Attempts -> Attempt] /\ attempt[a] \in Attempt
        /\ circuit.generation \in Nat /\ circuit.inflight \in {0, 1}
        /\ \A b \in Attempts : attempt[b].generation \in Nat
    BY <1>1 DEF TypeOK, Attempt, Circuit
  <2>1. ASSUME NEW account \in Accounts, NEW target \in Targets,
               BeginAttempt(a, account, target)
        PROVE  IInv'
    <3>1. /\ circuit'.generation = circuit.generation
          /\ circuit.state = "Closed" => circuit'.state = "Closed" /\ circuit'.inflight = circuit.inflight
          /\ circuit.state # "Closed" => circuit'.state = "HalfOpen" /\ circuit'.inflight = 1
      BY <2>0, <2>1 DEF BeginAttempt, Circuit
    <3>2. /\ \A b \in Attempts : b # a => attempt'[b] = attempt[b]
          /\ attempt[a].stage = "none" /\ attempt'[a].stage = "running"
          /\ ~attempt'[a].validated
          /\ attempt'[a].probe <=> circuit.state # "Closed"
          /\ attempt'[a].generation = circuit.generation
      BY <2>0, <2>1 DEF BeginAttempt
    <3>3. circuit.state # "Closed" => Holders = {}
      BY <2>0, <2>1 DEF BeginAttempt, Rejects, IInv, LeaseHeldByOneProbe, Circuit
    <3>4. \A b \in Attempts : b \in Holders' <=>
             b \in Holders \/ (b = a /\ circuit.state # "Closed")
      BY <3>2 DEF Holders
    <3>5. Holders' \subseteq Attempts /\ Holders \subseteq Attempts
      BY DEF Holders
    <3>6. ValidatedAreProbes'
      BY <3>2 DEF IInv, ValidatedAreProbes
    <3>7. LeaseHeldByOneProbe'
      BY <2>0, <3>1, <3>2, <3>3, <3>4, <3>5 DEF IInv, LeaseHeldByOneProbe
    <3>8. OthersArePast'
      BY <2>0, <3>1, <3>2, <3>3, <3>4, <3>5 DEF IInv, OthersArePast
    <3> QED BY <1>1, <3>6, <3>7, <3>8 DEF IInv
  <2>2. CASE MarkBegin(a)
    <3>1. [attempt[a] EXCEPT !.validated = TRUE] \in Attempt
      BY <2>0 DEF Attempt
    <3>2. /\ \A b \in Attempts : b # a => attempt'[b] = attempt[b]
          /\ attempt[a].stage = "running" /\ attempt'[a].stage = "marking"
          /\ attempt'[a].validated /\ ~attempt[a].validated
          /\ attempt'[a].probe /\ attempt[a].probe
          /\ attempt'[a].generation = attempt[a].generation
          /\ circuit' = circuit
      BY <1>1, <2>0, <2>2, <3>1, AtTypes DEF MarkBegin, Attempt, TypeOK
    <3>3. Holders' = Holders
      BY <3>2 DEF Holders
    <3>4. ValidatedAreProbes'
      BY <3>2 DEF IInv, ValidatedAreProbes
    <3>5. LeaseHeldByOneProbe'
      BY <2>0, <3>2, <3>3, HoldersAreAttempts DEF IInv, LeaseHeldByOneProbe
    <3>6. OthersArePast'
      BY <2>0, <3>2, <3>3 DEF IInv, OthersArePast
    <3> QED BY <1>1, <3>4, <3>5, <3>6 DEF IInv
  <2>3. CASE MarkValidatedSuccess(a)
    <3>1. a \in Holders /\ circuit.state = "HalfOpen"
          /\ attempt[a].generation = circuit.generation
      BY <2>3, <2>0 DEF MarkValidatedSuccess, IInv, ValidatedAreProbes, LeaseHeldByOneProbe, Holders
    <3>2. circuit' = Recovered(circuit)
      BY <2>3, <3>1 DEF MarkValidatedSuccess
    <3>3. /\ \A b \in Attempts : b # a => attempt'[b] = attempt[b]
          /\ attempt'[a].stage = "running"
          /\ attempt'[a].validated /\ attempt'[a].probe
          /\ attempt'[a].generation = attempt[a].generation
      <4>1. attempt'[a] = At(attempt[a], "running", 0)
            /\ \A b \in Attempts : b # a => attempt'[b] = attempt[b]
        BY <2>0, <2>3 DEF MarkValidatedSuccess
      <4>2. attempt[a].validated /\ attempt[a].probe
        BY <2>3 DEF MarkValidatedSuccess, IInv, ValidatedAreProbes
      <4>3. /\ At(attempt[a], "running", 0).validated = attempt[a].validated
            /\ At(attempt[a], "running", 0).probe = attempt[a].probe
            /\ At(attempt[a], "running", 0).stage = "running"
            /\ At(attempt[a], "running", 0).generation = attempt[a].generation
        BY <2>0, AtTypes
      <4> QED BY <4>1, <4>2, <4>3
    <3>4. Holders' = {}
      BY <3>1, <3>3 DEF Holders, IInv, LeaseHeldByOneProbe
    <3>5. /\ circuit'.state = "Closed" /\ circuit'.inflight = 0
          /\ circuit'.generation = circuit.generation
      BY <3>2 DEF Recovered
    <3>6. ValidatedAreProbes'
      BY <3>3 DEF IInv, ValidatedAreProbes
    <3>7. OthersArePast'
      BY <2>0, <3>1, <3>3, <3>4, <3>5 DEF IInv, OthersArePast, LeaseHeldByOneProbe
    <3> QED BY <1>1, <3>4, <3>5, <3>6, <3>7 DEF IInv, LeaseHeldByOneProbe
  <2>4. CASE EndAttempt(a)
    <3>1. PICK outcome \in {"success", "qualifying", "other", "neutral"} :
            FinishBegin(a, outcome)
      BY <2>4 DEF EndAttempt, Succeed, Fail, Abandon, FailureOutcomes
    <3>2. [attempt[a] EXCEPT !.outcome = outcome] \in Attempt
      BY <2>0 DEF Attempt
    <3>3. /\ \A b \in Attempts : b # a => attempt'[b] = attempt[b]
          /\ attempt[a].stage = "running" /\ attempt'[a].stage = "finishing"
          /\ attempt'[a].validated = attempt[a].validated
          /\ attempt'[a].probe = attempt[a].probe
          /\ attempt'[a].generation = attempt[a].generation
          /\ circuit' = circuit
      BY <1>1, <2>0, <3>1, <3>2, AtTypes DEF FinishBegin, Attempt, TypeOK
    <3>4. Holders' = Holders
      BY <3>3 DEF Holders
    <3>5. ValidatedAreProbes'
      BY <3>3 DEF IInv, ValidatedAreProbes
    <3>6. LeaseHeldByOneProbe'
      BY <2>0, <3>3, <3>4, HoldersAreAttempts DEF IInv, LeaseHeldByOneProbe
    <3>7. OthersArePast'
      BY <2>0, <3>3, <3>4 DEF IInv, OthersArePast
    <3> QED BY <1>1, <3>5, <3>6, <3>7 DEF IInv
  <2>5. CASE FinishSuccess(a)
    <3>1. attempt[a].stage = "finishing" /\ Freed(a)
      BY <2>5 DEF FinishSuccess
    <3>2. CASE a \in Holders
      <4>1. /\ circuit.generation = attempt[a].generation /\ circuit.state = "HalfOpen"
            /\ attempt[a].probe /\ ~attempt[a].validated
        BY <3>1, <3>2, <2>0 DEF IInv, LeaseHeldByOneProbe, Holders
      <4>2. circuit' = Recovered(circuit)
        BY <2>5, <4>1 DEF FinishSuccess
      <4> QED BY <1>1, <3>1, <3>2, <4>2, FreedInv DEF Recovered
    <3>3. CASE a \notin Holders
      <4>1. ~(attempt[a].probe /\ ~attempt[a].validated)
        BY <3>1, <3>3 DEF Holders
      <4>2. circuit' = circuit \/ circuit' = [circuit EXCEPT !.failures = NoFailures]
        BY <2>5, <4>1 DEF FinishSuccess
      <4>3. /\ circuit'.state = circuit.state /\ circuit'.inflight = circuit.inflight
            /\ circuit'.generation = circuit.generation
        BY <2>0, <4>2 DEF Circuit
      <4> QED BY <1>1, <3>1, <3>3, <4>3, FreedInv
    <3> QED BY <3>2, <3>3
  <2>6. CASE FinishQualifyingFailure(a)
    <3> DEFINE recorded == [circuit EXCEPT !.failures = RecordedFailures(a)]
    <3>1. attempt[a].stage = "finishing" /\ Freed(a)
      BY <2>6 DEF FinishQualifyingFailure
    <3>2. /\ recorded.state = circuit.state /\ recorded.inflight = circuit.inflight
          /\ recorded.generation = circuit.generation
      BY <2>0 DEF Circuit
    <3>3. CASE a \in Holders
      <4>1. /\ circuit.generation = attempt[a].generation /\ circuit.state = "HalfOpen"
            /\ attempt[a].probe /\ ~attempt[a].validated
        BY <3>1, <3>3, <2>0 DEF IInv, LeaseHeldByOneProbe, Holders
      <4>2. circuit' = Opened(recorded, attempt[a].at)
        BY <2>6, <4>1 DEF FinishQualifyingFailure, OwnsState
      <4>3. circuit'.inflight = 0 /\ circuit'.generation = circuit.generation + 1
        BY <3>2, <4>1, <4>2 DEF Opened
      <4> QED BY <1>1, <3>1, <3>3, <4>3, FreedInv
    <3>4. CASE a \notin Holders
      <4>1. OwnsState(a) => circuit.state = "Closed"
        BY <3>1, <3>4, <2>0 DEF OwnsState, Holders, IInv, OthersArePast
      <4>2. \/ circuit' = circuit
            \/ circuit' = recorded
            \/ circuit.state = "Closed" /\ circuit' = Opened(recorded, attempt[a].at)
        BY <2>6, <4>1 DEF FinishQualifyingFailure
      <4>3. CASE circuit' = circuit \/ circuit' = recorded
        <5> HIDE DEF recorded
        <5> QED BY <1>1, <3>1, <3>2, <3>4, <4>3, FreedInv
      <4>4. CASE circuit.state = "Closed" /\ circuit' = Opened(recorded, attempt[a].at)
        <5>1. /\ circuit'.state = "Open" /\ circuit'.inflight = 0
              /\ circuit'.generation = circuit.generation + 1
          BY <3>2, <4>4 DEF Opened
        <5> QED BY <1>1, <3>1, <3>4, <4>4, <5>1, FreedInv
      <4> QED BY <4>2, <4>3, <4>4
    <3> QED BY <3>3, <3>4
  <2>7. CASE FinishOtherFailure(a)
    <3>1. attempt[a].stage = "finishing" /\ Freed(a)
      BY <2>7 DEF FinishOtherFailure
    <3>2. CASE a \in Holders
      <4>1. /\ circuit.generation = attempt[a].generation /\ circuit.state = "HalfOpen"
            /\ attempt[a].probe
        BY <3>1, <3>2, <2>0 DEF IInv, LeaseHeldByOneProbe, Holders
      <4>2. circuit' = [circuit EXCEPT !.inflight = 0]
        BY <2>7, <4>1 DEF FinishOtherFailure, OwnsState, ReleaseProbeSlot
      <4>3. circuit'.inflight = 0 /\ circuit'.generation = circuit.generation
        BY <2>0, <4>2 DEF Circuit
      <4> QED BY <1>1, <3>1, <3>2, <4>3, FreedInv
    <3>3. CASE a \notin Holders
      <4>1. OwnsState(a) => circuit.state = "Closed"
        BY <3>1, <3>3, <2>0 DEF OwnsState, Holders, IInv, OthersArePast
      <4>2. circuit' = circuit
        BY <2>7, <4>1 DEF FinishOtherFailure, ReleaseProbeSlot
      <4> QED BY <1>1, <3>1, <3>3, <4>2, FreedInv
    <3> QED BY <3>2, <3>3
  <2>8. CASE FinishNeutral(a)
    <3>1. attempt[a].stage = "finishing" /\ Freed(a)
      BY <2>8 DEF FinishNeutral
    <3>2. CASE a \in Holders
      <4>1. /\ circuit.generation = attempt[a].generation /\ circuit.state = "HalfOpen"
            /\ attempt[a].probe
        BY <3>1, <3>2, <2>0 DEF IInv, LeaseHeldByOneProbe, Holders
      <4>2. circuit'.inflight = 0 /\ circuit'.generation = circuit.generation
        BY <2>8, <4>1 DEF FinishNeutral, ReopenAbandonedProbe
      <4> QED BY <1>1, <3>1, <3>2, <4>2, FreedInv
    <3>3. CASE a \notin Holders
      <4>1. attempt[a].generation # circuit.generation \/ circuit.state # "HalfOpen"
        BY <3>1, <3>3, <2>0 DEF IInv, OthersArePast
      <4>2. circuit' = circuit
        BY <2>8, <4>1 DEF FinishNeutral, ReopenAbandonedProbe
      <4> QED BY <1>1, <3>1, <3>3, <4>2, FreedInv
    <3> QED BY <3>2, <3>3
  <2> QED BY <1>4, <2>1, <2>2, <2>3, <2>4, <2>5, <2>6, <2>7, <2>8 DEF Step, Finish
<1> QED BY <1>2, <1>3, <1>4 DEF Next

LEMMA IInvInit == Init => IInv /\ Holders = {}
<1> SUFFICES ASSUME Init PROVE IInv /\ Holders = {}
  OBVIOUS
<1>1. TypeOK
  BY InitTypes
<1>2. Holders = {}
  BY DEF Init, Holders, NoAttempt
<1> QED BY <1>1, <1>2 DEF Init, IInv, ValidatedAreProbes, LeaseHeldByOneProbe,
      OthersArePast, InitCircuit, NoAttempt

\* Under every interleaving of attempts, and however late their answers come,
\* the half-open lease is held by exactly one live probe or by none.
THEOREM LeaseExclusive == Spec => []LeaseHeldByOneProbe
<1>1. IInv => LeaseHeldByOneProbe
  BY DEF IInv
<1> QED BY <1>1, IInvInit, IInvNext, PTL DEF Spec

-----------------------------------------------------------------------------
(* The evidence. *)

\* The clock that an attempt read is at most MaxSkew behind when it holds the
\* mutex, and so the deque is in the order of its times up to MaxSkew: why
\* purge_old, which looks at the front only, keeps nothing that is much older.
ClocksAreClose ==
  \A a \in Attempts : attempt[a].stage \in {"marking", "finishing"} =>
    attempt[a].at <= now /\ now <= attempt[a].at + MaxSkew

NearlySorted(fs) ==
  /\ \A i \in 1..Len(fs) : fs[i].at <= now
  /\ \A i, j \in 1..Len(fs) : i <= j => fs[i].at <= fs[j].at + MaxSkew

EvidenceInv ==
  /\ TypeOK /\ ClosedEvidenceIsCurrent
  /\ ClocksAreClose /\ NearlySorted(circuit.failures)

LEMMA EvidenceTimes ==
  ASSUME NEW fs \in Seq(Evidence), NEW i \in 1..Len(fs)
  PROVE  fs[i] \in Evidence /\ fs[i].at \in Nat
<1>1. fs[i] \in Evidence
  BY ElementOfSeq
<1> QED BY <1>1 DEF Evidence

\* What purge_old returns is a suffix of the deque, and some evidence at or
\* before its front is within the window.
LEMMA PurgeOldSuffix ==
  ASSUME NEW fs \in Seq(Evidence), NEW t \in Nat
  PROVE  \E k \in 0..Len(fs) :
           /\ Len(PurgeOld(fs, t)) = Len(fs) - k
           /\ \A i \in 1..(Len(fs) - k) : PurgeOld(fs, t)[i] = fs[k + i]
           /\ k < Len(fs) => \E j \in 1..(k + 1) : fs[j].at >= t - Window
<1> DEFINE expired == {i \in 1..Len(fs) : \A j \in 1..i : fs[j].at < t - Window}
           k == Cardinality(expired)
<1>0. Len(fs) \in Nat
  BY LenProperties
<1>1. IsFiniteSet(expired) /\ k \in 0..Len(fs)
  <2>1. IsFiniteSet(1..Len(fs)) /\ Cardinality(1..Len(fs)) = Len(fs)
    BY <1>0, FS_Interval
  <2>2. IsFiniteSet(expired) /\ Cardinality(expired) <= Cardinality(1..Len(fs))
    BY <2>1, FS_Subset
  <2>3. Cardinality(expired) \in Nat
    BY <2>2, FS_CardinalityType
  <2> HIDE DEF expired
  <2> QED BY <1>0, <2>1, <2>2, <2>3
<1>2. PurgeOld(fs, t) = SubSeq(fs, k + 1, Len(fs))
  BY DEF PurgeOld
<1>3. ASSUME k < Len(fs) PROVE \E j \in 1..(k + 1) : fs[j].at >= t - Window
  <2>1. ASSUME \A j \in 1..(k + 1) : fs[j].at < t - Window PROVE FALSE
    <3>1. 1..(k + 1) \subseteq expired
      <4> SUFFICES ASSUME NEW i \in 1..(k + 1) PROVE i \in expired
        OBVIOUS
      <4>1. i \in 1..Len(fs) /\ 1..i \subseteq 1..(k + 1)
        <5> HIDE DEF k
        <5> QED BY <1>0, <1>1, <1>3
      <4> QED BY <2>1, <4>1
    <3> HIDE DEF expired
    <3>2. Cardinality(1..(k + 1)) <= k
      BY <1>1, <3>1, FS_Subset
    <3> HIDE DEF k
    <3>3. Cardinality(1..(k + 1)) = k + 1
      BY <1>1, FS_Interval
    <3> QED BY <1>1, <3>2, <3>3
  <2> HIDE DEF k
  <2>2. PICK j \in 1..(k + 1) : ~(fs[j].at < t - Window)
    BY <2>1
  <2>3. j \in 1..Len(fs)
    BY <1>0, <1>1, <1>3
  <2>4. fs[j].at \in Nat /\ Window \in Nat
    BY <2>3, EvidenceTimes, ConstantsAssumption
  <2> QED BY <2>2, <2>4
<1> HIDE DEF k
<1>4. /\ Len(SubSeq(fs, k + 1, Len(fs))) = Len(fs) - k
      /\ \A i \in 1..(Len(fs) - k) : SubSeq(fs, k + 1, Len(fs))[i] = fs[k + i]
  BY <1>0, <1>1
<1> QED BY <1>1, <1>2, <1>3, <1>4

\* Hence purge_old keeps the order, and keeps nothing older than the window and
\* the skew.
LEMMA PurgeOldFresh ==
  ASSUME NEW fs \in Seq(Evidence), NEW t \in Nat, now \in Nat, NearlySorted(fs)
  PROVE  /\ NearlySorted(PurgeOld(fs, t))
         /\ \A i \in 1..Len(PurgeOld(fs, t)) :
              PurgeOld(fs, t)[i].at >= t - Window - MaxSkew
<1>1. PICK k \in 0..Len(fs) :
        /\ Len(PurgeOld(fs, t)) = Len(fs) - k
        /\ \A i \in 1..(Len(fs) - k) : PurgeOld(fs, t)[i] = fs[k + i]
        /\ k < Len(fs) => \E j \in 1..(k + 1) : fs[j].at >= t - Window
  BY PurgeOldSuffix
<1>2. Len(fs) \in Nat /\ \A i \in 1..Len(fs) : fs[i].at \in Nat
  BY LenProperties, EvidenceTimes
<1>3. Window \in Nat /\ MaxSkew \in Nat
  BY ConstantsAssumption
<1>4. \A i \in 1..Len(PurgeOld(fs, t)) :
        k + i \in 1..Len(fs) /\ PurgeOld(fs, t)[i] = fs[k + i]
  BY <1>1, <1>2
<1>5. NearlySorted(PurgeOld(fs, t))
  <2>1. \A i \in 1..Len(PurgeOld(fs, t)) : PurgeOld(fs, t)[i].at <= now
    BY <1>4 DEF NearlySorted
  <2>2. ASSUME NEW i \in 1..Len(PurgeOld(fs, t)), NEW j \in 1..Len(PurgeOld(fs, t)), i <= j
        PROVE  PurgeOld(fs, t)[i].at <= PurgeOld(fs, t)[j].at + MaxSkew
    <3>1. k + i <= k + j
      BY <1>1, <1>2, <2>2
    <3> QED BY <1>4, <3>1 DEF NearlySorted
  <2> QED BY <2>1, <2>2 DEF NearlySorted
<1>6. ASSUME NEW i \in 1..Len(PurgeOld(fs, t))
      PROVE  PurgeOld(fs, t)[i].at >= t - Window - MaxSkew
  <2>1. k < Len(fs)
    BY <1>1, <1>2
  <2>2. PICK j \in 1..(k + 1) : fs[j].at >= t - Window
    BY <1>1, <2>1
  <2>3. j \in 1..Len(fs) /\ k + i \in 1..Len(fs) /\ j <= k + i
    BY <1>1, <1>2, <2>1
  <2>4. fs[j].at <= fs[k + i].at + MaxSkew
    BY <2>3 DEF NearlySorted
  <2>5. fs[j].at \in Nat /\ fs[k + i].at \in Nat
    BY <1>2, <2>3
  <2>6. PurgeOld(fs, t)[i].at = fs[k + i].at
    BY <1>4
  <2> DEFINE x == fs[k + i].at
             y == fs[j].at
  <2>7. x \in Nat /\ y \in Nat /\ y >= t - Window /\ y <= x + MaxSkew
    BY <2>2, <2>4, <2>5
  <2> HIDE DEF x, y
  <2>8. x >= t - Window - MaxSkew
    BY <1>3, <2>7
  <2> QED BY <2>6, <2>8 DEF x
<1> QED BY <1>5, <1>6

\* Recording a failure that is not much older than the clock keeps the order.
LEMMA PushFailureSorted ==
  ASSUME NEW fs \in Seq(Evidence), NEW e \in Evidence, now \in Nat, NearlySorted(fs),
         e.at <= now, now <= e.at + MaxSkew
  PROVE  NearlySorted(PushFailure(fs, e))
<1> DEFINE longer == Append(fs, e)
           n == Len(longer) - MaxRecent + 1
<1>1. MaxRecent \in Nat /\ MaxRecent >= 2 /\ MaxSkew \in Nat /\ e.at \in Nat
  BY ConstantsAssumption DEF Evidence
<1>2. Len(fs) \in Nat /\ \A i \in 1..Len(fs) : fs[i].at \in Nat
  BY LenProperties, EvidenceTimes
<1>3. /\ longer \in Seq(Evidence) /\ Len(longer) = Len(fs) + 1
      /\ \A i \in 1..Len(fs) : longer[i] = fs[i]
      /\ longer[Len(fs) + 1] = e
  BY AppendProperties
<1> HIDE DEF longer
<1>4. NearlySorted(longer)
  <2>1. ASSUME NEW i \in 1..Len(longer) PROVE longer[i].at <= now
    BY <1>2, <1>3 DEF NearlySorted
  <2>2. ASSUME NEW i \in 1..Len(longer), NEW j \in 1..Len(longer), i <= j
        PROVE  longer[i].at <= longer[j].at + MaxSkew
    <3>1. CASE j \in 1..Len(fs)
      <4>1. i \in 1..Len(fs)
        BY <1>2, <2>2, <3>1
      <4> QED BY <1>3, <2>2, <3>1, <4>1 DEF NearlySorted
    <3>2. CASE j = Len(fs) + 1
      <4>1. longer[i].at \in Nat /\ longer[i].at <= now
        BY <2>1, <1>3, EvidenceTimes
      <4>2. longer[j].at = e.at
        BY <1>3, <3>2
      <4> DEFINE x == longer[i].at
                 y == e.at
      <4>3. x \in Nat /\ y \in Nat /\ x <= now /\ now <= y + MaxSkew
        BY <1>1, <4>1
      <4> HIDE DEF x, y
      <4>4. x <= y + MaxSkew
        BY <1>1, <4>3
      <4> QED BY <4>2, <4>4 DEF x, y
    <3> QED BY <1>2, <1>3, <3>1, <3>2
  <2> QED BY <2>1, <2>2 DEF NearlySorted
<1>5. CASE Len(longer) > MaxRecent
  <2>1. PushFailure(fs, e) = SubSeq(longer, n, Len(longer))
    BY <1>5 DEF PushFailure, longer
  <2>2. n \in 1..Len(longer)
    BY <1>1, <1>2, <1>3, <1>5
  <2>3. /\ Len(SubSeq(longer, n, Len(longer))) = MaxRecent
        /\ \A i \in 1..MaxRecent : /\ n + i - 1 \in 1..Len(longer)
                                   /\ SubSeq(longer, n, Len(longer))[i] = longer[n + i - 1]
    BY <1>1, <1>3, <2>2
  <2> HIDE DEF n
  <2>4. ASSUME NEW i \in 1..MaxRecent, NEW j \in 1..MaxRecent, i <= j
        PROVE  n + i - 1 <= n + j - 1
    BY <1>1, <2>2, <2>4
  <2> QED BY <1>4, <2>1, <2>3, <2>4 DEF NearlySorted
<1>6. CASE ~(Len(longer) > MaxRecent)
  BY <1>4, <1>6 DEF PushFailure, longer
<1> QED BY <1>5, <1>6

\* A deque with evidence of another one only is no more correlated.
LEMMA CorrelatedMonotone ==
  ASSUME NEW fs \in Seq(Evidence), NEW gs \in Seq(Evidence), ~Correlated(fs),
         \A i \in 1..Len(gs) : \E j \in 1..Len(fs) : gs[i] = fs[j]
  PROVE  ~Correlated(gs)
<1> SUFFICES ASSUME NEW i \in 1..Len(gs), NEW j \in 1..Len(gs),
                    \/ Policy = "DistinctAccounts"   /\ gs[i].account # gs[j].account
                    \/ Policy = "AccountlessTargets" /\ gs[i].target # gs[j].target
             PROVE  FALSE
  BY DEF Correlated
<1>1. PICK m \in 1..Len(fs) : gs[i] = fs[m]
  OBVIOUS
<1>2. PICK n \in 1..Len(fs) : gs[j] = fs[n]
  OBVIOUS
<1> QED BY <1>1, <1>2 DEF Correlated

\* The evidence that attempt a adds.
NewEvidence(a) ==
  [at |-> attempt[a].at, account |-> attempt[a].account,
   target |-> attempt[a].target, generation |-> circuit.generation]

\* What finish_failure records: its own failure, and evidence of the deque that
\* is no older than the window and the skew; the order is kept.
LEMMA RecordedFresh ==
  ASSUME EvidenceInv, NEW a \in Attempts, attempt[a].stage = "finishing"
  PROVE  /\ NearlySorted(RecordedFailures(a))
         /\ \A i \in 1..Len(RecordedFailures(a)) :
              \/ RecordedFailures(a)[i] = NewEvidence(a)
              \/ \E j \in 1..Len(circuit.failures) :
                   /\ RecordedFailures(a)[i] = circuit.failures[j]
                   /\ circuit.failures[j].at >= attempt[a].at - Window - MaxSkew
<1> DEFINE t == attempt[a].at
           purged == PurgeOld(circuit.failures, t)
           e == NewEvidence(a)
<1>1. circuit.failures \in Seq(Evidence) /\ t \in Nat /\ now \in Nat
  BY DEF EvidenceInv, TypeOK, Circuit, Attempt
<1>2. purged \in Seq(Evidence)
  BY <1>1, PurgeOldKeeps
<1>3. e \in Evidence /\ e.at = t
  BY DEF NewEvidence, EvidenceInv, TypeOK, Attempt, Circuit, Evidence
<1>4. RecordedFailures(a) = PushFailure(purged, e)
  BY DEF RecordedFailures, NewEvidence
<1>5. /\ NearlySorted(purged)
      /\ \A i \in 1..Len(purged) : purged[i].at >= t - Window - MaxSkew
  BY <1>1, PurgeOldFresh DEF EvidenceInv
<1>6. \A i \in 1..Len(purged) : \E j \in 1..Len(circuit.failures) : purged[i] = circuit.failures[j]
  <2> DEFINE fs == circuit.failures
  <2>1. fs \in Seq(Evidence) /\ purged = PurgeOld(fs, t)
    BY <1>1
  <2> HIDE DEF fs, purged, t
  <2>2. \A i \in 1..Len(purged) : \E j \in 1..Len(fs) : purged[i] = fs[j]
    BY <2>1, PurgeOldKeeps
  <2> QED BY <2>2 DEF fs
<1>7. t <= now /\ now <= t + MaxSkew
  BY DEF EvidenceInv, ClocksAreClose
<1> HIDE DEF purged, e, t
<1>8. NearlySorted(PushFailure(purged, e))
  BY <1>1, <1>2, <1>3, <1>5, <1>7, PushFailureSorted
<1>9. ASSUME NEW i \in 1..Len(PushFailure(purged, e))
      PROVE  \/ PushFailure(purged, e)[i] = e
             \/ \E j \in 1..Len(circuit.failures) :
                  /\ PushFailure(purged, e)[i] = circuit.failures[j]
                  /\ circuit.failures[j].at >= t - Window - MaxSkew
  <2>1. CASE PushFailure(purged, e)[i] = e
    BY <2>1
  <2>2. ASSUME NEW m \in 1..Len(purged), PushFailure(purged, e)[i] = purged[m]
        PROVE  \E j \in 1..Len(circuit.failures) :
                  /\ PushFailure(purged, e)[i] = circuit.failures[j]
                  /\ circuit.failures[j].at >= t - Window - MaxSkew
    <3>1. PICK j \in 1..Len(circuit.failures) : purged[m] = circuit.failures[j]
      BY <1>6
    <3>2. purged[m].at >= t - Window - MaxSkew
      BY <1>5
    <3> QED BY <2>2, <3>1, <3>2
  <2> QED BY <1>2, <1>3, <2>1, <2>2, PushFailureKeeps
<1> QED BY <1>4, <1>8, <1>9 DEF e, t

\* A step that leaves the evidence alone, purges it or drops it.
LEMMA EvidenceKept ==
  ASSUME EvidenceInv, now' = now, circuit' \in Circuit,
         circuit'.failures \in {circuit.failures, NoFailures, PurgeOld(circuit.failures, now)},
         circuit'.state = "Closed" => \/ circuit'.failures = NoFailures
                                      \/ /\ circuit.state = "Closed"
                                         /\ circuit'.generation = circuit.generation
  PROVE  ClosedEvidenceIsCurrent' /\ NearlySorted(circuit.failures)'
<1>1. circuit.failures \in Seq(Evidence) /\ now \in Nat /\ circuit'.failures \in Seq(Evidence)
  BY DEF EvidenceInv, TypeOK, Circuit
<1>2. CASE circuit'.failures = NoFailures
  BY <1>2 DEF NoFailures, ClosedEvidenceIsCurrent, NearlySorted, Correlated
<1>3. CASE circuit'.failures \in {circuit.failures, PurgeOld(circuit.failures, now)}
  <2> DEFINE fs == circuit.failures
             gs == circuit'.failures
  <2>1. \A i \in 1..Len(gs) : \E j \in 1..Len(fs) : gs[i] = fs[j]
    BY <1>1, <1>3, PurgeOldKeeps
  <2>2. NearlySorted(gs)
    BY <1>1, <1>3, PurgeOldFresh DEF EvidenceInv
  <2>3. NearlySorted(circuit.failures)'
    BY <2>2 DEF NearlySorted
  <2>4. CASE circuit'.state = "Closed" /\ gs # NoFailures
    <3>1. ~Correlated(fs) /\ \A j \in 1..Len(fs) : fs[j].generation = circuit.generation
      BY <2>4 DEF EvidenceInv, ClosedEvidenceIsCurrent
    <3> HIDE DEF fs
    <3>2. ~Correlated(gs)
      BY <1>1, <2>1, <3>1, CorrelatedMonotone DEF fs
    <3>3. \A i \in 1..Len(gs) : gs[i].generation = circuit'.generation
      BY <2>1, <2>4, <3>1
    <3>4. Correlated(circuit.failures)' = Correlated(gs)
      BY DEF Correlated
    <3> QED BY <2>3, <3>2, <3>3, <3>4 DEF ClosedEvidenceIsCurrent
  <2>5. CASE circuit'.state # "Closed"
    BY <2>3, <2>5 DEF ClosedEvidenceIsCurrent
  <2> QED BY <1>2, <2>4, <2>5
<1> QED BY <1>2, <1>3

\* An attempt that gives its slot back leaves the clocks of the others.
LEMMA FreedClocks ==
  ASSUME EvidenceInv, NEW a \in Attempts, Freed(a), now' = now
  PROVE  ClocksAreClose'
BY DEF EvidenceInv, TypeOK, ClocksAreClose, Freed, NoAttempt

LEMMA EvidenceStep == EvidenceInv /\ [Next]_vars => EvidenceInv'
<1> SUFFICES ASSUME EvidenceInv, [Next]_vars PROVE EvidenceInv'
  OBVIOUS
<1>1. TypeOK /\ TypeOK'
  BY TypeNext DEF EvidenceInv
<1>2. circuit \in Circuit /\ circuit' \in Circuit /\ now \in Nat /\ MaxSkew \in Nat
  BY <1>1, ConstantsAssumption DEF TypeOK
<1>3. CASE UNCHANGED vars
  BY <1>3 DEF EvidenceInv, TypeOK, ClosedEvidenceIsCurrent, Correlated, ClocksAreClose,
              NearlySorted, vars
<1>4. CASE CheckAvailable
  <2>1. /\ circuit'.failures = PurgeOld(circuit.failures, now) /\ circuit'.state = circuit.state
        /\ circuit'.generation = circuit.generation
    BY <1>2, <1>4 DEF CheckAvailable, Circuit
  <2>2. ClosedEvidenceIsCurrent' /\ NearlySorted(circuit.failures)'
    BY <1>2, <1>4, <2>1, EvidenceKept DEF CheckAvailable
  <2> QED BY <1>1, <1>4, <2>2 DEF CheckAvailable, EvidenceInv, ClocksAreClose
<1>5. CASE Tick
  <2>1. ClosedEvidenceIsCurrent'
    BY <1>5 DEF Tick, EvidenceInv, ClosedEvidenceIsCurrent, Correlated
  <2>2. NearlySorted(circuit.failures)'
    <3>1. \A i \in 1..Len(circuit.failures) : circuit.failures[i].at \in Nat
      BY <1>2, EvidenceTimes DEF Circuit
    <3> QED BY <1>2, <1>5, <3>1 DEF Tick, EvidenceInv, NearlySorted
  <2>3. ClocksAreClose'
    <3>1. \A a \in Attempts : attempt[a].at \in Nat
      BY <1>1 DEF TypeOK, Attempt
    <3> QED BY <1>2, <1>5, <3>1 DEF Tick, EvidenceInv, ClocksAreClose
  <2> QED BY <1>1, <2>1, <2>2, <2>3 DEF EvidenceInv
<1>6. ASSUME NEW a \in Attempts, Step(a) PROVE EvidenceInv'
  <2>0. attempt[a] \in Attempt /\ attempt \in [Attempts -> Attempt]
    BY <1>1 DEF TypeOK
  <2>1. ASSUME NEW account \in Accounts, NEW target \in Targets,
               BeginAttempt(a, account, target)
        PROVE  EvidenceInv'
    <3>1. /\ circuit'.failures = PurgeOld(circuit.failures, now)
          /\ circuit'.state = "Closed" => circuit.state = "Closed"
          /\ circuit'.generation = circuit.generation /\ now' = now
      BY <1>2, <2>1 DEF BeginAttempt, Circuit
    <3>2. ClosedEvidenceIsCurrent' /\ NearlySorted(circuit.failures)'
      BY <1>2, <3>1, EvidenceKept
    <3>3. ClocksAreClose'
      BY <2>0, <2>1 DEF BeginAttempt, EvidenceInv, ClocksAreClose
    <3> QED BY <1>1, <3>2, <3>3 DEF EvidenceInv
  <2>2. CASE MarkBegin(a)
    <3>1. circuit' = circuit /\ now' = now
      BY <2>2 DEF MarkBegin
    <3>2. ClosedEvidenceIsCurrent' /\ NearlySorted(circuit.failures)'
      BY <1>2, <3>1, EvidenceKept
    <3>3. attempt'[a].at = now /\ \A b \in Attempts : b # a => attempt'[b] = attempt[b]
      <4>1. [attempt[a] EXCEPT !.validated = TRUE] \in Attempt
        BY <2>0 DEF Attempt
      <4> DEFINE r == At([attempt[a] EXCEPT !.validated = TRUE], "marking", now)
      <4>2. attempt'[a] = r /\ \A b \in Attempts : b # a => attempt'[b] = attempt[b]
        BY <2>0, <2>2 DEF MarkBegin
      <4>3. r.at = now
        BY <1>2, <4>1, AtTypes
      <4> QED BY <4>2, <4>3
    <3>4. ClocksAreClose'
      BY <1>2, <3>1, <3>3 DEF EvidenceInv, ClocksAreClose
    <3> QED BY <1>1, <3>2, <3>4 DEF EvidenceInv
  <2>3. CASE MarkValidatedSuccess(a)
    <3>1. now' = now /\ (circuit' = circuit \/ circuit' = Recovered(circuit))
      BY <2>3 DEF MarkValidatedSuccess
    <3>2. ClosedEvidenceIsCurrent' /\ NearlySorted(circuit.failures)'
      BY <1>2, <3>1, EvidenceKept DEF Recovered
    <3>3. attempt'[a].stage = "running" /\ \A b \in Attempts : b # a => attempt'[b] = attempt[b]
      <4>1. attempt'[a] = At(attempt[a], "running", 0)
            /\ \A b \in Attempts : b # a => attempt'[b] = attempt[b]
        BY <2>0, <2>3 DEF MarkValidatedSuccess
      <4>2. At(attempt[a], "running", 0).stage = "running"
        BY <2>0, AtTypes
      <4> QED BY <4>1, <4>2
    <3>4. ClocksAreClose'
      BY <3>1, <3>3 DEF EvidenceInv, ClocksAreClose
    <3> QED BY <1>1, <3>2, <3>4 DEF EvidenceInv
  <2>4. CASE EndAttempt(a)
    <3>0. PICK outcome \in {"success", "qualifying", "other", "neutral"} : FinishBegin(a, outcome)
      BY <2>4 DEF EndAttempt, Succeed, Fail, Abandon, FailureOutcomes
    <3>1. circuit' = circuit /\ now' = now
      BY <3>0 DEF FinishBegin
    <3>2. ClosedEvidenceIsCurrent' /\ NearlySorted(circuit.failures)'
      BY <1>2, <3>1, EvidenceKept
    <3>3. attempt'[a].at = now /\ \A b \in Attempts : b # a => attempt'[b] = attempt[b]
      <4>1. [attempt[a] EXCEPT !.outcome = outcome] \in Attempt
        BY <2>0 DEF Attempt
      <4> DEFINE r == At([attempt[a] EXCEPT !.outcome = outcome], "finishing", now)
      <4>2. attempt'[a] = r /\ \A b \in Attempts : b # a => attempt'[b] = attempt[b]
        BY <2>0, <3>0 DEF FinishBegin
      <4>3. r.at = now
        BY <1>2, <4>1, AtTypes
      <4> QED BY <4>2, <4>3
    <3>4. ClocksAreClose'
      BY <1>2, <3>1, <3>3 DEF EvidenceInv, ClocksAreClose
    <3> QED BY <1>1, <3>2, <3>4 DEF EvidenceInv
  <2>5. CASE FinishSuccess(a)
    <3>1. Freed(a) /\ now' = now
      BY <2>5 DEF FinishSuccess
    <3>2. \/ circuit' = circuit
          \/ circuit' = Recovered(circuit)
          \/ circuit' = [circuit EXCEPT !.failures = NoFailures]
      BY <2>5 DEF FinishSuccess
    <3>3. circuit' = circuit \/ circuit'.failures = NoFailures
      BY <1>2, <3>2 DEF Recovered, Circuit
    <3>4. ClosedEvidenceIsCurrent' /\ NearlySorted(circuit.failures)'
      BY <1>2, <3>1, <3>3, EvidenceKept
    <3> QED BY <1>1, <3>1, <3>4, FreedClocks DEF EvidenceInv
  <2>6. CASE FinishQualifyingFailure(a)
    <3>1. Freed(a) /\ now' = now /\ attempt[a].stage = "finishing"
      BY <2>6 DEF FinishQualifyingFailure
    <3>2. CASE circuit' = circuit
      <4>1. ClosedEvidenceIsCurrent' /\ NearlySorted(circuit.failures)'
        BY <1>2, <3>1, <3>2, EvidenceKept
      <4> QED BY <1>1, <3>1, <4>1, FreedClocks DEF EvidenceInv
    <3>3. CASE circuit' # circuit
      <4>1. /\ circuit'.failures = RecordedFailures(a)
            /\ circuit'.state = "Closed" =>
                 /\ ~Correlated(RecordedFailures(a)) /\ circuit.state = "Closed"
                 /\ circuit'.generation = circuit.generation
        BY <1>2, <2>6, <3>3 DEF FinishQualifyingFailure, Opened, Circuit
      <4>2. NearlySorted(circuit.failures)'
        <5>1. NearlySorted(RecordedFailures(a))
          BY <3>1, RecordedFresh
        <5> HIDE DEF RecordedFailures
        <5> QED BY <3>1, <4>1, <5>1 DEF NearlySorted
      <4>3. ASSUME circuit'.state = "Closed" PROVE ClosedEvidenceIsCurrent'
        <5>1. Correlated(circuit.failures)' = Correlated(RecordedFailures(a))
          BY <4>1 DEF Correlated
        <5>2. ASSUME NEW i \in 1..Len(RecordedFailures(a))
              PROVE  RecordedFailures(a)[i].generation = circuit.generation
          <6>1. \A j \in 1..Len(circuit.failures) :
                  circuit.failures[j].generation = circuit.generation
            BY <4>1, <4>3 DEF EvidenceInv, ClosedEvidenceIsCurrent
          <6>2. NewEvidence(a).generation = circuit.generation
            BY DEF NewEvidence
          <6>3. \/ RecordedFailures(a)[i] = NewEvidence(a)
                \/ \E j \in 1..Len(circuit.failures) : RecordedFailures(a)[i] = circuit.failures[j]
            BY <3>1, RecordedFresh
          <6> QED BY <6>1, <6>2, <6>3
        <5> QED BY <4>1, <4>3, <5>1, <5>2 DEF ClosedEvidenceIsCurrent
      <4> QED BY <1>1, <3>1, <4>2, <4>3, FreedClocks DEF EvidenceInv, ClosedEvidenceIsCurrent
    <3> QED BY <3>2, <3>3
  <2>7. CASE FinishOtherFailure(a) \/ FinishNeutral(a)
    <3>1. Freed(a) /\ now' = now
      BY <2>7 DEF FinishOtherFailure, FinishNeutral
    <3>2. /\ circuit'.failures = circuit.failures /\ circuit'.generation = circuit.generation
          /\ circuit'.state = "Closed" => circuit.state = "Closed"
      BY <1>2, <2>7 DEF FinishOtherFailure, FinishNeutral, ReleaseProbeSlot,
                        ReopenAbandonedProbe, Circuit
    <3>3. ClosedEvidenceIsCurrent' /\ NearlySorted(circuit.failures)'
      BY <1>2, <3>1, <3>2, EvidenceKept
    <3> QED BY <1>1, <3>1, <3>3, FreedClocks DEF EvidenceInv
  <2> QED BY <1>6, <2>1, <2>2, <2>3, <2>4, <2>5, <2>6, <2>7 DEF Step, Finish
<1> QED BY <1>3, <1>4, <1>5, <1>6 DEF Next

LEMMA EvidenceInit == Init => EvidenceInv
<1> SUFFICES ASSUME Init PROVE EvidenceInv
  OBVIOUS
<1>1. circuit.failures = << >>
  BY DEF Init, InitCircuit, NoFailures
<1> QED BY <1>1, InitTypes DEF Init, EvidenceInv, ClosedEvidenceIsCurrent, Correlated,
      ClocksAreClose, NearlySorted, NoAttempt

\* While the circuit is closed its deque holds only failures recorded since the
\* last recovery, and not enough of them to open it, for any number of attempts
\* and however late they finish (finish_failure, purge_old).
THEOREM EvidenceAlwaysCurrent == Spec => []EvidenceIsCurrent
<1>1. EvidenceInv => EvidenceIsCurrent
  BY DEF EvidenceInv, EvidenceIsCurrent
<1> QED BY <1>1, EvidenceInit, EvidenceStep, PTL DEF Spec

\* Only a failure that counts opens a closed circuit.
LEMMA OnlyFailuresOpen ==
  ASSUME TypeOK, [Next]_vars, circuit.state = "Closed", circuit'.state = "Open"
  PROVE  \E a \in Attempts :
           /\ attempt[a].stage = "finishing"
           /\ circuit'.failures = RecordedFailures(a) /\ Correlated(RecordedFailures(a))
<1>1. circuit \in Circuit
  BY DEF TypeOK
<1>2. CASE UNCHANGED vars \/ CheckAvailable \/ Tick
  BY <1>1, <1>2 DEF vars, CheckAvailable, Tick, Circuit
<1>3. ASSUME NEW a \in Attempts, Step(a), ~FinishQualifyingFailure(a) PROVE FALSE
  <2>1. CASE \E account \in Accounts, target \in Targets : BeginAttempt(a, account, target)
    BY <1>1, <2>1 DEF BeginAttempt, Circuit
  <2>2. CASE MarkBegin(a) \/ MarkValidatedSuccess(a)
    BY <2>2 DEF MarkBegin, MarkValidatedSuccess
  <2>3. CASE EndAttempt(a)
    BY <2>3 DEF EndAttempt, Succeed, Fail, Abandon, FinishBegin
  <2>4. CASE FinishSuccess(a)
    BY <1>1, <2>4 DEF FinishSuccess, Recovered, Circuit
  <2>5. CASE FinishOtherFailure(a) \/ FinishNeutral(a)
    BY <1>1, <2>5 DEF FinishOtherFailure, FinishNeutral, ReleaseProbeSlot, ReopenAbandonedProbe
  <2> QED BY <1>3, <2>1, <2>2, <2>3, <2>4, <2>5 DEF Step, Finish
<1>4. ASSUME NEW a \in Attempts, FinishQualifyingFailure(a)
      PROVE  /\ attempt[a].stage = "finishing"
             /\ circuit'.failures = RecordedFailures(a) /\ Correlated(RecordedFailures(a))
  <2> DEFINE recorded == [circuit EXCEPT !.failures = RecordedFailures(a)]
  <2>1. recorded.state = "Closed" /\ recorded.failures = RecordedFailures(a)
    BY <1>1 DEF Circuit
  <2>2. circuit' # circuit /\ circuit' # recorded
    BY <2>1
  <2>3. OwnsState(a)
    BY <1>4, <2>2 DEF FinishQualifyingFailure
  <2>4. ~(attempt[a].probe /\ ~attempt[a].validated)
    BY <2>3 DEF OwnsState
  <2>5. Correlated(recorded.failures) /\ circuit' = Opened(recorded, attempt[a].at)
    BY <1>4, <2>2, <2>3, <2>4 DEF FinishQualifyingFailure
  <2> QED BY <1>4, <2>1, <2>5 DEF FinishQualifyingFailure, Opened
<1> QED BY <1>2, <1>3, <1>4 DEF Next

\* The two failures that open a closed circuit: the evidence was not enough
\* before, so one of them is the new one, and the other is in its window.
LEMMA OpeningStep == EvidenceInv /\ [Next]_vars => OpeningIsCorrelated
<1> SUFFICES ASSUME EvidenceInv, [Next]_vars, circuit.state = "Closed", circuit'.state = "Open"
             PROVE  OpeningIsCorrelated
  BY DEF OpeningIsCorrelated
<1>1. PICK a \in Attempts :
        /\ attempt[a].stage = "finishing"
        /\ circuit'.failures = RecordedFailures(a) /\ Correlated(RecordedFailures(a))
  BY OnlyFailuresOpen DEF EvidenceInv
<1> DEFINE fs == circuit.failures
           gs == RecordedFailures(a)
           e == NewEvidence(a)
           t == attempt[a].at
           Differ(x, y) == IF Policy = "DistinctAccounts" THEN x.account # y.account
                                                          ELSE x.target # y.target
<1>2. fs \in Seq(Evidence) /\ now \in Nat /\ t \in Nat /\ Window \in Nat /\ MaxSkew \in Nat
      /\ Policy \in {"DistinctAccounts", "AccountlessTargets"}
  BY ConstantsAssumption DEF EvidenceInv, TypeOK, Circuit, Attempt
<1>3. /\ ~Correlated(fs)
      /\ \A j \in 1..Len(fs) : fs[j].generation = circuit.generation /\ fs[j].at <= now
  BY DEF EvidenceInv, ClosedEvidenceIsCurrent, NearlySorted
<1>4. /\ t <= now /\ now <= t + MaxSkew
      /\ e.at = t /\ e.generation = circuit.generation
  BY <1>1 DEF EvidenceInv, ClocksAreClose, NewEvidence
<1>5. \A i \in 1..Len(gs) :
        \/ gs[i] = e
        \/ \E j \in 1..Len(fs) : gs[i] = fs[j] /\ fs[j].at >= t - Window - MaxSkew
  BY <1>1, RecordedFresh
<1>6. PICK i \in 1..Len(gs), j \in 1..Len(gs) : Differ(gs[i], gs[j])
  BY <1>1, <1>2 DEF Correlated
<1>7. gs[i] = e \/ gs[j] = e
  <2> SUFFICES ASSUME gs[i] # e, gs[j] # e PROVE FALSE
    OBVIOUS
  <2>1. PICK m \in 1..Len(fs) : gs[i] = fs[m]
    BY <1>5
  <2>2. PICK n \in 1..Len(fs) : gs[j] = fs[n]
    BY <1>5
  <2> QED BY <1>2, <1>3, <1>6, <2>1, <2>2 DEF Correlated
<1>8. \E x, y \in 1..Len(gs) : gs[x] = e /\ Differ(gs[x], gs[y]) /\ Differ(gs[y], gs[x]) /\ gs[y] # e
  BY <1>6, <1>7
<1>9. PICK x \in 1..Len(gs), y \in 1..Len(gs) :
        gs[x] = e /\ Differ(gs[x], gs[y]) /\ Differ(gs[y], gs[x]) /\ gs[y] # e
  BY <1>8
<1>10. PICK n \in 1..Len(fs) : gs[y] = fs[n] /\ fs[n].at >= t - Window - MaxSkew
  BY <1>5, <1>9
<1>11. fs[n].at \in Nat /\ fs[n].at <= now /\ fs[n].generation = circuit.generation
  BY <1>2, <1>3, EvidenceTimes
<1> DEFINE u == fs[n].at
<1>12. u \in Nat /\ u <= now /\ u >= t - Window - MaxSkew
  BY <1>10, <1>11
<1> HIDE DEF u, t
<1>13. t - u \in 0..(Window + MaxSkew) \/ u - t \in 0..(Window + MaxSkew)
  BY <1>2, <1>4, <1>12
<1>14. /\ gs[x].at = t /\ gs[y].at = u
       /\ gs[x].generation = circuit.generation /\ gs[y].generation = circuit.generation
  BY <1>4, <1>9, <1>10, <1>11 DEF u
<1> HIDE DEF gs
<1>15. CASE t - u \in 0..(Window + MaxSkew)
  <2>1. gs[x].at - gs[y].at \in 0..(Window + MaxSkew)
    BY <1>14, <1>15
  <2> QED BY <1>1, <1>9, <1>14, <2>1 DEF OpeningIsCorrelated, gs
<1>16. CASE u - t \in 0..(Window + MaxSkew)
  <2>1. gs[y].at - gs[x].at \in 0..(Window + MaxSkew)
    BY <1>14, <1>16
  <2> QED BY <1>1, <1>9, <1>14, <2>1 DEF OpeningIsCorrelated, gs
<1> QED BY <1>13, <1>15, <1>16

\* A closed circuit opens only on failures of two accounts, or targets, in one
\* correlation window, up to the skew of the clock reads; purge_old looks at the
\* front of the deque only, and that is enough (finish_failure).
THEOREM OpeningsAreCorrelated == Spec => OpensOnlyOnCorrelatedFailures
<1>1. EvidenceInv /\ [Next]_vars => [OpeningIsCorrelated]_vars
  BY OpeningStep
<1> QED BY <1>1, EvidenceInit, EvidenceStep, PTL DEF Spec, OpensOnlyOnCorrelatedFailures

-----------------------------------------------------------------------------
(* The cooldown. *)

\* An open circuit waits for the cooldown, or has waited for it before its probe
\* was abandoned; a half-open one has waited.
CooldownInv ==
  /\ TypeOK
  /\ circuit.state = "HalfOpen" => now >= circuit.openedAt + Cooldown
  /\ circuit.state = "Open" => \/ now >= circuit.openedAt + Cooldown
                               \/ circuit.retryAt >= circuit.openedAt + Cooldown

LEMMA CooldownStep == CooldownInv /\ [Next]_vars => CooldownInv' /\ [BeginsAreTimely]_vars
<1> SUFFICES ASSUME CooldownInv, [Next]_vars PROVE CooldownInv' /\ [BeginsAreTimely]_vars
  OBVIOUS
<1>1. TypeOK /\ TypeOK'
  BY TypeNext DEF CooldownInv
<1>2. /\ circuit \in Circuit /\ circuit' \in Circuit /\ now \in Nat /\ Cooldown \in Nat
      /\ circuit.openedAt \in Nat /\ circuit.retryAt \in Nat
      /\ circuit.state \in {"Closed", "Open", "HalfOpen"}
  BY <1>1, ConstantsAssumption DEF TypeOK, Circuit
<1>3. CASE UNCHANGED vars
  BY <1>1, <1>3 DEF CooldownInv, vars
<1>4. CASE CheckAvailable \/ Tick
  <2>1. /\ circuit'.state = circuit.state /\ circuit'.openedAt = circuit.openedAt
        /\ circuit'.retryAt = circuit.retryAt /\ attempt' = attempt
        /\ now' \in Nat /\ now' >= now
    BY <1>2, <1>4 DEF CheckAvailable, Tick, Circuit
  <2> QED BY <1>1, <1>2, <2>1 DEF CooldownInv, BeginsAreTimely
<1>5. ASSUME NEW a \in Attempts, Step(a) PROVE CooldownInv' /\ BeginsAreTimely
  <2>0. attempt[a] \in Attempt /\ attempt \in [Attempts -> Attempt] /\ attempt[a].at \in Nat
    BY <1>1 DEF TypeOK, Attempt
  <2>1. ASSUME NEW account \in Accounts, NEW target \in Targets,
               BeginAttempt(a, account, target)
        PROVE  CooldownInv' /\ BeginsAreTimely
    <3>1. /\ circuit'.openedAt = circuit.openedAt /\ now' = now
          /\ circuit.state = "Closed" => circuit'.state = "Closed"
          /\ circuit.state # "Closed" => circuit'.state = "HalfOpen"
      BY <1>2, <2>1 DEF BeginAttempt, Circuit
    <3>2. circuit.state # "Closed" => now >= circuit.openedAt + Cooldown
      BY <1>2, <2>1 DEF BeginAttempt, Rejects, CooldownInv
    <3> QED BY <1>1, <3>1, <3>2 DEF CooldownInv, BeginsAreTimely
  <2>2. ASSUME attempt[a].stage # "none", \A b \in Attempts : b # a => attempt'[b] = attempt[b]
        PROVE  BeginsAreTimely
    BY <2>2 DEF BeginsAreTimely
  <2>3. CASE MarkBegin(a) \/ MarkValidatedSuccess(a)
    <3>1. /\ attempt[a].stage # "none" /\ \A b \in Attempts : b # a => attempt'[b] = attempt[b]
          /\ now' = now /\ (circuit' = circuit \/ circuit'.state = "Closed")
      BY <2>0, <2>3 DEF MarkBegin, MarkValidatedSuccess, Recovered
    <3> QED BY <1>1, <2>2, <3>1 DEF CooldownInv
  <2>4. CASE EndAttempt(a)
    <3>1. /\ attempt[a].stage # "none" /\ \A b \in Attempts : b # a => attempt'[b] = attempt[b]
          /\ now' = now /\ circuit' = circuit
      BY <2>0, <2>4 DEF EndAttempt, Succeed, Fail, Abandon, FinishBegin
    <3> QED BY <1>1, <2>2, <3>1 DEF CooldownInv
  <2>5. CASE Finish(a)
    <3>1. /\ attempt[a].stage # "none" /\ \A b \in Attempts : b # a => attempt'[b] = attempt[b]
          /\ now' = now
      BY <2>0, <2>5 DEF Finish, FinishSuccess, FinishQualifyingFailure, FinishOtherFailure,
                        FinishNeutral, Freed
    <3>2. \/ circuit'.state = "Closed"
          \/ /\ circuit'.state = circuit.state /\ circuit'.openedAt = circuit.openedAt
             /\ circuit'.retryAt = circuit.retryAt
          \/ circuit'.openedAt = circuit.openedAt /\ circuit.state = "HalfOpen"
          \/ circuit'.state = "Open" /\ circuit'.retryAt = circuit'.openedAt + Cooldown
      <4>1. CASE FinishSuccess(a)
        BY <1>2, <4>1 DEF FinishSuccess, Recovered, Circuit
      <4>2. CASE FinishQualifyingFailure(a)
        BY <1>2, <4>2 DEF FinishQualifyingFailure, Opened, Circuit
      <4>3. CASE FinishOtherFailure(a)
        BY <1>2, <4>3 DEF FinishOtherFailure, ReleaseProbeSlot, Circuit
      <4>4. CASE FinishNeutral(a)
        BY <1>2, <4>4 DEF FinishNeutral, ReopenAbandonedProbe
      <4> QED BY <2>5, <4>1, <4>2, <4>3, <4>4 DEF Finish
    <3>3. circuit'.openedAt \in Nat /\ circuit'.retryAt \in Nat
      BY <1>2 DEF Circuit
    <3> QED BY <1>1, <1>2, <2>2, <3>1, <3>2, <3>3 DEF CooldownInv
  <2> QED BY <1>5, <2>1, <2>3, <2>4, <2>5 DEF Step
<1> QED BY <1>3, <1>4, <1>5 DEF Next

\* Once a failure has opened the circuit nothing is sent for the whole cooldown
\* (begin_attempt_with_policy, reopen_abandoned_probe).
THEOREM CooldownAlwaysRespected == Spec => CooldownIsRespected
<1>1. Init => CooldownInv
  BY InitTypes DEF Init, InitCircuit, CooldownInv
<1> QED BY <1>1, CooldownStep, PTL DEF Spec, CooldownIsRespected

-----------------------------------------------------------------------------
(* The abstract breaker. *)

\* Beginning to mark or to finish an attempt does not move the lease.
LEMMA HoldersStay ==
  ASSUME IInv, NEW a \in Attempts, MarkBegin(a) \/ EndAttempt(a)
  PROVE  Holders' = Holders
<1>1. attempt \in [Attempts -> Attempt] /\ attempt[a] \in Attempt /\ now \in Nat
  BY DEF IInv, TypeOK
<1>2. CASE MarkBegin(a)
  <2> DEFINE q == [attempt[a] EXCEPT !.validated = TRUE]
             r == At(q, "marking", now)
  <2>1. attempt'[a] = r /\ \A b \in Attempts : b # a => attempt'[b] = attempt[b]
    BY <1>1, <1>2 DEF MarkBegin
  <2>2. q \in Attempt /\ q.probe = attempt[a].probe
    BY <1>1 DEF Attempt
  <2>3. r.stage = "marking" /\ r.probe = q.probe
    BY <1>1, <2>2, AtTypes
  <2>4. attempt[a].stage = "running" /\ ~attempt[a].validated
    BY <1>2 DEF MarkBegin
  <2> HIDE DEF r, q
  <2> QED BY <2>1, <2>2, <2>3, <2>4 DEF Holders
<1>3. CASE EndAttempt(a)
  <2>1. PICK outcome \in {"success", "qualifying", "other", "neutral"} : FinishBegin(a, outcome)
    BY <1>3 DEF EndAttempt, Succeed, Fail, Abandon, FailureOutcomes
  <2> DEFINE q == [attempt[a] EXCEPT !.outcome = outcome]
             r == At(q, "finishing", now)
  <2>2. attempt'[a] = r /\ \A b \in Attempts : b # a => attempt'[b] = attempt[b]
    BY <1>1, <2>1 DEF FinishBegin
  <2>3. q \in Attempt /\ q.probe = attempt[a].probe /\ q.validated = attempt[a].validated
    BY <1>1 DEF Attempt
  <2>4. r.stage = "finishing" /\ r.probe = q.probe /\ r.validated = q.validated
    <3> HIDE DEF q
    <3> QED BY <1>1, <2>3, AtTypes
  <2>5. attempt[a].stage = "running"
    BY <2>1 DEF FinishBegin
  <2> HIDE DEF r, q
  <2> QED BY <2>2, <2>3, <2>4, <2>5 DEF Holders
<1> QED BY <1>2, <1>3

\* What the steps that end attempt a do to the lease, to the state and to the
\* other attempts.
LEMMA EndOfAttempt ==
  ASSUME IInv, NEW a \in Attempts, Finish(a) \/ MarkValidatedSuccess(a)
  PROVE  /\ \A b \in Attempts : b # a => attempt'[b] = attempt[b]
         /\ a \notin Holders'
         /\ a \notin Holders =>
              \/ circuit'.state = circuit.state
              \/ circuit.state = "Closed" /\ circuit'.state = "Open"
<1>1. circuit \in Circuit /\ attempt \in [Attempts -> Attempt] /\ attempt[a] \in Attempt
  BY DEF IInv, TypeOK
<1>2. CASE MarkValidatedSuccess(a)
  <2>1. attempt'[a] = At(attempt[a], "running", 0)
        /\ \A b \in Attempts : b # a => attempt'[b] = attempt[b]
    BY <1>1, <1>2 DEF MarkValidatedSuccess
  <2>2. attempt[a].validated /\ a \in Holders
    BY <1>2 DEF MarkValidatedSuccess, IInv, ValidatedAreProbes, Holders
  <2>3. /\ At(attempt[a], "running", 0).validated = attempt[a].validated
        /\ At(attempt[a], "running", 0).stage = "running"
    BY <1>1, AtTypes
  <2> QED BY <2>1, <2>2, <2>3 DEF Holders
<1>3. CASE Finish(a)
  <2>1. attempt[a].stage = "finishing" /\ Freed(a)
    BY <1>3 DEF Finish, FinishSuccess, FinishQualifyingFailure, FinishOtherFailure, FinishNeutral
  <2>2. attempt'[a] = NoAttempt /\ \A b \in Attempts : b # a => attempt'[b] = attempt[b]
    BY <1>1, <2>1 DEF Freed
  <2>3. a \notin Holders'
    BY <2>2 DEF Holders, NoAttempt
  <2>4. ASSUME a \notin Holders
        PROVE  \/ circuit'.state = circuit.state
               \/ circuit.state = "Closed" /\ circuit'.state = "Open"
    <3>1. attempt[a].generation # circuit.generation \/ circuit.state = "Closed"
      BY <1>1, <2>1, <2>4 DEF IInv, OthersArePast, Circuit, Attempt
    <3>2. CASE FinishSuccess(a)
      BY <1>1, <3>1, <3>2 DEF FinishSuccess, Recovered, Circuit
    <3>3. CASE FinishQualifyingFailure(a)
      BY <1>1, <3>1, <3>3 DEF FinishQualifyingFailure, OwnsState, Opened, Circuit
    <3>4. CASE FinishOtherFailure(a)
      BY <1>1, <3>1, <3>4 DEF FinishOtherFailure, OwnsState, ReleaseProbeSlot, Circuit
    <3>5. CASE FinishNeutral(a)
      BY <1>1, <3>1, <3>5 DEF FinishNeutral, ReopenAbandonedProbe
    <3> QED BY <1>3, <3>2, <3>3, <3>4, <3>5 DEF Finish
  <2> QED BY <2>2, <2>3, <2>4
<1> QED BY <1>2, <1>3

\* Every step of the circuit is a step of the abstract breaker, or leaves its
\* state as it is.
LEMMA BreakerStep == IInv /\ IInv' /\ [Next]_vars => [Lease!Next]_(Lease!vars)
<1> SUFFICES ASSUME IInv, IInv', [Next]_vars PROVE [Lease!Next]_(Lease!vars)
  OBVIOUS
<1>1. /\ circuit \in Circuit /\ circuit' \in Circuit
      /\ circuit'.state \in {"Closed", "Open", "HalfOpen"}
      /\ attempt \in [Attempts -> Attempt]
  BY DEF IInv, TypeOK, Circuit
<1>2. ASSUME Holders' = Holders, circuit'.state = circuit.state
      PROVE  UNCHANGED Lease!vars
  BY <1>2 DEF Lease!vars, prober
<1>3. ASSUME Holders' = Holders, circuit.state = "Closed", circuit'.state = "Open"
      PROVE  Lease!Trip
  BY <1>3 DEF Lease!Trip, prober
<1>4. CASE UNCHANGED vars \/ CheckAvailable \/ Tick
  <2>1. attempt' = attempt /\ circuit'.state = circuit.state
    BY <1>1, <1>4 DEF vars, CheckAvailable, Tick, Circuit
  <2>2. Holders' = Holders
    BY <2>1 DEF Holders
  <2> QED BY <1>2, <2>1, <2>2
<1>5. ASSUME NEW a \in Attempts, Step(a) PROVE [Lease!Next]_(Lease!vars)
  <2>0. attempt[a] \in Attempt
    BY <1>1
  <2>1. ASSUME NEW account \in Accounts, NEW target \in Targets,
               BeginAttempt(a, account, target)
        PROVE  [Lease!Next]_(Lease!vars)
    <3>1. /\ circuit.state = "Closed" => circuit'.state = "Closed"
          /\ circuit.state # "Closed" => circuit'.state = "HalfOpen"
      BY <1>1, <2>1 DEF BeginAttempt, Circuit
    <3>2. /\ \A b \in Attempts : b # a => attempt'[b] = attempt[b]
          /\ attempt[a].stage = "none" /\ attempt'[a].stage = "running"
          /\ ~attempt'[a].validated
          /\ attempt'[a].probe <=> circuit.state # "Closed"
      BY <1>1, <2>1 DEF BeginAttempt
    <3>3. CASE circuit.state = "Closed"
      <4>1. Holders' = Holders
        BY <3>2, <3>3 DEF Holders
      <4> QED BY <1>2, <3>1, <3>3, <4>1
    <3>4. CASE circuit.state # "Closed"
      <4>1. Holders = {}
        BY <1>1, <2>1, <3>4 DEF BeginAttempt, Rejects, IInv, LeaseHeldByOneProbe, Circuit
      <4>2. Holders' = {a}
        BY <3>2, <3>4, <4>1 DEF Holders
      <4>3. prober = NoProber /\ prober' = a
        BY <4>1, <4>2 DEF prober
      <4> QED BY <3>1, <3>4, <4>3 DEF Lease!Next, Lease!Admit
    <3> QED BY <3>3, <3>4
  <2>2. CASE MarkBegin(a) \/ EndAttempt(a)
    <3>1. circuit' = circuit
      BY <2>2 DEF MarkBegin, EndAttempt, Succeed, Fail, Abandon, FinishBegin
    <3>2. Holders' = Holders
      BY HoldersStay, <2>2
    <3> QED BY <1>2, <3>1, <3>2
  <2>3. CASE Finish(a) \/ MarkValidatedSuccess(a)
    <3>1. /\ \A b \in Attempts : b # a => attempt'[b] = attempt[b]
          /\ a \notin Holders'
          /\ a \notin Holders =>
               \/ circuit'.state = circuit.state
               \/ circuit.state = "Closed" /\ circuit'.state = "Open"
      BY <2>3, EndOfAttempt
    <3>2. CASE a \in Holders
      <4>1. Holders = {a}
        BY <3>2 DEF IInv, LeaseHeldByOneProbe
      <4>2. Holders' = {}
        BY <3>1, <4>1 DEF Holders
      <4>3. prober = a /\ prober' = NoProber
        BY <4>1, <4>2 DEF prober
      <4> QED BY <1>1, <4>3 DEF Lease!Next, Lease!Verdict
    <3>3. CASE a \notin Holders
      <4>1. Holders' = Holders
        BY <3>1, <3>3 DEF Holders
      <4> QED BY <1>2, <1>3, <3>1, <3>3, <4>1 DEF Lease!Next
    <3> QED BY <3>2, <3>3
  <2> QED BY <1>5, <2>1, <2>2, <2>3 DEF Step
<1> QED BY <1>4, <1>5 DEF Next

\* The circuit implements the abstract breaker: one attempt at a time probes a
\* provider whose circuit is not closed, and only its verdict changes the state
\* (begin_attempt_with_policy, mark_validated_success, finish_*, Drop).
THEOREM RefinesProbeLease == Spec => ImplementsProbeLease
<1>1. Init => Lease!Init
  <2>1. Init => Holders = {} /\ circuit.state = "Closed"
    BY IInvInit DEF Init, InitCircuit
  <2> QED BY <2>1 DEF Lease!Init, prober
<1>2. IInv /\ IInv' /\ [Next]_vars => [Lease!Next]_(Lease!vars)
  BY BreakerStep
<1>3. Init => IInv
  BY IInvInit
<1> QED BY <1>1, <1>2, <1>3, IInvNext, PTL DEF Spec, ImplementsProbeLease, Lease!Spec
=============================================================================
