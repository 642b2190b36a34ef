------------------------ MODULE UpstreamTrafficProofs ------------------------
(***************************************************************************)
(* Proofs about a target's controller, for any number of requests and any  *)
(* moves of the limit: its in-flight counter is the number of permits that *)
(* are out, its limit grows once per window at most, and what looks        *)
(* healthy is an open stream.                                              *)
(***************************************************************************)
EXTENDS UpstreamTraffic, FiniteSetTheorems, SequenceTheorems, TLAPS

CountTypes ==
  /\ inflight \in Nat
  /\ stage \in [Requests -> Stage]
  /\ queue \in Seq(Requests)

\* A wake-up never goes to somebody who holds a permit: whoever is in the queue
\* is parked there, at one place.
Parked(places, where) ==
  /\ \A i \in 1..Len(places) : where[places[i]] = "waiting"
  /\ \A i, j \in 1..Len(places) : places[i] = places[j] => i = j

CountInv == CountTypes /\ Parked(queue, stage) /\ InflightIsPermits

-----------------------------------------------------------------------------
\* There are finitely many requests, so the holders can be counted.
LEMMA HoldersFinite == IsFiniteSet(Holders) /\ Cardinality(Holders) \in Nat
<1>1. Holders \subseteq Requests
  BY DEF Holders
<1> QED BY <1>1, ConstantsAssumption, FS_Subset, FS_CardinalityType

\* Removing a place from the queue keeps the others.
LEMMA RemovePlace ==
  ASSUME NEW q \in Seq(Requests), NEW n \in 1..Len(q)
  PROVE  /\ RemoveAt(q, n) \in Seq(Requests)
         /\ Len(RemoveAt(q, n)) = Len(q) - 1
         /\ \A i \in 1..Len(q) - 1 : RemoveAt(q, n)[i] = q[IF i < n THEN i ELSE i + 1]
<1> DEFINE front == SubSeq(q, 1, n - 1)
           back == SubSeq(q, n + 1, Len(q))
<1>1. Len(q) \in Nat /\ n \in Int /\ 1 <= n /\ n <= Len(q)
  BY LenProperties
<1>2. front \in Seq(Requests) /\ Len(front) = n - 1 /\ \A i \in 1..n - 1 : front[i] = q[i]
  BY <1>1, SubSeqProperties
<1>3. back \in Seq(Requests) /\ Len(back) = Len(q) - n /\ \A i \in 1..Len(q) - n : back[i] = q[n + i]
  BY <1>1, SubSeqProperties
<1>4. RemoveAt(q, n) = front \o back
  BY DEF RemoveAt
<1> HIDE DEF front, back
<1>5. /\ front \o back \in Seq(Requests)
      /\ Len(front \o back) = Len(front) + Len(back)
      /\ \A i \in 1..Len(front) + Len(back) :
           (front \o back)[i] = IF i <= Len(front) THEN front[i] ELSE back[i - Len(front)]
  BY <1>2, <1>3, ConcatProperties
<1>6. Len(front \o back) = Len(q) - 1
  BY <1>1, <1>2, <1>3, <1>5
<1>7. ASSUME NEW i \in 1..Len(q) - 1
      PROVE  (front \o back)[i] = q[IF i < n THEN i ELSE i + 1]
  <2>1. CASE i < n
    <3>1. i \in 1..n - 1 /\ i \in 1..Len(front) + Len(back) /\ i <= Len(front)
      BY <1>1, <1>2, <1>3, <2>1
    <3> QED BY <1>2, <1>5, <2>1, <3>1
  <2>2. CASE ~(i < n)
    <3>1. /\ i \in 1..Len(front) + Len(back) /\ ~(i <= Len(front))
          /\ i - Len(front) \in 1..Len(q) - n /\ n + (i - Len(front)) = i + 1
      BY <1>1, <1>2, <1>3, <2>2
    <3> QED BY <1>3, <1>5, <2>2, <3>1
  <2> QED BY <2>1, <2>2
<1> QED BY <1>4, <1>5, <1>6, <1>7

\* Whoever leaves the queue leaves it parked.
LEMMA LeaveKeepsParked ==
  ASSUME NEW r \in Requests, NEW s, CountTypes, Parked(queue, stage),
         LeaveQueue(r), stage' = [stage EXCEPT ![r] = s]
  PROVE  queue' \in Seq(Requests) /\ Parked(queue', stage')
<1>1. PICK n \in 1..Len(queue) : queue[n] = r /\ queue' = RemoveAt(queue, n)
  BY DEF LeaveQueue
<1>2. queue \in Seq(Requests) /\ Len(queue) \in Nat
  BY LenProperties DEF CountTypes
<1>3. /\ queue' \in Seq(Requests) /\ Len(queue') = Len(queue) - 1
      /\ \A i \in 1..Len(queue) - 1 : queue'[i] = queue[IF i < n THEN i ELSE i + 1]
  BY <1>1, <1>2, RemovePlace
<1>4. ASSUME NEW i \in 1..Len(queue')
      PROVE  stage'[queue'[i]] = "waiting"
  <2> DEFINE k == IF i < n THEN i ELSE i + 1
  <2>1. k \in 1..Len(queue) /\ k # n /\ queue'[i] = queue[k]
    BY <1>1, <1>2, <1>3
  <2>2. queue[k] \in Requests /\ queue[k] # r /\ stage[queue[k]] = "waiting"
    BY <1>1, <1>2, <2>1 DEF Parked
  <2> HIDE DEF k
  <2> QED BY <2>1, <2>2 DEF CountTypes
<1>5. ASSUME NEW i \in 1..Len(queue'), NEW j \in 1..Len(queue'), queue'[i] = queue'[j]
      PROVE  i = j
  <2> DEFINE k(h) == IF h < n THEN h ELSE h + 1
  <2>1. k(i) \in 1..Len(queue) /\ k(j) \in 1..Len(queue) /\ queue[k(i)] = queue[k(j)]
    BY <1>1, <1>2, <1>3, <1>5
  <2>2. k(i) = k(j)
    BY <2>1 DEF Parked
  <2> QED BY <1>2, <1>3, <2>2
<1> QED BY <1>3, <1>4, <1>5 DEF Parked

\* A request that is not parked may move without disturbing the queue.
LEMMA MoveKeepsParked ==
  ASSUME NEW r \in Requests, NEW s, CountTypes, Parked(queue, stage), stage[r] # "waiting",
         stage' = [stage EXCEPT ![r] = s]
  PROVE  Parked(queue, stage')
<1>1. queue \in Seq(Requests) /\ stage \in [Requests -> Stage]
  BY DEF CountTypes
<1>2. ASSUME NEW i \in 1..Len(queue) PROVE stage'[queue[i]] = "waiting"
  <2>1. queue[i] \in Requests /\ stage[queue[i]] = "waiting"
    BY <1>1 DEF Parked
  <2> QED BY <1>1, <2>1
<1> QED BY <1>2 DEF Parked

\* A move between stages without a permit leaves the holders as they are.
LEMMA MoveKeepsHolders ==
  ASSUME NEW r \in Requests, NEW s \in Stage, CountTypes, stage[r] # "held", s # "held",
         stage' = [stage EXCEPT ![r] = s]
  PROVE  stage' \in [Requests -> Stage] /\ Holders' = Holders
<1>1. stage \in [Requests -> Stage]
  BY DEF CountTypes
<1>2. ASSUME NEW q \in Requests PROVE stage'[q] = "held" <=> stage[q] = "held"
  BY <1>1
<1> QED BY <1>1, <1>2 DEF Holders

\* A wake-up takes nobody's permit, and leaves the others parked.
LEMMA WakeKeeps ==
  ASSUME NEW r \in Requests, CountTypes, Parked(queue, stage),
         stage[r] # "waiting", stage[r] # "held",
         NotifyOne([stage EXCEPT ![r] = "idle"])
  PROVE  /\ stage' \in [Requests -> Stage] /\ queue' \in Seq(Requests)
         /\ Parked(queue', stage') /\ Holders' = Holders
<1>1. stage \in [Requests -> Stage] /\ queue \in Seq(Requests)
  BY DEF CountTypes
<1>2. CASE queue = <<>>
  <2>1. stage' = [stage EXCEPT ![r] = "idle"] /\ queue' = queue
    BY <1>2 DEF NotifyOne
  <2>2. "idle" \in Stage /\ "idle" # "held"
    BY DEF Stage
  <2> QED BY <1>1, <2>1, <2>2, MoveKeepsParked, MoveKeepsHolders
<1>3. CASE queue # <<>>
  <2> DEFINE head == queue[1]
  <2>1. /\ stage' = [[stage EXCEPT ![r] = "idle"] EXCEPT ![head] = "woken"]
        /\ queue' = Tail(queue)
    BY <1>1, <1>3, HeadTailProperties DEF NotifyOne
  <2>2. /\ queue' \in Seq(Requests) /\ Len(queue) \in Nat /\ 1 \in 1..Len(queue)
        /\ Len(queue') = Len(queue) - 1
        /\ \A i \in 1..Len(queue) - 1 : queue'[i] = queue[i + 1]
    BY <1>1, <1>3, <2>1, HeadTailProperties, LenProperties, EmptySeq
  <2>3. head \in Requests /\ stage[head] = "waiting" /\ head # r
    BY <1>1, <2>2 DEF Parked
  <2> HIDE DEF head
  <2>4. /\ stage' \in [Requests -> Stage]
        /\ \A q \in Requests :
             stage'[q] = IF q = head THEN "woken" ELSE IF q = r THEN "idle" ELSE stage[q]
    BY <1>1, <2>1 DEF Stage
  <2>5. Holders' = Holders
    BY <2>3, <2>4 DEF Holders
  <2>6. ASSUME NEW i \in 1..Len(queue')
        PROVE  stage'[queue'[i]] = "waiting"
    <3>1. i + 1 \in 1..Len(queue) /\ i + 1 # 1 /\ queue'[i] = queue[i + 1]
      BY <2>2
    <3>2. queue[i + 1] \in Requests /\ queue[i + 1] # head /\ stage[queue[i + 1]] = "waiting"
      BY <1>1, <2>2, <3>1 DEF Parked, head
    <3> QED BY <2>4, <3>1, <3>2
  <2>7. ASSUME NEW i \in 1..Len(queue'), NEW j \in 1..Len(queue'), queue'[i] = queue'[j]
        PROVE  i = j
    <3>1. i + 1 \in 1..Len(queue) /\ j + 1 \in 1..Len(queue) /\ queue[i + 1] = queue[j + 1]
      BY <2>2, <2>7
    <3>2. i + 1 = j + 1
      BY <3>1 DEF Parked
    <3> QED BY <2>2, <3>2
  <2> QED BY <2>2, <2>4, <2>5, <2>6, <2>7 DEF Parked
<1> QED BY <1>2, <1>3

\* acquire with capacity: a permit more.
LEMMA AdmitCounts ==
  ASSUME NEW r \in Requests, CountInv, Admit(r)
  PROVE  CountInv'
<1>1. /\ stage \in [Requests -> Stage] /\ queue \in Seq(Requests) /\ inflight \in Nat
      /\ stage[r] = "check" /\ stage' = [stage EXCEPT ![r] = "held"]
      /\ inflight' = inflight + 1 /\ queue' = queue
  BY DEF CountInv, CountTypes, Admit, At, notify
<1>2. stage' \in [Requests -> Stage] /\ Parked(queue', stage')
  BY <1>1, MoveKeepsParked DEF CountInv, Stage
<1>3. Holders' = Holders \cup {r} /\ r \notin Holders
  BY <1>1 DEF Holders
<1>4. Cardinality(Holders') = Cardinality(Holders) + 1
  BY <1>3, HoldersFinite, FS_AddElement
<1> QED BY <1>1, <1>2, <1>4 DEF CountInv, CountTypes, InflightIsPermits

\* finish and drop alike give one permit back; the counter is not at zero.
LEMMA ReleaseCounts ==
  ASSUME NEW r \in Requests, CountInv, stage[r] = "held",
         stage' = [stage EXCEPT ![r] = "release"], inflight' = Released, queue' = queue
  PROVE  CountInv'
<1>1. stage \in [Requests -> Stage] /\ queue \in Seq(Requests) /\ inflight \in Nat
  BY DEF CountInv, CountTypes
<1>2. stage' \in [Requests -> Stage] /\ Parked(queue', stage')
  BY <1>1, MoveKeepsParked DEF CountInv, Stage
<1>3. Holders' = Holders \ {r} /\ r \in Holders
  BY <1>1 DEF Holders
<1>4. Cardinality(Holders') = Cardinality(Holders) - 1
  BY <1>3, HoldersFinite, FS_RemoveElement
<1>5. Holders # {} /\ Cardinality(Holders) # 0
  BY <1>3, HoldersFinite, FS_EmptySet
<1>6. inflight # 0 /\ inflight' = inflight - 1
  BY <1>5 DEF CountInv, InflightIsPermits, Released
<1> QED BY <1>1, <1>2, <1>4, <1>6 DEF CountInv, CountTypes, InflightIsPermits

\* A step that moves nobody in or out of the holders.
LEMMA SameHolders ==
  ASSUME CountInv, inflight' = inflight, Holders' = Holders,
         stage' \in [Requests -> Stage], queue' \in Seq(Requests), Parked(queue', stage')
  PROVE  CountInv'
BY DEF CountInv, CountTypes, InflightIsPermits

\* A request without a permit goes from one stage to another, beside the queue.
LEMMA PlainMove ==
  ASSUME NEW r \in Requests, NEW s \in Stage, CountInv, stage[r] # "held", stage[r] # "waiting",
         s # "held", stage' = [stage EXCEPT ![r] = s], inflight' = inflight, queue' = queue
  PROVE  CountInv'
<1>1. CountTypes /\ Parked(queue, stage) /\ queue \in Seq(Requests)
  BY DEF CountInv, CountTypes
<1>2. Parked(queue', stage')
  BY <1>1, MoveKeepsParked
<1>3. stage' \in [Requests -> Stage] /\ Holders' = Holders
  BY <1>1, MoveKeepsHolders
<1> QED BY <1>1, <1>2, <1>3, SameHolders

-----------------------------------------------------------------------------
\* A new controller (Controller::default) counts no permits.
LEMMA CountInit == Init => CountInv
<1> SUFFICES ASSUME Init PROVE CountInv
  OBVIOUS
<1>1. /\ inflight = 0 /\ queue = <<>> /\ stage = [r \in Requests |-> "idle"]
  BY DEF Init
<1>2. Holders = {} /\ Cardinality(Holders) = 0
  BY <1>1, FS_EmptySet DEF Holders
<1>3. CountTypes
  BY <1>1 DEF CountTypes, Stage
<1>4. Parked(queue, stage)
  BY <1>1 DEF Parked
<1> QED BY <1>1, <1>2, <1>3, <1>4 DEF CountInv, InflightIsPermits

\* A request takes a place in the queue.
LEMMA ParkCounts ==
  ASSUME NEW r \in Requests, CountInv, stage[r] = "poll",
         stage' = [stage EXCEPT ![r] = "waiting"], queue' = Append(queue, r),
         inflight' = inflight
  PROVE  CountInv'
<1>1. CountTypes /\ stage \in [Requests -> Stage] /\ queue \in Seq(Requests) /\ Len(queue) \in Nat
  BY LenProperties DEF CountInv, CountTypes
<1>2. stage' \in [Requests -> Stage] /\ Holders' = Holders
  BY <1>1, MoveKeepsHolders DEF Stage
<1>3. /\ queue' \in Seq(Requests) /\ Len(queue') = Len(queue) + 1
      /\ \A i \in 1..Len(queue) : queue'[i] = queue[i]
      /\ queue'[Len(queue) + 1] = r
  BY <1>1, AppendProperties
<1>4. ASSUME NEW i \in 1..Len(queue)
      PROVE  /\ queue[i] \in Requests /\ stage[queue[i]] = "waiting" /\ queue[i] # r
             /\ stage'[queue[i]] = "waiting"
  BY <1>1 DEF CountInv, Parked
<1>5. stage'[r] = "waiting"
  BY <1>1
<1>6. \A i \in 1..Len(queue') : i \in 1..Len(queue) \/ i = Len(queue) + 1
  BY <1>1, <1>3
<1>7. \A i \in 1..Len(queue') : stage'[queue'[i]] = "waiting"
  BY <1>3, <1>4, <1>5, <1>6
<1>8. \A i, j \in 1..Len(queue') : queue'[i] = queue'[j] => i = j
  BY <1>3, <1>4, <1>6 DEF CountInv, Parked
<1> QED BY <1>2, <1>3, <1>7, <1>8, SameHolders DEF Parked

\* Every step keeps the counter right.
LEMMA CountStep == CountInv /\ [Next]_vars => CountInv'
<1> SUFFICES ASSUME CountInv, [Next]_vars PROVE CountInv'
  OBVIOUS
<1> USE DEF At, controller, notify
<1>1. CountTypes /\ Parked(queue, stage) /\ queue \in Seq(Requests) /\ stage \in [Requests -> Stage]
  BY DEF CountInv, CountTypes
<1>2. {"idle", "check", "poll", "held", "release"} \subseteq Stage
  BY DEF Stage
<1>3. ASSUME NEW r \in Requests, Acquire(r) PROVE CountInv'
  BY <1>2, <1>3, PlainMove DEF Acquire
<1>4. ASSUME NEW r \in Requests, Admit(r) PROVE CountInv'
  BY <1>4, AdmitCounts
<1>5. ASSUME NEW r \in Requests, Full(r) PROVE CountInv'
  BY <1>2, <1>5, PlainMove DEF Full
<1>6. ASSUME NEW r \in Requests, Poll(r) PROVE CountInv'
  <2>1. stage[r] = "poll" /\ inflight' = inflight
    BY <1>6 DEF Poll
  <2>2. CASE stage' = [stage EXCEPT ![r] = "check"] /\ queue' = queue
    BY <1>2, <2>1, <2>2, PlainMove
  <2>3. CASE stage' = [stage EXCEPT ![r] = "idle"] /\ queue' = queue
    BY <1>2, <2>1, <2>3, PlainMove
  <2>4. CASE stage' = [stage EXCEPT ![r] = "waiting"] /\ queue' = Append(queue, r)
    BY <2>1, <2>4, ParkCounts
  <2> QED BY <1>6, <2>2, <2>3, <2>4 DEF Poll
<1>7. ASSUME NEW r \in Requests, Resume(r) PROVE CountInv'
  BY <1>2, <1>7, PlainMove DEF Resume
<1>8. ASSUME NEW r \in Requests, stage[r] = "waiting", stage' = [stage EXCEPT ![r] = "idle"],
             LeaveQueue(r), inflight' = inflight
      PROVE  CountInv'
  <2>1. stage' \in [Requests -> Stage] /\ Holders' = Holders
    BY <1>1, <1>2, <1>8, MoveKeepsHolders
  <2>2. queue' \in Seq(Requests) /\ Parked(queue', stage')
    BY <1>1, <1>8, LeaveKeepsParked
  <2> QED BY <1>8, <2>1, <2>2, SameHolders
<1>9. ASSUME NEW r \in Requests, Expire(r) PROVE CountInv'
  BY <1>8, <1>9 DEF Expire
<1>10. ASSUME NEW r \in Requests, stage[r] \in {"woken", "release"},
              NotifyOne([stage EXCEPT ![r] = "idle"]), inflight' = inflight
       PROVE  CountInv'
  <2>1. /\ stage' \in [Requests -> Stage] /\ queue' \in Seq(Requests)
        /\ Parked(queue', stage') /\ Holders' = Holders
    BY <1>1, <1>10, WakeKeeps
  <2> QED BY <1>10, <2>1, SameHolders
<1>11. ASSUME NEW r \in Requests, DropWaiting(r) PROVE CountInv'
  BY <1>8, <1>10, <1>11 DEF DropWaiting
<1>12. ASSUME NEW r \in Requests, Notify(r) PROVE CountInv'
  BY <1>10, <1>12 DEF Notify
<1>13. ASSUME inflight' = inflight, stage' = stage, queue' = queue PROVE CountInv'
  BY <1>13 DEF CountInv, CountTypes, Parked, InflightIsPermits, Holders
<1>14. ASSUME NEW r \in Requests, MarkFirstEvent(r) PROVE CountInv'
  BY <1>13, <1>14 DEF MarkFirstEvent
<1>15. ASSUME NEW r \in Requests, Finish(r) PROVE CountInv'
  BY <1>15, ReleaseCounts DEF Finish
<1>16. ASSUME NEW r \in Requests, DropPermit(r) PROVE CountInv'
  BY <1>16, ReleaseCounts DEF DropPermit
<1>17. CASE Tick
  BY <1>13, <1>17 DEF Tick
<1>18. CASE UNCHANGED vars
  BY <1>13, <1>18 DEF vars
<1> QED
  BY <1>3, <1>4, <1>5, <1>6, <1>7, <1>9, <1>11, <1>12, <1>14, <1>15, <1>16, <1>17, <1>18
  DEF Next, Proceed

\* However requests end, are dropped, time out or wake each other, the in-flight
\* counter of a target is the number of permits that are out
\* (UpstreamTraffic::acquire, TrafficPermit::finish and drop).
THEOREM InflightCounts == Spec => []InflightIsPermits
<1>1. CountInv => InflightIsPermits
  BY DEF CountInv
<1> QED BY <1>1, CountInit, CountStep, PTL DEF Spec

-----------------------------------------------------------------------------
(* The limit and the health of the target. *)

ControllerTypes ==
  /\ now \in 0..MaxTime
  /\ limit \in MinLimit..MaxLimit
  /\ ttftAt \in Instant /\ lastUpdate \in Instant /\ windowMax \in Nat
  /\ provisional \in [Requests -> Instant]
  /\ failureAt \in [overload : Instant, error : Instant]
  /\ raisedAt \in Instant

LocalTypes ==
  /\ deadline \in [Requests -> Instant]
  /\ start \in [Requests -> Nat]
  /\ stored \in BOOLEAN

\* A window never begins before the limit was last raised.
WindowAfterRaise ==
  raisedAt # None =>
    /\ lastUpdate # None
    /\ raisedAt <= lastUpdate /\ lastUpdate <= now

WindowsPast == lastUpdate # None => lastUpdate <= now

\* Only the holder of a permit is provisionally healthy.
HealthyAreHeld == \A r \in Requests : provisional[r] # None => stage[r] = "held"

HealthInv ==
  /\ CountInv /\ ControllerTypes /\ LocalTypes
  /\ WindowsPast /\ WindowAfterRaise /\ HealthyAreHeld

LEMMA ClampInRange == \A n \in Int : Clamp(n) \in MinLimit..MaxLimit
BY ConstantsAssumption DEF Clamp

\* A multiplicative decrease never raises the limit, whatever its fraction was.
LEMMA ScaledLowers ==
  ASSUME limit \in MinLimit..MaxLimit, NEW tenths \in {7, 8}, NEW n \in Scaled(tenths)
  PROVE  n \in MinLimit..MaxLimit /\ n <= limit
<1>1. PICK k \in (tenths * limit) \div 10 .. (tenths * limit + tenths - 1) \div 10 : n = Clamp(k)
  BY DEF Scaled
<1>2. MinLimit \in Nat /\ MaxLimit \in Nat /\ limit \in Nat /\ MinLimit <= limit /\ limit <= MaxLimit
  BY ConstantsAssumption
<1>3. k \in Int /\ k <= limit
  <2>1. CASE tenths = 7
    <3>1. k <= (7 * limit + 7 - 1) \div 10
      BY <1>1, <2>1
    <3>2. (7 * limit + 7 - 1) \div 10 <= limit
      BY <1>2
    <3> QED BY <1>1, <1>2, <3>1, <3>2
  <2>2. CASE tenths = 8
    <3>1. k <= (8 * limit + 8 - 1) \div 10
      BY <1>1, <2>2
    <3>2. (8 * limit + 8 - 1) \div 10 <= limit
      BY <1>2
    <3> QED BY <1>1, <1>2, <3>1, <3>2
  <2> QED BY <2>1, <2>2
<1> QED BY <1>1, <1>2, <1>3 DEF Clamp

\* finish leaves the limit in its range, and never raises it.
LEMMA LimitsLower ==
  ASSUME limit \in MinLimit..MaxLimit, NEW r, NEW outcome, NEW n \in Limits(r, outcome)
  PROVE  n \in MinLimit..MaxLimit /\ n <= limit
<1>1. limit \in Nat
  BY ConstantsAssumption
<1>2. n \in Scaled(7) \/ n \in Scaled(8) \/ n = limit
  BY DEF Limits
<1> QED BY <1>1, <1>2, ScaledLowers

LEMMA FailureAtType ==
  ASSUME ControllerTypes, NEW outcome
  PROVE  FailureAt(outcome) \in [overload : Instant, error : Instant]
<1>1. now \in Instant
  BY ConstantsAssumption DEF ControllerTypes, Instant
<1> HIDE DEF Instant
<1> QED BY <1>1 DEF ControllerTypes, FailureAt

\* record_ttft: the limit stays in its range, it moves only when a window is
\* over, and a window that begins or goes on is in the past.
LEMMA TtftWindows ==
  ASSUME ControllerTypes, LocalTypes, WindowsPast, NEW r \in Requests, RecordTtft(r)
  PROVE  /\ limit' \in MinLimit..MaxLimit
         /\ ttftAt' \in Instant /\ lastUpdate' \in Instant /\ windowMax' \in Nat
         /\ lastUpdate' # None /\ lastUpdate' <= now
         /\ lastUpdate # None => lastUpdate <= lastUpdate'
         /\ limit' # limit => /\ lastUpdate # None /\ now - lastUpdate >= UpdateInterval
                              /\ lastUpdate' = now
<1>1. /\ now \in Nat /\ now \in Instant /\ now # None /\ limit \in Nat /\ UpdateInterval \in Nat
      /\ start[r] \in Nat /\ windowMax \in Nat /\ lastUpdate \in Instant /\ limit \in MinLimit..MaxLimit
  BY ConstantsAssumption DEF ControllerTypes, LocalTypes, Instant
<1>2. WindowMax(r) \in Nat
  BY <1>1 DEF WindowMax
<1>3. LastUpdate # None => LastUpdate = lastUpdate /\ lastUpdate \in Nat /\ lastUpdate <= now
  BY <1>1 DEF LastUpdate, WindowsPast, Instant
<1>4. lastUpdate # None => lastUpdate \in Nat /\ lastUpdate <= now
  BY <1>1 DEF WindowsPast, Instant
<1>5. \A n \in Moved : n \in MinLimit..MaxLimit
  BY ClampInRange DEF Moved
<1>6. CASE LastUpdate = None
  BY <1>1, <1>2, <1>4, <1>6 DEF RecordTtft
<1>7. CASE LastUpdate # None /\ now - LastUpdate < UpdateInterval
  BY <1>1, <1>2, <1>3, <1>7 DEF RecordTtft
<1>8. CASE LastUpdate # None /\ ~(now - LastUpdate < UpdateInterval)
  <2>1. limit' \in Moved \cup {limit} /\ lastUpdate' = now /\ windowMax' = 0 /\ ttftAt' = now
    BY <1>8 DEF RecordTtft
  <2>2. limit' \in MinLimit..MaxLimit
    BY <1>1, <1>5, <2>1
  <2>3. now - lastUpdate >= UpdateInterval
    BY <1>1, <1>3, <1>8
  <2> QED BY <1>1, <1>3, <1>8, <2>1, <2>2, <2>3
<1> QED BY <1>6, <1>7, <1>8

\* A step that leaves the controller alone, and moves no holder.
LEMMA OthersKeepHealth ==
  ASSUME HealthInv, CountInv', UNCHANGED controller, now' = now, Holders \subseteq Holders',
         deadline' \in [Requests -> Instant], start' \in [Requests -> Nat], stored' \in BOOLEAN
  PROVE  HealthInv' /\ [GrowthWaits]_vars
<1>1. ControllerTypes' /\ WindowsPast' /\ WindowAfterRaise'
  BY DEF HealthInv, ControllerTypes, WindowsPast, WindowAfterRaise, controller
<1>2. HealthyAreHeld'
  BY DEF HealthInv, HealthyAreHeld, Holders, controller
<1>3. GrowthWaits
  BY ConstantsAssumption DEF GrowthWaits, controller, HealthInv, ControllerTypes
<1> QED BY <1>1, <1>2, <1>3 DEF HealthInv, LocalTypes

\* A permit that ends: the health that it lent its target ends with it.
LEMMA ReleaseKeepsHealth ==
  ASSUME HealthInv, CountInv', NEW r \in Requests,
         provisional' = [provisional EXCEPT ![r] = None],
         stage' = [stage EXCEPT ![r] = "release"],
         limit' \in MinLimit..MaxLimit, limit' <= limit,
         failureAt' \in [overload : Instant, error : Instant],
         UNCHANGED <<now, ttftAt, lastUpdate, windowMax, raisedAt, deadline, start, notify>>
  PROVE  HealthInv' /\ [GrowthWaits]_vars
<1>1. ControllerTypes' /\ LocalTypes' /\ WindowsPast' /\ WindowAfterRaise'
  BY DEF HealthInv, ControllerTypes, LocalTypes, WindowsPast, WindowAfterRaise, Instant, notify
<1>2. provisional \in [Requests -> Instant] /\ stage \in [Requests -> Stage]
  BY DEF HealthInv, ControllerTypes, CountInv, CountTypes
<1>3. HealthyAreHeld'
  BY <1>2 DEF HealthInv, HealthyAreHeld
<1>4. limit \in Nat /\ limit' \in Nat
  BY ConstantsAssumption DEF HealthInv, ControllerTypes
<1>5. GrowthWaits
  BY <1>4 DEF GrowthWaits
<1> QED BY <1>1, <1>3, <1>5 DEF HealthInv

LEMMA HealthStep == HealthInv /\ [Next]_vars => HealthInv' /\ [GrowthWaits]_vars
<1> SUFFICES ASSUME HealthInv, [Next]_vars PROVE HealthInv' /\ [GrowthWaits]_vars
  OBVIOUS
<1>1. CountInv /\ CountInv'
  BY CountStep DEF HealthInv
<1>2. /\ stage \in [Requests -> Stage] /\ queue \in Seq(Requests) /\ Parked(queue, stage)
      /\ inflight \in Nat /\ now \in Nat /\ None \in Instant /\ CountTypes
      /\ deadline \in [Requests -> Instant] /\ start \in [Requests -> Nat] /\ stored \in BOOLEAN
      /\ limit \in MinLimit..MaxLimit
  BY <1>1, ConstantsAssumption
     DEF HealthInv, CountInv, CountTypes, ControllerTypes, LocalTypes, Instant
<1>3. ASSUME NEW r \in Requests, NEW s, stage[r] # "held", stage' = [stage EXCEPT ![r] = s]
      PROVE  Holders \subseteq Holders'
  BY <1>2, <1>3 DEF Holders
<1>4. ASSUME NEW r \in Requests, Acquire(r) PROVE HealthInv' /\ [GrowthWaits]_vars
  <2>1. PICK wait \in Waits : deadline' = [deadline EXCEPT ![r] = IF wait = 0 THEN None ELSE now + wait]
    BY <1>4 DEF Acquire
  <2>2. deadline' \in [Requests -> Instant]
    BY <1>2, <2>1, ConstantsAssumption DEF Instant
  <2>3. Holders \subseteq Holders'
    BY <1>3, <1>4 DEF Acquire, At
  <2> QED BY <1>1, <1>2, <1>4, <2>2, <2>3, OthersKeepHealth DEF Acquire, notify
<1>5. ASSUME NEW r \in Requests, Admit(r) PROVE HealthInv' /\ [GrowthWaits]_vars
  <2>1. /\ deadline' \in [Requests -> Instant] /\ start' \in [Requests -> Nat]
        /\ UNCHANGED <<now, limit, ttftAt, lastUpdate, windowMax, provisional, failureAt,
                       raisedAt, stored>>
    BY <1>2, <1>5 DEF Admit, Returns, notify
  <2>2. ControllerTypes' /\ LocalTypes' /\ WindowsPast' /\ WindowAfterRaise'
    BY <1>2, <2>1 DEF HealthInv, ControllerTypes, LocalTypes, WindowsPast, WindowAfterRaise
  <2>3. HealthyAreHeld'
    BY <1>2, <1>5, <2>1 DEF HealthInv, HealthyAreHeld, Admit, At
  <2>4. limit \in Nat
    BY <1>2, ConstantsAssumption
  <2>5. GrowthWaits
    BY <2>1, <2>4 DEF GrowthWaits
  <2> QED BY <1>1, <2>2, <2>3, <2>5 DEF HealthInv
<1>6. ASSUME NEW r \in Requests, Full(r) \/ Resume(r) PROVE HealthInv' /\ [GrowthWaits]_vars
  <2>1. /\ UNCHANGED <<now, controller, deadline, start, notify>> /\ stage[r] # "held"
        /\ \E s : stage' = [stage EXCEPT ![r] = s]
    BY <1>6 DEF Full, Resume, At
  <2>2. Holders \subseteq Holders'
    BY <1>3, <2>1
  <2> QED BY <1>1, <1>2, <2>1, <2>2, OthersKeepHealth DEF notify
<1>7. ASSUME NEW r \in Requests, Poll(r) \/ Expire(r) PROVE HealthInv' /\ [GrowthWaits]_vars
  <2>1. /\ UNCHANGED <<now, controller, start>> /\ stage[r] # "held"
        /\ \E s : stage' = [stage EXCEPT ![r] = s]
        /\ deadline' \in [Requests -> Instant] /\ stored' \in BOOLEAN
    BY <1>2, <1>7 DEF Poll, Expire, At, Returns, notify
  <2>2. Holders \subseteq Holders'
    BY <1>3, <2>1
  <2> QED BY <1>1, <1>2, <2>1, <2>2, OthersKeepHealth
<1>8. ASSUME NEW r \in Requests, DropWaiting(r) \/ Notify(r)
      PROVE  HealthInv' /\ [GrowthWaits]_vars
  <2>1. /\ UNCHANGED <<now, controller>> /\ stage[r] # "held"
        /\ deadline' \in [Requests -> Instant] /\ start' \in [Requests -> Nat]
    <3>1. CASE DropWaiting(r)
      <4>1. UNCHANGED <<now, controller, start>> /\ stage[r] \in {"waiting", "woken"}
            /\ deadline' = [deadline EXCEPT ![r] = None]
        BY <3>1 DEF DropWaiting, Returns
      <4> QED BY <1>2, <4>1
    <3>2. CASE Notify(r)
      <4>1. UNCHANGED <<now, controller, deadline>> /\ stage[r] = "release"
            /\ start' = [start EXCEPT ![r] = 0]
        BY <3>2 DEF Notify
      <4> QED BY <1>2, <4>1
    <3> QED BY <1>8, <3>1, <3>2
  <2>2. CASE stored' = stored /\ stage' = [stage EXCEPT ![r] = "idle"]
    BY <1>1, <1>2, <1>3, <2>1, <2>2, OthersKeepHealth
  <2>3. CASE NotifyOne([stage EXCEPT ![r] = "idle"]) /\ stage[r] # "waiting"
    <3>1. Holders' = Holders
      BY <1>2, <2>1, <2>3, WakeKeeps
    <3>2. stored' \in BOOLEAN
      BY <1>2, <2>3 DEF NotifyOne
    <3> QED BY <1>1, <2>1, <3>1, <3>2, OthersKeepHealth
  <2> QED BY <1>8, <2>2, <2>3 DEF DropWaiting, Notify, At
<1>9. ASSUME NEW r \in Requests, MarkFirstEvent(r) PROVE HealthInv' /\ [GrowthWaits]_vars
  <2>1. /\ limit' \in MinLimit..MaxLimit
        /\ ttftAt' \in Instant /\ lastUpdate' \in Instant /\ windowMax' \in Nat
        /\ lastUpdate' # None /\ lastUpdate' <= now
        /\ lastUpdate # None => lastUpdate <= lastUpdate'
        /\ limit' # limit => /\ lastUpdate # None /\ now - lastUpdate >= UpdateInterval
                             /\ lastUpdate' = now
    BY <1>9, TtftWindows DEF HealthInv, MarkFirstEvent
  <2>2. /\ raisedAt \in Instant /\ lastUpdate \in Instant /\ raisedAt' \in Instant
        /\ raisedAt' = IF limit' > limit THEN now ELSE raisedAt
        /\ limit \in Nat /\ limit' \in Nat /\ now # None /\ UpdateInterval \in Nat
    BY <1>2, <1>9, <2>1, ConstantsAssumption DEF HealthInv, ControllerTypes, MarkFirstEvent, Instant
  <2>3. raisedAt # None => /\ raisedAt \in Nat /\ lastUpdate \in Nat /\ lastUpdate # None
                           /\ raisedAt <= lastUpdate /\ lastUpdate <= now
    BY <2>2 DEF HealthInv, WindowAfterRaise, Instant
  <2>4. GrowthWaits
    BY <1>2, <2>1, <2>2, <2>3 DEF GrowthWaits
  <2>5. now' = now /\ provisional' = [provisional EXCEPT ![r] = now]
        /\ UNCHANGED <<failureAt, stage, deadline, start, notify>> /\ stage[r] = "held"
    BY <1>9 DEF MarkFirstEvent
  <2>6. WindowsPast' /\ WindowAfterRaise'
    <3>1. lastUpdate' \in Nat
      BY <2>1 DEF Instant
    <3>2. CASE limit' > limit
      <4>1. limit' # limit
        BY <2>2, <3>2
      <4> QED BY <1>2, <2>1, <2>2, <2>5, <3>2, <4>1 DEF WindowsPast, WindowAfterRaise
    <3>3. CASE ~(limit' > limit)
      <4>1. raisedAt' = raisedAt
        BY <2>2, <3>3
      <4> QED BY <1>2, <2>1, <2>3, <2>5, <3>1, <4>1 DEF WindowsPast, WindowAfterRaise
    <3> QED BY <3>2, <3>3
  <2>7. provisional \in [Requests -> Instant] /\ now \in Instant
    BY <1>2 DEF HealthInv, ControllerTypes, Instant
  <2>8. ControllerTypes'
    BY <2>1, <2>2, <2>5, <2>7 DEF HealthInv, ControllerTypes
  <2>9. LocalTypes' /\ HealthyAreHeld'
    BY <1>2, <2>5, <2>7 DEF HealthInv, LocalTypes, HealthyAreHeld, notify
  <2> QED BY <1>1, <2>4, <2>6, <2>8, <2>9 DEF HealthInv
<1>10. ASSUME NEW r \in Requests, Finish(r) PROVE HealthInv' /\ [GrowthWaits]_vars
  <2>1. PICK outcome \in Outcome : limit' \in Limits(r, outcome) /\ failureAt' = FailureAt(outcome)
    BY <1>10 DEF Finish
  <2>2. limit' \in MinLimit..MaxLimit /\ limit' <= limit
    BY <1>2, <2>1, LimitsLower
  <2>3. failureAt' \in [overload : Instant, error : Instant]
    BY <2>1, FailureAtType DEF HealthInv
  <2> QED BY <1>1, <1>10, <2>2, <2>3, ReleaseKeepsHealth DEF Finish, At
<1>11. ASSUME NEW r \in Requests, DropPermit(r) PROVE HealthInv' /\ [GrowthWaits]_vars
  <2>1. limit' = limit /\ failureAt' = failureAt /\ limit' <= limit
    BY <1>2, <1>11, ConstantsAssumption DEF DropPermit
  <2>2. failureAt' \in [overload : Instant, error : Instant]
    BY <2>1 DEF HealthInv, ControllerTypes
  <2> QED BY <1>1, <1>2, <1>11, <2>1, <2>2, ReleaseKeepsHealth DEF DropPermit, At
<1>12. CASE Tick
  <2>1. ControllerTypes' /\ LocalTypes' /\ HealthyAreHeld'
    BY <1>2, <1>12, ConstantsAssumption
       DEF Tick, HealthInv, ControllerTypes, LocalTypes, HealthyAreHeld, controller, notify
  <2>2. lastUpdate \in Instant /\ raisedAt \in Instant /\ now' = now + 1
        /\ UNCHANGED <<lastUpdate, raisedAt, limit>>
    BY <1>12 DEF Tick, controller, HealthInv, ControllerTypes
  <2>3. WindowsPast' /\ WindowAfterRaise'
    BY <1>2, <2>2 DEF HealthInv, WindowsPast, WindowAfterRaise, Instant
  <2>4. GrowthWaits
    BY <1>2, <2>2, ConstantsAssumption DEF GrowthWaits
  <2> QED BY <1>1, <2>1, <2>3, <2>4 DEF HealthInv
<1>13. CASE UNCHANGED vars
  <2>1. HealthInv'
    <3>1. Holders' = Holders
      BY <1>13 DEF vars, Holders
    <3> QED BY <1>1, <1>2, <1>13, <3>1, OthersKeepHealth DEF vars, notify
  <2> QED BY <1>13, <2>1
<1> QED
  BY <1>4, <1>5, <1>6, <1>7, <1>8, <1>9, <1>10, <1>11, <1>12, <1>13 DEF Next, Proceed

LEMMA HealthInit == Init => HealthInv
<1> SUFFICES ASSUME Init PROVE HealthInv
  OBVIOUS
<1>1. None \in Instant /\ now \in 0..MaxTime /\ limit \in MinLimit..MaxLimit
  BY ConstantsAssumption DEF Init, Instant
<1>2. failureAt \in [overload : Instant, error : Instant]
  BY <1>1 DEF Init
<1>3. ControllerTypes
  BY <1>1, <1>2 DEF Init, ControllerTypes
<1>4. LocalTypes
  BY <1>1 DEF Init, LocalTypes
<1> QED BY <1>3, <1>4, CountInit DEF Init, HealthInv, WindowsPast, WindowAfterRaise, HealthyAreHeld

\* The limit of a target is raised once per LIMIT_UPDATE_INTERVAL at most, however
\* many streams report a first event, end or fail, and across the pauses that
\* make the window stale (record_ttft, finish).
THEOREM GrowthAlwaysGated == Spec => GrowthIsGated
BY HealthInit, HealthStep, PTL DEF Spec, GrowthIsGated

\* A failure is hidden from routing only while a stream that began after it is
\* open, whatever requests end, wait and wake meanwhile (snapshot_at, finish and
\* drop).
THEOREM HealthAlwaysEarned == Spec => []HealthIsEarned
<1>1. HealthInv => TypeOK
  BY DEF HealthInv, ControllerTypes, LocalTypes, CountInv, CountTypes, TypeOK
<1>2. HealthInv => FailuresShowAgain
  BY DEF HealthInv, HealthyAreHeld, FailuresShowAgain, Masked, Holders
<1>3. HealthInv => HealthIsEarned
  BY <1>1, <1>2 DEF HealthIsEarned
<1> QED BY <1>3, HealthInit, HealthStep, PTL DEF Spec
=============================================================================
