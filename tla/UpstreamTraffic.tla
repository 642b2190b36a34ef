--------------------------- MODULE UpstreamTraffic ---------------------------
(***************************************************************************)
(* Adaptive concurrency of one upstream target (upstream_traffic.rs): the  *)
(* permits that requests hold for as long as their stream lasts, the limit *)
(* that moves with what the target does, and the requests that wait for a  *)
(* permit at a tokio Notify.                                               *)
(*                                                                         *)
(* The controller's mutex makes each critical section one step; what a     *)
(* method does before or after it is a step of its own.  The limit, a      *)
(* float in the code, is known by its floor: a move leads to every floor   *)
(* that the move of some float with the old floor leads to.                *)
(***************************************************************************)
EXTENDS Integers, Sequences, FiniteSets, SequencesExt

CONSTANTS
  Requests,        \* slots for requests on the target; used again when idle
  InitialLimit,    \* INITIAL_LIMIT
  MinLimit,        \* MIN_LIMIT
  MaxLimit,        \* MAX_LIMIT
  UpdateInterval,  \* LIMIT_UPDATE_INTERVAL, in ticks
  StaleHorizon,    \* TTFT_STALE_HORIZON, in ticks
  Waits,           \* the waits that acquire is called with, in ticks
  MaxTime,         \* bound on the clock
  None             \* no instant

ASSUME ConstantsAssumption ==
  /\ IsFiniteSet(Requests)
  /\ MinLimit \in Nat \ {0} /\ InitialLimit \in Nat /\ MaxLimit \in Nat
  /\ MinLimit <= InitialLimit /\ InitialLimit <= MaxLimit
  /\ UpdateInterval \in Nat /\ StaleHorizon \in Nat /\ MaxTime \in Nat
  /\ Waits \subseteq Nat
  /\ None \notin Nat

VARIABLES
  now,          \* the clock
  limit,        \* the floor of Controller.limit
  inflight,     \* Controller.inflight
  ttftAt,       \* when TTFT was last sampled: fast_ttft.updated_at
  lastUpdate,   \* last_limit_update
  windowMax,    \* window_max_inflight
  provisional,  \* provisional_healthy: when the open stream of a request had its first event
  failureAt,    \* overload_failure_at and error_failure_at
  stage,        \* where each request is
  deadline,     \* until when a request waits; None for one that does not
  start,        \* inflight_at_start of the permit a request holds
  queue,        \* the requests that are parked at the Notify, first come first
  stored,       \* the Notify has a wake-up for whoever comes next
  raisedAt      \* history: when the limit was last raised

controller == <<limit, inflight, ttftAt, lastUpdate, windowMax, provisional, failureAt, raisedAt>>
notify == <<queue, stored>>
vars == <<now, controller, stage, deadline, start, notify>>

-----------------------------------------------------------------------------
Instant == Nat \cup {None}

Stage == {"idle", "check", "poll", "waiting", "woken", "held", "release"}

Outcome == {"Success", "Overload", "Timeout", "Error", "Neutral", "Cancelled"}

Clamp(n) == IF n < MinLimit THEN MinLimit ELSE IF n > MaxLimit THEN MaxLimit ELSE n

\* The floors that tenths/10 of the limit may have, clamped.
Scaled(tenths) ==
  {Clamp(n) : n \in (tenths * limit) \div 10 .. (tenths * limit + tenths - 1) \div 10}

\* The floors that a window of TTFT samples may move the limit to: a gradient of
\* 0.5 to 1 and the capped queue allowance, smoothed, make 90% of the limit and
\* the allowance's share at least, and less than one more at most.
Moved ==
  LET allowed == IF limit < 20 THEN limit ELSE 20
  IN  {Clamp(n) : n \in (90 * limit + 4 * allowed) \div 100 .. limit + 1}

At(r, s) == stage' = [stage EXCEPT ![r] = s]

\* The locals of an acquire that returns are gone.
Returns(r) == deadline' = [deadline EXCEPT ![r] = None]

\* notify_one(): the first in the queue is woken, or the wake-up is stored.
NotifyOne(others) ==
  IF queue = <<>>
    THEN stage' = others /\ stored' = TRUE /\ UNCHANGED queue
    ELSE /\ stage' = [others EXCEPT ![Head(queue)] = "woken"]
         /\ queue' = Tail(queue)
         /\ UNCHANGED stored

LeaveQueue(r) == \E i \in 1..Len(queue) : queue[i] = r /\ queue' = RemoveAt(queue, i)

-----------------------------------------------------------------------------
(* acquire *)

\* A request asks for a permit; the wait ends before the clock does.
Acquire(r) ==
  /\ stage[r] = "idle"
  /\ \E wait \in Waits :
       /\ now + wait <= MaxTime
       /\ deadline' = [deadline EXCEPT ![r] = IF wait = 0 THEN None ELSE now + wait]
  /\ At(r, "check")
  /\ UNCHANGED <<now, controller, start, notify>>

\* The critical section, with capacity: a permit.
Admit(r) ==
  /\ stage[r] = "check"
  /\ inflight < limit
  /\ inflight' = inflight + 1
  /\ start' = [start EXCEPT ![r] = inflight + 1]
  /\ At(r, "held") /\ Returns(r)
  /\ UNCHANGED <<now, limit, ttftAt, lastUpdate, windowMax, provisional, failureAt, raisedAt,
                 notify>>

\* Without capacity: saturated, or on to the wait.
Full(r) ==
  /\ stage[r] = "check"
  /\ inflight >= limit
  /\ At(r, IF deadline[r] = None THEN "idle" ELSE "poll")
  /\ UNCHANGED <<now, controller, deadline, start, notify>>

\* Wrong: a wait that timed out goes round the loop once more.
Poll_bug(r) ==
  /\ stage[r] = "poll"
  /\ IF stored
       THEN At(r, "check") /\ stored' = FALSE /\ UNCHANGED <<queue, deadline>>
       ELSE IF now >= deadline[r]
       THEN At(r, "check") /\ UNCHANGED <<notify, deadline>>
       ELSE /\ At(r, "waiting")
            /\ queue' = Append(queue, r)
            /\ UNCHANGED <<stored, deadline>>
  /\ UNCHANGED <<now, controller, start>>

\* timeout_at(deadline, notified) is polled for the first time, after the mutex
\* was released: a stored wake-up, no time left, or a place in the queue.
Poll(r) ==
  /\ stage[r] = "poll"
  /\ IF stored
       THEN At(r, "check") /\ stored' = FALSE /\ UNCHANGED <<queue, deadline>>
       ELSE IF now >= deadline[r]
       THEN At(r, "idle") /\ Returns(r) /\ UNCHANGED notify
       ELSE /\ At(r, "waiting")
            /\ queue' = Append(queue, r)
            /\ UNCHANGED <<stored, deadline>>
  /\ UNCHANGED <<now, controller, start>>

\* A woken request starts the loop over, even if its time is up.
Resume(r) ==
  /\ stage[r] = "woken"
  /\ At(r, "check")
  /\ UNCHANGED <<now, controller, deadline, start, notify>>

\* The wait ends without a wake-up: saturated.
Expire(r) ==
  /\ stage[r] = "waiting"
  /\ now >= deadline[r]
  /\ At(r, "idle") /\ Returns(r)
  /\ LeaveQueue(r)
  /\ UNCHANGED <<now, controller, start, stored>>

\* The client leaves: the future is dropped, and hands on a wake-up it had.
DropWaiting(r) ==
  /\ \/ /\ stage[r] = "waiting"
        /\ At(r, "idle")
        /\ LeaveQueue(r)
        /\ UNCHANGED stored
     \/ stage[r] = "woken" /\ NotifyOne([stage EXCEPT ![r] = "idle"])
  /\ Returns(r)
  /\ UNCHANGED <<now, controller, start>>

-----------------------------------------------------------------------------
(* TrafficPermit *)

\* The sample comes after a pause that makes what was known stale.
Cold == ttftAt # None /\ now - ttftAt >= StaleHorizon

LastUpdate == IF Cold THEN None ELSE lastUpdate

\* window_max_inflight with this sample.
WindowMax(r) ==
  LET known == IF Cold THEN 0 ELSE windowMax
  IN  IF start[r] > known THEN start[r] ELSE known

\* Wrong: the window goes on after the limit has moved.
RecordTtft_bug(r) ==
  /\ ttftAt' = now
  /\ IF LastUpdate = None
       THEN lastUpdate' = now /\ windowMax' = WindowMax(r) /\ UNCHANGED limit
       ELSE IF now - LastUpdate < UpdateInterval
       THEN lastUpdate' = LastUpdate /\ windowMax' = WindowMax(r) /\ UNCHANGED limit
       ELSE /\ limit' \in IF 2 * WindowMax(r) >= limit THEN Moved \cup {limit} ELSE {limit}
            /\ lastUpdate' = LastUpdate /\ windowMax' = 0

\* record_ttft: a window starts, goes on, or ends with a move of the limit, if
\* it was at least half used.  Twice the use may lie between floor and limit.
RecordTtft(r) ==
  /\ ttftAt' = now
  /\ IF LastUpdate = None
       THEN lastUpdate' = now /\ windowMax' = WindowMax(r) /\ UNCHANGED limit
       ELSE IF now - LastUpdate < UpdateInterval
       THEN lastUpdate' = LastUpdate /\ windowMax' = WindowMax(r) /\ UNCHANGED limit
       ELSE /\ limit' \in IF 2 * WindowMax(r) >= limit THEN Moved \cup {limit} ELSE {limit}
            /\ lastUpdate' = now /\ windowMax' = 0

\* mark_first_event: the stream's first event, once.
MarkFirstEvent(r) ==
  /\ stage[r] = "held" /\ provisional[r] = None
  /\ RecordTtft(r)
  /\ provisional' = [provisional EXCEPT ![r] = now]
  /\ raisedAt' = IF limit' > limit THEN now ELSE raisedAt
  /\ UNCHANGED <<now, inflight, failureAt, stage, deadline, start, notify>>

\* The limit after a permit with that outcome.
Limits(r, outcome) ==
  CASE outcome = "Overload" -> Scaled(7)
    [] outcome = "Timeout" /\ 2 * start[r] > limit -> Scaled(8)
    [] outcome = "Timeout" /\ 2 * start[r] = limit -> Scaled(8) \cup {limit}
    [] OTHER -> {limit}

FailureAt(outcome) ==
  CASE outcome = "Overload" -> [overload |-> now, error |-> now]
    [] outcome \in {"Timeout", "Error"} -> [failureAt EXCEPT !.error = now]
    [] OTHER -> failureAt

Released == IF inflight = 0 THEN 0 ELSE inflight - 1

\* Wrong: a cancelled or neutral request says nothing, so it changes nothing.
Finish_bug(r) ==
  /\ stage[r] = "held"
  /\ \E outcome \in Outcome :
       /\ limit' \in Limits(r, outcome)
       /\ failureAt' = FailureAt(outcome)
       /\ inflight' = IF outcome \in {"Neutral", "Cancelled"} THEN inflight ELSE Released
  /\ provisional' = [provisional EXCEPT ![r] = None]
  /\ At(r, "release")
  /\ UNCHANGED <<now, ttftAt, lastUpdate, windowMax, raisedAt, deadline, start, notify>>

\* finish(outcome), up to the end of the critical section.
Finish(r) ==
  /\ stage[r] = "held"
  /\ \E outcome \in Outcome :
       limit' \in Limits(r, outcome) /\ failureAt' = FailureAt(outcome)
  /\ provisional' = [provisional EXCEPT ![r] = None]
  /\ inflight' = Released
  /\ At(r, "release")
  /\ UNCHANGED <<now, ttftAt, lastUpdate, windowMax, raisedAt, deadline, start, notify>>

\* Wrong: a dropped permit leaves its provisional health behind.
DropPermit_bug(r) ==
  /\ stage[r] = "held"
  /\ inflight' = Released
  /\ At(r, "release")
  /\ UNCHANGED <<now, limit, ttftAt, lastUpdate, windowMax, provisional, failureAt, raisedAt,
                 deadline, start, notify>>

\* The permit is dropped without a finish.
DropPermit(r) ==
  /\ stage[r] = "held"
  /\ provisional' = [provisional EXCEPT ![r] = None]
  /\ inflight' = Released
  /\ At(r, "release")
  /\ UNCHANGED <<now, limit, ttftAt, lastUpdate, windowMax, failureAt, raisedAt, deadline, start,
                 notify>>

\* The wake-up at the end of finish and drop, after the mutex was released.
Notify(r) ==
  /\ stage[r] = "release"
  /\ NotifyOne([stage EXCEPT ![r] = "idle"])
  /\ start' = [start EXCEPT ![r] = 0]
  /\ UNCHANGED <<now, controller, deadline>>

-----------------------------------------------------------------------------
Tick ==
  /\ now < MaxTime
  /\ now' = now + 1
  /\ UNCHANGED <<controller, stage, deadline, start, notify>>

Init ==
  /\ now = 0
  /\ limit = InitialLimit /\ inflight = 0
  /\ ttftAt = None /\ lastUpdate = None /\ windowMax = 0
  /\ provisional = [r \in Requests |-> None]
  /\ failureAt = [overload |-> None, error |-> None]
  /\ stage = [r \in Requests |-> "idle"]
  /\ deadline = [r \in Requests |-> None]
  /\ start = [r \in Requests |-> 0]
  /\ queue = <<>> /\ stored = FALSE
  /\ raisedAt = None

\* What a request does by itself once it has asked for a permit.
Proceed(r) ==
  Admit(r) \/ Full(r) \/ Poll(r) \/ Resume(r) \/ Expire(r) \/ Notify(r)

Next ==
  \/ \E r \in Requests :
       Acquire(r) \/ Proceed(r) \/ DropWaiting(r) \/ MarkFirstEvent(r) \/ Finish(r) \/ DropPermit(r)
  \/ Tick

Spec == Init /\ [][Next]_vars

\* Tasks that can run do, and time passes; nothing makes a stream end.
FairSpec == Spec /\ WF_vars(Tick) /\ \A r \in Requests : WF_vars(Proceed(r))

-----------------------------------------------------------------------------
(* Properties. *)

TypeOK ==
  /\ now \in 0..MaxTime
  /\ limit \in MinLimit..MaxLimit /\ inflight \in Nat
  /\ ttftAt \in Instant /\ lastUpdate \in Instant /\ windowMax \in Nat
  /\ provisional \in [Requests -> Instant]
  /\ failureAt \in [overload : Instant, error : Instant]
  /\ stage \in [Requests -> Stage]
  /\ deadline \in [Requests -> Instant]
  /\ start \in [Requests -> Nat]
  /\ queue \in Seq(Requests) /\ stored \in BOOLEAN
  /\ raisedAt \in Instant

Holders == {r \in Requests : stage[r] = "held"}

\* inflight counts the permits that are out: none is lost and none given back
\* twice, whichever way the requests end.
InflightIsPermits == inflight = Cardinality(Holders)

\* snapshot_at hides a failure from routing while a stream that had its first
\* event after it looks healthy.  That stream is still open: when it ends, or is
\* dropped, the failure shows again.
Masked(failure) ==
  \E r \in Requests :
    provisional[r] # None /\ (failure = None \/ provisional[r] > failure)

FailuresShowAgain ==
  \A kind \in {"overload", "error"} :
    Masked(failureAt[kind]) =>
      \E r \in Holders :
        provisional[r] # None /\ (failureAt[kind] = None \/ provisional[r] > failureAt[kind])

\* "Limit updates are wall-clock-window gated so request density cannot
\* accelerate concurrency growth" (record_ttft).
GrowthWaits == limit' > limit /\ raisedAt # None => now - raisedAt >= UpdateInterval

GrowthIsGated == [][GrowthWaits]_vars

\* Whoever asks for a permit gets an answer, however often it is woken and finds
\* the place taken, once no new requests come that could overtake it (acquire).
AcquireReturns ==
  <>[][~\E r \in Requests : Acquire(r)]_vars =>
    \A r \in Requests : stage[r] = "check" ~> stage[r] \in {"idle", "held", "release"}

\* The controller is well-formed, and a failure is hidden from routing only while a stream
\* that had its first event after it is still open.
HealthIsEarned == TypeOK /\ FailuresShowAgain
=============================================================================
