------------------------------- MODULE LiveView -------------------------------
(* The view of requests in flight (live.rs): a map of entries and, beside it, the  *)
(* order in which they came, which bounds it. Inserting an entry and putting it in *)
(* the order are two steps; the map is not locked in between. A handler that is    *)
(* dropped, or returns early, leaves its entry as it is.                           *)
EXTENDS Integers, Sequences, SequencesExt, FiniteSets

CONSTANTS
  MaxLive,         \* entries in the order
  FinishedTail,    \* FINISHED_TAIL
  MaxStarted       \* bound on requests

VARIABLES
  entries,         \* request -> its phase
  arrivals,        \* order: requests, oldest first
  evicted,         \* dropped
  caller,          \* request -> what its handler is about to do
  pushed           \* history: every request that was put in the order
liveVars == <<entries, arrivals, evicted, caller, pushed>>

ASSUME LiveBounds == MaxLive \in Nat \ {0} /\ FinishedTail \in Nat /\ MaxStarted \in Nat

Calls == 1..MaxStarted
Phases == <<"selecting", "streaming", "committed", "done">>
Without(r) == [q \in DOMAIN entries \ {r} |-> entries[q]]
Goes_(r, to) == caller' = [caller EXCEPT ![r] = to]

\* start: the entry, then the order and what no longer fits
LiveInsert(r) ==
  /\ caller[r] = "new" /\ Goes_(r, "push")
  /\ entries' = [q \in DOMAIN entries \cup {r} |-> IF q = r THEN "selecting" ELSE entries[q]]
  /\ UNCHANGED <<arrivals, evicted, pushed>>
Popped_bug(s) == [old |-> Last(s), rest |-> Front(s)]
\* order.pop_front()
Popped(s) == [old |-> Head(s), rest |-> Tail(s)]
LivePush(r) ==
  /\ caller[r] = "push" /\ Goes_(r, "runs")
  /\ pushed' = Append(pushed, r)
  /\ LET all == Append(arrivals, r)
         old == Popped(all).old
     IN IF Len(all) > MaxLive
        THEN /\ arrivals' = Popped(all).rest
             /\ entries' = Without(old)
             /\ evicted' = IF old \in DOMAIN entries THEN evicted + 1 ELSE evicted
        ELSE arrivals' = all /\ UNCHANGED <<entries, evicted>>

\* with: nothing, once the entry was evicted
Update(r, phase) ==
  /\ entries' = IF r \in DOMAIN entries THEN [entries EXCEPT ![r] = phase] ELSE entries
  /\ UNCHANGED <<arrivals, evicted, pushed>>
MarkCommitted(r) == caller[r] = "runs" /\ Update(r, "committed") /\ UNCHANGED caller
StreamingPhase(p) == IF p = "selecting" THEN "streaming" ELSE p
MarkStreaming(r) == caller[r] = "runs" /\ Update(r, StreamingPhase(entries[r])) /\ UNCHANGED caller

\* finish: the entry, then the tail
LiveFinish(r) == caller[r] = "runs" /\ Update(r, "done") /\ Goes_(r, "trim")
LiveTrim(r) ==
  /\ caller[r] = "trim" /\ Goes_(r, "gone")
  /\ IF Len(arrivals) > MaxLive + FinishedTail
     THEN arrivals' = Tail(arrivals) /\ entries' = Without(Head(arrivals))
     ELSE UNCHANGED <<arrivals, entries>>
  /\ UNCHANGED <<evicted, pushed>>
\* an early return, or a handler that is dropped
LiveAbandon(r) == caller[r] = "runs" /\ Goes_(r, "gone") /\ UNCHANGED <<entries, arrivals, evicted, pushed>>

LiveInit ==
  /\ entries = << >> /\ arrivals = << >> /\ evicted = 0
  /\ caller = [r \in Calls |-> "new"] /\ pushed = << >>
LiveNext ==
  \E r \in Calls : \/ LiveInsert(r) \/ LivePush(r) \/ MarkCommitted(r) \/ MarkStreaming(r)
                   \/ LiveFinish(r) \/ LiveTrim(r) \/ LiveAbandon(r)
LiveSpec == LiveInit /\ [][LiveNext]_liveVars

-----------------------------------------------------------------------------
\* Type correctness; the map holds what is in the order and what is about to be.
LiveTypeOK ==
  /\ \A r \in DOMAIN entries : entries[r] \in ToSet(Phases)
  /\ Len(arrivals) <= MaxLive /\ evicted \in 0..MaxStarted
  /\ DOMAIN entries = ToSet(arrivals) \cup {r \in Calls : caller[r] = "push"}

\* A request that runs is missing from the dashboard only if as many as the view
\* holds have come after it; each one missing is counted as dropped (live.rs:105).
OnlyOldestMissing ==
  /\ \A i \in DOMAIN pushed : pushed[i] \notin DOMAIN entries => Len(pushed) - i >= MaxLive
  /\ evicted = Len(pushed) - Len(arrivals)

\* The map and the order agree, and only the oldest requests are missing from the view.
ViewIsTrue == LiveTypeOK /\ OnlyOldestMissing
=============================================================================
