------------------------------ MODULE Telemetry ------------------------------
(* Target telemetry (target_telemetry.rs): requests put signals into a bounded     *)
(* channel, one worker folds them into a bucket per period for three scopes, and   *)
(* adds the buckets to a table in one transaction; summaries read the table.       *)
(* Counters that differ only by the outcome they count are one function of the     *)
(* outcome, and the two histograms are alike: one is kept.                         *)
EXTENDS Integers, Sequences, FiniteSets, FiniteSetsExt, Functions

CONSTANTS
  Signals,         \* events: [provider, account, model, attempted, outcome, ms]
  Unmeasured,      \* ms of an event without a duration
  Steps,           \* the upper bounds of the histogram's buckets
  Period,          \* length of a bucket
  Windows,         \* that administrators ask for
  Retention,
  Slots,           \* of the channel
  FlushAt,         \* buckets that make the worker write at once
  MaxBeat, MaxSignals   \* bounds

VARIABLES
  beat,            \* the clock
  channel,         \* signals that the worker has not received
  pending,         \* bucket key -> aggregate
  pendingEvents,
  flushing,        \* what the transaction under way writes
  buckets,         \* the table target_health_buckets
  lostQueue, lostStore,   \* dropped_queue, dropped_persistence
  folded,          \* history: signals in pending and flushing, with their buckets
  stored,          \* history: signals whose transaction has committed, with their buckets
  recorded         \* history: how many were recorded or stored since the start
telemetryVars == <<beat, channel, pending, pendingEvents, flushing, buckets, lostQueue, lostStore,
                   folded, stored, recorded>>

ASSUME TelemetryBounds ==
  /\ Slots \in Nat \ {0} /\ FlushAt \in Nat \ {0} /\ Period \in Nat \ {0}
  /\ Steps \in Seq(Nat) /\ Len(Steps) > 0
  /\ \A i, j \in 1..Len(Steps) : i < j => Steps[i] < Steps[j]
  /\ Retention \in Nat /\ Windows \subseteq 1..Retention
  /\ MaxBeat \in Nat /\ MaxSignals \in Nat /\ Unmeasured \notin Nat
  /\ \A s \in Signals : s.attempted \in BOOLEAN /\ s.ms \in Nat \cup {Unmeasured}

\* TelemetryEvent::attempt and ::synthetic
Attempt(target, outcome, ms) ==
  [provider |-> target.provider, account |-> target.account, model |-> target.model,
   attempted |-> TRUE, outcome |-> outcome, ms |-> ms]
Synthetic(target, outcome) == [Attempt(target, outcome, Unmeasured) EXCEPT !.attempted = FALSE]

Outcomes == {s.outcome : s \in Signals}
Empty == << >>     \* the empty map

-----------------------------------------------------------------------------
(* BucketAggregate *)

\* the first bound that is not exceeded, or the last one
HistBucket_bug(ms) == Min({i \in DOMAIN Steps : ms < Steps[i]} \cup {Len(Steps)})
HistBucket(ms) == Min({i \in DOMAIN Steps : ms <= Steps[i]} \cup {Len(Steps)})
Zero == [attempts |-> 0, by |-> [o \in Outcomes |-> 0], hist |-> [i \in DOMAIN Steps |-> 0]]
One(s) ==
  [attempts |-> IF s.attempted THEN 1 ELSE 0,
   by |-> [Zero.by EXCEPT ![s.outcome] = 1],
   hist |-> IF s.ms = Unmeasured THEN Zero.hist ELSE [Zero.hist EXCEPT ![HistBucket(s.ms)] = 1]]
Plus(a, b) ==
  [attempts |-> a.attempts + b.attempts,
   by |-> [o \in Outcomes |-> a.by[o] + b.by[o]],
   hist |-> [i \in DOMAIN Steps |-> a.hist[i] + b.hist[i]]]
Of(map, k) == IF k \in DOMAIN map THEN map[k] ELSE Zero
\* the upsert of each row of g in f
Added(f, g) == [k \in DOMAIN f \cup DOMAIN g |-> Plus(Of(f, k), Of(g, k))]

\* add_event: provider, account and model
BucketStart == beat - (beat % Period)
Scopes(s) == {<<"provider", s.provider, "", "">>, <<"account", s.provider, s.account, "">>,
              <<"model", s.provider, s.account, s.model>>}
AllScopes == UNION {Scopes(s) : s \in Signals}
AddEvent(s) == [k \in {<<BucketStart, scope>> : scope \in Scopes(s)} |-> One(s)]

-----------------------------------------------------------------------------
HasRoom == Len(channel) < Slots
RecordSignal(s) ==
  /\ recorded < MaxSignals
  /\ recorded' = recorded + 1
  /\ IF HasRoom THEN channel' = Append(channel, s) /\ UNCHANGED lostQueue
     ELSE lostQueue' = lostQueue + 1 /\ UNCHANGED channel
  /\ UNCHANGED <<beat, pending, pendingEvents, flushing, buckets, lostStore, folded, stored>>

\* flush takes what is pending before its transaction begins
Fold ==
  /\ flushing = Empty /\ channel # << >>
  /\ LET s == Head(channel)
         all == Added(pending, AddEvent(s))
         due == Cardinality(DOMAIN all) >= FlushAt
     IN /\ channel' = Tail(channel)
        /\ pendingEvents' = pendingEvents + 1
        /\ pending' = IF due THEN Empty ELSE all
        /\ flushing' = IF due THEN all ELSE Empty
        /\ folded' = Append(folded, [s |-> s, at |-> BucketStart])
  /\ UNCHANGED <<beat, buckets, lostQueue, lostStore, stored, recorded>>
FlushTick ==
  /\ flushing = Empty /\ pending # Empty
  /\ flushing' = pending /\ pending' = Empty
  /\ UNCHANGED <<beat, channel, pendingEvents, buckets, lostQueue, lostStore, folded, stored, recorded>>

\* the transaction: every row and the deletion of the old ones, or nothing
Kept(rows) == [k \in {b \in DOMAIN rows : b[1] >= beat - Retention} |-> rows[k]]
Uncounted_bug(ok) == pendingEvents' = IF ok THEN 0 ELSE pendingEvents
Uncounted(ok) == pendingEvents' = 0
FlushEnd(ok) ==
  /\ flushing # Empty
  /\ flushing' = Empty
  /\ IF ok
     THEN buckets' = Kept(Added(buckets, flushing)) /\ stored' = stored \o folded /\ UNCHANGED lostStore
     ELSE lostStore' = lostStore + pendingEvents /\ UNCHANGED <<buckets, stored>>
  /\ folded' = << >> /\ Uncounted(ok)
  /\ UNCHANGED <<beat, channel, pending, lostQueue, recorded>>

BeatPasses ==
  /\ beat < MaxBeat /\ beat' = beat + 1
  /\ UNCHANGED <<channel, pending, pendingEvents, flushing, buckets, lostQueue, lostStore, folded,
                 stored, recorded>>
\* the process ends: what was not committed is gone
TelemetryRestart ==
  /\ channel' = << >> /\ pending' = Empty /\ pendingEvents' = 0 /\ flushing' = Empty
  /\ lostQueue' = 0 /\ lostStore' = 0 /\ folded' = << >> /\ recorded' = Len(stored)
  /\ UNCHANGED <<beat, buckets, stored>>

-----------------------------------------------------------------------------
(* summaries *)

\* the sum of the scope's buckets that began in the window
Summary(scope, w) ==
  LET rows == {k \in DOMAIN buckets : k[2] = scope /\ k[1] >= beat - w}
      Sum(column) == SumFunctionOnSet(column, rows)
  IN [attempts |-> Sum([k \in rows |-> buckets[k].attempts]),
      by |-> [o \in Outcomes |-> Sum([k \in rows |-> buckets[k].by[o]])],
      hist |-> [i \in DOMAIN Steps |-> Sum([k \in rows |-> buckets[k].hist[i]])]]

CeilPct(n, pct) == (n * pct + 99) \div 100
\* the bound of the first bucket up to which there are enough samples
Quantile(hist, pct) ==
  LET total == SumFunctionOnSet(hist, DOMAIN hist)
      Seen(i) == SumFunctionOnSet(hist, 1..i)
      target == Max({1, CeilPct(total, pct)})
  IN IF total = 0 THEN Unmeasured
     ELSE Steps[Min({i \in DOMAIN Steps : Seen(i) >= target})]

-----------------------------------------------------------------------------
TelemetryInit ==
  /\ beat = 0 /\ channel = << >> /\ pending = Empty /\ pendingEvents = 0 /\ flushing = Empty
  /\ buckets = Empty /\ lostQueue = 0 /\ lostStore = 0
  /\ folded = << >> /\ stored = << >> /\ recorded = 0

TelemetryNext ==
  \/ \E s \in Signals : RecordSignal(s)
  \/ Fold \/ FlushTick
  \/ \E ok \in BOOLEAN : FlushEnd(ok)
  \/ BeatPasses \/ TelemetryRestart

TelemetrySpec == TelemetryInit /\ [][TelemetryNext]_telemetryVars

-----------------------------------------------------------------------------
\* Type correctness, with the bounds of the channel and of what is pending.
TelemetryTypeOK ==
  /\ beat \in 0..MaxBeat
  /\ channel \in Seq(Signals) /\ Len(channel) <= Slots
  /\ pendingEvents \in Nat /\ lostQueue \in Nat /\ lostStore \in Nat /\ recorded \in 0..MaxSignals
  /\ \A map \in {pending, flushing, buckets} : \A k \in DOMAIN map : k[1] \in 0..beat
  /\ Cardinality(DOMAIN pending) < FlushAt
  /\ flushing # Empty => pending = Empty

\* Every event that a request recorded is waiting, pending, in the table, or counted
\* in one of the two drop counters that /metrics shows (target_telemetry.rs:97-98).
EventsAreAccounted ==
  recorded = Len(channel) + pendingEvents + Len(stored) + lostQueue + lostStore

\* What an administrator reads for a provider, an account or a model over a window
\* is what the committed events of that window say, and each quantile is the bound
\* below which that share of them lies (the last bound stands for all above it):
\* through folding, failed and interleaved transactions, pruning and restarts.
SummaryIsTrue ==
  stored # << >> \/ buckets # Empty =>
  \A w \in Windows, scope \in AllScopes :
    LET sum == Summary(scope, w)
        mine == {i \in 1..Len(stored) : scope \in Scopes(stored[i].s) /\ stored[i].at >= beat - w}
        timed == {i \in mine : stored[i].s.ms # Unmeasured}
        UpTo(b) == Cardinality({i \in timed : stored[i].s.ms <= b \/ b = Steps[Len(Steps)]})
        share(pct) == pct * Cardinality(timed)
    IN /\ sum.attempts = Cardinality({i \in mine : stored[i].s.attempted})
       /\ \A o \in Outcomes : sum.by[o] = Cardinality({i \in mine : stored[i].s.outcome = o})
       /\ \A pct \in {50, 95, 99} :
            LET q == Quantile(sum.hist, pct)
            IN IF timed = {} THEN q = Unmeasured
               ELSE /\ 100 * UpTo(q) >= share(pct)
                    /\ \A i \in DOMAIN Steps : Steps[i] < q => 100 * UpTo(Steps[i]) < share(pct)

\* Every event is accounted for, and a summary says what the committed events say.
TelemetryIsTrue == TelemetryTypeOK /\ EventsAreAccounted /\ SummaryIsTrue
=============================================================================
