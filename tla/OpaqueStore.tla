----------------------------- MODULE OpaqueStore -----------------------------
(* The store of the signatures that a model attaches to its tool calls            *)
(* (opaque_state.rs): a RAM cache with an eviction queue, a bounded queue of       *)
(* durability jobs, the worker that writes them to SQLite and prunes there, and    *)
(* the lookup that falls back from RAM to SQLite. Captures and lookups run on      *)
(* several threads: they interleave between their accesses to cache, queue and     *)
(* database. Hashes are injective here, so a hash stands for what it hashes.       *)
EXTENDS Integers, Sequences, SequencesExt, FiniteSets

CONSTANTS
  Threads,        \* threads that capture or look up
  Talks,          \* what is captured: [key, name, session]
  Asks,           \* what is looked up; the model may be NoTarget
  NoTarget,       \* a target that cannot carry opaque state
  NoSession, Nil,
  MaxRam,         \* max_memory_rows
  MaxJobs,        \* DURABILITY_QUEUE_CAPACITY
  MaxRows,        \* MAX_DB_ROWS
  PruneEvery,     \* PRUNE_EVERY_N_WRITES
  RamTtl, RowTtl, \* MEMORY_TTL and PERSISTENT_TTL
  MaxCaptures, MaxTime  \* bounds

VARIABLES
  clock,          \* the time
  cache,          \* RAM: key -> [sig, name, session, till]
  order,          \* eviction queue of keys, oldest first
  jobs,           \* durability jobs
  rows,           \* SQLite: key -> [sig, name, session, made, till]
  writes,         \* jobs the worker has written since the last pruning
  thread,         \* what each thread is doing
  captured        \* history: what was captured, by number of its signature
storeVars == <<clock, cache, order, jobs, rows, writes, thread, captured>>

\* cache_key: scope, call and model; kind, family and producer go with the model
Keys == {talk.key : talk \in Talks}

\* only a target that can carry opaque state captures any
ASSUME StoreBounds ==
  /\ MaxRam \in Nat \ {0} /\ MaxJobs \in Nat \ {0} /\ MaxRows \in Nat \ {0}
  /\ PruneEvery \in Nat \ {0} /\ RamTtl \in Nat /\ RowTtl \in Nat
  /\ MaxCaptures \in Nat /\ MaxTime \in Nat
  /\ \A key \in Keys : key.model # NoTarget

\* had is history: the row that SQLite held for the lookup when it began
Resting == [at |-> "idle", talk |-> Nil, sig |-> Nil, had |-> {}, found |-> {}, answer |-> Nil]

With(f, k, v) == [x \in DOMAIN f \cup {k} |-> IF x = k THEN v ELSE f[x]]
Drop(f, gone) == [x \in DOMAIN f \ gone |-> f[x]]

StoreAt(t, rec) == thread' = [thread EXCEPT ![t] = rec]

-----------------------------------------------------------------------------
(* The RAM cache *)

CachedState(sig, name, session) ==
  [sig |-> sig, name |-> name, session |-> session, till |-> clock + RamTtl]

\* touch_order: the key's slot, of which there is at most one, moves to the back;
\* what is over the bound leaves the front of the queue and the cache
Slots(key) == {i \in 1..Len(order) : order[i] = key}
Others(key) == IF Slots(key) = {} THEN order ELSE RemoveAt(order, CHOOSE i \in Slots(key) : TRUE)
Moved(key) == Append(Others(key), key)
Surplus(q) == IF Len(q) > MaxRam THEN Len(q) - MaxRam ELSE 0
TouchOrder_bug(key) ==
  LET q == Moved(key)
      n == Surplus(q)
  IN order' = SubSeq(q, n + 1, Len(q)) /\ UNCHANGED cache
TouchOrder(key) ==
  LET q == Moved(key)
      n == Surplus(q)
  IN /\ order' = SubSeq(q, n + 1, Len(q))
     /\ cache' = Drop(cache, {q[i] : i \in 1..n})

-----------------------------------------------------------------------------
(* capture_tool_signature: the cache, its queue, the durability job *)

CaptureInsert(t, talk) ==
  /\ thread[t].at = "idle" /\ Len(captured) < MaxCaptures
  /\ LET sig == Len(captured) + 1
     IN /\ captured' = Append(captured, talk)
        /\ cache' = With(cache, talk.key, CachedState(sig, talk.name, talk.session))
        /\ StoreAt(t, [Resting EXCEPT !.at = "touch", !.talk = talk, !.sig = sig])
  /\ UNCHANGED <<clock, order, jobs, rows, writes>>

CaptureTouch(t) ==
  /\ thread[t].at = "touch"
  /\ TouchOrder(thread[t].talk.key)
  /\ StoreAt(t, [thread[t] EXCEPT !.at = "send"])
  /\ UNCHANGED <<clock, jobs, rows, writes, captured>>

\* a full queue drops the job
DurabilityWrite(t) == [key |-> thread[t].talk.key, name |-> thread[t].talk.name,
                       session |-> thread[t].talk.session, sig |-> thread[t].sig]
CaptureSend(t) ==
  /\ thread[t].at = "send"
  /\ jobs' = IF Len(jobs) < MaxJobs THEN Append(jobs, DurabilityWrite(t)) ELSE jobs
  /\ StoreAt(t, Resting)
  /\ UNCHANGED <<clock, cache, order, rows, writes, captured>>

-----------------------------------------------------------------------------
(* The durability worker *)

\* ON CONFLICT ... DO UPDATE: one row per key
Upserted(job) ==
  With(rows, job.key, [sig |-> job.sig, name |-> job.name, session |-> job.session,
                       made |-> clock, till |-> clock + RowTtl])

\* prune_pool: the expired rows, then the oldest ones over the bound
Oldest(f, n) ==
  {gone \in SUBSET DOMAIN f :
     /\ Cardinality(gone) = n
     /\ \A k \in gone, l \in DOMAIN f \ gone : f[k].made <= f[l].made}
Pruned(f) ==
  LET live == Drop(f, {k \in DOMAIN f : f[k].till < clock})
      over == Cardinality(DOMAIN live) - MaxRows
  IN IF over > 0 THEN {Drop(live, gone) : gone \in Oldest(live, over)} ELSE {live}

PersistOpaqueState ==
  /\ jobs # << >>
  /\ jobs' = Tail(jobs)
  /\ writes' = (writes + 1) % PruneEvery
  /\ LET next == Upserted(Head(jobs))
     IN IF writes' = 0 THEN rows' \in Pruned(next) ELSE rows' = next
  /\ UNCHANGED <<clock, cache, order, thread, captured>>

\* the encryption or the statement fails: the job is counted as lost
PersistFails ==
  /\ jobs # << >>
  /\ jobs' = Tail(jobs)
  /\ writes' = (writes + 1) % PruneEvery
  /\ IF writes' = 0 THEN rows' \in Pruned(rows) ELSE rows' = rows
  /\ UNCHANGED <<clock, cache, order, thread, captured>>

-----------------------------------------------------------------------------
(* resolve_tool_signature *)

SessionFits(stored, incoming) ==
  stored = NoSession \/ incoming = NoSession \/ stored = incoming

\* evaluate_cached and identity_mismatch
NameFits_bug(entry, talk) == TRUE
NameFits(entry, talk) == entry.name = talk.name
Identity(entry, talk) ==
  IF ~NameFits(entry, talk) THEN "tool_name_mismatch"
  ELSE IF ~SessionFits(entry.session, talk.session) THEN "session_mismatch"
  ELSE "compatible"

LiveRow(k) == k \in DOMAIN rows /\ rows[k].till >= clock

\* RAM: a live entry answers; an expired one is removed, in a step of its own
LookupRam(t, talk) ==
  /\ thread[t].at = "idle"
  /\ LET key == talk.key
         lookup == [Resting EXCEPT !.talk = talk, !.had = IF LiveRow(key) THEN {rows[key]} ELSE {}]
         hit == key.model # NoTarget /\ key \in DOMAIN cache
         answer == Identity(cache[key], talk)
     IN CASE hit /\ cache[key].till < clock -> StoreAt(t, [lookup EXCEPT !.at = "expired"])
          [] hit /\ cache[key].till >= clock ->
               StoreAt(t, [lookup EXCEPT !.at = "answered", !.answer = answer,
                             !.sig = IF answer = "compatible" THEN cache[key].sig ELSE Nil])
          [] OTHER -> StoreAt(t, [lookup EXCEPT !.at = "fetch"])
  /\ UNCHANGED <<clock, cache, order, jobs, rows, writes, captured>>

\* the removal, after the entry's lock is gone; the slot in the queue stays
RemoveExpired_bug(t) ==
  /\ thread[t].at = "expired"
  /\ cache' = Drop(cache, {thread[t].talk.key})
  /\ StoreAt(t, [thread[t] EXCEPT !.at = "answered", !.answer = "missing"])
  /\ UNCHANGED <<clock, order, jobs, rows, writes, captured>>
RemoveExpired(t) ==
  /\ thread[t].at = "expired"
  /\ cache' = Drop(cache, {thread[t].talk.key})
  /\ StoreAt(t, [thread[t] EXCEPT !.at = "fetch"])
  /\ UNCHANGED <<clock, order, jobs, rows, writes, captured>>

\* fetch_rows: the live rows of this scope and call, of every model
FetchRows(talk) ==
  {k \in DOMAIN rows : k.scope = talk.key.scope /\ k.call = talk.key.call /\ LiveRow(k)}

\* StoredRow::matches: the exact model's row decides; else every row is asked
\* for the name, and those with it for the session
CrossModel(found, talk) ==
  LET named == {k \in found : rows[k].name = talk.name}
  IN IF named = {} THEN "tool_name_mismatch"
     ELSE IF \A k \in named : ~SessionFits(rows[k].session, talk.session) THEN "session_mismatch"
     ELSE "incompatible"
Resolved(talk, found) ==
  IF found = {} THEN "missing"
  ELSE IF talk.key.model # NoTarget /\ talk.key \in found THEN Identity(rows[talk.key], talk)
  ELSE CrossModel(found, talk)
LookupSqlite(t) ==
  /\ thread[t].at = "fetch"
  /\ LET talk == thread[t].talk
         answer == Resolved(talk, FetchRows(talk))
     IN StoreAt(t, [thread[t] EXCEPT !.at = IF answer = "compatible" THEN "restore" ELSE "answered",
                      !.answer = answer,
                      !.found = IF answer = "compatible" THEN {rows[talk.key]} ELSE {}])
  /\ UNCHANGED <<clock, cache, order, jobs, rows, writes, captured>>

\* a query that fails finds no row
LookupFails(t) ==
  /\ thread[t].at = "fetch"
  /\ StoreAt(t, [thread[t] EXCEPT !.at = "answered", !.answer = "missing", !.had = {}])
  /\ UNCHANGED <<clock, cache, order, jobs, rows, writes, captured>>

\* restore_row: the row that was fetched goes to the cache, then to its queue
RestoreRow(t) ==
  /\ thread[t].at = "restore"
  /\ \E row \in thread[t].found :
       /\ cache' = With(cache, thread[t].talk.key, CachedState(row.sig, row.name, row.session))
       /\ StoreAt(t, [thread[t] EXCEPT !.at = "touched", !.sig = row.sig])
  /\ UNCHANGED <<clock, order, jobs, rows, writes, captured>>

RestoreTouch(t) ==
  /\ thread[t].at = "touched"
  /\ TouchOrder(thread[t].talk.key)
  /\ StoreAt(t, [thread[t] EXCEPT !.at = "answered", !.found = {}])
  /\ UNCHANGED <<clock, jobs, rows, writes, captured>>

\* the row cannot be decrypted
DecryptFails(t) ==
  /\ thread[t].at = "restore"
  /\ StoreAt(t, [thread[t] EXCEPT !.at = "answered", !.answer = "unavailable", !.found = {}])
  /\ UNCHANGED <<clock, cache, order, jobs, rows, writes, captured>>

Hydrated(t) ==
  /\ thread[t].at = "answered"
  /\ StoreAt(t, Resting)
  /\ UNCHANGED <<clock, cache, order, jobs, rows, writes, captured>>

-----------------------------------------------------------------------------
StoreTick ==
  /\ clock < MaxTime
  /\ clock' = clock + 1
  /\ UNCHANGED <<cache, order, jobs, rows, writes, thread, captured>>

\* the process stops and starts again: only the rows are left
StoreRestart ==
  /\ cache' = << >> /\ order' = << >> /\ jobs' = << >> /\ writes' = 0
  /\ thread' = [t \in Threads |-> Resting]
  /\ UNCHANGED <<clock, rows, captured>>

StoreInit ==
  /\ clock = 0 /\ cache = << >> /\ order = << >> /\ jobs = << >> /\ rows = << >>
  /\ writes = 0 /\ thread = [t \in Threads |-> Resting] /\ captured = << >>

StoreNext ==
  \/ \E t \in Threads :
       \/ \E talk \in Talks : CaptureInsert(t, talk)
       \/ CaptureTouch(t) \/ CaptureSend(t)
       \/ \E talk \in Asks : LookupRam(t, talk)
       \/ RemoveExpired(t) \/ LookupSqlite(t) \/ LookupFails(t)
       \/ RestoreRow(t) \/ RestoreTouch(t) \/ DecryptFails(t) \/ Hydrated(t)
  \/ PersistOpaqueState \/ PersistFails
  \/ StoreTick \/ StoreRestart

-----------------------------------------------------------------------------
(* Properties *)

\* The variables keep their types: cache and rows are keyed by known keys and the
\* bounded queues stay within their bounds.
StoreTypeOK ==
  /\ clock \in 0..MaxTime /\ writes \in 0..(PruneEvery - 1)
  /\ DOMAIN cache \subseteq Keys /\ DOMAIN rows \subseteq Keys
  /\ order \in Seq(Keys) /\ Len(order) <= MaxRam /\ Len(jobs) <= MaxJobs
  /\ Len(captured) <= MaxCaptures
  /\ \A t \in Threads : thread[t].at \in {"idle", "touch", "send", "expired", "fetch", "restore",
                                          "touched", "answered"}

\* Every cached entry has exactly one slot in the eviction queue, except while the
\* thread that wrote it is about to queue it; so RAM stays within its bound.
CacheHasSlots ==
  /\ \A k \in DOMAIN cache :
       \/ \E i \in DOMAIN order : order[i] = k
       \/ \E t \in Threads : thread[t].at \in {"touch", "touched"} /\ thread[t].talk.key = k
  /\ \A i, j \in DOMAIN order : order[i] = order[j] => i = j

\* A lookup that gets a signature gets one that this scope's call got from this
\* model, for a tool of this name and in no other session.
SignatureIsOwn ==
  \A t \in Threads :
    thread[t].at = "answered" /\ thread[t].answer = "compatible" =>
      LET was == captured[thread[t].sig]
          talk == thread[t].talk
      IN was.key = talk.key /\ was.name = talk.name /\ SessionFits(was.session, talk.session)

\* While SQLite holds a live row of a lookup's own model, from its start to its
\* answer, the lookup does not answer that nothing is stored or that it belongs to
\* another model; the RAM entry's shorter life and restarts do not matter.
DurableIsFound ==
  \A t \in Threads :
    thread[t].at = "answered" /\ LiveRow(thread[t].talk.key) /\ rows[thread[t].talk.key] \in thread[t].had =>
      thread[t].answer \notin {"missing", "incompatible"}

StoreSpec == StoreInit /\ [][StoreNext]_storeVars

\* Signatures are kept within the bounds, given to their own conversation and model only,
\* and found as long as they are stored, however captures, lookups, expiry, eviction,
\* failures and restarts interleave (opaque_state.rs).
SignaturesAreKept == StoreTypeOK /\ CacheHasSlots /\ SignatureIsOwn /\ DurableIsFound
=============================================================================
