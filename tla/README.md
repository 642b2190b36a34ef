# Kinetix in TLA+

Kinetix is an LLM gateway: clients send OpenAI- or Anthropic-shaped requests with a virtual
key, the gateway picks an upstream provider, account and model, translates, streams the answer
back and accounts for it. This directory specifies the part of it that is hard to get right:
what concurrent requests do to shared counters, circuits, leases and caches, what one request
does between its first target and the last byte and what becomes of its contents on the way,
what administrators change meanwhile, and what remains when somebody leaves or fails half-way.

The modules are translations of the Rust source under `src/src/` (paths below are relative to
it). `PROJECT.json` maps every definition to the lines it stands for, about a third of the
implementation; the rest is under "Not modelled".

## The system and its parts

| Part | State it keeps | Operations | Hard because |
|---|---|---|---|
| Virtual-key admission (`admission.rs`, `limits.rs`) | per key: settled uses of the last minute, daily and monthly spend, reservations, whether it was seeded | seed from the usage log, reserve, reconcile, cancel (drop) | requests of a key race; seeding awaits the database; periods end while a request runs; settling is out of order |
| Attempt loop (`pipeline.rs` `run`) | per request: pending targets, attempts, last error, what it holds | choose, resolve credential, acquire, send, classify, rotate, fall back, commit | seven failure kinds times fallback settings times timeouts, and the client may drop the future at each `await` |
| Provider circuit (`provider_circuit.rs`) | per provider: state, generation, recent failures, the half-open lease | check, begin an attempt, mark validated, finish (four ways), drop | late answers from an earlier generation; an abandoned probe |
| Account health (`pool.rs`, `db.rs`) | a database row: status, deadlines, failure count, circuit, last probe | mark, count a failure (three statements), clear, reset, touch | every statement is a step; many writers, no version column |
| Configuration (`registry.rs`, `admin.rs`, `db.rs`, `server.rs`) | tables of providers, accounts, models, routes, targets and aliases; an immutable snapshot of them | edit, delete, export, import, provision a plugin's provider, discover models, reload, resolve a name | no handler uses a transaction; reloads overlap; a request keeps the snapshot it began with |
| Route planning (`pipeline.rs`, `predicate.rs`, `quota.rs`) | round-robin counters, quota evidence, telemetry | filter by predicates and size, order by strategy, defer, dry run, token count | facts may be unknown; evidence ages; others move it meanwhile |
| Request formats (`frontends/`, `adapters/`, `passthrough.rs`, `pipeline.rs`) | per request: the canonical form, the provider tried last | decode, prepare for a target, build a body, classify an error | each target gets another body; what cannot be translated must not vanish |
| Response formats (the same files) | per stream: parser, tool-call state, encoder | parse, normalise, encode, aggregate | formats number calls, place usage and signatures and end differently |
| Signatures (`opaque_state.rs`) | a RAM cache with an eviction order, a job queue, a table | capture, look up, restore, persist, prune | threads interleave between the three; expiry, eviction and restarts |
| Stream drivers (`pipeline.rs`) | per response: channel, timers, buffered frames, status | three drivers, keepalive, idle timeout, disconnect guard, `finalize_log` | the client, the upstream, two timers and the driver are concurrent |
| Adaptive concurrency (`upstream_traffic.rs`) | per target: in-flight count, limit, waiters | acquire, first event, finish, drop | wake-ups and the count of live permits |
| Credential refresh (`credential_refresh.rs`, `credentials.rs`, `app.rs`) | schedules, leases, a gate per account | resolve, claim due, rotate after an error or on schedule, forget | refresh tokens are single-use; two rotations must not race |
| Plugin manager (`plugins/manager.rs`, `plugins/store.rs`, `admin.rs`) | rows, grants, package files, compiled code, circuit, permits, storage | install, approve, enable, roll back, revoke, remove, call a guest | a call runs while its plugin changes; the process may end between two writes |
| Sessions, keys, enrollment (`auth.rs`, `admin.rs`, `ratelimit.rs`, `api.rs`) | password, sessions, virtual keys, windows per address, pending OAuth flows | log in, change the password, edit a key, admit a request, start and complete a flow | a row is read before an `await` and written after it |
| Usage log, alerts (`logqueue.rs`, `alerts.rs`) | a bounded queue with two counters; which alerts fire | enqueue, drain, evaluate | counters beside queues; edges over sources that change and fail |
| Target telemetry, live view (`target_telemetry.rs`, `live.rs`) | buckets and histograms; entries of requests | record, fold, flush, summarise; insert, mark, evict | bounded buffers in front of a failing store; two structures, one lock |
| SSE framing, transport, CLI, start-up, model catalogue, dashboard | files, buffers | conversions, checks | outside the model |

How they interact. `run` reserves at admission, takes one registry snapshot, plans, and loops over
the planned targets: account health decides eligibility *on the snapshot*, the provider circuit and
the adaptive limit decide admission *on shared memory*, failures write the account's *database
row* and report to the provider circuit. Each target gets a body of its own, with the signatures
that the store has for it. The first validated upstream response commits: the reservation, the
permit and the provider attempt move to a stream driver, which releases them in `finalize_log`,
whatever happened to client or upstream, and puts a row in the usage log, which budgets and alerts
read. Administrators' handlers change the tables beside all this and reload the snapshot.

What makes each part correct:

- admission: limits and budgets hold against the true use, not only against the ledger; the
  ledger is the truth once it was seeded; seeding never blocks a key for good;
- attempt loop: sends are bounded; nothing scarce is held while waiting for something else; every
  dispatch gets a verdict; a refusal is final; every request is answered;
- provider circuit: one probe at a time; only correlated, recent failures of this generation open
  it; a probe that vanishes does not wedge it; cooldowns hold;
- account health: the threshold opens the circuit however the statements interleave; the snapshot
  catches up;
- configuration: a credential never goes to another provider; references hold; an edit that
  succeeded is served; an import of the own export changes nothing;
- planning: no target is lost; an unknown fact is not guessed; rotation is even; the best leads;
- formats: calls, results, texts, signatures, limits and usage reach who they are meant for, or
  the request is refused; nothing private crosses to another provider;
- stream drivers: order, completeness of what is called a success, visibility of truncation, and
  an end to every stream;
- adaptive concurrency: the counter is the permits that are out; a failure is hidden only by a
  stream that is still open; the limit grows once a window; whoever asks gets an answer;
- credentials: rotations of an account race only after its gate was forgotten; the scheduler
  neither spins nor forgets;
- plugins: code runs with its own grants; what can be rolled back to can be read; one probe; quota;
- access: a changed password ends older sessions; a revocation sticks; a flow adds one account;
- bookkeeping: each row and event is stored, waiting or counted as lost; alerts follow what they
  watch.

## Modules

| Module | Models | Notes |
|---|---|---|
| `ProviderCircuit` | one provider's circuit and its attempts | each `ProviderAttempt` method is two steps: the swap of its own flag (and the clock reading), then the critical section |
| `ProbeLease` | what a breaker promises: one probe at a time, and only its verdict counts | `ProviderCircuit` implements it (`ImplementsProbeLease`) |
| `Admission` | one key's ledger and its requests | ledger methods run under a mutex and are one step; seeding is several |
| `AccountHealth` | one account's row, the snapshot, requests, reload loop, health prober, operator | one step per SQL statement; a reload reads in one step and publishes in a later one |
| `AttemptLoop` | one request from admission to commit or answer | one stage per `await`; plans, limits and triggers are inputs |
| `StreamDriver` | one response from commit to `finalize_log` | three modes; client, guard, upstream and clock are processes |
| `UpstreamTraffic` | one target's limit, permits and waiters | the critical sections of the controller and the steps of tokio's `Notify` are one step each |
| `CredentialRefresh` | one account's lease, schedule and gate; requests and the refresh loop | a task is at one `await` at a time; the plugin is external |
| `ConfigStore` | the tables, the handlers that edit them, the registry's snapshot | a handler is the sequence of the statements it has left |
| `RoutePlan` | a request from its route to the ordered targets; dry run, token count | predicates are trees, evaluated recursively |
| `RequestCodec` | a request's contents, from the client's body to each target's | a message has one part; a field stands for its value |
| `StreamCodec` | a response's contents, from the upstream's frames to what the client puts together | four upstream formats, three client formats, streamed or whole |
| `OpaqueStore` | the signatures of tool calls in RAM and SQLite | each access to cache, order, queue and table is a step |
| `PluginManager` | one plugin, administrators and guest calls | a step is what happens between two awaits; a transaction is one step |
| `Access`, `KeyPolicy`, `Enrollment` | sessions; virtual keys and the per-address limiter; OAuth flows | handlers interleave at their awaits; `Admittance` puts the first two together |
| `Alerting`, `Telemetry`, `LiveView` | usage log and alerts; telemetry; live view | see below |
| `*Proofs` | theorems about the module of that name; `AccountingProofs` is about `Admission` and `Telemetry`, `AttemptLoopProofs` also about `RequestCodec`, `ResponseProofs` about `StreamDriver` and `OpaqueStore`, `ServicesProofs` about `AccountHealth`, `Access`, `KeyPolicy` and `Enrollment`, `OperationsProofs` about `PluginManager`, `LiveView` and `Alerting` | each module of a group keeps its own invariant and theorems |
| `MC*` | small instances for TLC | `MCProtocol`, `MCServices` and `MCOperations` put modules that share no variables side by side |

Definitions that end in `_bug` are wrong variants of the definition after them. They are used
by nothing: replacing the right one by the wrong one must violate the property that
`PROJECT.json` names, which shows that the property can see that mistake.

### State and actions

*ProviderCircuit.* `circuit` is `Circuit` (state, generation, deadline, failures, lease);
`attempts` are slots for `ProviderAttempt`s, which are used again once dropped. `BeginAttempt`
is `begin_attempt_with_policy`; `MarkBegin`/`MarkValidatedSuccess`, `FinishBegin` and one of
`FinishSuccess`, `FinishQualifyingFailure`, `FinishOtherFailure`, `FinishNeutral` are the two
halves of the methods; a dropped attempt is `FinishNeutral`. The correlation policy is a constant:
with the roles of account and target exchanged the two policies are the same machine.

*Admission.* `minute`, `spend`, `period`, `initialized` are the ledger, `request` the
reservations. `truth` is a history variable that counts every use by the definition of the limit.
The monotonic and the wall clock are one clock.

*AccountHealth.* `row` is the table row, `snapshot` the registry's copy, `loaded` what each
unfinished reload has read, `prober` and `operator` the two other writers. `CountFailure`,
`ReadFailures`, `OpenCircuit` are the three statements of `record_account_failure`; `Disconnect`
and `RecordError` can cut it off between them, which `lost` records. `Restart` ends everything
except the row.

*AttemptLoop.* `stage` is the `await` the handler is at. What it holds (`reservation`, `permit`,
`attempt`) is explicit. A disconnect before the commit is hyper dropping the handler's future at
an `await`. Eligibility, the credential, the upstream's answer and the outcome of a rotation are
nondeterministic inputs: the account's row is `AccountHealth`'s business.

*StreamDriver.* An upstream chunk holds one frame; a frame is semantic, not semantic, terminal,
an error, a payload that cannot be parsed, `[DONE]`, or usage only. What the client is sent depends on
its format: a regular end (`stop`), `[DONE]`, an error, and the finish chunk `error` that OpenAI's
encoder writes after one, followed by `[DONE]` (`ErrorFrames`, `EndFrames`). The driver's own steps take no time:
timers count down only while it has to wait. `Waiting` is a poll of `select!` with no branch
ready. `client` is the response body's life: reading, then the guard's two statements (`Leave`
sets the flag, `NotifyWaiters` wakes), then the receiver is dropped.

*UpstreamTraffic.* `limit`, `inflight`, `ttftAt`, `lastUpdate`, `windowMax`, `provisional` and
`failureAt` are the `Controller`; a request is `check`ing the capacity, about to `poll` the
`Notify`, `waiting` in its `queue`, `woken`, holding a permit (`held`), or about to notify
(`release`). `notified()` reserves no wake-up of `notify_one` until it is polled, so the check
and the poll are different steps. The float limit is known by its floor: a move leads to every
floor that some float and some averages lead to. The EWMAs themselves are not kept: what `Success`
changes is only their value.

*CredentialRefresh.* `lease` is what the plugin has (a secret by its number, expiry and hint),
`schedule` the `LeaseSchedule`, `gate` the map's `RotationGate`, and each task has a `stage`, a
`job` (resolve, after a 401, scheduled) and the gate it got (`at`). A gate's generation and last
result are kept as what each waiter would see of them (`news`). A rotation that fails is put off by
its backoff or by the plugin's own `retry_after_secs`, which is bounded above only: zero makes it due
at once (`RetryAfter`). `forgotten` and `renewedAt` are history.

*ConfigStore.* The tables are functions from ids to rows, with the schema's foreign keys and
cascades. `todo[h]` are the statements that handler `h` still has to run: `Statement` runs the
first, which may put others in front (an import reads a name's id and then inserts or updates),
`StatementFails` and `HandlerDropped` end the handler where it is. `snap` is the registry's
snapshot, which a reload reads table by table. `Resolve` is `build_route`. `base`, `given` and
`starts` are history and bounds.

*RoutePlan.* `pass` is the request, dry run or token count that is planned. `FilterTargets` applies
predicates (`Eval`, in Kleene's logic over facts that may be missing or stale), the key's and the
context-window filter; `OrderAdaptive` freezes telemetry and quota and sorts; `Defer` moves targets
with open circuits back. Scores are ranks: only comparisons are used. `rr` is the route's counter.

*RequestCodec.* `Say`, `Ask` build the client's request a message or a field at a time, `Submit`
decodes it to `canon`, `Dispatch` is the preparation for the next target (provenance, stripping,
stored signatures, overrides, policy, the gate for what has no translation) together with the
adapter's body, and `sent` keeps the bodies with their targets. A target brings its model's
`ParamSpec`s for the parameters with a range (`Clamped`, `OpenAiNumber`, `ResponsesNumber`,
`AnthropicNumber`), its `max_output_tokens` (`Limited`) and its map of thinking levels
(`OpenAiThinking`, `AnthropicThinking`); what these make of a field is part of the body, translated
or passed on, and `MeaningReaches` says how much of it they may change.

*StreamCodec.* `said` is what the upstream has said, `tools` is `ToolStreamState`, `enc` the
encoder's state, and `shown` what a client that follows its protocol has put together. An item is
a text, a refusal, a call with its arguments in one or two chunks, a signature; `SendTwo` interleaves
the chunks of two calls.

*OpaqueStore.* `cache`, `order`, `jobs` and `rows` are the store's four places; a thread's capture
is insert, touch, send and its lookup RAM, removal of the expired, SQLite, restoring, touching.

*PluginManager.* `row`, `grants`, `retained`, `circuit`, `kv` are tables, `files` the packages on
disk, `cache` the compiled component, `sem` the plugin's semaphore (a removal makes a new one).
`op` and `inv` are the stages of administrators' requests and guest calls. `Restart` ends them all.

*Access, KeyPolicy, Enrollment.* One stage per `await` of each handler: a password is verified, then
stored, then the sessions are revoked, and `HandlerCut` may end a handler before any of these (its
caller leaves, or the statement fails). `read` is whether `stored_admin_hash` could read the setting;
if not, the configured token counts. A session remembers the password and the setting its login was
verified by. A key's row is read, then written; `passed` counts what the limiter let pass apart from
its `window`, which the sweep thins out. A flow is created, taken, exchanged, checked again, stored,
and its result recorded. Cookies and tokens cannot be guessed.

*Alerting.* `waiting`, `sending`, `depth`, `dropped`, `worker` and `logged` are the log queue, with
the two statements of a sender and of the worker apart; the depth has `Depths` values, so that it wraps.
`eval` is where `evaluate` is: each `Judge...` is one of its sections, `QueryFails` its `?`.

*Telemetry.* `channel`, `pending`, `flushing`, `buckets`; `FlushTick` takes the pending buckets and
`FlushEnd` commits or loses them, and time may pass in between. *LiveView.* `entries` and
`arrivals` are the map and the order; inserting into them are two steps.

## Runs

| Run | Shows | Bounds, and why they are enough |
|---|---|---|
| `circuit` | `LeaseHeldByOneProbe`, `EvidenceIsCurrent` (`ClosedEvidenceIsCurrent`), `OpensOnlyOnCorrelatedFailures`, `CooldownIsRespected`, `ImplementsProbeLease`, `LeaseIsReleased` | two reusable slots, two accounts, five ticks: the circuit opens, is probed, abandoned, reopened and recovered, with an attempt of an older generation still in flight. More slots are covered by the theorem |
| `admission` | `LedgerIsTrue` (`BudgetHolds`, `RpmHolds`, `SpendIsExact`), `StaleUseIsBounded`, `SeedingCompletes` | two reusable slots, two rows of earlier use, a window of three ticks, days of three and months of six, seven ticks: two windows, and an end of a day and of a month with requests in flight |
| `account_reload` | `SnapshotCatchesUp` | operator, prober and loop with overlapping reloads; no clock (`ReloadSpec`), since the property is about a row that nobody writes any more |
| `attempts` | `SendsBounded`, `NothingHeldBetweenAttempts`, `EveryAttemptReported`, `NoSendAfterRefusal`, `EventuallyAnswered` | four plans (two logical targets with two accounts, the session's account in front, a shared account, a direct request), three limits (none, 2, one above the clamp), three trigger sets, both values of the caller's switch |
| `stream` | `ClientSeesTheTruth` (`InOrder`, `SuccessIsComplete`, `TruncationIsVisible`), `EveryStreamEnds` | all three drivers and formats of a client, a channel of one, two frames and the end: one frame kept back and one that releases it, a full channel, both timers, all ways to end, each told in its format |
| `traffic` | `InflightIsPermits`, `HealthIsEarned` (`FailuresShowAgain`), `GrowthIsGated`, `AcquireReturns` | two reusable requests, a limit of one to three, three ticks with windows of one and a horizon of two: the limit is raised twice and lowered, samples go stale, a waiter is overtaken, times out, is woken late and leaves |
| `credentials` | `RotationsTakeTurns` (`RaceNeedsForget`), `NoHotLoop`, `DueIsClaimed` | two requests and the scheduler, two secrets, a lease that is due at once and one that is not: each pair of tasks meets at the gate, with the account disabled and the gate forgotten at any step. A plugin that fails asks for a retry at once or for none. One gate is made: after a `forget` that took it from nobody the tasks would start afresh at a new one |
| `config` | `CredentialStaysHome`, `EditsAreWhole` (`ReferencesHold`, `OverrideIsKept`, `ProvisioningKeepsTargets`, `ImportIsIdempotent`, `SuccessIsServed`) | two handlers; a configuration that is exported and imported again, and one of an older release that imports the document of another instance; two providers, models and routes, three accounts: every handler beside every other, cut off after any statement |
| `protocol` | `ResponseSurvives` (`CallsSurvive`, `TextSurvives`, `LengthIsTold`, `BlocksClose`, `SignatureStays`, `UsageIsCharged`), `RequestSurvives` (`MeaningSurvives`, `ConversationSurvives`, `ResultsMatchCalls`, `PolicyHolds`), `SecretsStayHome` (`SignaturesStayHome`, `ThoughtsStopAtTheBoundary`, `StrippingIsTold`), `SignaturesAreKept` (`CacheHasSlots`, `SignatureIsOwn`, `DurableIsFound`) | every pair of formats and up to three items of a response, which is a call between two others or in three chunks; five plans of up to three targets, which hold every upstream format, with a parameter of each policy in range and outside it, a model whose limit is below and one whose limit is above the client's, and adaptive and mapped thinking, and three messages or fields; two alike threads, a cache, a job queue and a table of one entry each, so that eviction, overflow and pruning happen |
| `services` | `ThresholdOpensCircuit`, `PlanIsRight` (`PlanIsComplete`, `UnknownIsNeverGuessed`, `RotationIsEven`, `BestLeads`, `DryRunIsHonest`), `OnlyTheAdmittedPass` (`ChangeEndsSessions`, `RevocationSticks`, `AdmittedIsActive`, `LimiterHolds`), `EnrollmentIsSound` (`StateIsUsedOnce`, `SpoiledIsDead`, `EnrolledAsBound`, `ResultIsTrue`) | two alike recorders and threshold 2, once with the operator and once with a clock; six routes, one per strategy, with a logical target of two accounts, three kinds of plugin facts and three passes; two logins and two password changes, cut off after any step; two addresses with windows of one request, swept in between; a revocation of one key beside an update of other fields; two flows and one change of provider or plugin at any step |
| `operations` | `PluginIsSound` (`AuthorityMatchesCode`, `RetainedIsReadable`, `PluginIsContained`, `SnapshotIsWhole`, `StorageWithinQuota`), `ProbeIsAlone`, `AlertingIsTrue` (`DepthSettles`, `RowsAreAccounted`, `AlertsFollow`, `LatencyIsSustained`), `TelemetryIsTrue` (`EventsAreAccounted`, `SummaryIsTrue`), `ViewIsTrue` (`OnlyOldestMissing`) | two packages with different grants and five mixes of administrators, callers, permits and crashes; three changes beside evaluations that fail anywhere; three signals in three scopes and two buckets; four requests in a view of two |
| `dry_run` | violation of `RequestsGoRound` | see Findings |

A property with others in brackets is their conjunction and that of its module's type invariant;
each of the others has a wrong variant of its own. The type invariants of `ProviderCircuit`,
`AccountHealth` and `AttemptLoop` are proved, and `attempts` checks the last one by name as well.
Deadlock is checked where the system never stops; requests, responses and bounded sequences of edits
do stop, so those runs switch it off, and `attempts` and `stream` say with a liveness property that they stop properly.

`protocol`, `services` and `operations` are sums: their modules share no variables, one of them
moves in a behaviour and the others keep one initial state. A state of the sum is therefore a state
of one module, and a property of that module holds in the sum exactly if it holds in the module.
The parts are separate because the code's are: what one of them needs of another (the order of the
targets, a signature, the account's row) is an input that takes every value. In `operations` the
sources of the alerts change in three groups, one group in a behaviour; the conditions over them are
independent and meet only in the loop that evaluates them.

### Fairness

- `ProviderCircuit`: an attempt that was begun ends, because it is dropped with its future at the
  latest (weak fairness of its own steps).
- `Admission`: tokio's mutex is FIFO, so somebody who waits for the seeding lock while it is
  released again and again gets it (strong fairness of `LockInit`); a seeding query returns or fails.
- `AccountHealth`: the reload loop runs every second; a reload that began publishes or fails, and
  the loop's do not fail for ever (strong fairness of a `LoopEnd` that publishes).
- `AttemptLoop`: the handler's own steps, its timers and the clock. **No** fairness for upstreams:
  `EventuallyAnswered` must come from the timeouts.
- `StreamDriver`: the driver, the guard and the clock; `select!` polls its branches in random
  order, so a chunk that is ready again and again is received (strong fairness of `Receive`).
  Nothing of the upstream. `EveryStreamEnds` assumes a client that keeps reading or leaves: a
  client that does neither blocks `tx.send` for ever, and no timer of the code ends that.
- `UpstreamTraffic`: a request goes on by itself after it has asked for a permit, and the clock
  runs. **No** stream has to end. `AcquireReturns` assumes that from some time on no new requests
  arrive. It needs that: a wake-up goes before an elapsed deadline and a newcomer may take the
  place before the waiter has looked, so an endless stream of newcomers can keep a waiter going
  round the loop after its deadline.
- `CredentialRefresh`: the refresh loop looks every second (weak fairness of `Claim`) and time
  passes. Nothing of the plugin.

The other modules are about safety only: nothing in them waits for something else, apart from
locks and permits that end with the handler that holds them.

## Proofs

All are of safety, for every value of the constants that satisfies the modules' assumptions. An
invariant is proved by a strengthening that is inductive: it holds initially, each action keeps it,
and it implies the invariant. A proof has a lemma per action, or per conjunct of the strengthening
where many actions leave that conjunct alone.

- `ProviderCircuitProofs`. `TypeCorrect`, `LeaseExclusive`: the lease invariant is not inductive by
  itself. `IInv` adds that a validated attempt is a probe, and that an attempt which is not the
  holder belongs to a generation whose lease is not its own; then beginning an attempt is the only
  way to become a holder, and every way of finishing gives the lease back in the step in which it
  stops being the holder. `EvidenceAlwaysCurrent`: while the circuit is closed the failures it has
  kept are of its generation. `OpeningsAreCorrelated`, `CooldownAlwaysRespected` are action
  properties: the circuit opens from closed only on failures of two accounts within a window, for
  which the deque must be nearly sorted (clocks are read before the lock), and a probe begins only
  after the cooldown. `RefinesProbeLease`: every step is one of `ProbeLease` or a stutter.
- `AccountingProofs`, about what is counted. `StaleUseBounded`: the deque is not sorted, because uses
  settle out of order; it is *nearly* sorted (no entry is a window or more younger than one behind
  it), since a reservation is dropped from the count, and cannot settle into it, a window after it
  began. The head of a pruned deque is younger than a window, so everything behind it is younger
  than two. `LedgerAlwaysTrue`: the budgets hold of the *truth*, so the invariant compares the two
  ledgers. The spend that is kept is the true one of its period (`SpendKnown`), every true use of a
  window that is not a reservation is in the deque (`UsesKnown`), and both uses and reservations
  together are within the limit (`RpmKept`); before a key is seeded the usage log stands in for
  what is kept. `TelemetryAlwaysTrue`: the rows that wait are the `Tally` of the events that were
  folded since the last flush, and the table's rows, as far back as they are kept, that of the
  events that were stored (`PendingSays`, `StoredSays`); then a summary is the sum of the rows of
  its window, and its quantiles are read off a histogram that has each measured event once. The
  laws of sums over sets and sequences are proved by their least counterexample (`Below` is
  well-founded), which needs no induction theorem.
- `AttemptLoopProofs`. Of the loop: `TypeCorrect`, `SendsAreBounded`, `NothingIsHeldBetweenAttempts`,
  `AttemptsAreReported`, `RefusalIsFinal`. Small inductive invariants per theorem: sends count as
  attempts done plus accounts retried; the stages in which a permit or a provider attempt may be
  held; the verdicts owed; after a refusal no stage leads back to the loop. The type of the state
  needs what each stage knows of its target, queue and clocks. Of what each attempt sends
  (`RequestCodec`): `RequestAlwaysSurvives`, `SecretsAlwaysStayHome`. The state's part is short
  (`RequestIInv`): while targets are tried the canonical request is what the client's was decoded
  to, each target is tried once at most, and `prev` is the provider of the last body. The rest is
  about the functions. A body's messages are places of the client's, in order, each with what was
  left of it (`Follows`); a step that takes out only what has no meaning leaves the kinds as they
  are (`Whole`), since the rank of a place is the same in both. One lemma says this of each decoder,
  each step of the preparation, each adapter and a body that is passed on, others what becomes of
  the fields (`NumberComes`: a ranged parameter is what one of the three rules makes of it; the limit
  and the level of thinking likewise), and a result finds its call because names and ids move with the places.
- `UpstreamTrafficProofs`. `InflightCounts`: the count alone is not inductive, because a wake-up
  changes the stage of whoever is first in the queue. `CountInv` adds that everybody in the queue
  is waiting there, at one place, so that a wake-up takes nobody's permit; then only `Admit` adds a
  holder, and only `Finish` and `DropPermit` remove one, when the counter is not at zero.
  `GrowthAlwaysGated` is the action property that the limit is raised once a window at most.
  `HealthAlwaysEarned`: a window that hides an earlier failure belongs to a stream that is open.
- `CredentialRefreshProofs`. `RotationsAlwaysTakeTurns`: `GateInv` says who has which gate, that a
  gate's lock is with one task, and that without a forgotten gate everybody is at the same one; so
  two tasks can be inside together only at different gates. `NoHotLoopEver` (an action property):
  a schedule made at a renewal is later than the renewal, whatever the lease's hints, by
  `MinInterval`; only a failure since then, for which the plugin asked to be tried again at once,
  makes it due in the same instant.
- `ResponseProofs`. `ClientAlwaysSeesTheTruth`: `Line` is all that is on its way to the client, in
  the order in which it gets it; it is a prefix of what the upstream said, kept whole by each move
  from upstream to buffer to channel to client (`LineIsWhole`, or `Settled` when nobody reads any
  more), and `Control`, `CommitIsAtHand`, `InboxIsAhead` say how far the driver has come with it. That
  no end is seen before an error unless the upstream had ended comes from what the line holds at
  each stage: a stop or a `[DONE]` of the driver's own is put on it only in success, or after an error.
  `SignaturesAreAlwaysKept`: each access to RAM, queue and table is a step of its own, so the
  invariant says which intermediate states are normal. An entry has a slot in the order, or a
  thread that is about to give it one (`CacheInv`); a signature is on its way to SQLite at one place
  at most, so that a row which was replaced never comes back (`RowInv`, `JobInv`); and what a thread
  has read is what was captured for its key (`StoreThreadInv`).
- `ServicesProofs`. `TypeCorrect`, `ThresholdAlwaysOpens` of the account's row: a count at the
  threshold means an open circuit, or a recorder between its first and third statement, or one that
  was cut off; a recorder at the third has seen such a count, or a success has reset it since.
  `OnlyTheAdmittedEverPass`: a session is of a change that no `revoke_all` has followed yet, and what it
  remembers of its login is what the login saw (`LoginsInv`, `SessionsInv`), and a key's
  row, the rows that edits and requests have read, and the windows of addresses fit together
  (`VkeyInv`, `EditInv`, `KeyCallInv`, `WindowInv`). `EnrollmentAlwaysSound`: the state of a flow is
  with the table, with one handler, spoiled or answered, never with two of them (`FlowInv`,
  `HandlerInv`), so an account is the only one of its state (`AccountInv`).
  Of the configuration: `CredentialAlwaysStaysHome`, `RowsAlwaysWhole`. `RowInv` is what the schema
  keeps: rows of their types that name rows which are there, ids handed out in turn, overrides as
  given. It is inductive only if each statement that is left is one that its handler can have
  (`Good`) and each list of them was put together from such; `WorkInv` says so of every handler,
  whatever the others do, and that what was read for a snapshot is rows of the tables, though of
  different moments (`Begins` and `Expands` are the forms in which handlers and statements that
  depend on what was read put lists in front). Then the snapshot needs no more than `SnapInv`: it
  was made by `Snapshot`, which leaves out what a provider's mode does not go with.
- `OperationsProofs`. `PluginAlwaysSound`, `ProbeAlwaysAlone`: without a row there are no grants and
  no circuit, an upgrade's package is on disk before its row names it (`StoreInv`, `OpInv`), a call
  has the authority that its package declares and the code of the same package (`CallInv`), a
  refresh of facts replaces all or none (`KvInv`), and the permits that are out are the calls that
  hold them, counted (`Permits`). `ViewAlwaysTrue`: the order is what was pushed without what was
  evicted, each request once (`OrderInv`, `CallerInv`), and the map has an entry for each of them and
  for those about to be pushed (`EntryInv`). `AlertingAlwaysTrue`: each row is at one place, and the
  depth is, modulo `Depths`, the rows that wait minus the senders that have not counted theirs yet
  (`QueueInv`). Of the alerts, `AlertsFollow` says only what holds when an evaluation that nothing
  disturbed has ended; `SteadyInv` says it of each section as soon as the evaluation is behind it
  (the routes one by one, with the accounts that were listed before), and a step of a later section
  touches neither its alerts nor its sources. `LoopInv` is what holds whether or not anything was
  disturbed: a latency alert has its breach, a sent credential alert is firing.

The assumptions are those of the modules. They are what the code's types and literals say (bounds
are natural numbers, sets of callers are finite, a missing value is none of the values), with
these that say more: an OAuth lease's hints come from a set of instants (`CredentialAssumption`),
there is a package (`PluginAssumption`), a captured signature has a model it was made for
(`StoreBounds`), the usage log is in the order of its rows (`ConstantsAssumption` of `Admission`),
the histogram's bounds are ascending and no summary asks for more than is kept (`TelemetryBounds`),
a target has one of the four formats and overrides a parameter that can be overridden
(`RequestBounds`, which also tells what is given from `Absent`), and the configuration to start with
is one that the schema allows (`ConfigAssumption`).
`AlertBounds` names what the code has by its types: finitely many routes, a depth of a fixed width.
`StorageWithinQuota` bounds the storage by the quota of *a* package, since an approved upgrade
changes the quota of what is stored already.

Only model-checked:

- all liveness: fairness and `ENABLED` are beyond the prover;
- `ResponseSurvives`: it relates the items of an answer to what four parsers and three encoders make
  of them over many frames; the invariant would have to say what each of the twelve pairs has
  understood, opened and shown between any two chunks;
- `PlanIsRight`: predicates are evaluated by a recursive operator, which takes the module's other
  definitions away from the prover, too;
- `EditsAreWhole` beyond `RowsAlwaysWhole`: what an edit, a provisioning or an import that ran alone
  has done when it answers. The invariant would have to follow each kind of handler through its list.


## Findings

`dry_run`: a dry run orders the targets of a round-robin route by the counter that real requests
use, and moves it (`pipeline.rs:3077`, called from `5177`). A dry run between every two requests
keeps all requests on one of two targets, although the answer says that "no production state was
mutated" (`pipeline.rs:5350`). `RotationIsEven` shows that the rotation is even if dry runs count.

Seen while modelling, stated in a module where a name is given, and violated, but without a run:

- `ElapsedCircuitIsProbeable` (`AccountHealth`): each account-scoped failure also writes a status.
  When cooldown and circuit have elapsed, `effective_status` says `CircuitOpen`, but `should_probe`
  (`pool.rs:102`) refuses every stored status of `Cooldown`, `Exhausted` or `Disabled`: nothing
  probes the account until an operator or a plugin resets it.
- `UpstreamErrorPreserved` (`AttemptLoop`): a target that is only skipped after another one failed
  replaces the failure's error by its own generic one (`pipeline.rs:938`).
- `IdleMeansSilence` (`StreamDriver`): the idle deadline goes on while the driver waits for a slow
  client, and may fire although the next chunk has arrived (`pipeline.rs:4161`).
- `RotationsDontRace` (`CredentialRefresh`): `forget` takes the gate away from a rotation that
  holds it, and the next rotation spends the same token at a new gate (`credential_refresh.rs:229`,
  `app.rs:333`).
- portability compares with the provider of the previous attempt only (`pipeline.rs:1013`): a
  second target of the same new provider gets the thoughts that the first was spared, against
  "at the first cross-format/provider boundary" (`docs/protocol-v1-compatibility.md:32`).
- `upstream_traffic.rs:383`: two requests are between the capacity check and the first poll of
  `notified` when two permits end. The second `notify_one` finds a wake-up stored and adds none, so
  one of the two is parked beside free capacity until another permit ends or its wait is over.

Requests and accounts:

- a probe's `last_probe_at` is written to the database but read from the snapshot, so every request
  with an older snapshot probes too (`pipeline.rs:1282`, against `pool.rs:96`); a probe that fails
  with a 5xx does not arm the circuit again (`pipeline.rs:2623`, against `837`);
- `skip_logical_target` remembers one target only (`pipeline.rs:1673`); a late 429 sets the cooldown
  status of an account that was disabled meanwhile (`pipeline.rs:2610`), and a health probe writes
  its verdict over an administrator's (`server.rs:523`);
- a parse error in a translated stream is sent to the client twice (`pipeline.rs:4195`, `4277`); a
  client that leaves between the check of the flag and `notified()` does not wake the driver
  (`pipeline.rs:4144`); a use that settles late is counted for up to two minutes (`admission.rs:223`);
- a plugin that answers a failed rotation with `retry_after_secs` 0 is asked again at once, for as long
  as it does so (`credential_refresh.rs:432`); `NoHotLoop` leaves it out;
- a waiter at the rotation gate takes the result of a rotation that began before its own failure
  (`credential_refresh.rs:273`);
- a comment says that adaptive ordering comes after capability filtering (`pipeline.rs:702`), but
  the capabilities of a resolved profile are checked in the attempt loop only (`923`).

Formats:

- a usage chunk after the finish is lost in some translated streams (`adapters/gemini.rs:914`); an
  Anthropic tool block leaves the kind of the open block at text (`frontends/anthropic.rs:518`), so
  text after a call goes to a closed block; a Responses message item is opened again at output index
  0; Gemini never reports a finish by tool calls; an Anthropic client reads `end_turn` for reasons it
  has no name for;
- the results of an Anthropic client vanish for a chat-completions target (`adapters/openai.rs:113`);
  `seed` and the penalties are dropped in translation; a Responses body that is passed on loses an
  effort without a mapping, and an adaptive Anthropic model thinks as it likes when the level is not in
  its map; an Anthropic body heeds no `max_output_tokens` of the model (`adapters/anthropic.rs:447`) and
  no range of a parameter, only whether it is there; an override of `stop` has the wrong key in an Anthropic body that is
  passed on (`pipeline.rs:2225`), and an OpenAI body that is passed on is
  clamped to the model's limit of tokens, but not to the ranges of its parameters.

Signatures and planning: a stale row may be restored over a newer capture, the removal of an
expired entry may hit the one captured just before, and an entry may be evicted between its insert
and its touch, so that RAM and SQLite disagree until the next capture (`opaque_state.rs:430-620`);
a dry run knows no plugin facts, and takes its traffic snapshot twice.

Administration:

- an import is not portable: an account is matched by its label within the provider; concurrent
  imports make providers of one name; `update_route` replaces the targets in several statements,
  and a reload in between serves a mix;
- `update_key` writes every field, so that of two concurrent edits of different fields one is lost;
  it stores any text as a status (`admin.rs:659`), and `limits::validate` admits a key with every
  status but `revoked` and `disabled` (`limits.rs:14`), so that a misspelt `Revoked` stays active;
- against "revokes every session" (`admin.rs:134`): a login that was verified before a password change
  creates its session after `revoke_all`; a handler dropped between `set_setting` and `revoke_all`
  leaves the old sessions alive; a database error makes `stored_admin_hash` fall back on the
  configured token (`auth.rs:310`). All three are steps of `Access`; `ChangeEndsSessions` names them as
  the exceptions, and holds otherwise;
- some early ends of `start_plugin_auth` leave the flow pending until it expires; two completions
  that run together read the same accounts and choose the same label and priority.

Plugins: a half-open circuit stays half-open when the call that probes is dropped or the process
ends; `account_model_discover` asks no circuit; a late success closes an open circuit; a removal
makes a new semaphore, so that old and new calls do not share a limit; an enable that races a
disable leaves capabilities registered; an upgrade does not unregister the old ones.

Alerts and views:

- a wrapped queue depth reads as saturation until the sender has counted, and `depth * 100`
  overflows there in a debug build, which ends the alert task (`alerts.rs:300`);
- `latency_p95` counts samples older than its ten minutes when no new one pushes them out
  (`alerts.rs:82`); alerts of accounts that were deleted, routes that were disabled and budgets that
  were removed never resolve, nor does `usage_queue_saturated` once a row was dropped; a webhook that
  fails is not repeated, since the alert is already marked as firing;
- requests that end before the attempt loop, or are dropped, stay in flight in the live view until
  they are evicted (`pipeline.rs:491`); the trimming of its finished tail never finds one to trim.

## Not modelled

- The model catalogue, the profiles of `adapters/mod.rs` and the validation of fields: tables and
  data checks; the modules take their results as inputs.
- SSE framing: a function of the concatenated bytes.
- The WASM host (`plugins/runtime.rs` beyond its storage calls), packages, manifests, catalogues:
  data checks and an external engine.
- The command line, start-up, configuration files, update and maintenance: each run alone.
- Outbound transport and address checks, assets, read-only handlers, the route trace: pure I/O or
  text that nothing reads back.
- Cryptography is ideal. Formatting and wording are left out everywhere. Float arithmetic (limits,
  EWMAs, scores, costs) is abstracted to what decisions depend on.

## Plan

1. The rest of `EditsAreWhole`: a handler that runs alone, statement by statement; first
   `SuccessIsServed`, then `ProvisioningKeepsTargets` and `ImportIsIdempotent`.
2. `AccountHealth` with the attempt loop's view of it: two targets of a plan on one account.
3. `RequestCodec` with `OpaqueStore` in the place of its stored signatures.
4. SSE framing, cost and the model profiles as operators against reference definitions.
