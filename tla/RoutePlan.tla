------------------------------ MODULE RoutePlan ------------------------------
(* How a request becomes an ordered list of targets (pipeline.rs run, before its   *)
(* first attempt, with predicate.rs and quota.rs): predicates in three-valued      *)
(* logic over facts that may be missing, the strategies of a route, the adaptive   *)
(* order over frozen telemetry and quota evidence, the deferral of open circuits,  *)
(* and the two readers of the same code that send nothing: dry run and token       *)
(* count. A request's steps interleave with the clock and with the telemetry of    *)
(* other requests.                                                                 *)
EXTENDS Integers, Sequences, SequencesExt, FiniteSets, FiniteSetsExt

CONSTANTS
  Routes,      \* [strategy, targets, max]; a target is
               \* [id, acct, provider, model, priority, rank, pred, allow, caps, window]
  Wishes,      \* [tools, tag, tokens, allowed]: what a request asks for
  FactLists,   \* what plugins contribute: sequences of [name, value, stale]
  Loads,       \* telemetry of an account: [room, overload, error, ttft]
  Healths,     \* snapshots: account -> healthy, cooldown, open or probe
  Quotas,      \* what a source reports: [form, n, reset]
  None,        \* a value that is not known
  NearReset, SoonReset, GlobalAge,  \* ages and distances of quota evidence
  MaxPasses, MaxChanges, MaxHour    \* bounds

VARIABLES
  route,       \* the route that requests ask for
  hour,        \* the clock
  rr,          \* its round-robin counter
  evidence,    \* account -> account-global quota snapshot, or None
  load,        \* account -> telemetry
  used,        \* account -> logged requests
  changes,     \* changes of evidence and load so far
  pass,        \* the request, dry run or token count that is being planned
  led          \* history: logical target -> real and all passes it led, by round-robin
planVars == <<route, hour, rr, evidence, load, used, changes, pass, led>>

ASSUME PlanBounds == /\ MaxPasses \in Nat /\ MaxChanges \in Nat /\ MaxHour \in Nat
                     /\ \A r \in Routes : r.targets # << >>

Targets == ToSet(route.targets)
Accounts == {t.acct : t \in Targets}

\* a stable sort
SortedBy(s, Before(_, _)) ==
  LET place(i) == Cardinality({j \in DOMAIN s : \/ Before(s[j], s[i])
                                                \/ ~Before(s[i], s[j]) /\ j <= i})
  IN [k \in DOMAIN s |-> s[CHOOSE i \in DOMAIN s : place(i) = k]]

-----------------------------------------------------------------------------
(* Predicates *)

JsonBool(b) == [kind |-> "bool", v |-> b]
JsonNumber(n) == [kind |-> "number", v |-> n]
JsonText(s) == [kind |-> "text", v |-> s]

\* json_eq
JsonEq(a, b) == a.kind = b.kind /\ a.v = b.v

\* fact_value, with the names a model needs: request facts, facts of the target
\* (a capability that is not declared is unknown) and facts of plugins
FactValue(fact, wish, t, plugin) ==
  CASE fact = "has_tools" -> JsonBool(wish.tools)
    [] fact = "key_tag" -> IF wish.tag = None THEN None ELSE JsonText(wish.tag)
    [] fact = "input_tokens" -> JsonNumber(wish.tokens)
    [] fact = "target_capability" -> IF t.caps = None THEN None ELSE JsonBool(t.caps)
    [] fact = "target_context_window" -> IF t.window = None THEN None ELSE JsonNumber(t.window)
    [] fact \in DOMAIN plugin -> plugin[fact]
    [] OTHER -> None

\* eval_cmp
Tri(b) == IF b THEN "true" ELSE "false"
EvalCmp(p, value) ==
  CASE value = None -> "unknown"
    [] value # None /\ p.op = "eq" -> Tri(JsonEq(value, p.value))
    [] value # None /\ p.op = "ne" -> Tri(~JsonEq(value, p.value))
    [] value # None /\ p.op = "lte" ->
         IF value.kind = "number" /\ p.value.kind = "number" THEN Tri(value.v <= p.value.v)
         ELSE "unknown"

Negated_bug(r) == IF r = "true" THEN "false" ELSE "true"
Negated(r) == CASE r = "true" -> "false" [] r = "false" -> "true" [] r = "unknown" -> "unknown"

\* eval_with_facts
RECURSIVE Eval(_, _, _, _)
Eval(p, wish, t, plugin) ==
  CASE p.k = "const" -> Tri(p.value)
    [] p.k = "cmp" -> EvalCmp(p, FactValue(p.fact, wish, t, plugin))
    [] p.k = "not" -> Negated(Eval(p.of, wish, t, plugin))
    [] p.k = "and" -> LET r == {Eval(q, wish, t, plugin) : q \in ToSet(p.of)}
                      IN IF "false" \in r THEN "false"
                         ELSE IF "unknown" \in r THEN "unknown" ELSE "true"
    [] p.k = "or" -> LET r == {Eval(q, wish, t, plugin) : q \in ToSet(p.of)}
                     IN IF "true" \in r THEN "true"
                        ELSE IF "unknown" \in r THEN "unknown" ELSE "false"

\* eligibility_with_facts
Outcome(t, wish, plugin) ==
  IF t.pred = None THEN "true" ELSE Eval(t.pred, wish, t, plugin)
Eligible(t, wish, plugin) ==
  LET r == Outcome(t, wish, plugin) IN r = "true" \/ (r = "unknown" /\ t.allow)

-----------------------------------------------------------------------------
(* Quota evidence *)

\* parse_quota_state, in hundredths: a word, a percentage, or a number that is a
\* fraction up to 1 and a percentage above it; clamped to 0..100
Clamp100(n) == IF n < 0 THEN 0 ELSE IF n > 100 THEN 100 ELSE n
Remaining(q) ==
  CASE q.form = "word" -> 0
    [] q.form = "percent" -> Clamp100(q.n)
    [] q.form = "number" -> Clamp100(IF q.n > 1 THEN q.n ELSE 100 * q.n)
    [] q.form = "unreadable" -> None
Observation(q, age) == [left |-> Remaining(q), reset |-> IF q.reset = None THEN None ELSE hour + q.reset,
                        at |-> hour, age |-> age]

\* QuotaSnapshot::is_fresh and preference
IsFresh(s, now) == (s.reset = None \/ s.reset > now) /\ now - s.at <= s.age
ResetBonus(s, now) ==
  IF s.reset = None THEN 0
  ELSE IF s.reset - now <= NearReset THEN 10 ELSE IF s.reset - now <= SoonReset THEN 5 ELSE 0
Preference(s, now) ==
  IF ~IsFresh(s, now) \/ s.left = None THEN 0
  ELSE IF s.left < 50 THEN s.left - 50 + ResetBonus(s, now) ELSE s.left - 50

\* adaptive_snapshot
AdaptiveSnapshot(acct) ==
  IF evidence[acct] # None /\ IsFresh(evidence[acct], hour) THEN evidence[acct] ELSE None

-----------------------------------------------------------------------------
(* The orders of a route's targets *)

\* order_accounts: by the account's priority; within a priority the weights make
\* any order possible
AccountOrders(group) ==
  {s \in SetToSeqs(ToSet(group)) : \A i, j \in DOMAIN s : i < j => s[i].rank <= s[j].rank}

\* the targets of one logical target, in the order of their first members
GroupKey_bug(t) == <<t.id, t.acct>>
GroupKey(t) == t.id
GroupsOf(targets) ==
  LET first == SelectSeq([i \in DOMAIN targets |-> i],
                         LAMBDA i : \A j \in 1..(i - 1) : GroupKey(targets[j]) # GroupKey(targets[i]))
  IN [g \in DOMAIN first |-> SelectSeq(targets, LAMBDA t : GroupKey(t) = GroupKey(targets[first[g]]))]
\* order_route_account_candidates for every group
Grouped(targets) ==
  LET groups == GroupsOf(targets)
  IN {gs \in [DOMAIN groups -> UNION {AccountOrders(groups[g]) : g \in DOMAIN groups}] :
        \A g \in DOMAIN groups : gs[g] \in AccountOrders(groups[g])}
Rotated(gs, n) == [k \in DOMAIN gs |-> gs[((k - 1 + n) % Len(gs)) + 1]]

\* adaptive_account_dispatchable
Dispatchable(t, health) == health[t.acct] \in {"healthy", "probe"}

\* what an adaptive order looks at, frozen for one pass
Frozen(targets, health) ==
  [health |-> health,
   load |-> load,
   quota |-> [a \in Accounts |-> IF AdaptiveSnapshot(a) = None THEN 0
                                    ELSE Preference(AdaptiveSnapshot(a), hour)],
   among |-> {t \in ToSet(targets) : Dispatchable(t, health)}]

\* median_observed_ttft, over the dispatchable targets
MedianTtft(ev) ==
  LET seen == {t \in ev.among : ev.load[t.acct].ttft # None}
      sorted == SortedBy(SetToSeq(seen), LAMBDA a, b : ev.load[a.acct].ttft < ev.load[b.acct].ttft)
      mid == Len(sorted) \div 2
      at(i) == ev.load[sorted[i].acct].ttft
  IN IF seen = {} THEN 0
     ELSE IF Len(sorted) % 2 = 0 THEN at(mid) + (at(mid + 1) - at(mid)) \div 2 ELSE at(mid + 1)

\* build_adaptive_scores_with_quota: capacity, quota, overload, errors, latency,
\* priority, and the identities that make the order total
AdaptiveScore(t, ev) ==
  LET l == ev.load[t.acct]
  IN <<IF l.room THEN 0 ELSE 1, - ev.quota[t.acct], l.overload, l.error,
       IF l.ttft = None THEN MedianTtft(ev) ELSE l.ttft, t.priority, t.id, t.acct, t.model>>
\* compare_adaptive_targets
Better(a, b, ev) ==
  LET x == AdaptiveScore(a, ev)
      y == AdaptiveScore(b, ev)
  IN \E i \in DOMAIN x : x[i] < y[i] /\ \A j \in 1..(i - 1) : x[j] = y[j]

\* a group: its dispatchable members by score, then the others
AdaptiveGroup(group, ev) ==
  SortedBy(SelectSeq(group, LAMBDA t : t \in ev.among), LAMBDA a, b : Better(a, b, ev))
  \o SelectSeq(group, LAMBDA t : t \notin ev.among)
\* a group is represented by its best dispatchable member, if it has one
GroupBefore(g, h, ev) ==
  IF g[1] \in ev.among THEN h[1] \in ev.among => Better(g[1], h[1], ev)
  ELSE h[1] \notin ev.among /\ g[1].priority < h[1].priority

MinUsed(g) == Min({used[t.acct] : t \in ToSet(g)})
UsedBefore(g, h) == MinUsed(g) < MinUsed(h) \/ (MinUsed(g) = MinUsed(h) /\ g[1].priority < h[1].priority)

PriorityBefore(g, h) == g[1].priority < h[1].priority

\* order_route_targets; the totals of a least-used route may be unavailable
OrderRouteTargets(targets, ev) ==
  LET orders(gs) ==
        CASE route.strategy = "round-robin" -> {Rotated(gs, rr)}
          [] route.strategy = "weighted" -> {Rotated(gs, n) : n \in 0..(Len(gs) - 1)}
          [] route.strategy = "adaptive" ->
               {SortedBy([g \in DOMAIN gs |-> AdaptiveGroup(gs[g], ev)],
                         LAMBDA g, h : GroupBefore(g, h, ev))}
          [] route.strategy = "least-used" -> {SortedBy(gs, UsedBefore), SortedBy(gs, PriorityBefore)}
          [] route.strategy = "priority" -> {SortedBy(gs, PriorityBefore)}
  IN IF targets = << >> THEN {<< >>}
     ELSE {FlattenSeq(o) : o \in UNION {orders(gs) : gs \in Grouped(targets)}}
\* the counter moves whoever asks for the order
Advances == route.strategy = "round-robin"
NextCounter == IF Advances THEN rr + 1 ELSE rr
Led(list, real) ==
  IF Advances
  THEN [led EXCEPT ![list[1].id] = [all |-> @.all + 1, real |-> @.real + (IF real THEN 1 ELSE 0)]]
  ELSE led

-----------------------------------------------------------------------------
(* The steps of a request *)

Unplanned == [at |-> "idle", wish |-> None, health |-> None, list |-> << >>, facts |-> << >>,
              seen |-> None, pick |-> None]
Step(rec) == pass' = rec

\* select_accounts: the healthy ones, or all of them if none is
SelectAccounts(health) ==
  LET healthy == SelectSeq(route.targets, LAMBDA t : health[t.acct] = "healthy")
  IN AccountOrders(IF healthy = << >> THEN route.targets ELSE healthy)

\* run: the snapshot, and the order unless the route is adaptive
Resolve(wish, health) ==
  /\ pass.at = "idle"
  /\ \E list \in CASE route.strategy = "single" -> SelectAccounts(health)
                   [] route.strategy = "adaptive" -> {route.targets}
                   [] OTHER -> OrderRouteTargets(route.targets, None) :
       /\ Step([Unplanned EXCEPT !.at = "ordered", !.wish = wish, !.health = health,
                                 !.list = list])
       /\ led' = Led(list, TRUE)
  /\ rr < MaxPasses /\ rr' = NextCounter
  /\ UNCHANGED <<route, changes, hour, evidence, load, used>>

\* a model that no route or model has
NotConfigured ==
  /\ pass.at = "idle"
  /\ Step([Unplanned EXCEPT !.at = "not_found"])
  /\ UNCHANGED <<route, changes, hour, rr, evidence, load, used, led>>

\* gather_plugin_facts and PluginFacts::insert: a stale fact is absent, the first
\* of two facts with one name wins
Gathered(list) ==
  LET fresh == SelectSeq(list, LAMBDA f : ~f.stale)
  IN [n \in {f.name : f \in ToSet(fresh)} |->
        fresh[Min({i \in DOMAIN fresh : fresh[i].name = n})].value]

\* the restrictions of the key and the context window
Permitted(t, wish) == wish.allowed = {} \/ t.provider \in wish.allowed
FitsWindow(t, wish) == t.window = None \/ t.window <= 0 \/ wish.tokens <= t.window
Suits(t, wish, plugin) == Eligible(t, wish, plugin) /\ Permitted(t, wish) /\ FitsWindow(t, wish)

FilterTargets(list) ==
  /\ pass.at = "ordered"
  /\ route.strategy = "single" => list = << >>
  /\ LET facts == Gathered(list)
     IN Step([pass EXCEPT !.at = "filtered", !.facts = facts,
                !.list = SelectSeq(pass.list, LAMBDA t : Suits(t, pass.wish, facts))])
  /\ UNCHANGED <<route, changes, hour, rr, evidence, load, used, led>>

\* the adaptive order comes after the filters
OrderAdaptive_bug ==
  /\ pass.at = "filtered"
  /\ Step([pass EXCEPT !.at = "adapted", !.seen = Frozen(pass.list, pass.health)])
  /\ UNCHANGED <<route, changes, hour, rr, evidence, load, used, led>>
OrderAdaptive ==
  /\ pass.at = "filtered"
  /\ LET ev == Frozen(pass.list, pass.health)
     IN \E list \in IF route.strategy = "adaptive" THEN OrderRouteTargets(pass.list, ev)
                      ELSE {pass.list} :
          Step([pass EXCEPT !.at = "adapted", !.list = list, !.seen = ev])
  /\ UNCHANGED <<route, changes, hour, rr, evidence, load, used, led>>

\* the deferral of open circuits, and the number of attempts
Deferred(t, health) == health[t.acct] = "open"
DeferOpen_bug(list, health) == SelectSeq(list, LAMBDA t : ~Deferred(t, health))
DeferOpen(list, health) ==
  SelectSeq(list, LAMBDA t : ~Deferred(t, health)) \o SelectSeq(list, LAMBDA t : Deferred(t, health))
Defer ==
  /\ pass.at = "adapted"
  /\ Step([pass EXCEPT !.at = IF pass.list = << >> THEN "no_eligible_target" ELSE "planned",
                       !.list = DeferOpen(pass.list, pass.health)])
  /\ UNCHANGED <<route, changes, hour, rr, evidence, load, used, led>>

\* profile_satisfies_needs: a capability that is not declared is no obstacle
Capable(t, wish) == wish.tools => t.caps # FALSE

\* the request is served by one of its capable targets, within its attempts, and logged
\* (counted up to 2, where an order looks at it)
Attempts(p) == LET n == IF route.max = None THEN Len(p.list) ELSE route.max
               IN IF n < 1 THEN 1 ELSE IF n > 5 THEN 5 ELSE n
Serve ==
  /\ pass.at = "planned"
  /\ \E i \in 1..Attempts(pass) :
       /\ i <= Len(pass.list) /\ Capable(pass.list[i], pass.wish)
       /\ used' = IF route.strategy = "least-used" /\ used[pass.list[i].acct] < 2
                  THEN [used EXCEPT ![pass.list[i].acct] = @ + 1] ELSE used
  /\ Step(Unplanned)
  /\ UNCHANGED <<route, changes, hour, rr, evidence, load, led>>
\* or it fails, with or without an attempt
Refuse ==
  /\ pass.at \in {"not_found", "no_eligible_target", "planned"}
  /\ Step(Unplanned)
  /\ UNCHANGED <<route, changes, hour, rr, evidence, load, used, led>>

-----------------------------------------------------------------------------
(* Readers: dry run and token count *)

\* dry_run: the same order, without the facts of plugins; the first candidate
\* that is eligible, available and not saturated, or the best by adaptive rank
NoFacts == << >>
HardEligible(wish) ==
  SelectSeq(route.targets, LAMBDA t : Suits(t, wish, NoFacts) /\ Capable(t, wish))
DryRanks_bug(wish, health) == {HardEligible(wish)}
DryRanks(wish, health) ==
  OrderRouteTargets(HardEligible(wish), Frozen(HardEligible(wish), health))
WouldSelect(t, wish, health) ==
  /\ Suits(t, wish, NoFacts) /\ Capable(t, wish) /\ Dispatchable(t, health)
  /\ route.strategy = "adaptive" => load[t.acct].room
FirstOf(s, Test(_)) == IF \E i \in DOMAIN s : Test(s[i]) THEN s[Min({i \in DOMAIN s : Test(s[i])})] ELSE None
DryRun(wish, health) ==
  /\ pass.at = "idle"
  /\ rr < MaxPasses /\ rr' = NextCounter
  /\ \E list \in CASE route.strategy = "single" -> SelectAccounts(health)
                   [] route.strategy = "adaptive" -> DryRanks(wish, health)
                   [] OTHER -> OrderRouteTargets(route.targets, None) :
       /\ Step([Unplanned EXCEPT !.at = "dry", !.wish = wish,
                  !.seen = Frozen(HardEligible(wish), health),
                  !.pick = FirstOf(list, LAMBDA t : WouldSelect(t, wish, health))])
       /\ led' = Led(list, FALSE)
  /\ UNCHANGED <<route, hour, evidence, load, used, changes>>

\* token_count_exact_target and count_tokens: exact only where every permitted
\* target has one model, through a healthy account
Uniform(ts) == \A t, u \in ts : t.provider = u.provider /\ t.model = u.model
CountTarget(wish, health) ==
  LET open == SelectSeq(route.targets, LAMBDA t : Permitted(t, wish) /\ Capable(t, wish))
      byRank == SortedBy(open, LAMBDA a, b : a.rank < b.rank)
  IN IF Uniform(ToSet(open)) THEN FirstOf(byRank, LAMBDA t : health[t.acct] = "healthy") ELSE None
CountTokens(wish, health) ==
  /\ pass.at = "idle"
  /\ Step([Unplanned EXCEPT !.wish = wish, !.pick = CountTarget(wish, health),
             !.at = IF \A t \in Targets : ~(Permitted(t, wish) /\ Capable(t, wish)) THEN "refused"
                    ELSE IF CountTarget(wish, health) = None THEN "estimate" ELSE "exact"])
  /\ UNCHANGED <<route, hour, rr, evidence, load, used, changes, led>>

Answered ==
  /\ pass.at \in {"dry", "refused", "estimate", "exact"}
  /\ Step(Unplanned)
  /\ UNCHANGED <<route, hour, rr, evidence, load, used, changes, led>>

-----------------------------------------------------------------------------
(* What goes on meanwhile; only adaptive routes look at it *)

Change == route.strategy = "adaptive" /\ changes < MaxChanges /\ changes' = changes + 1

\* observe_plugin and observe_exhausted: evidence about the whole account. What
\* headers say (observe_headers) goes to the diagnostics only.
ObserveGlobal(a, q) ==
  /\ Change
  /\ evidence' = [evidence EXCEPT ![a] = Observation(q, GlobalAge)]
  /\ UNCHANGED <<route, hour, rr, load, used, pass, led>>

\* telemetry of other requests
LoadChanges(a, l) ==
  /\ Change
  /\ load' = [load EXCEPT ![a] = l]
  /\ UNCHANGED <<route, hour, rr, evidence, used, pass, led>>

\* time: evidence ages, and a snapshot's windows end
Elapses(h) == CASE h = "open" -> "probe" [] h = "cooldown" -> "healthy" [] OTHER -> h
HourPasses ==
  /\ hour < MaxHour
  /\ hour' = hour + 1
  /\ \E late \in SUBSET Accounts :
       Step(IF pass.health = None THEN pass
            ELSE [pass EXCEPT !.health = [a \in DOMAIN @ |-> IF a \in late THEN Elapses(@[a]) ELSE @[a]]])
  /\ UNCHANGED <<route, rr, evidence, load, used, changes, led>>

PlanInit ==
  /\ route \in Routes /\ hour = 0 /\ rr = 0 /\ changes = 0 /\ pass = Unplanned
  /\ evidence = [a \in Accounts |-> None]
  /\ load = [a \in Accounts |-> [room |-> TRUE, overload |-> 0, error |-> 0, ttft |-> None]]
  /\ used = [a \in Accounts |-> 0]
  /\ led = [id \in {t.id : t \in Targets} |-> [all |-> 0, real |-> 0]]

PlanNext ==
  \/ \E wish \in Wishes, health \in Healths :
       Resolve(wish, health) \/ DryRun(wish, health) \/ CountTokens(wish, health)
  \/ NotConfigured
  \/ \E list \in FactLists : FilterTargets(list)
  \/ OrderAdaptive \/ Defer \/ Serve \/ Refuse \/ Answered
  \/ \E a \in Accounts : \/ \E q \in Quotas : ObserveGlobal(a, q)
                         \/ \E l \in Loads : LoadChanges(a, l)
  \/ HourPasses

PlanSpec == PlanInit /\ [][PlanNext]_planVars

-----------------------------------------------------------------------------
(* Properties *)

\* The variables keep their types.
PlanTypeOK ==
  /\ hour \in 0..MaxHour /\ rr \in 0..MaxPasses
  /\ pass.at \in {"idle", "not_found", "ordered", "filtered", "adapted", "planned", "no_eligible_target",
                 "dry", "refused", "estimate", "exact"}
  /\ route \in Routes /\ ToSet(pass.list) \subseteq Targets
  /\ \A a \in Accounts : evidence[a] # None => evidence[a].left \in 0..100 \cup {None}

Planned == pass.at \in {"planned", "no_eligible_target"}

\* No strategy loses, repeats or adds a target: a planned request has each target
\* that its facts, its key and its size admit exactly once.
PlanIsComplete ==
  Planned /\ route.strategy # "single" =>
    /\ ToSet(pass.list) = {t \in Targets : Suits(t, pass.wish, pass.facts)}
    /\ IsInjective(pass.list)

\* A fact that a plugin did not deliver is never guessed: where a predicate is
\* decided without it, every value of it gives the same decision.
UnknownIsNeverGuessed ==
  Planned =>
    \A t \in Targets, tag \in {"x", "y"}, v \in BOOLEAN, missing \in {"plugin.a", "plugin.b"} :
      LET sure == Outcome(t, pass.wish, pass.facts)
          wish == IF pass.wish.tag = None THEN [pass.wish EXCEPT !.tag = tag] ELSE pass.wish
          caps == IF t.caps = None THEN [t EXCEPT !.caps = v] ELSE t
          facts == [n \in DOMAIN pass.facts \cup {missing} |->
                      IF n \in DOMAIN pass.facts THEN pass.facts[n] ELSE JsonBool(v)]
      IN sure # "unknown" => Outcome(caps, wish, facts) = sure

\* Every logical target of a round-robin route leads as many orders as another, or
\* one more or less, however many accounts it has and whoever asks.
RotationIsEven ==
  Advances =>
    \A t, u \in Targets : led[t.id].all <= led[u.id].all + 1

\* An adaptive route leads with the best target: none that can be used now is
\* better than the first, by what was frozen when it was ordered.
BestLeads ==
  pass.at = "adapted" /\ route.strategy = "adaptive" /\ pass.seen.among # {} =>
    /\ pass.list[1] \in pass.seen.among
    /\ \A t \in pass.seen.among : ~Better(t, pass.list[1], pass.seen)

\* A dry run of an adaptive route names the best target that could take a request,
\* and names one whenever there is one.
DryRunIsHonest ==
  pass.at = "dry" /\ route.strategy = "adaptive" =>
    LET open == {t \in pass.seen.among : pass.seen.load[t.acct].room}
    IN IF open = {} THEN pass.pick = None
       ELSE pass.pick \in open /\ \A t \in open : ~Better(t, pass.pick, pass.seen)

\* A dry run touches no production state: the requests that clients send go round
\* the targets of a round-robin route evenly.
RequestsGoRound ==
  Advances =>
    \A t, u \in Targets : led[t.id].real <= led[u.id].real + 1

\* A plan loses no target and guesses no fact, goes round evenly or leads with the best,
\* as its strategy says, and a dry run names what a request would get.
PlanIsRight ==
  /\ PlanTypeOK
  /\ PlanIsComplete
  /\ UnknownIsNeverGuessed
  /\ RotationIsEven
  /\ BestLeads
  /\ DryRunIsHonest
=============================================================================
