----------------------------- MODULE MCServices -----------------------------
(* What decides about requests without touching their contents: account health,    *)
(* the plan of a route, administrators' sessions, virtual keys and the enrollment  *)
(* of accounts share no variables, so one run checks them, each on its own from    *)
(* its own initial states.                                                         *)
EXTENDS AccountHealth, RoutePlan, Admittance, Enrollment, TLC

CONSTANTS q1, q2,
  Parts            \* which of them run

VARIABLE part

\* the requests of AccountHealth are alike; no other part knows them
Symmetric == Permutations(Requests)

-----------------------------------------------------------------------------
(* Plans: two logical targets, one of them with two accounts *)

RouteTarget(id, acct, owner, priority) ==
  [id |-> id, acct |-> acct, provider |-> owner, model |-> id, priority |-> priority, rank |-> 1,
   pred |-> None, allow |-> FALSE, caps |-> None, window |-> None]
Cmp(fact, op, value) == [k |-> "cmp", fact |-> fact, op |-> op, value |-> value]
Tagged == Cmp("key_tag", "eq", JsonText("x"))
Fast == Cmp("plugin.a", "eq", JsonBool(TRUE))
Capability == Cmp("target_capability", "ne", JsonBool(FALSE))
Fancy == [k |-> "and", of |-> <<[k |-> "not", of |-> Fast], [k |-> "or", of |-> <<Tagged, Capability>>]>>]
Short == [k |-> "and", of |-> <<[k |-> "const", value |-> TRUE], Cmp("input_tokens", "lte", JsonNumber(1))>>]
T1 == RouteTarget(1, 1, "p", 1)
T1b == [RouteTarget(1, 2, "p", 1) EXCEPT !.rank = 2]
T2 == RouteTarget(2, 3, "q", 2)
Picky == [T1 EXCEPT !.pred = Fancy]
Maybe == [T2 EXCEPT !.pred = [k |-> "not", of |-> Fast], !.allow = TRUE, !.caps = FALSE]
Narrow == [T2 EXCEPT !.window = 1, !.pred = Short]
RouteOf(kind, targets, max) == [strategy |-> kind, targets |-> targets, max |-> max]
OneRoute == RouteOf("single", <<T1, T1b>>, None)
MCRoutes ==
  {OneRoute, RouteOf("round-robin", <<T1, T1b, T2>>, None), RouteOf("adaptive", <<T1, T1b, Narrow>>, 2),
   RouteOf("priority", <<Picky, Maybe>>, None), RouteOf("least-used", <<T2, T1>>, 9),
   RouteOf("weighted", <<Narrow, Picky>>, None)}
MCWishes ==
  {[tools |-> FALSE, tag |-> None, tokens |-> 2, allowed |-> {}],
   [tools |-> TRUE, tag |-> "x", tokens |-> 1, allowed |-> {}],
   [tools |-> TRUE, tag |-> "y", tokens |-> 1, allowed |-> {"q"}]}
Fact(name, value, stale) == [name |-> name, value |-> JsonBool(value), stale |-> stale]
MCFactLists ==
  {<< >>, <<Fact("plugin.a", TRUE, FALSE)>>,
   <<Fact("plugin.a", TRUE, TRUE), Fact("plugin.a", FALSE, FALSE), Fact("plugin.a", TRUE, FALSE)>>}
MCLoads ==
  {[room |-> TRUE, overload |-> 0, error |-> 0, ttft |-> None],
   [room |-> FALSE, overload |-> 0, error |-> 1, ttft |-> 3]}
MCHealths ==
  {[a \in 1..3 |-> IF a = 1 THEN "open" ELSE IF a = 2 THEN "probe" ELSE "cooldown"],
   [a \in 1..3 |-> IF a = 1 THEN "cooldown" ELSE "healthy"]}
MCQuotas ==
  {[form |-> "percent", n |-> 120, reset |-> None], [form |-> "word", n |-> 0, reset |-> 1]}

-----------------------------------------------------------------------------
(* Keys: a revocation, and an update of other fields *)

MCEdits ==
  {[status |-> "revoked", limit |-> Omitted, ips |-> {}],
   [status |-> Omitted, limit |-> 1, ips |-> {[net |-> 2, prefix |-> 1]}]}
MCAddresses == {1, 3, Omitted}

-----------------------------------------------------------------------------
\* The part that runs, and one initial state for the others. Account health runs
\* twice: with all that an operator does at one time, and with a clock and no more of
\* the operator than the command line's reset.
ServicesInit ==
  /\ part \in Parts
  /\ Init /\ PlanInit /\ AccessInit /\ KeyInit /\ EnrollInit
  /\ part # "plan" => route = OneRoute
  /\ part # "enrollment" => reviewed

ServicesNext ==
  \/ /\ part \in {"account", "clock"} /\ Next
     /\ IF part = "account" THEN now' = now ELSE operator' = operator
     /\ UNCHANGED <<part, planVars, accessVars, keyVars, enrollVars>>
  \/ part = "plan" /\ PlanNext /\ UNCHANGED <<part, vars, accessVars, keyVars, enrollVars>>
  \/ part = "access" /\ AccessNext /\ UNCHANGED <<part, vars, planVars, keyVars, enrollVars>>
  \/ part = "keys" /\ KeyNext /\ UNCHANGED <<part, vars, planVars, accessVars, enrollVars>>
  \/ part = "enrollment" /\ EnrollNext /\ UNCHANGED <<part, vars, planVars, accessVars, keyVars>>

ServicesSpec ==
  ServicesInit /\ [][ServicesNext]_<<part, vars, planVars, accessVars, keyVars, enrollVars>>
=============================================================================
