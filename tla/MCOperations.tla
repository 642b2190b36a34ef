---------------------------- MODULE MCOperations ----------------------------
(* What runs beside the requests: the plugin manager, the usage log with the       *)
(* alerts, target telemetry and the live view. They share no variables, so one run *)
(* checks them, each on its own from its own initial states.                       *)
EXTENDS PluginManager, Alerting, Telemetry, LiveView, TLC

CONSTANTS p1, p2, net, cred,
  Parts            \* which of them run

VARIABLE part

-----------------------------------------------------------------------------
(* A package that asks for the network and one that asks for credentials too *)

MCPackages == {p1, p2}
MCDeclares == (p1 :> {net, cred}) @@ (p2 :> {net})
MCQuota == (p1 :> 2) @@ (p2 :> 1)

MCUses ==
  "a1" :> {"install", "approve", "remove", "settings", "scoped"} @@
  "a2" :> {"enable", "disable", "rollback", "revoke", "validate", "approve"} @@
  "c1" :> {"call", "discover"} @@
  "c2" :> {"cancellable", "refresh"}

\* Administrators by themselves, with a crash; two of their requests around one call,
\* one and a crash around another; two calls that run together; two that wait for
\* one permit, beside a request.
Bound(ops, crashes, callers, permits, start) ==
  [ops |-> ops, crashes |-> crashes, callers |-> callers, permits |-> permits, start |-> start]
MCBounds ==
  {Bound(4, 1, {}, 1, None), Bound(2, 0, {"c1"}, 1, p1), Bound(1, 1, {"c2"}, 1, p1),
   Bound(0, 0, {"c1", "c2"}, 2, p1), Bound(1, 0, {"c1", "c2"}, 1, p2)}
-----------------------------------------------------------------------------
(* Alerts: an account, a route with a target that the snapshot does not know, one  *)
(* key with a budget and one without                                               *)

LogRow(hop, bad, cost) == [key |-> "k", hop |-> hop, bad |-> bad, cost |-> cost]
MCLogRows == {LogRow(TRUE, FALSE, 1), LogRow(FALSE, TRUE, 0)}
MCOwnerOf == "x1" :> "P1"
MCRouteModels == "r1" :> {"m1", "m3"}
MCModelOwner == ("m1" :> "P1") @@ ("m2" :> "P2")
MCBudget == ("k" :> 1) @@ ("f" :> 0)

\* the sources meet in the loop only, so one group of them changes at a time
AlertsOf(sources) ==
  CASE sources = "usage" -> UsageNext \/ LoopNext
    [] sources = "health" -> HealthNext \/ LoopNext
    [] sources = "speed" -> SpeedNext \/ LoopNext

(* Telemetry: two accounts, a duration on a bound and one above the last *)

TargetOf(account) == [provider |-> "P1", account |-> account, model |-> "m1"]
MCSignals ==
  {Attempt(TargetOf("x1"), "success", 1), Attempt(TargetOf("x2"), "timeout", 3),
   Synthetic(TargetOf("x1"), "provider_circuit_reject")}
MCSteps == <<1, 2>>

-----------------------------------------------------------------------------
\* the part that runs, and one initial state for the others
OperationsInit ==
  /\ part \in Parts
  /\ Init /\ AlertInit /\ TelemetryInit /\ LiveInit
  /\ part # "plugins" => left = Bound(4, 1, {}, 1, None)

OperationsNext ==
  \/ part = "plugins" /\ Next /\ UNCHANGED <<part, alertVars, telemetryVars, liveVars>>
  \/ part \in {"usage", "health", "speed"} /\ AlertsOf(part)
     /\ UNCHANGED <<part, vars, telemetryVars, liveVars>>
  \/ part = "telemetry" /\ TelemetryNext /\ UNCHANGED <<part, vars, alertVars, liveVars>>
  \/ part = "live" /\ LiveNext /\ UNCHANGED <<part, vars, alertVars, telemetryVars>>

OperationsSpec ==
  OperationsInit /\ [][OperationsNext]_<<part, vars, alertVars, telemetryVars, liveVars>>
=============================================================================
