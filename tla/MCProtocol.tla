----------------------------- MODULE MCProtocol -----------------------------
(* What happens to the contents of requests and responses: the codec of responses, *)
(* the codec of requests and the store of signatures share no variables, so one    *)
(* run checks the three of them, each on its own from its own initial states.      *)
EXTENDS StreamCodec, RequestCodec, OpaqueStore, TLC

CONSTANTS t1, t2

VARIABLE part

\* the threads of OpaqueStore are alike; no other part knows them
AlikeThreads == Permutations(Threads)

-----------------------------------------------------------------------------
(* Requests: targets and the plans of up to three of them *)

Target(format, provider, model) ==
  [wire |-> format, provider |-> provider, model |-> model, three |-> FALSE,
   params |-> [x \in Tunable |-> Absent], limit |-> Absent,
   map |-> [levels |-> {"low", "off"}, adaptive |-> FALSE], override |-> Absent, rule |-> Absent]
Param(policy, supported, low) ==
  [supported |-> supported, policy |-> policy, min |-> low, max |-> low + 1, default |-> low]
Kept(name) == [provider |-> "p3", model |-> "m3", name |-> name, sig |-> "k"]
Plan(policy, targets, origin, stored) ==
  [policy |-> policy, targets |-> targets, origin |-> origin, stored |-> stored]

Strict ==
  [Target("openai", "p1", "m1") EXCEPT !.params["temperature"] = Param("reject", TRUE, 1), !.limit = 4]
Hot == [Strict EXCEPT !.override = <<"temperature", 3>>]
Claude ==
  [Target("anthropic", "p2", "m2") EXCEPT !.params["top_k"] = Param("forward", FALSE, 1), !.limit = 4]
Adaptive == [Claude EXCEPT !.map = [levels |-> {"low"}, adaptive |-> TRUE]]
Stopped ==
  [Claude EXCEPT !.override = <<"stop", 2>>, !.map = [levels |-> {"off"}, adaptive |-> TRUE]]
Gemini == Target("gemini", "p3", "m3")
Gemini2 == Target("gemini", "p3", "m7")
Gemini3 ==
  [Target("gemini", "p3", "m4") EXCEPT
     !.three = TRUE, !.limit = 20,
     !.params["temperature"] = Param("clamp", TRUE, 1), !.params["top_k"] = Param("clamp", TRUE, 2)]
Responses ==
  [Target("responses", "p4", "m5") EXCEPT
     !.limit = 4,
     !.params["temperature"] = Param("drop", FALSE, 1), !.params["top_k"] = Param("drop", TRUE, 1)]
Ruled == [Responses EXCEPT !.rule = [status |-> 400, kind |-> "target"]]

DirectPlan == Plan("direct", <<Hot>>, Absent, Absent)
MCRoutes ==
  {DirectPlan,
   Plan("strip", <<Ruled, Adaptive>>, Absent, Absent),
   Plan("strip", <<Strict, Gemini, Gemini2>>, "p2", Kept("f")),
   Plan("reject", <<Gemini, Stopped>>, Absent, Kept("f")),
   Plan("direct", <<Gemini3>>, Absent, Kept("g"))}

-----------------------------------------------------------------------------
(* Signatures: two models' calls of one id *)

Talk(scope, model, name, session) ==
  [key |-> [scope |-> scope, call |-> "c", model |-> model], name |-> name, session |-> session]
MCTalks == {Talk("s1", "m1", "f", "a"), Talk("s1", "m2", "g", "b")}
MCAsks == {Talk("s1", "m1", "f", "a"), Talk("s1", "m1", "g", NoSession), Talk("s1", "m2", "g", "c"),
           Talk("s1", NoTarget, "f", "a")}

-----------------------------------------------------------------------------
\* the part that runs, and one initial state for the others
ProtocolInit ==
  /\ part \in {"responses", "requests", "signatures"}
  /\ CodecInit /\ RequestInit /\ StoreInit
  /\ part # "responses" => wire = "openai" /\ json /\ front = "openai" /\ streaming
  /\ part # "requests" => client = "openai" /\ plan = DirectPlan

ProtocolNext ==
  \/ part = "responses" /\ CodecNext /\ UNCHANGED <<part, requestVars, storeVars>>
  \/ part = "requests" /\ RequestNext /\ UNCHANGED <<part, codecVars, storeVars>>
  \/ part = "signatures" /\ StoreNext /\ UNCHANGED <<part, codecVars, requestVars>>

ProtocolSpec == ProtocolInit /\ [][ProtocolNext]_<<part, codecVars, requestVars, storeVars>>
=============================================================================
