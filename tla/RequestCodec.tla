----------------------------- MODULE RequestCodec -----------------------------
(***************************************************************************)
(* One request on its way from the client's format to the targets of its   *)
(* route: the frontend's decoder, the preparation of a request for each    *)
(* target in pipeline.rs (portability, stored signatures, overrides,       *)
(* parameter policy, the gate for what cannot be translated), the adapters' *)
(* bodies or the client's own body passed on, and the classification of an *)
(* upstream's error.  A message has one part.  A field stands for its      *)
(* value; names and arguments of tools are left out.                       *)
(***************************************************************************)
EXTENDS Integers, Sequences, SequencesExt, FiniteSets

CONSTANTS
  Clients,     \* formats of a client: openai, anthropic, responses
  Routes,      \* plans: policy, targets, origin of the session, stored state
  MaxSaid,     \* bound on the messages and fields of a request
  Absent       \* a field or an identity that is not given

VARIABLES
  client,      \* the client's format
  plan,        \* the route and its targets
  chat, asked, \* the messages and the fields of the request
  step,        \* compose, decoded, waiting (at an upstream), done
  canon,       \* InternalRequest
  next, prev,  \* the next target; provider of the last attempt
  sent,        \* history: the bodies sent, with their targets
  warned,      \* a portability warning was given
  verdict      \* why the request ended

requestVars == <<client, plan, chat, asked, step, canon, next, prev, sent, warned, verdict>>

Message(role, k, id, name, sig, err) ==
  [role |-> role, k |-> k, id |-> id, name |-> name, sig |-> sig, err |-> err]
FieldNames == {"temperature", "top_k", "stop", "seed", "penalty", "max", "thinking",
               "tools", "choice", "n", "cache_key", "unknown"}
NoFields == [f \in FieldNames |-> Absent]

\* Parameters with a range, and those for which a model may have a ParamSpec:
\* whether it is supported, its range, its default and the policy.
Ranged == {"temperature", "top_k"}
Tunable == Ranged \cup {"stop", "seed", "penalty"}
IsSpec(s) == s.supported \in BOOLEAN /\ {s.min, s.max} \subseteq Int

\* A route's target may override these parameters of a request.
Overridable == {"temperature", "top_k", "stop", "seed", "penalty", "max"}
IsTarget(t) ==
  /\ t.wire \in {"openai", "responses", "anthropic", "gemini"}
  /\ DOMAIN t.params = Tunable /\ \A x \in Tunable : t.params[x] = Absent \/ IsSpec(t.params[x])
  /\ t.limit \in Nat \cup {Absent}
  /\ \/ t.override = Absent
     \/ /\ t.override[1] \in Overridable
        /\ t.override[1] \in Ranged \cup {"max"} => t.override[2] \in Int \cup {Absent}

\* What is given is told from what is absent.
Words == {"f", "g", "low", "off", "default", "adaptive", "odd", "function",
          "none", "any", "tool", "required", "specific", "NONE", "ANY", "ANY of one"}

ASSUME RequestBounds ==
  /\ MaxSaid \in Nat /\ Absent \notin Int /\ Absent \notin Words
  /\ Clients \subseteq {"openai", "anthropic", "responses"}
  /\ \A p \in Routes :
       /\ Len(p.targets) \in Nat \ {0} /\ DOMAIN p.targets = 1..Len(p.targets)
       /\ \A i \in DOMAIN p.targets : IsTarget(p.targets[i])

(* What a client may say.  "odd" is a part, a role or a nested field that   *)
(* the canonical request has no place for.  Roles are the decoders' work.   *)
Shown == {Message(Absent, k, Absent, Absent, Absent, FALSE) : k \in {"text", "image", "odd"}}
Calls == {Message(Absent, "call", id, name, Absent, FALSE) : id \in {1, Absent}, name \in {"f", "g"}}
ResultNames(c) == IF c = "openai" THEN {"g", Absent} ELSE {Absent}
ResultErrors(c) == IF c = "anthropic" THEN BOOLEAN ELSE {FALSE}
Results(c) ==
  {Message(Absent, "result", id, name, Absent, err) :
     id \in {1, Absent}, name \in ResultNames(c), err \in ResultErrors(c)}
Thoughts == {Message(Absent, "think", Absent, Absent, sig, FALSE) : sig \in {"s", Absent}}

ChatMessages(c) ==
  Shown \cup Calls \cup Results(c) \cup (IF c = "responses" THEN {} ELSE Thoughts)

ChatFields(c) ==
  {<<"temperature", 1>>, <<"temperature", 3>>, <<"top_k", 1>>, <<"max", 9>>,
   <<"thinking", "low">>, <<"thinking", "off">>, <<"tools", "function">>, <<"tools", "odd">>,
   <<"choice", "none">>, <<"unknown", 1>>}
  \cup (IF c = "anthropic"
        THEN {<<"thinking", "adaptive">>, <<"choice", "any">>, <<"choice", "tool">>, <<"stop", 1>>}
        ELSE {<<"thinking", "odd">>, <<"choice", "required">>, <<"choice", "function">>,
              <<"penalty", 1>>, <<"cache_key", 1>>})
  \cup (IF c = "openai" THEN {<<"n", 2>>, <<"seed", 1>>, <<"stop", 1>>} ELSE {})

-----------------------------------------------------------------------------
(* Decoding: decode_request of the three frontends.                         *)

\* The messages at the places S, in their order
Nth(S, n) == CHOOSE i \in S : Cardinality({j \in S : j <= i}) = n
Only(msgs, S) == [n \in 1..Cardinality(S) |-> msgs[Nth(S, n)]]

\* resolve_tool_result_names: the last call with the id before the result
CallBefore(msgs, i) ==
  LET calls == {j \in 1..(i - 1) : msgs[j].k = "call" /\ msgs[j].id # Absent /\ msgs[j].id = msgs[i].id}
  IN IF calls = {} THEN 0 ELSE CHOOSE j \in calls : \A l \in calls : l <= j

ResolveNames_bug(msgs) ==
  [i \in DOMAIN msgs |->
     IF msgs[i].k = "result" /\ msgs[i].name = Absent /\ msgs[i].id # Absent
     THEN [msgs[i] EXCEPT !.name = "f"] ELSE msgs[i]]
ResolveNames(msgs) ==
  [i \in DOMAIN msgs |->
     IF msgs[i].k = "result" /\ msgs[i].name = Absent /\ CallBefore(msgs, i) # 0
     THEN [msgs[i] EXCEPT !.name = msgs[CallBefore(msgs, i)].name] ELSE msgs[i]]

UnknownCall(msgs) == \E i \in DOMAIN msgs : msgs[i].k = "result" /\ msgs[i].name = Absent

\* decode_content_parts, content_as_text: what the decoder has a part for
OpenAiKnows(m) == m.k # "odd"

Odd(msgs) == \E i \in DOMAIN msgs : msgs[i].k = "odd"

\* attach_translation_issues: what only a body passed on may carry
Canonical(msgs, known, raw, fields, issues) ==
  [ok |-> TRUE, msgs |-> ResolveNames(msgs), f |-> known,
   issues |-> issues \/ UnknownCall(ResolveNames(msgs)), raw |-> [msgs |-> raw, f |-> fields]]
Refused(why) == [ok |-> FALSE, why |-> why]

\* frontends/openai.rs: a result is a message of its own role
OpenAiMessages(msgs) ==
  LET known == Only(msgs, {i \in DOMAIN msgs : OpenAiKnows(msgs[i])})
  IN [i \in DOMAIN known |->
        [known[i] EXCEPT !.role = IF known[i].k \in {"text", "image"} THEN "user"
                                  ELSE IF known[i].k = "result" THEN "tool" ELSE "assistant"]]

OpenAiIssues(msgs, fields) == Odd(msgs) \/ fields["tools"] = "odd"

OpenAiDecodeChoice(v) == IF v = "function" THEN "specific" ELSE v

\* An effort that it does not know is no effort.
DecodeOpenAi(msgs, fields) ==
  LET known == [fields EXCEPT !["thinking"] = IF @ = "odd" THEN Absent ELSE @,
                              !["choice"] = OpenAiDecodeChoice(@)]
  IN Canonical(OpenAiMessages(msgs), known, msgs, fields, OpenAiIssues(msgs, fields))

\* frontends/anthropic.rs: a result is a block of the user's message
AnthropicMessages(msgs) ==
  LET known == Only(msgs, {i \in DOMAIN msgs : msgs[i].k # "odd"})
  IN [i \in DOMAIN known |->
        [known[i] EXCEPT !.role = IF known[i].k \in {"call", "think"} THEN "assistant" ELSE "user"]]

AnthropicIssues(msgs, fields) == Odd(msgs) \/ fields["tools"] = "odd"

AnthropicDecodeChoice(v) ==
  CASE v = "any" -> "required" [] v = "tool" -> "specific" [] OTHER -> v

\* Adaptive thinking without an effort is the model's own default.
DecodeAnthropic(msgs, fields) ==
  LET known == [fields EXCEPT !["thinking"] = IF @ = "adaptive" THEN "default" ELSE @,
                              !["choice"] = AnthropicDecodeChoice(@)]
  IN Canonical(AnthropicMessages(msgs), known, msgs, fields, AnthropicIssues(msgs, fields))

\* frontends/responses.rs: validate_supported_subset refuses, then the items
UnsupportedField(fields) == fields["unknown"] # Absent
UnsupportedEffort(fields) == fields["thinking"] = "odd"
ResponsesIssues(msgs, fields) == Odd(msgs) \/ fields["tools"] = "odd"

ResponsesItems(msgs) ==
  [i \in DOMAIN msgs |->
     [msgs[i] EXCEPT !.role = IF msgs[i].k = "call" THEN "assistant"
                              ELSE IF msgs[i].k = "result" THEN "tool" ELSE "user"]]

ResponsesDecodeChoice(v) == IF v = "function" THEN "specific" ELSE v

DecodeResponses(msgs, fields) ==
  LET items == ResponsesItems(msgs)
  IN IF UnsupportedField(fields) \/ UnsupportedEffort(fields) \/ ResponsesIssues(msgs, fields)
     THEN Refused("unsupported")
     ELSE IF \E i \in DOMAIN msgs : msgs[i].k \in {"call", "result"} /\ msgs[i].id = Absent
     THEN Refused("bad_request")
     ELSE IF UnknownCall(ResolveNames(items)) THEN Refused("unsupported")
     ELSE Canonical(items, [fields EXCEPT !["choice"] = ResponsesDecodeChoice(@)], msgs, fields, FALSE)

DecodeRequest(c, msgs, fields) ==
  CASE c = "openai" -> DecodeOpenAi(msgs, fields)
    [] c = "anthropic" -> DecodeAnthropic(msgs, fields)
    [] c = "responses" -> DecodeResponses(msgs, fields)

-----------------------------------------------------------------------------
(* One target: portability, stored signatures, overrides and checks.        *)

IsPassthrough(t) == t.wire = client
Attempts == Len(sent)

CrossProvider_bug(t) == FALSE
CrossProvider(t) ==
  LET known == IF prev # Absent THEN prev ELSE IF Attempts = 0 THEN plan.origin ELSE Absent
  IN known # Absent /\ known # t.provider

InlineOpaque(r) == \E i \in DOMAIN r.msgs : r.msgs[i].k = "think"

\* OpaqueStateStore::resolve_tool_signature for an unsigned call with an id
StoredFor(t, m) ==
  LET s == plan.stored
  IN IF m.k # "call" \/ m.id # 1 \/ s = Absent THEN "missing"
     ELSE IF s.name # m.name THEN "name_mismatch"
     ELSE IF t.wire = "gemini" /\ s.provider = t.provider /\ s.model = t.model THEN "compatible"
     ELSE "incompatible"

NameReused(t, r) == \E i \in DOMAIN r.msgs : StoredFor(t, r.msgs[i]) = "name_mismatch"
Nonportable(t, r) == \E i \in DOMAIN r.msgs : StoredFor(t, r.msgs[i]) = "incompatible"
Placeholder(t) == IF t.wire = "gemini" /\ t.three THEN "placeholder" ELSE Absent

\* strip_opaque_raw_body; a Responses body has no list of messages, and no thoughts
StripRaw(msgs) == Only(msgs, {i \in DOMAIN msgs : msgs[i].k # "think"})

StripNonportable(t, r) ==
  LET mark(m) == IF m.k = "call"
                 THEN [m EXCEPT !.sig = IF StoredFor(t, m) = "incompatible" THEN Placeholder(t) ELSE Absent]
                 ELSE m
      kept == Only(r.msgs, {i \in DOMAIN r.msgs : r.msgs[i].k # "think"})
  IN [r EXCEPT !.msgs = [i \in DOMAIN kept |-> mark(kept[i])], !.raw.msgs = StripRaw(@)]

\* hydrate_opaque_state
Hydrate_bug(t, r) ==
  [r EXCEPT !.msgs = [i \in DOMAIN @ |->
     IF StoredFor(t, @[i]) \in {"compatible", "incompatible"} /\ @[i].sig = Absent
     THEN [@[i] EXCEPT !.sig = plan.stored.sig] ELSE @[i]]]
Hydrate(t, r) ==
  [r EXCEPT !.msgs = [i \in DOMAIN @ |->
     IF StoredFor(t, @[i]) = "compatible" /\ @[i].sig = Absent
     THEN [@[i] EXCEPT !.sig = plan.stored.sig] ELSE @[i]]]

MustDecide_bug(t, r) == CrossProvider(t) \/ Nonportable(t, r)
MustDecide(t, r) == CrossProvider(t) \/ ~IsPassthrough(t) \/ Nonportable(t, r)

\* apply_portability, and the rule for a direct target
PortabilityOf(t, r) ==
  LET held == InlineOpaque(r) \/ Nonportable(t, r)
      bare == Placeholder(t) # Absent /\ Nonportable(t, r) /\ ~InlineOpaque(r)
  IN IF ~MustDecide(t, r) \/ ~held THEN "keep"
     ELSE IF plan.policy = "strip" \/ (plan.policy = "direct" /\ bare) THEN "strip"
     ELSE "reject"

\* apply_target_overrides.  An override keeps its own name in the client's
\* body: "stop" is not what an Anthropic body calls stop_sequences.
ApplyOverrides(t, r) ==
  IF t.override = Absent THEN r
  ELSE LET raw == IF client = "anthropic" /\ t.override[1] = "stop" THEN r.raw.f
                  ELSE [r.raw.f EXCEPT ![t.override[1]] = t.override[2]]
       IN [r EXCEPT !.f = [@ EXCEPT ![t.override[1]] = t.override[2]], !.raw.f = raw]

\* check_param_policy
Refuses_bug(s, v) == s # Absent /\ s.policy = "reject" /\ ~s.supported
Refuses(s, v) ==
  /\ s # Absent
  /\ s.policy = "reject"
  /\ v # Absent
  /\ ~s.supported \/ v < s.min \/ v > s.max
PolicyRejects(t, r) == \E x \in Ranged : Refuses(t.params[x], r.f[x])

\* translation_unsupported
TranslationUnsupported_bug(r) == r.issues
TranslationUnsupported(r) == r.issues \/ r.f["n"] # Absent

\* level_is_executable: the model's map gives the level fields to set
LevelIsExecutable(t, level) == level \in t.map.levels

\* check_resolved_thinking_translation
ThinkingUnsupported(t, r) ==
  /\ r.f["thinking"] # Absent
  /\ ~(r.f["thinking"] = "default" /\ t.map.adaptive)
  /\ ~LevelIsExecutable(t, r.f["thinking"])

-----------------------------------------------------------------------------
(* The adapters' bodies.                                                    *)

Body(msgs, f) == [ok |-> TRUE, msgs |-> msgs, f |-> f]
BadBody == [ok |-> FALSE]
Without(f, names) == [x \in FieldNames |-> IF x \in names THEN Absent ELSE f[x]]
Unsigned(m) == [m EXCEPT !.sig = Absent]

Clamped(s, v) ==
  LET raised == IF v < s.min THEN s.min ELSE v
  IN IF raised > s.max THEN s.max ELSE raised

\* max_tokens, up to the model's max_output_tokens
Limited_bug(t, v) == IF v = Absent \/ t.limit = Absent THEN v ELSE t.limit
Limited(t, v) == IF v = Absent \/ t.limit = Absent \/ v <= t.limit THEN v ELSE t.limit

\* openai.rs build_messages: a user's message carries text and images only
OpenAiCarries_bug(m) == m.role = "tool" \/ m.k \in {"text", "call"}
OpenAiCarries(m) ==
  \/ m.role = "assistant" /\ m.k \in {"text", "call"}
  \/ m.role = "tool" /\ m.k = "result"
  \/ m.role = "user" /\ m.k \in {"text", "image"}

OpenAiChoice(v) == IF v = "specific" THEN "function" ELSE v

\* apply_thinking_map, for a level that the model's map has
OpenAiThinking(t, level) == IF level \in t.map.levels THEN level ELSE Absent

OpenAiNumber(s, v) ==
  CASE s = Absent -> v
    [] s # Absent /\ ~s.supported -> Absent
    [] s # Absent /\ s.supported -> IF v = Absent THEN s.default ELSE Clamped(s, v)

OpenAiBody(t, r) ==
  LET msgs == Only(r.msgs, {i \in DOMAIN r.msgs : OpenAiCarries(r.msgs[i])})
  IN Body([i \in DOMAIN msgs |-> [Unsigned(msgs[i]) EXCEPT !.err = FALSE]],
          [Without(r.f, {"unknown", "n"}) EXCEPT
             !["temperature"] = OpenAiNumber(t.params["temperature"], @),
             !["top_k"] = OpenAiNumber(t.params["top_k"], @), !["max"] = Limited(t, @),
             !["thinking"] = OpenAiThinking(t, @), !["choice"] = OpenAiChoice(@)])

\* openai_responses.rs: input_items refuses what has no item
ResponsesInputFails(msgs) ==
  \E i \in DOMAIN msgs : msgs[i].k = "think" \/ (msgs[i].k \in {"call", "result"} /\ msgs[i].id = Absent)

ResponsesChoice(v) == IF v = "specific" THEN "function" ELSE v

\* apply_model_request_policy
ResponsesUnable == {"top_k", "stop", "seed", "penalty"}

Drops(t, x) == t.params[x] # Absent /\ t.params[x].policy = "drop"

ResponsesNumber(s, v) ==
  CASE s = Absent -> v
    [] s # Absent /\ v = Absent -> IF s.supported THEN s.default ELSE Absent
    [] s # Absent /\ v # Absent ->
         IF ~s.supported /\ s.policy = "drop" THEN Absent ELSE Clamped(s, v)

ResponsesPolicy(t, r, msgs, f) ==
  IF (\E x \in ResponsesUnable : r.f[x] # Absent /\ ~Drops(t, x)) \/ PolicyRejects(t, r)
  THEN BadBody
  ELSE Body(msgs, [Without(f, ResponsesUnable) EXCEPT
                     !["temperature"] = ResponsesNumber(t.params["temperature"], r.f["temperature"]),
                     !["max"] = Limited(t, r.f["max"]),
                     !["thinking"] = OpenAiThinking(t, r.f["thinking"])])

ResponsesBody(t, r) ==
  IF ResponsesInputFails(r.msgs) THEN BadBody
  ELSE ResponsesPolicy(t, r, [i \in DOMAIN r.msgs |-> [Unsigned(r.msgs[i]) EXCEPT !.err = FALSE]],
                       [Without(r.f, {"unknown", "n"}) EXCEPT !["choice"] = ResponsesChoice(@)])

\* anthropic.rs content_blocks: a thought goes with its signature or not at all
AnthropicCarries(m) == m.k = "think" => m.sig # Absent

AnthropicChoice(v) == CASE v = "required" -> "any" [] v = "specific" -> "tool" [] OTHER -> v

\* apply_thinking_map: an adaptive model without the level thinks as it likes
AnthropicThinking_bug(t, level) == IF t.map.adaptive /\ level # Absent THEN "adaptive" ELSE level
AnthropicThinking(t, level) ==
  IF level \in t.map.levels /\ ~(t.map.adaptive /\ level = "default") THEN level
  ELSE IF t.map.adaptive /\ level \notin {"off", Absent} THEN "adaptive"
  ELSE Absent

AnthropicNumber(s, v) == IF s # Absent /\ ~s.supported THEN Absent ELSE v

\* max_tokens is always there, as it was asked for or the most that the model
\* gives; seed and penalties never
AnthropicMax(t, v) == IF v # Absent THEN v ELSE IF t.limit # Absent THEN t.limit ELSE 4096

AnthropicBody(t, r) ==
  LET msgs == Only(r.msgs, {i \in DOMAIN r.msgs : AnthropicCarries(r.msgs[i])})
      f == [r.f EXCEPT !["max"] = AnthropicMax(t, @),
              !["temperature"] = AnthropicNumber(t.params["temperature"], @),
              !["top_k"] = AnthropicNumber(t.params["top_k"], @),
              !["thinking"] = AnthropicThinking(t, @), !["choice"] = AnthropicChoice(@)]
  IN Body([i \in DOMAIN msgs |-> IF msgs[i].k = "call" THEN Unsigned(msgs[i]) ELSE msgs[i]],
          Without(f, {"seed", "penalty", "cache_key", "unknown", "n"}))

\* gemini.rs encode_parts: calls and results are known by name only
GeminiPart(m) ==
  IF m.k \in {"call", "result"} THEN [m EXCEPT !.id = Absent, !.name = IF @ = Absent THEN "tool" ELSE @] ELSE m

GeminiChoice(f) ==
  CASE f["choice"] = Absent -> IF f["tools"] = Absent THEN Absent ELSE "AUTO"
    [] f["choice"] = "none" -> "NONE"
    [] f["choice"] = "required" -> "ANY"
    [] f["choice"] = "specific" -> "ANY of one"

\* build_generation_config: no penalties
GeminiConfig(t, f) ==
  [f EXCEPT !["temperature"] = OpenAiNumber(t.params["temperature"], @),
            !["top_k"] = OpenAiNumber(t.params["top_k"], @), !["max"] = Limited(t, @),
            !["thinking"] = OpenAiThinking(t, @), !["choice"] = GeminiChoice(f)]

GeminiBody(t, r) ==
  Body([i \in DOMAIN r.msgs |-> GeminiPart(r.msgs[i])],
       Without(GeminiConfig(t, r.f), {"penalty", "cache_key", "unknown", "n"}))

BuildBody(t, r) ==
  CASE t.wire = "openai" -> OpenAiBody(t, r)
    [] t.wire = "responses" -> ResponsesBody(t, r)
    [] t.wire = "anthropic" -> AnthropicBody(t, r)
    [] t.wire = "gemini" -> GeminiBody(t, r)

\* normalize_passthrough_body of the three formats a client may speak
OpenAiPass(t, r) == Body(r.raw.msgs, [r.raw.f EXCEPT !["max"] = Limited(t, r.f["max"])])
ResponsesPass(t, r) == ResponsesPolicy(t, r, r.raw.msgs, r.raw.f)
AnthropicPass(t, r) ==
  IF t.map.adaptive /\ r.f["thinking"] = "off" /\ "off" \notin t.map.levels THEN BadBody
  ELSE Body(r.raw.msgs,
            [r.raw.f EXCEPT !["max"] = r.f["max"],
               !["thinking"] = IF t.map.adaptive /\ r.f["thinking"] # Absent
                               THEN AnthropicThinking(t, r.f["thinking"]) ELSE @])

PassBody(t, r) ==
  CASE t.wire = "responses" -> ResponsesPass(t, r)
    [] t.wire = "openai" -> OpenAiPass(t, r)
    [] t.wire = "anthropic" -> AnthropicPass(t, r)

\* build_upstream_body
UpstreamBody(t, r) == IF IsPassthrough(t) THEN PassBody(t, r) ELSE BuildBody(t, r)

-----------------------------------------------------------------------------
(* An upstream's error: classify_error and apply_provider_failure_rules.    *)

Statuses == {400, 401, 403, 429, 500}
Says == {"nothing", "credential", "quota"}

OpenAiError(status, says) ==
  CASE status = 400 -> IF says = "quota" THEN "quota" ELSE "bad_request"
    [] status = 401 -> "auth"
    [] status = 403 -> IF says = "credential" THEN "auth" ELSE "target"
    [] status = 429 -> IF says = "quota" THEN "quota" ELSE "rate_limit"
    [] OTHER -> "server"

AnthropicError(status, says) ==
  CASE status = 400 -> "bad_request"
    [] status = 401 -> "auth"
    [] status = 403 -> IF says = "credential" THEN "auth" ELSE "target"
    [] status = 429 -> IF says = "quota" THEN "quota" ELSE "rate_limit"
    [] OTHER -> "server"

\* classify_429, after a wait of up to 90 seconds has been taken for a rate limit
Gemini429(says, short) == IF says = "quota" /\ ~short THEN "quota" ELSE "rate_limit"

GeminiError(status, says, short) ==
  CASE status = 400 -> IF says = "credential" THEN "auth" ELSE "bad_request"
    [] status = 401 -> "auth"
    [] status = 403 -> IF says = "credential" THEN "auth" ELSE "target"
    [] status = 429 -> Gemini429(says, short)
    [] OTHER -> "server"

ClassifyError(wire, status, says, short) ==
  CASE wire \in {"openai", "responses"} -> OpenAiError(status, says)
    [] wire = "anthropic" -> AnthropicError(status, says)
    [] wire = "gemini" -> GeminiError(status, says, short)

FailureRules(t, status, kind) ==
  IF t.rule # Absent /\ t.rule.status = status THEN t.rule.kind ELSE kind

-----------------------------------------------------------------------------
RequestInit ==
  /\ client \in Clients
  /\ plan \in Routes
  /\ chat = << >> /\ asked = NoFields
  /\ step = "compose" /\ canon = [ok |-> FALSE, why |-> "none"]
  /\ next = 1 /\ prev = Absent /\ sent = << >> /\ warned = FALSE /\ verdict = "none"

Said == Len(chat) + Cardinality({f \in FieldNames : asked[f] # Absent})

Say ==
  /\ step = "compose" /\ Said < MaxSaid
  /\ \E m \in ChatMessages(client) : chat' = Append(chat, m)
  /\ UNCHANGED <<client, plan, asked, step, canon, next, prev, sent, warned, verdict>>

Ask ==
  /\ step = "compose" /\ Said < MaxSaid
  /\ \E fv \in ChatFields(client) :
       /\ asked[fv[1]] = Absent
       /\ asked' = [asked EXCEPT ![fv[1]] = fv[2]]
  /\ UNCHANGED <<client, plan, chat, step, canon, next, prev, sent, warned, verdict>>

Submit ==
  /\ step = "compose"
  /\ canon' = DecodeRequest(client, chat, asked)
  /\ step' = IF canon'.ok THEN "decoded" ELSE "done"
  /\ verdict' = IF canon'.ok THEN verdict ELSE canon'.why
  /\ UNCHANGED <<client, plan, chat, asked, next, prev, sent, warned>>

End(why) == step' = "done" /\ verdict' = why /\ UNCHANGED <<sent, prev, warned>>

\* The attempt loop's body from the request's clone to the dispatch
Dispatch ==
  /\ step = "decoded" /\ next <= Len(plan.targets)
  /\ LET t == plan.targets[next]
         port == PortabilityOf(t, canon)
         held == IF port = "strip" THEN StripNonportable(t, canon) ELSE canon
         r == ApplyOverrides(t, Hydrate(t, held))
         body == UpstreamBody(t, r)
     IN IF NameReused(t, canon) THEN End("bad_request")
        ELSE IF \/ port = "reject" \/ PolicyRejects(t, r)
                \/ ~IsPassthrough(t) /\ (TranslationUnsupported(r) \/ ThinkingUnsupported(t, r))
             THEN End("unsupported")
        ELSE IF ~body.ok THEN End("bad_request")
        ELSE /\ sent' = Append(sent, [to |-> t, pass |-> IsPassthrough(t), msgs |-> body.msgs, f |-> body.f])
             /\ prev' = t.provider
             /\ warned' = (warned \/ port = "strip")
             /\ step' = "waiting" /\ UNCHANGED verdict
  /\ UNCHANGED <<client, plan, chat, asked, canon, next>>

UpstreamAnswers ==
  /\ step = "waiting"
  /\ step' = "done" /\ verdict' = "answered"
  /\ UNCHANGED <<client, plan, chat, asked, canon, next, prev, sent, warned>>

UpstreamFails ==
  /\ step = "waiting"
  /\ LET t == plan.targets[next]
     IN \E kind \in {FailureRules(t, s, ClassifyError(t.wire, s, w, q)) :
                       s \in Statuses, w \in Says, q \in BOOLEAN} :
          IF kind = "bad_request" \/ next = Len(plan.targets)
          THEN step' = "done" /\ verdict' = kind /\ UNCHANGED next
          ELSE step' = "decoded" /\ next' = next + 1 /\ UNCHANGED verdict
  /\ UNCHANGED <<client, plan, chat, asked, canon, prev, sent, warned>>

\* A target is skipped: its account, its circuit or its concurrency is not free.
SkipTarget ==
  /\ step = "decoded" /\ next < Len(plan.targets)
  /\ next' = next + 1
  /\ UNCHANGED <<client, plan, chat, asked, step, canon, prev, sent, warned, verdict>>

RequestDone == step = "done" /\ UNCHANGED requestVars

RequestNext ==
  Say \/ Ask \/ Submit \/ Dispatch \/ UpstreamAnswers \/ UpstreamFails \/ SkipTarget \/ RequestDone

RequestSpec == RequestInit /\ [][RequestNext]_requestVars

-----------------------------------------------------------------------------
Overridden(t, f) == t.override # Absent /\ t.override[1] = f
Holds(msgs, k) == \E i \in DOMAIN msgs : msgs[i].k = k

\* The request and its history are of their types (RequestCodec's state).
RequestTypeOK ==
  /\ Said <= MaxSaid /\ DOMAIN asked = FieldNames
  /\ step \in {"compose", "decoded", "waiting", "done"}
  /\ next \in 1..Len(plan.targets) /\ warned \in BOOLEAN
  /\ Attempts <= Len(plan.targets) /\ (step = "decoded" => canon.ok)

\* What a tool choice means, in whichever format
ChoiceMeans(v) ==
  CASE v \in {"none", "NONE"} -> "none"
    [] v \in {"required", "any", "ANY"} -> "some tool"
    [] v \in {"function", "tool", "ANY of one"} -> "this tool"
    [] OTHER -> "free"

AskedFor(t, x) == asked[x] # Absent /\ ~Overridden(t, x)

\* Tools and stop sequences reach an upstream as they are; it may do without the
\* latter where that is its model's policy.
ListReaches(b, x) ==
  AskedFor(b.to, x) /\ (x = "tools" => asked[x] # "odd")
  => \/ b.f[x] = asked[x]
     \/ b.f[x] = Absent /\ b.to.wire = "responses" /\ x \in ResponsesUnable /\ Drops(b.to, x)

\* The limit is the smaller of the client's and the model's; the bodies for
\* Anthropic heed only the client's.
LimitReaches(b) ==
  AskedFor(b.to, "max") =>
    /\ b.f["max"] \in {asked["max"], b.to.limit} \ {Absent}
    /\ b.f["max"] <= asked["max"]
    /\ b.to.limit # Absent /\ b.to.wire # "anthropic" => b.f["max"] <= b.to.limit

\* A number is the client's, or a bound of the model's range if the client's lies
\* outside, or left out where the model does not have the parameter.
NumberReaches(b, x) ==
  LET s == b.to.params[x] IN
  AskedFor(b.to, x) =>
    \/ b.f[x] = asked[x]
    \/ s # Absent /\ asked[x] \notin s.min..s.max /\ b.f[x] \in {s.min, s.max}
    \/ s # Absent /\ ~s.supported /\ b.f[x] = Absent
    \/ b.f[x] = Absent /\ b.to.wire = "responses" /\ x \in ResponsesUnable /\ Drops(b.to, x)

\* The level of thinking is the client's, where adaptive thinking is the model's
\* default at other formats.  A body passed on to a model without the level has
\* none (Responses) or lets the model choose (Anthropic, adaptive).
ThinkingReaches(b) ==
  AskedFor(b.to, "thinking") /\ asked["thinking"] # "odd" =>
    \/ b.f["thinking"] = asked["thinking"]
    \/ asked["thinking"] = "adaptive" /\ b.to.wire # "anthropic" /\ b.f["thinking"] \in {"default", Absent}
    \/ /\ b.pass /\ asked["thinking"] \notin b.to.map.levels
       /\ \/ b.to.wire = "responses" /\ b.f["thinking"] = Absent
          \/ b.to.wire = "anthropic" /\ b.to.map.adaptive /\ b.f["thinking"] = "adaptive"

\* What changes the meaning of an answer reaches every upstream that is asked,
\* or the request is refused: parts and tools without a canonical form and
\* several completions only in a body passed on; the choice among the tools as
\* it was meant; stop sequences, tools, limits, numbers and the level of thinking
\* as the client gave them, within what the target's model is said to take.
MeaningReaches(b) ==
  /\ ~b.pass => ~Holds(chat, "odd") /\ asked["tools"] # "odd" /\ asked["n"] = Absent
  /\ ~b.pass => ChoiceMeans(b.f["choice"]) = ChoiceMeans(asked["choice"])
  /\ \A x \in {"stop", "tools"} : ListReaches(b, x)
  /\ LimitReaches(b)
  /\ \A x \in Ranged : NumberReaches(b, x)
  /\ ThinkingReaches(b)
MeaningSurvives == \A k \in DOMAIN sent : MeaningReaches(sent[k])

Content == {"text", "image", "call", "result"}
KindsOf(msgs) ==
  LET shown == Only(msgs, {i \in DOMAIN msgs : msgs[i].k \in Content})
  IN [i \in DOMAIN shown |-> shown[i].k]

\* Every text, image, call and result of the conversation reaches each upstream
\* in its place, whatever was stripped, restored or tried before; but the
\* results of an Anthropic client do not reach a chat completions upstream.
ConversationReaches(b) == ~(client = "anthropic" /\ b.to.wire = "openai") => KindsOf(b.msgs) = KindsOf(chat)
ConversationSurvives == \A k \in DOMAIN sent : ConversationReaches(sent[k])

\* In a translated body a result that came without a name answers a call that
\* stands before it: the one with its id or, at Gemini, with its name.
ResultsMatch(b) ==
  ~b.pass /\ ~(\E i \in DOMAIN chat : chat[i].k = "result" /\ chat[i].name # Absent)
  => \A j \in DOMAIN b.msgs : b.msgs[j].k = "result" =>
       \E i \in 1..(j - 1) :
         /\ b.msgs[i].k = "call" /\ b.msgs[i].name = b.msgs[j].name
         /\ b.to.wire # "gemini" => b.msgs[i].id = b.msgs[j].id
ResultsMatchCalls == \A k \in DOMAIN sent : ResultsMatch(sent[k])

\* A stored signature is sent to the model that made it and with the call that
\* it belongs to, a placeholder only to a model that documents it.
SignedAtHome(t, m) ==
  m.k = "call" /\ m.sig # Absent =>
    \/ m.sig = "placeholder" /\ t.wire = "gemini" /\ t.three
    \/ /\ plan.stored # Absent /\ m.sig = plan.stored.sig /\ m.name = plan.stored.name
       /\ t.provider = plan.stored.provider /\ t.model = plan.stored.model
SignaturesStayHome ==
  \A k \in DOMAIN sent : \A i \in DOMAIN sent[k].msgs : SignedAtHome(sent[k].to, sent[k].msgs[i])

\* Where two attempts in a row go to different providers, the second carries no
\* thoughts; nor does the first attempt away from the session's provider.
ThoughtsStopAtTheBoundary ==
  \A k \in DOMAIN sent :
    LET before == IF k = 1 THEN plan.origin ELSE sent[k - 1].to.provider
    IN before # Absent /\ before # sent[k].to.provider => ~Holds(sent[k].msgs, "think")

\* A thought that does not reach an upstream was taken out with a warning to the
\* client ("Silent stripping is forbidden").
StrippingIsTold ==
  \A k \in DOMAIN sent : Holds(chat, "think") /\ ~Holds(sent[k].msgs, "think") => warned

\* No upstream gets a value that its model's policy says to refuse, be it the
\* client's or the route's; its own default is not checked.
PolicyAllows(s, v) ==
  s # Absent /\ s.policy = "reject" /\ v # Absent => s.supported /\ (v \in s.min..s.max \/ v = s.default)
PolicyHolds ==
  \A k \in DOMAIN sent : \A x \in Ranged : PolicyAllows(sent[k].to.params[x], sent[k].f[x])

\* A request survives the way to every target of its plan, or is refused: its conversation,
\* its fields and the policy of the model it goes to.
RequestSurvives ==
  RequestTypeOK /\ MeaningSurvives /\ ConversationSurvives /\ ResultsMatchCalls /\ PolicyHolds

\* What one provider's model made for itself stays behind: signatures go to the model that
\* made them, thoughts stop where two attempts in a row change provider, and the client is
\* told what was taken out.
SecretsStayHome == SignaturesStayHome /\ ThoughtsStopAtTheBoundary /\ StrippingIsTold
=============================================================================
