----------------------------- MODULE StreamCodec -----------------------------
(***************************************************************************)
(* One response on its way from an upstream's wire format to the client's: *)
(* the adapter's parser, ToolStreamState::normalize and the capture of     *)
(* signatures in pipeline.rs, and the frontend's encoder or, for a client  *)
(* that does not stream, its aggregation.  The upstream and the client     *)
(* are external: the client puts together what the frames of its protocol  *)
(* say.  An upstream sends all of a call's arguments before anything else. *)
(***************************************************************************)
EXTENDS Integers, Sequences, SequencesExt, FiniteSets

CONSTANTS
  Wires,       \* openai, responses, anthropic, gemini
  Fronts,      \* openai, anthropic, responses
  MaxItems,    \* bound on the items of a response
  NoId         \* a call without an id, an absent value

VARIABLES
  wire, json,  \* the upstream's format, and whether it answers with one body
  front, streaming,  \* the client's format, and whether it streams
  said,        \* history: what the upstream has said
  phase,       \* start, body, tail (after the finish), done or failed
  body,        \* the items of a body that has not arrived in full
  tools,       \* ToolStreamState
  sigs,    \* the opaque state of the calls, by id
  usage,       \* the usage that is logged and charged
  enc,         \* the encoder
  events,      \* what is kept for an aggregated body
  shown       \* what the client has put together

stream == <<wire, json, front, streaming>>
codecVars == <<stream, said, phase, body, tools, sigs, usage, enc, events, shown>>

Event(k, ix, v, sig) == [k |-> k, ix |-> ix, v |-> v, sig |-> sig]
Text(v) == Event("text", 0, v, NoId)
Refusal(v) == Event("refusal", 0, v, NoId)
Thinking(v, sig) == Event("think", 0, v, sig)
ToolCallStart(ix, id, sig) == Event("call", ix, id, sig)
ToolCallArgs(ix, v) == Event("args", ix, v, NoId)
Usage(u) == Event("usage", 0, u, NoId)
Finish(r) == Event("finish", 0, r, NoId)

\* TokenUsage with its two main counters; 0 where the upstream is silent
NoUsage == [in |-> 0, out |-> 0]

\* TokenUsage::merge
Merge_bug(u, w) == w
Merge(u, w) == [in |-> IF w.in # 0 THEN w.in ELSE u.in, out |-> IF w.out # 0 THEN w.out ELSE u.out]

-----------------------------------------------------------------------------
(* What an upstream may send.  A chunk has items, and at the end of the     *)
(* response usage and a finish.  An item is text, a refusal, a thought, a   *)
(* signature on its own, a call with its first arguments, or arguments.     *)

Item(k, ix, v, sig) == [k |-> k, ix |-> ix, v |-> v, sig |-> sig]

NothingSaid ==
  [n |-> 0, text |-> << >>, calls |-> << >>, last |-> "none", sig |-> NoId,
   blocks |-> 0, index |-> 0, mixed |-> FALSE, reason |-> NoId]

CallCount == Len(said.calls)

\* The index that the wire gives the next call: of the call, or of its place
\* among all blocks; a whole chat completion and Gemini give none.
NextIndex ==
  CASE wire = "openai" -> IF json THEN 0 ELSE CallCount
    [] wire = "anthropic" -> IF json THEN CallCount ELSE said.blocks
    [] wire = "responses" -> said.blocks
    [] wire = "gemini" -> 0

\* A chat completion in one body has its text before its calls.
ItemsOf ==
  (IF wire = "openai" /\ json /\ CallCount > 0 THEN {}
   ELSE {Item("text", 0, "t", NoId), Item("think", 0, "h", NoId)})
  \cup (IF wire = "responses" THEN {Item("refusal", 0, "r", NoId)} ELSE {})
  \cup (IF wire = "gemini" THEN {Item("think", 0, "", said.n + 1)} ELSE {})
  \cup {Item("call", NextIndex, id, sig) :
          id \in {CallCount + 1} \cup (IF wire = "gemini" THEN {NoId} ELSE {}),
          sig \in {NoId} \cup (IF wire = "gemini" THEN {said.n + 1} ELSE {})}
  \cup (IF wire # "gemini" /\ ~json /\ said.last \in {"call", "args"}
        THEN {Item("args", said.index, "a", NoId)} ELSE {})

\* The reasons an upstream may give, by their meaning
Reasons ==
  {"stop", "length", "odd"}
  \cup (CASE wire = "anthropic" -> {"refusal"}
          [] wire = "responses" -> {"filter", "steered"}
          [] OTHER -> {"filter"})
  \cup (IF wire \in {"openai", "anthropic"} /\ CallCount > 0 THEN {"tool_calls"} ELSE {})

\* Text and thoughts of one kind that follow each other are one block.
Utter(sd, it) ==
  [sd EXCEPT
     !.n = @ + 1, !.last = it.k,
     !.text = IF it.k \in {"text", "refusal"} THEN Append(@, it.v) ELSE @,
     !.calls = CASE it.k = "call" ->
                      Append(@, [id |-> it.v, sig |-> IF it.sig # NoId THEN it.sig ELSE sd.sig,
                                 args |-> IF wire \in {"openai", "gemini"} \/ json THEN 1 ELSE 0])
                 [] it.k = "args" -> [@ EXCEPT ![Len(@)].args = @ + 1]
                 [] OTHER -> @,
     !.sig = IF it.k = "think" /\ it.v = "" THEN it.sig ELSE NoId,
     !.blocks = IF it.k = "args" \/ (it.k = sd.last /\ it.k # "call") THEN @ ELSE @ + 1,
     !.index = IF it.k = "call" THEN it.ix ELSE @,
     !.mixed = @ \/ (it.k \in {"text", "refusal"} /\ Len(sd.calls) > 0)]

-----------------------------------------------------------------------------
(* The parsers *)

\* openai_events, one choice: the finish, and only then the usage
openai_events(chunk) ==
  LET of(it) == CASE it.k = "text" -> <<Text(it.v)>>
                  [] it.k = "think" -> <<Thinking(it.v, NoId)>>
                  [] it.k = "call" -> <<ToolCallStart(it.ix, it.v, NoId), ToolCallArgs(it.ix, "a")>>
                  [] it.k = "args" -> <<ToolCallArgs(it.ix, it.v)>>
  IN FlattenSeq([i \in DOMAIN chunk.items |-> of(chunk.items[i])])
     \o (IF chunk.finish = NoId THEN << >> ELSE <<Finish(chunk.finish)>>)
     \o (IF chunk.usage = NoUsage THEN << >> ELSE <<Usage(chunk.usage)>>)

\* parse_full_response: a call in one body brings all of its arguments
Whole(ix) == IF json THEN <<ToolCallArgs(ix, "a")>> ELSE << >>

\* OpenAiResponsesAdapter::parse_stream_chunk and output_events
responses_item(it) ==
  CASE it.k = "text" -> <<Text(it.v)>>
    [] it.k = "refusal" -> <<Refusal(it.v)>>
    [] it.k = "think" -> <<Thinking(it.v, NoId)>>
    [] it.k = "call" -> <<ToolCallStart(it.ix, it.v, NoId)>> \o Whole(it.ix)
    [] it.k = "args" -> <<ToolCallArgs(it.ix, it.v)>>

\* finish_reason: a response with a function call ends with tool calls
responses_finish(reason) ==
  IF reason = "stop" /\ CallCount > 0 THEN "tool_calls" ELSE reason

\* terminal_events
responses_terminal_events(chunk) ==
  IF chunk.finish = NoId THEN << >>
  ELSE <<Usage(chunk.usage), Finish(responses_finish(chunk.finish))>>

\* AnthropicAdapter::parse_stream_chunk and parse_full_response: usage at both ends, then the stop reason
anthropic_events(chunk) ==
  LET of(it) == CASE it.k = "text" -> <<Text(it.v)>>
                  [] it.k = "think" -> <<Thinking(it.v, it.sig)>>
                  [] it.k = "call" -> <<ToolCallStart(it.ix, it.v, NoId)>> \o Whole(it.ix)
                  [] it.k = "args" -> <<ToolCallArgs(it.ix, it.v)>>
  IN FlattenSeq([i \in DOMAIN chunk.items |-> of(chunk.items[i])])
     \o (IF chunk.usage = NoUsage THEN << >> ELSE <<Usage(chunk.usage)>>)
     \o (IF chunk.finish = NoId THEN << >> ELSE <<Finish(chunk.finish)>>)

\* events_from_gemini: calls are numbered within the chunk; usage, then finish
gemini_calls(items, i) == Cardinality({j \in 1..(i - 1) : items[j].k = "call"})
events_from_gemini(chunk) ==
  LET of(i) == LET it == chunk.items[i] ix == gemini_calls(chunk.items, i) IN
        CASE it.k = "text" -> <<Text(it.v)>>
          [] it.k = "think" -> <<Thinking(it.v, it.sig)>>
          [] it.k = "call" -> <<ToolCallStart(ix, it.v, it.sig), ToolCallArgs(ix, "a")>>
  IN FlattenSeq([i \in DOMAIN chunk.items |-> of(i)])
     \o (IF chunk.usage = NoUsage THEN << >> ELSE <<Usage(chunk.usage)>>)
     \o (IF chunk.finish = NoId THEN << >> ELSE <<Finish(chunk.finish)>>)

Parse(chunk) ==
  CASE wire = "openai" -> openai_events(chunk)
    [] wire = "responses" ->
         FlattenSeq([i \in DOMAIN chunk.items |-> responses_item(chunk.items[i])])
         \o responses_terminal_events(chunk)
    [] wire = "anthropic" -> anthropic_events(chunk)
    [] wire = "gemini" -> events_from_gemini(chunk)

-----------------------------------------------------------------------------
(* ToolStreamState::normalize *)

NoTools == [next |-> 0, index |-> << >>, ids |-> << >>, pending |-> NoId]

Put(f, x, y) == [z \in DOMAIN f \cup {x} |-> IF z = x THEN y ELSE f[z]]

Pending_bug(ts, e) ==
  CASE e.k = "think" /\ e.v = "" /\ e.sig # NoId -> e.sig
    [] e.k \in {"think", "text", "refusal", "finish"} -> NoId
    [] OTHER -> ts.pending
Pending(ts, e) ==
  CASE e.k = "think" /\ e.v = "" /\ e.sig # NoId -> e.sig
    [] e.k \in {"think", "text", "refusal", "finish", "call"} -> NoId
    [] OTHER -> ts.pending

ToolIndex(ts, e) == IF e.v \in DOMAIN ts.ids THEN ts.ids[e.v] ELSE ts.next

\* An id that the upstream did not give is made from the canonical index.
IdOf_bug(e, canonical) == IF e.v = NoId THEN 101 ELSE e.v
IdOf(e, canonical) == IF e.v = NoId THEN canonical + 101 ELSE e.v

NormalizeOne(ts, e) ==
  LET pend == Pending(ts, e) IN
  CASE e.k = "call" ->
         LET c == ToolIndex(ts, e)
             id == IdOf(e, c)
             sig == IF e.sig # NoId THEN e.sig ELSE ts.pending
         IN [ts |-> [next |-> IF c = ts.next THEN c + 1 ELSE ts.next,
                     index |-> Put(ts.index, e.ix, c),
                     ids |-> IF id \in DOMAIN ts.ids THEN ts.ids ELSE Put(ts.ids, id, c),
                     pending |-> pend],
             e |-> ToolCallStart(c, id, sig)]
    [] e.k = "args" ->
         [ts |-> ts,
          e |-> ToolCallArgs(IF e.ix \in DOMAIN ts.index THEN ts.index[e.ix] ELSE e.ix, e.v)]
    [] OTHER -> [ts |-> [ts EXCEPT !.pending = pend], e |-> e]

Normalize(ts, evs) ==
  FoldLeft(LAMBDA acc, e : LET n == NormalizeOne(acc.ts, e) IN
                             [ts |-> n.ts, out |-> Append(acc.out, n.e)],
           [ts |-> ts, out |-> << >>], evs)

\* capture_opaque_state
Capture(c, evs) ==
  FoldLeft(LAMBDA acc, e : IF e.k = "call" /\ e.sig # NoId THEN Put(acc, e.v, e.sig) ELSE acc,
           c, evs)

-----------------------------------------------------------------------------
(* The encoders: the new state and the frames *)

Frame(t, ix, id, v) == [t |-> t, ix |-> ix, id |-> id, v |-> v]
Out(s, frames) == [s |-> s, out |-> frames]

\* OpenAiEncoder
NewOpenAi == [role |-> FALSE, finish |-> FALSE, usage |-> NoId]

openai_usage(s) == IF s.usage = NoId THEN << >> ELSE <<Frame("usage", 0, NoId, s.usage)>>
ensure_role(s) == IF s.role THEN << >> ELSE <<Frame("role", 0, NoId, "")>>

openai_encode(s, e) ==
  LET said_role == [s EXCEPT !.role = TRUE] IN
  CASE e.k \in {"text", "refusal"} -> Out(said_role, ensure_role(s) \o <<Frame("content", 0, NoId, e.v)>>)
    [] e.k = "think" ->
         Out(said_role, ensure_role(s) \o IF e.v = "" THEN << >> ELSE <<Frame("reasoning", 0, NoId, e.v)>>)
    [] e.k = "call" -> Out(said_role, ensure_role(s) \o <<Frame("tool", e.ix, e.v, "")>>)
    [] e.k = "args" -> Out(said_role, ensure_role(s) \o <<Frame("tool_args", e.ix, NoId, e.v)>>)
    [] e.k = "usage" -> Out([s EXCEPT !.usage = e.v], << >>)
    [] e.k = "finish" -> Out([s EXCEPT !.finish = TRUE], <<Frame("finish", 0, NoId, e.v)>> \o openai_usage(s))

openai_finalize(s) ==
  Out([s EXCEPT !.role = TRUE],
      (IF s.finish THEN << >>
       ELSE ensure_role(s) \o <<Frame("finish", 0, NoId, "stop")>> \o openai_usage(s))
      \o <<Frame("end", 0, NoId, "")>>)

\* AnthropicEncoder
NewAnthropic ==
  [started |-> FALSE, next |-> 0, open |-> NoId, kind |-> NoId, blocks |-> << >>,
   usage |-> NoUsage, finish |-> NoId]

emit_start(s) == IF s.started THEN << >> ELSE <<Frame("message_start", 0, NoId, "")>>
close_open_block(s) == IF s.open = NoId THEN << >> ELSE <<Frame("block_stop", s.open, NoId, "")>>

\* open_text_block, open_thinking_block: the open block of the kind is used again
open_block(s, kind) ==
  IF s.kind = kind THEN Out([s EXCEPT !.started = TRUE], emit_start(s))
  ELSE Out([s EXCEPT !.started = TRUE, !.open = s.next, !.kind = kind, !.next = @ + 1],
           emit_start(s) \o close_open_block(s) \o <<Frame("block_start", s.next, NoId, kind)>>)

\* open_tool_block leaves a block that counts as text
tool_block(s, e) ==
  [s EXCEPT !.started = TRUE, !.open = s.next, !.kind = "text", !.next = @ + 1,
            !.blocks = Put(@, e.ix, s.next)]
open_tool_block_bug(s, e) ==
  Out(tool_block(s, e), emit_start(s) \o <<Frame("block_start", s.next, e.v, "tool")>>)
open_tool_block(s, e) ==
  Out(tool_block(s, e),
      emit_start(s) \o close_open_block(s) \o <<Frame("block_start", s.next, e.v, "tool")>>)

BlockOf(s, e) ==
  CASE e.ix \in DOMAIN s.blocks -> s.blocks[e.ix]
    [] s.open # NoId -> s.open
    [] OTHER -> 0

anthropic_encode(s, e) ==
  CASE e.k \in {"text", "refusal"} ->
         LET o == open_block(s, "text") IN Out(o.s, o.out \o <<Frame("text_delta", o.s.open, NoId, e.v)>>)
    [] e.k = "think" ->
         LET o == open_block(s, "thinking") IN
         Out(o.s, o.out
                  \o (IF e.v = "" THEN << >> ELSE <<Frame("thinking_delta", o.s.open, NoId, e.v)>>)
                  \o (IF e.sig = NoId THEN << >> ELSE <<Frame("signature_delta", o.s.open, NoId, e.sig)>>))
    [] e.k = "call" -> open_tool_block(s, e)
    [] e.k = "args" -> Out(s, <<Frame("input_json_delta", BlockOf(s, e), NoId, e.v)>>)
    [] e.k = "usage" -> Out([s EXCEPT !.usage = Merge(@, e.v)], << >>)
    [] e.k = "finish" -> Out([s EXCEPT !.finish = e.v], << >>)

StopReason_bug(f) == IF f = "tool_calls" THEN "tool_use" ELSE "end_turn"
StopReason(f) ==
  CASE f = "length" -> "max_tokens"
    [] f = "tool_calls" -> "tool_use"
    [] OTHER -> "end_turn"

anthropic_finalize(s) ==
  Out([s EXCEPT !.started = TRUE, !.open = NoId, !.kind = NoId],
      emit_start(s) \o close_open_block(s)
      \o <<Frame("message_delta", s.usage.out, NoId, StopReason(s.finish)), Frame("end", 0, NoId, "")>>)

\* ResponsesEncoder
NewResponses ==
  [created |-> FALSE, active |-> FALSE, kind |-> "text", text |-> << >>, refusal |-> << >>,
   calls |-> << >>, finish |-> FALSE, usage |-> NoUsage]

ensure_created(s) == IF s.created THEN << >> ELSE <<Frame("created", 0, NoId, "")>>

ensure_message_item(s, kind) ==
  IF s.active THEN << >> ELSE <<Frame("item_added", 0, NoId, kind)>>

\* close_text_item: what has been accumulated, as text or as a refusal
close_text_item(s) ==
  IF ~s.active THEN << >>
  ELSE <<Frame("item_done", 0, NoId, IF s.kind = "refusal" THEN s.refusal ELSE s.text)>>

\* responses_terminal
responses_terminal(f) ==
  CASE f \in {"length", "filter", "steered"} -> "incomplete"
    [] f = "refusal" -> "refusal"
    [] f = "odd" -> "failed"
    [] OTHER -> "completed"

\* responses_stream_failure: a refusal that is not typed cannot be streamed
responses_stream_failure(f, s) ==
  \/ responses_terminal(f) = "failed"
  \/ responses_terminal(f) = "refusal" /\ s.refusal = << >>

\* responses_incomplete_reason; "steered" is passed on
incomplete_reason(f) == IF responses_terminal(f) = "incomplete" THEN f ELSE NoId

\* build_response_object; a failed response has no output
build_response_object(f, s) ==
  [status |-> IF incomplete_reason(f) = NoId THEN "completed" ELSE "incomplete",
   reason |-> incomplete_reason(f), text |-> s.text \o s.refusal, calls |-> s.calls,
   usage |-> s.usage]
FailedResponse == [status |-> "failed", reason |-> NoId, text |-> << >>, calls |-> << >>, usage |-> NoUsage]

\* The first tool with the index takes the arguments.
WithArgs(calls, e) ==
  IF ~\E i \in DOMAIN calls : calls[i].ix = e.ix THEN calls
  ELSE LET i == CHOOSE i \in DOMAIN calls :
                  calls[i].ix = e.ix /\ \A j \in DOMAIN calls : calls[j].ix = e.ix => i <= j
       IN [calls EXCEPT ![i].args = @ + 1]

responses_message_bug(s, e, kind) ==
  Out([s EXCEPT !.created = TRUE, !.active = TRUE, !.kind = IF s.active THEN @ ELSE kind,
                !.text = IF kind = "text" THEN Append(@, e.v) ELSE @],
      ensure_created(s) \o ensure_message_item(s, kind) \o <<Frame("delta", 0, NoId, e.v)>>)
responses_message(s, e, kind) ==
  Out([s EXCEPT !.created = TRUE, !.active = TRUE, !.kind = IF s.active THEN @ ELSE kind,
                !.text = IF kind = "text" THEN Append(@, e.v) ELSE @,
                !.refusal = IF kind = "refusal" THEN Append(@, e.v) ELSE @],
      ensure_created(s) \o ensure_message_item(s, kind) \o <<Frame("delta", 0, NoId, e.v)>>)

\* The place of a call among the items
output_index(s) ==
  Len(s.calls) + IF s.text = << >> /\ s.refusal = << >> THEN 0 ELSE 1

responses_finish_event(s, f) ==
  IF responses_stream_failure(f, s)
  THEN Out([s EXCEPT !.finish = TRUE, !.created = TRUE],
           ensure_created(s) \o <<Frame("terminal", 0, NoId, FailedResponse)>>)
  ELSE Out([s EXCEPT !.finish = TRUE, !.active = FALSE],
           close_text_item(s) \o [i \in DOMAIN s.calls |-> Frame("call_done", i, s.calls[i].id, s.calls[i].args)]
           \o <<Frame("terminal", 0, NoId, build_response_object(f, s))>>)

responses_encode(s, e) ==
  CASE e.k = "text" -> responses_message(s, e, "text")
    [] e.k = "refusal" -> responses_message(s, e, "refusal")
    [] e.k = "think" -> Out(s, << >>)
    [] e.k = "call" ->
         Out([s EXCEPT !.created = TRUE, !.active = FALSE,
                       !.calls = Append(@, [ix |-> e.ix, id |-> e.v, args |-> 0])],
             ensure_created(s) \o close_text_item(s) \o <<Frame("call_added", output_index(s), e.v, "")>>)
    [] e.k = "args" ->
         Out([s EXCEPT !.created = TRUE, !.calls = WithArgs(@, e)], ensure_created(s))
    [] e.k = "usage" -> Out([s EXCEPT !.usage = e.v], << >>)
    [] e.k = "finish" -> responses_finish_event(s, e.v)

responses_finalize(s) == IF s.finish THEN Out(s, << >>) ELSE responses_finish_event(s, "stop")

NewEncoder(f) ==
  CASE f = "openai" -> NewOpenAi [] f = "anthropic" -> NewAnthropic [] f = "responses" -> NewResponses

encode(s, e) ==
  CASE front = "openai" -> openai_encode(s, e)
    [] front = "anthropic" -> anthropic_encode(s, e)
    [] front = "responses" -> responses_encode(s, e)

finalize(s) ==
  CASE front = "openai" -> openai_finalize(s)
    [] front = "anthropic" -> anthropic_finalize(s)
    [] front = "responses" -> responses_finalize(s)

\* error_frame: an OpenAI client gets a finish of its own
error_frame ==
  CASE front = "openai" -> <<Frame("finish", 0, NoId, "error"), Frame("end", 0, NoId, "")>>
    [] front = "anthropic" -> <<Frame("error", 0, NoId, "")>>
    [] front = "responses" -> <<Frame("terminal", 0, NoId, FailedResponse)>>

EncodeAll(s, evs) ==
  FoldLeft(LAMBDA acc, e : LET r == encode(acc.s, e) IN Out(r.s, acc.out \o r.out), Out(s, << >>), evs)

-----------------------------------------------------------------------------
(* The aggregated bodies: aggregate_with_responses_fields *)

SelectEvents(ks, evs) == SelectSeq(evs, LAMBDA e : e.k \in ks)
Values(evs) == [i \in DOMAIN evs |-> evs[i].v]
FinishOf(evs) == LET f == SelectEvents({"finish"}, evs) IN IF f = << >> THEN "stop" ELSE Last(f).v

\* openai, responses: arguments go to the first call with the index
aggregate_calls(evs) ==
  FoldLeft(LAMBDA acc, e : CASE e.k = "call" -> Append(acc, [ix |-> e.ix, id |-> e.v, args |-> 0])
                             [] e.k = "args" -> WithArgs(acc, e)
                             [] OTHER -> acc,
           << >>, evs)

\* anthropic: they go to the current tool, which text or another tool ends
anthropic_calls(evs) ==
  LET step(acc, e) ==
        CASE e.k = "call" -> [cur |-> TRUE, calls |-> Append(acc.calls, [ix |-> e.ix, id |-> e.v, args |-> 0])]
          [] e.k = "args" /\ acc.cur -> [acc EXCEPT !.calls[Len(acc.calls)].args = @ + 1]
          [] e.k \in {"text", "refusal"} -> [acc EXCEPT !.cur = FALSE]
          [] OTHER -> acc
  IN FoldLeft(step, [cur |-> FALSE, calls |-> << >>], evs).calls

FullBody(text, calls, finish, u) == [text |-> text, calls |-> calls, finish |-> finish, usage |-> u]

aggregate_responses(evs, u) ==
  LET f == FinishOf(evs)
      t == Values(SelectEvents({"text"}, evs))
      r == Values(SelectEvents({"refusal"}, evs))
  IN CASE responses_terminal(f) = "failed" -> FullBody(<< >>, << >>, "failed", NoUsage)
       [] responses_terminal(f) = "refusal" -> FullBody(r \o t, aggregate_calls(evs), "completed", u)
       [] incomplete_reason(f) # NoId -> FullBody(t \o r, aggregate_calls(evs), incomplete_reason(f), u)
       [] OTHER -> FullBody(t \o r, aggregate_calls(evs), "completed", u)

aggregate(evs, u) ==
  LET texts == Values(SelectEvents({"text", "refusal"}, evs)) IN
  CASE front = "openai" -> FullBody(texts, aggregate_calls(evs), FinishOf(evs), u)
    [] front = "anthropic" -> FullBody(texts, anthropic_calls(evs), StopReason(FinishOf(evs)), u)
    [] front = "responses" -> aggregate_responses(evs, u)

-----------------------------------------------------------------------------
(* The client (external) *)

NewClient == [text |-> << >>, calls |-> << >>, finish |-> NoId, usage |-> NoUsage,
              blocks |-> << >>, twoopen |-> FALSE, ended |-> FALSE]

\* A block of an Anthropic stream: its kind, the call it is, whether it is open
BlockAt(c, f) == IF f.ix + 1 \in DOMAIN c.blocks THEN c.blocks[f.ix + 1] ELSE [kind |-> "none", call |-> 0, open |-> FALSE]

read(c, f) ==
  CASE f.t = "content" -> [c EXCEPT !.text = Append(@, f.v)]
    [] f.t = "tool" -> [c EXCEPT !.calls = Append(@, [ix |-> f.ix, id |-> f.id, args |-> 0])]
    [] f.t = "tool_args" -> [c EXCEPT !.calls = WithArgs(@, [ix |-> f.ix])]
    [] f.t = "finish" -> [c EXCEPT !.finish = f.v]
    [] f.t = "usage" -> [c EXCEPT !.usage = f.v]
    [] f.t = "block_start" ->
         [c EXCEPT !.twoopen = @ \/ \E i \in DOMAIN c.blocks : c.blocks[i].open,
                   !.blocks = Append(@, [kind |-> f.v, call |-> Len(c.calls) + 1, open |-> TRUE]),
                   !.calls = IF f.v = "tool" THEN Append(@, [ix |-> f.ix, id |-> f.id, args |-> 0]) ELSE @]
    [] f.t = "block_stop" -> [c EXCEPT !.blocks[f.ix + 1].open = FALSE]
    [] f.t = "text_delta" ->
         IF BlockAt(c, f).kind = "text" THEN [c EXCEPT !.text = Append(@, f.v)] ELSE c
    [] f.t = "input_json_delta" ->
         IF BlockAt(c, f).kind = "tool" THEN [c EXCEPT !.calls[BlockAt(c, f).call].args = @ + 1] ELSE c
    [] f.t = "message_delta" -> [c EXCEPT !.finish = f.v, !.usage = [in |-> 0, out |-> f.ix]]
    [] f.t = "error" -> [c EXCEPT !.finish = "error"]
    [] f.t = "end" -> [c EXCEPT !.ended = TRUE]
    [] f.t = "terminal" ->
         [c EXCEPT !.text = f.v.text, !.calls = f.v.calls, !.usage = f.v.usage, !.ended = TRUE,
                   !.finish = IF f.v.reason # NoId THEN f.v.reason ELSE f.v.status]
    [] OTHER -> c

Read(c, frames) == FoldLeft(read, c, frames)

-----------------------------------------------------------------------------
(* The pipeline: emit_translated_events, or drive_aggregate *)

Chunk(items, u, f) == [items |-> items, usage |-> u, finish |-> f]

Deliver(chunk) ==
  LET n == Normalize(tools, Parse(chunk))
      us == SelectEvents({"usage"}, n.out)
      r == EncodeAll(enc, n.out)
  IN /\ tools' = n.ts
     /\ sigs' = IF wire = "gemini" THEN Capture(sigs, n.out) ELSE sigs
     /\ usage' = FoldLeft(LAMBDA u, e : Merge(u, e.v), usage, us)
     /\ enc' = IF streaming THEN r.s ELSE enc
     /\ events' = IF streaming THEN events ELSE events \o n.out
     /\ shown' = IF streaming THEN Read(shown, r.out) ELSE shown

\* The usage that an upstream reports; Anthropic reports it at both ends.
Reported == [in |-> 3, out |-> 2]
AtEnd == IF wire = "anthropic" /\ ~json THEN [in |-> 0, out |-> 2] ELSE Reported

Begin ==
  /\ phase = "start"
  /\ phase' = "body"
  /\ Deliver(Chunk(<< >>, [in |-> 3, out |-> 1], NoId))
  /\ UNCHANGED <<stream, said, body>>

Send(it) ==
  /\ phase = "body" /\ ~json /\ said.n < MaxItems
  /\ said' = Utter(said, it)
  /\ Deliver(Chunk(<<it>>, NoUsage, NoId))
  /\ UNCHANGED <<stream, phase, body>>

\* Gemini may put two parts in a chunk.
SendTwo(it, id) ==
  /\ phase = "body" /\ ~json /\ wire = "gemini" /\ said.n + 1 < MaxItems
  /\ LET first == Utter(said, it)
         next == Item("call", 0, IF id = NoId THEN NoId ELSE Len(first.calls) + 1, NoId) IN
     /\ said' = Utter(first, next)
     /\ Deliver(Chunk(<<it, next>>, NoUsage, NoId))
  /\ UNCHANGED <<stream, phase, body>>

\* A part of a body that will arrive as a whole
Compose(it) ==
  /\ phase = "body" /\ json /\ said.n < MaxItems
  /\ said' = Utter(said, it)
  /\ body' = Append(body, it)
  /\ UNCHANGED <<stream, phase, tools, sigs, usage, enc, events, shown>>

\* The finish; an OpenAI stream may send its usage in a chunk of its own.
UpstreamEnds(reason, later) ==
  /\ phase = "body" /\ (later => wire = "openai" /\ ~json)
  /\ said' = [said EXCEPT !.reason = reason]
  /\ phase' = "tail"
  /\ body' = << >>
  /\ Deliver(Chunk(body, IF later THEN NoUsage ELSE AtEnd, reason))
  /\ UNCHANGED stream

UsageChunk ==
  /\ phase = "tail" /\ usage = NoUsage
  /\ Deliver(Chunk(<< >>, Reported, NoId))
  /\ UNCHANGED <<stream, said, phase, body>>

\* The upstream's stream ends: the encoder finalizes, or the body is aggregated.
Close ==
  /\ phase = "tail" /\ usage # NoUsage
  /\ phase' = "done"
  /\ shown' = IF streaming THEN Read(shown, finalize(enc).out)
               ELSE LET b == aggregate(events, usage) IN
                    [shown EXCEPT !.text = b.text, !.calls = b.calls, !.finish = b.finish,
                                   !.usage = b.usage, !.ended = TRUE]
  /\ enc' = IF streaming THEN finalize(enc).s ELSE enc
  /\ UNCHANGED <<stream, said, body, tools, sigs, usage, events>>

\* The stream breaks: an error frame, or an error instead of a body
Break ==
  /\ phase \in {"body", "tail"}
  /\ phase' = "failed"
  /\ shown' = IF streaming THEN Read(shown, error_frame) ELSE [shown EXCEPT !.finish = "error"]
  /\ UNCHANGED <<stream, said, body, tools, sigs, usage, enc, events>>

CodecInit ==
  /\ wire \in Wires /\ json \in BOOLEAN /\ front \in Fronts /\ streaming \in BOOLEAN
  /\ said = NothingSaid
  /\ phase = IF wire = "anthropic" /\ ~json THEN "start" ELSE "body"
  /\ body = << >> /\ tools = NoTools /\ sigs = << >> /\ usage = NoUsage
  /\ enc = NewEncoder(front)
  /\ events = << >> /\ shown = NewClient

CodecNext ==
  \/ Begin
  \/ \E it \in ItemsOf : Send(it)
  \/ \E it \in ItemsOf, id \in {1, NoId} : SendTwo(it, id)
  \/ \E it \in ItemsOf : Compose(it)
  \/ \E reason \in Reasons, later \in BOOLEAN : UpstreamEnds(reason, later)
  \/ UsageChunk
  \/ Close
  \/ Break

CodecSpec == CodecInit /\ [][CodecNext]_codecVars

-----------------------------------------------------------------------------
(* Properties *)

Told == phase = "done" /\ shown.finish # "failed"

\* The model's variables keep their types: the formats and phases are the code's, and the
\* normalizer numbers calls without gaps and gives every id one of those numbers.
CodecTypeOK ==
  /\ wire \in Wires /\ json \in BOOLEAN /\ front \in Fronts /\ streaming \in BOOLEAN
  /\ phase \in {"start", "body", "tail", "done", "failed"}
  /\ said.n \in 0..MaxItems /\ usage \in [in : 0..3, out : 0..2]
  /\ tools.next \in 0..MaxItems
  /\ \A id \in DOMAIN tools.ids : tools.ids[id] \in 0..(tools.next - 1)

\* Every call that the upstream made reaches the client, in order, under its own id (or one
\* made for it that no other call has) and with all of its arguments and nobody else's,
\* whichever way the two formats number calls and in whichever chunks they came
\* (ToolStreamState::normalize, the encoders and aggregate).
CallsSurvive ==
  Told =>
    /\ Len(shown.calls) = CallCount
    /\ \A i \in 1..CallCount :
         /\ shown.calls[i].args = said.calls[i].args
         /\ said.calls[i].id # NoId => shown.calls[i].id = said.calls[i].id
    /\ \A i, j \in 1..CallCount : shown.calls[i].id = shown.calls[j].id => i = j

\* Every text and refusal reaches the client, in order; a Responses client has the refusals
\* of its message after the text.  A streaming Anthropic client is excepted once text
\* follows a call: open_tool_block leaves its block open as a text block.
TextSurvives ==
  Told /\ ~(front = "anthropic" /\ streaming /\ said.mixed) =>
    /\ front # "responses" => shown.text = said.text
    /\ \A v \in {"t", "r"} :
         Len(SelectSeq(shown.text, LAMBDA x : x = v)) = Len(SelectSeq(said.text, LAMBDA x : x = v))

\* A client is told that its answer was cut off exactly when the upstream says so, and a
\* client of a broken stream is never told that the answer is complete (finalize, error_frame).
LengthIsTold ==
  /\ phase = "done" => (shown.finish \in {"length", "max_tokens"} <=> said.reason = "length")
  /\ phase = "failed" => shown.finish \in {"error", "failed"}

\* In an Anthropic stream one block is open at a time, none when the message stops, and
\* deltas go to blocks that have started (close_open_block, finalize).
BlocksClose ==
  front = "anthropic" /\ streaming =>
    /\ ~shown.twoopen
    /\ phase = "done" => \A i \in DOMAIN shown.blocks : ~shown.blocks[i].open

\* The signature kept for a call is the one that came on it or right before it, and each
\* such signature is kept, so a later request cannot replay it with another call
\* (pending_signature, capture_opaque_state).
SignatureStays ==
  wire = "gemini" /\ phase = "done" =>
    \A i \in 1..CallCount :
      LET id == IF said.calls[i].id = NoId THEN i + 100 ELSE said.calls[i].id IN
      IF said.calls[i].sig = NoId THEN id \notin DOMAIN sigs
      ELSE id \in DOMAIN sigs /\ sigs[id] = said.calls[i].sig

\* What is charged is what the upstream reported, wherever in the stream it did
\* (TokenUsage::merge over all events).
UsageIsCharged == phase = "done" => usage = Reported

\* A response survives the way from any upstream's format to any client's: its calls with
\* their arguments and signatures, its texts, its end, its blocks and what it cost.
ResponseSurvives ==
  /\ CodecTypeOK
  /\ CallsSurvive
  /\ TextSurvives
  /\ LengthIsTold
  /\ BlocksClose
  /\ SignatureStays
  /\ UsageIsCharged
=============================================================================
