---------------------------- MODULE StreamDriver ----------------------------
(***************************************************************************)
(* The response to one request after its upstream was validated            *)
(* (pipeline.rs): drive_stream, drive_stream_passthrough or                *)
(* drive_aggregate reads the upstream and passes it on, up to and with     *)
(* finalize_log.  The frames of a stream go through a bounded channel; its *)
(* receiver and a drop-guard belong to the server's connection and run     *)
(* concurrently with the driver.                                           *)
(*                                                                         *)
(* A chunk from the upstream holds one frame.  Timers count down, and only *)
(* while the driver has to wait: its own steps take no time.               *)
(***************************************************************************)
EXTENDS Integers, Sequences, SequencesExt

CONSTANTS
  Modes,        \* of "translate", "passthrough" and "aggregate"
  Formats,      \* of "openai", "anthropic" and "responses": FrontendFormat
  Capacity,     \* of the channel to the client
  IdleTimeout,  \* Attempt.idle_timeout, in ticks
  Keepalive,    \* KEEPALIVE_INTERVAL_SECS, in ticks
  MaxFrames     \* bound on what an upstream sends

ASSUME ConstantsAssumption ==
  /\ Modes \subseteq {"translate", "passthrough", "aggregate"}
  /\ Formats \subseteq {"openai", "anthropic", "responses"}
  /\ Capacity \in Nat \ {0} /\ IdleTimeout \in Nat \ {0} /\ Keepalive \in Nat \ {0}
  /\ MaxFrames \in Nat \ {0, 1}

VARIABLES
  mode,          \* which of the three drivers runs
  format,        \* what the client speaks
  stage,         \* where the driver is
  inbox,         \* what the upstream sent and the driver has not read
  open,          \* the upstream may send more
  produced,      \* how many frames the upstream sent
  silence,       \* ticks since its last frame, up to IdleTimeout
  idleLeft,      \* ticks until idle_deadline
  keepaliveLeft, \* ticks until the next keepalive
  taken,         \* history: the frames that are meant for the client, as read
  buffered,      \* pending_frames of the passthrough, events of the aggregate
  finishSent,    \* the encoder's finish_sent
  outbox,        \* frames of this step that are still to be sent
  then,          \* where to go when they are, and whether a failed send matters
  channel,       \* the channel to the client
  received,      \* history: what the client got, keepalives left out
  client,        \* "reading", or how far its departure has come
  woken,         \* notify_waiters reached the driver's notified()
  status,        \* as in the usage log
  blame,         \* provider_failure is Some
  terminalSeen,  \* terminal_seen
  committed,     \* committed
  verdict,       \* what the provider attempt was finished with
  live           \* the entry in the live view is in flight

source == <<inbox, open, produced, silence>>
kept == <<taken, buffered>>
encoder == <<format, finishSent>>
timers == <<idleLeft, keepaliveLeft>>
sending == <<outbox, then>>
wire == <<channel, received>>
peer == <<client, woken>>
result == <<status, blame, terminalSeen, committed>>
ending == <<verdict, live>>
vars == <<mode, encoder, stage, source, timers, kept, sending, wire, peer, result, ending>>

-----------------------------------------------------------------------------
(***************************************************************************)
(* What an upstream sends.  "data": a semantic event.  "start": another    *)
(* one.  "usage": token counts the client did not ask for.  "finish": a    *)
(* semantic event that ends the response.  "done": [DONE].  "error": an    *)
(* error payload.  "garbage": one that cannot be parsed.  "cut": a broken  *)
(* frame, or an end within one.  "reset": a transport error.  "eof": the   *)
(* end.  A frame is late when the upstream was silent for IdleTimeout      *)
(* before it.                                                              *)
(***************************************************************************)
Closing == {"cut", "reset", "eof"}

Event == {"data", "start", "usage", "finish", "done"}

UpstreamKind == Event \cup {"error", "garbage"} \cup Closing

UpstreamFrame == [kind : UpstreamKind, number : 1..MaxFrames + 1, late : BOOLEAN]

(***************************************************************************)
(* What the client is sent.  "frame": an upstream's frame.  "stop": the    *)
(* finish_reason, message_stop or response.completed of a regular end.     *)
(* "done": [DONE].  "error": an error object or response.failed.           *)
(* "failed": the finish_reason "error".  "keepalive": a comment.           *)
(***************************************************************************)
ClientFrame ==
  [kind : {"frame", "stop", "done", "error", "failed", "keepalive"}, number : 0..MaxFrames + 1]

\* What the client is not meant to get: token counts are for the client only if it
\* asked, an encoder writes [DONE] itself, OpenAi's has no frame for a start and
\* Anthropic's keeps the stop reason for the end.
Dropped(frame) ==
  \/ frame.kind = "usage" /\ (mode = "passthrough" => format = "openai")
  \/ frame.kind = "done" /\ mode # "passthrough"
  \/ frame.kind = "start" /\ mode = "translate" /\ format = "openai"
  \/ frame.kind = "finish" /\ mode = "translate" /\ format = "anthropic"

\* What the client takes a frame for; the body of an aggregate has an end of its own.
Told(frame) ==
  IF frame.kind = "finish" /\ mode # "aggregate" THEN "stop"
  ELSE IF frame.kind = "done" THEN "done" ELSE "frame"

\* What the client gets of a frame: nothing, or the frame in its own format.
Forward(frame) ==
  IF Dropped(frame) THEN <<>> ELSE <<[kind |-> Told(frame), number |-> frame.number]>>

Stop == [kind |-> "stop", number |-> 0]
Done == [kind |-> "done", number |-> 0]
Error == [kind |-> "error", number |-> 0]
Failed == [kind |-> "failed", number |-> 0]
Comment == [kind |-> "keepalive", number |-> 0]

(***************************************************************************)
(* "full": a complete JSON response is at hand.  "top": before the check   *)
(* of meta.disconnected.  "enter": after it, before notified() exists.     *)
(* "select": waits.  "send": in tx.send.  "ended": after the loop.         *)
(* "finalize", "trace": in finalize_log.  "dropped": the aggregate's       *)
(* handler went with its client.                                           *)
(***************************************************************************)
Stage == {"full", "top", "enter", "select", "send", "ended", "finalize", "trace",
          "done", "dropped"}

Streaming == mode # "aggregate"

Gone == client # "reading"

\* A validated response: complete, or one whose first semantic event was
\* prefetched.  The first tick of the keepalive interval is immediate.
Init ==
  /\ mode \in Modes /\ format \in Formats /\ finishSent = FALSE
  /\ \/ stage = "full" /\ mode # "passthrough" /\ inbox = <<>> /\ open = FALSE /\ produced = 0
     \/ /\ stage = "top"
        /\ \E kinds \in {<<"data">>, <<"start", "data">>} :
             inbox = [i \in DOMAIN kinds |-> [kind |-> kinds[i], number |-> i, late |-> FALSE]]
        /\ open = TRUE /\ produced = Len(inbox)
  /\ silence = 0
  /\ idleLeft = IdleTimeout /\ keepaliveLeft = 0
  /\ taken = <<>> /\ buffered = <<>> /\ outbox = <<>> /\ then = [stage |-> "top", cancel |-> TRUE]
  /\ channel = <<>> /\ received = <<>>
  /\ client = "reading" /\ woken = FALSE
  /\ status = "success" /\ blame = FALSE /\ terminalSeen = FALSE /\ committed = FALSE
  /\ verdict = "none" /\ live = TRUE

-----------------------------------------------------------------------------
(* The upstream, the client and the clock *)

\* The upstream sends its next frame, or ends.
Produce(kind) ==
  /\ open
  /\ kind \notin Closing => produced < MaxFrames
  /\ inbox' = Append(inbox, [kind |-> kind, number |-> produced + 1,
                             late |-> silence = IdleTimeout])
  /\ produced' = produced + 1
  /\ open' = (kind \notin Closing)
  /\ silence' = 0
  /\ UNCHANGED <<mode, encoder, stage, timers, kept, sending, wire, peer, result, ending>>

\* The client reads a frame of a stream.
Read ==
  /\ client = "reading" /\ channel # <<>>
  /\ received' = IF Head(channel) = Comment THEN received ELSE Append(received, Head(channel))
  /\ channel' = Tail(channel)
  /\ UNCHANGED <<mode, encoder, stage, source, timers, kept, sending, peer, result, ending>>

\* The response body is dropped: DisconnectGuard sets the flag,
Leave ==
  /\ client = "reading" /\ Streaming /\ stage # "done"
  /\ client' = "flagged"
  /\ UNCHANGED <<mode, encoder, stage, source, timers, kept, sending, wire, woken, result, ending>>

\* wakes whoever waits at that moment,
NotifyWaiters ==
  /\ client = "flagged"
  /\ client' = "notified"
  /\ woken' = (stage = "select")
  /\ UNCHANGED <<mode, encoder, stage, source, timers, kept, sending, wire, result, ending>>

\* and the channel's receiver is dropped after it.
DropReceiver ==
  /\ client = "notified"
  /\ client' = "gone"
  /\ channel' = <<>>
  /\ UNCHANGED <<mode, encoder, stage, source, timers, kept, sending, received, woken, result, ending>>

\* The client of an aggregate leaves while its handler awaits, and takes the
\* handler with it: the permit and the provider attempt are dropped, unlogged.
DropHandler ==
  /\ ~Streaming /\ stage \in {"select", "trace"}
  /\ stage' = "dropped"
  /\ client' = "gone"
  /\ verdict' = IF verdict = "none" THEN "neutral" ELSE verdict
  /\ UNCHANGED <<mode, encoder, source, timers, kept, sending, wire, woken, result, live>>

KeepaliveDue == Streaming /\ keepaliveLeft = 0 /\ (mode = "passthrough" => committed)

\* The driver can only wait.
Waiting ==
  \/ stage = "select" /\ inbox = <<>> /\ idleLeft > 0 /\ ~KeepaliveDue /\ ~woken
  \/ stage = "send" /\ Len(channel) = Capacity /\ client = "reading"

Less(n) == IF n > 0 THEN n - 1 ELSE 0

Tick ==
  /\ Waiting /\ client \in {"reading", "gone"}
  /\ idleLeft' = Less(idleLeft)
  /\ keepaliveLeft' = Less(keepaliveLeft)
  /\ silence' = IF silence < IdleTimeout THEN silence + 1 ELSE silence
  /\ UNCHANGED <<mode, encoder, stage, inbox, open, produced, kept, sending, wire, peer, result, ending>>

-----------------------------------------------------------------------------
(* The loop of the driver *)

\* Stop because the client is gone (record_cancel).
Cancel ==
  /\ status' = "client_disconnect"
  /\ stage' = "finalize"
  /\ UNCHANGED <<blame, terminalSeen, committed>>

\* Leave the loop with an error, the provider's or not.
Fail(providers) ==
  /\ status' = "stream_error"
  /\ blame' = providers
  /\ UNCHANGED committed

\* Send frames, then go on; cancel says whether a failed send ends the stream.
SendThen(frames, next, cancel) ==
  IF frames = <<>>
    THEN stage' = next /\ UNCHANGED sending
    ELSE stage' = "send" /\ outbox' = frames /\ then' = [stage |-> next, cancel |-> cancel]

\* The check at the top of the loop.
Check ==
  /\ stage = "top" /\ Streaming
  /\ IF Gone THEN Cancel ELSE stage' = "enter" /\ UNCHANGED result
  /\ UNCHANGED <<mode, encoder, source, timers, kept, sending, wire, peer, ending>>

\* select! makes a new notified(), which knows nothing of the past.
Enter ==
  /\ stage = "enter"
  /\ stage' = "select"
  /\ woken' = FALSE
  /\ UNCHANGED <<mode, encoder, source, timers, kept, sending, wire, client, result, ending>>

\* The aggregate awaits the next chunk with a new timeout.
Await ==
  /\ stage = "top" /\ ~Streaming
  /\ stage' = "select"
  /\ idleLeft' = IdleTimeout
  /\ UNCHANGED <<mode, encoder, source, keepaliveLeft, kept, sending, wire, peer, result, ending>>

\* notified() is only ever woken by the guard, after the flag.
Woken ==
  /\ stage = "select" /\ woken
  /\ Cancel
  /\ UNCHANGED <<mode, encoder, source, timers, kept, sending, wire, peer, ending>>

\* A comment keeps the connection alive; a passthrough sends none before commit.
SendKeepalive ==
  /\ stage = "select" /\ KeepaliveDue
  /\ keepaliveLeft' = Keepalive
  /\ SendThen(<<Comment>>, "top", TRUE)
  /\ UNCHANGED <<mode, encoder, source, idleLeft, kept, wire, peer, result, ending>>

\* Wrong: no timer but the keepalive's.
Expire_bug == FALSE /\ UNCHANGED vars

\* idle_deadline has passed.  The select! of a stream picks any branch that is
\* ready, the timeout of an aggregate looks at the chunk first.
Expire ==
  /\ stage = "select" /\ idleLeft = 0
  /\ ~Streaming => inbox = <<>>
  /\ Fail(TRUE)
  /\ stage' = "ended"
  /\ UNCHANGED <<mode, encoder, source, timers, kept, sending, wire, peer, terminalSeen, ending>>

Numbers(frames) == [i \in DOMAIN frames |-> frames[i].number]

\* The driver takes the next chunk, which starts the idle timer of a stream again.
Take(kinds) ==
  /\ stage = "select" /\ inbox # <<>>
  /\ LET frame == Head(inbox) IN
     /\ frame.kind \in kinds
     /\ idleLeft' = IF Streaming /\ frame.kind \notin {"reset", "eof"} THEN IdleTimeout ELSE idleLeft
     /\ terminalSeen' = (terminalSeen \/ frame.kind \in {"finish", "done"})
     /\ finishSent' = (finishSent \/ (frame.kind = "finish" /\ mode = "translate"
                                       /\ ~Dropped(frame)))
     /\ taken' = IF frame.kind \in Event THEN taken \o Numbers(Forward(frame)) ELSE taken
  /\ inbox' = Tail(inbox)
  /\ UNCHANGED <<mode, format, open, produced, silence, keepaliveLeft, wire, peer, ending>>

\* An event is encoded and sent (emit_translated_events).
Translate ==
  /\ mode = "translate"
  /\ Take(Event)
  /\ SendThen(Forward(Head(inbox)), "top", TRUE)
  /\ committed' = (committed \/ Forward(Head(inbox)) # <<>>)
  /\ UNCHANGED <<buffered, status, blame>>

\* Wrong: the frame that commits goes out before the ones kept back.
PassThrough_bug ==
  /\ mode = "passthrough"
  /\ Take(Event)
  /\ committed' = (committed \/ Head(inbox).kind \in {"data", "finish"})
  /\ LET frames == Forward(Head(inbox)) \o buffered IN
     IF committed' THEN SendThen(frames, "top", TRUE) /\ buffered' = <<>>
                   ELSE SendThen(<<>>, "top", TRUE) /\ buffered' = frames
  /\ UNCHANGED <<status, blame>>

\* The frame itself is sent, after those kept back until the first semantic event.
PassThrough ==
  /\ mode = "passthrough"
  /\ Take(Event)
  /\ committed' = (committed \/ Head(inbox).kind \in {"data", "finish"})
  /\ LET frames == buffered \o Forward(Head(inbox)) IN
     IF committed' THEN SendThen(frames, "top", TRUE) /\ buffered' = <<>>
                   ELSE SendThen(<<>>, "top", TRUE) /\ buffered' = frames
  /\ UNCHANGED <<status, blame>>

\* The events of the response are collected.
Collect ==
  /\ mode = "aggregate"
  /\ Take(Event)
  /\ buffered' = buffered \o Forward(Head(inbox))
  /\ stage' = "top"
  /\ UNCHANGED <<sending, status, blame, committed>>

\* Wrong: [DONE] is written before the error, as after a whole response.
ErrorFrames_bug ==
  IF format # "openai" THEN <<Error>>
  ELSE IF mode = "passthrough" THEN <<Done, Error>> ELSE <<Failed, Done, Error>>

\* How a client is told of an error: OpenAi's format has it followed by [DONE], and the
\* encoder by a chunk whose finish_reason is an error (Encoder::error_frame).
ErrorFrames ==
  IF format # "openai" THEN <<Error>>
  ELSE IF mode = "passthrough" THEN <<Error, Done>> ELSE <<Error, Failed, Done>>

\* A payload that is an error, or none at all, ends the loop; drive_stream has told
\* the client by then, and will tell it again.
BadPayload ==
  /\ Take({"error", "garbage"})
  /\ Fail(Head(inbox).kind = "error")
  /\ SendThen(IF mode = "translate" THEN ErrorFrames ELSE <<>>, "ended", FALSE)
  /\ UNCHANGED buffered

\* The upstream breaks off.
Broken ==
  /\ Take({"cut", "reset"})
  /\ Fail(Head(inbox).kind = "reset")
  /\ stage' = "ended"
  /\ UNCHANGED <<buffered, sending>>

\* Wrong: the end of the upstream is the end of the response.
EndOfStream_bug ==
  /\ Take({"eof"})
  /\ stage' = "ended"
  /\ UNCHANGED <<buffered, sending, status, blame, committed>>

\* The upstream ends, which is an error unless the terminal event was seen.
EndOfStream ==
  /\ Take({"eof"})
  /\ IF terminalSeen THEN UNCHANGED <<status, blame, committed>> ELSE Fail(FALSE)
  /\ stage' = "ended"
  /\ UNCHANGED <<buffered, sending>>

\* A complete JSON response needs no loop: it is whole.  Its reason to end, if it has
\* one, is encoded with it.
Complete ==
  /\ stage = "full"
  /\ finishSent' \in {FALSE, mode = "translate" /\ format # "anthropic"}
  /\ LET frames == <<[kind |-> "frame", number |-> 1]>>
                     \o (IF finishSent' THEN <<Stop>> ELSE <<>>) IN
     IF Streaming
       THEN SendThen(frames, "ended", TRUE) /\ UNCHANGED buffered
       ELSE buffered' = frames /\ stage' = "ended" /\ UNCHANGED sending
  /\ committed' = TRUE /\ terminalSeen' = TRUE
  /\ produced' = 1 /\ taken' = <<1>>
  /\ UNCHANGED <<mode, format, inbox, open, silence, timers, wire, peer, status, blame, ending>>

\* tx.send: there is room, or the receiver is gone.
SendFrame ==
  /\ stage = "send"
  /\ IF client = "gone"
       THEN /\ UNCHANGED <<channel, terminalSeen, blame, committed>>
            /\ outbox' = IF then.cancel THEN <<>> ELSE Tail(outbox)
            /\ status' = IF then.cancel THEN "client_disconnect" ELSE status
            /\ stage' = IF then.cancel THEN "finalize"
                        ELSE IF Len(outbox) = 1 THEN then.stage ELSE "send"
       ELSE /\ Len(channel) < Capacity
            /\ channel' = Append(channel, Head(outbox))
            /\ outbox' = Tail(outbox)
            /\ stage' = IF Len(outbox) = 1 THEN then.stage ELSE "send"
            /\ UNCHANGED result
  /\ UNCHANGED <<mode, encoder, source, timers, kept, then, received, peer, ending>>

-----------------------------------------------------------------------------
(* After the loop *)

\* What the encoder adds to a whole response (Encoder::finalize).
EndFrames ==
  (IF finishSent THEN <<>> ELSE <<Stop>>) \o (IF format = "openai" THEN <<Done>> ELSE <<>>)

\* Wrong: only what is the provider's fault is told to the client.
LastFrames_bug ==
  IF mode = "translate" /\ status = "success" THEN EndFrames
  ELSE IF Streaming /\ status # "success" /\ blame THEN ErrorFrames ELSE <<>>

\* What the client is told at the end: drive_stream finishes the encoding, a
\* passthrough only adds an error, and that only once something was sent.
LastFrames ==
  IF mode = "translate" /\ status = "success" THEN EndFrames
  ELSE IF status # "success" /\ (mode = "translate" \/ (mode = "passthrough" /\ committed))
    THEN ErrorFrames ELSE <<>>

Ended ==
  /\ stage = "ended"
  /\ SendThen(LastFrames, "finalize", status = "success")
  /\ committed' = (committed \/ (mode = "aggregate" /\ status = "success"))
  /\ UNCHANGED <<mode, encoder, source, timers, kept, wire, peer, status, blame, terminalSeen, ending>>

\* finalize_log up to its first await: the permit, the provider attempt and the
\* reservation are settled, and the usage row is queued.
Finalize ==
  /\ stage = "finalize"
  /\ stage' = "trace"
  /\ verdict' = CASE status = "success" -> "success"
                  [] status = "stream_error" /\ blame -> "failure"
                  [] OTHER -> "neutral"
  /\ UNCHANGED <<mode, encoder, source, timers, kept, sending, wire, peer, result, live>>

\* What the client of an aggregate is answered.
Answer == IF status = "success" THEN Append(buffered, Stop) ELSE <<Error>>

\* The trace is stored and the live entry ends; an aggregate is answered.
Finish ==
  /\ stage = "trace"
  /\ stage' = "done"
  /\ live' = FALSE
  /\ received' = IF Streaming THEN received ELSE Answer
  /\ UNCHANGED <<mode, encoder, source, timers, kept, sending, channel, peer, result, verdict>>

\* The branches of select! that are about the upstream.
Receive ==
  \/ Expire
  \/ Translate \/ PassThrough \/ Collect \/ BadPayload \/ Broken \/ EndOfStream

Driver ==
  \/ Check \/ Enter \/ Await \/ Woken \/ SendKeepalive \/ Receive
  \/ Complete \/ SendFrame \/ Ended \/ Finalize \/ Finish

Guard == NotifyWaiters \/ DropReceiver

Next ==
  \/ \E kind \in UpstreamKind : Produce(kind)
  \/ Read \/ Leave \/ DropHandler \/ Guard
  \/ Tick
  \/ Driver

Spec == Init /\ [][Next]_vars

\* The runtime runs the driver's task, drops what the connection dropped, and
\* time passes; neither the upstream nor the client owes anything.  select! picks
\* at random among the branches that are ready, so it does not pick the keepalive
\* for ever.
FairSpec ==
  Spec /\ WF_vars(Driver) /\ SF_vars(Receive) /\ WF_vars(Guard) /\ WF_vars(Tick)

-----------------------------------------------------------------------------
TypeOK ==
  /\ mode \in Modes /\ format \in Formats /\ finishSent \in BOOLEAN /\ stage \in Stage
  /\ inbox \in Seq(UpstreamFrame) /\ open \in BOOLEAN /\ produced \in 0..MaxFrames + 1
  /\ silence \in 0..IdleTimeout
  /\ idleLeft \in 0..IdleTimeout /\ keepaliveLeft \in 0..Keepalive
  /\ taken \in Seq(Nat) /\ buffered \in Seq(ClientFrame) /\ outbox \in Seq(ClientFrame)
  /\ then \in [stage : Stage, cancel : BOOLEAN]
  /\ channel \in Seq(ClientFrame) /\ Len(channel) <= Capacity
  /\ received \in Seq(ClientFrame)
  /\ client \in {"reading", "flagged", "notified", "gone"} /\ woken \in BOOLEAN
  /\ status \in {"success", "stream_error", "client_disconnect"}
  /\ blame \in BOOLEAN /\ terminalSeen \in BOOLEAN /\ committed \in BOOLEAN
  /\ verdict \in {"none", "success", "neutral", "failure"} /\ live \in BOOLEAN

\* What the client got or will get as long as it reads.
Delivered == received \o channel

\* The upstream's frames among them.
Shown(frames) == {frames[i].number : i \in DOMAIN frames} \ {0}

Ascending(numbers) == \A i, j \in DOMAIN numbers : i < j => numbers[i] < numbers[j]

\* Frames that come in the order of their numbers, whatever is between them.
Ordered(frames) ==
  \A i, j \in DOMAIN frames :
    i < j /\ frames[j].number # 0 => frames[i].number < frames[j].number

\* No upstream frame comes before one with a smaller number that was taken.
Follows(frames, numbers) ==
  /\ Ordered(frames) /\ Shown(frames) \subseteq Range(numbers)
  /\ \A n \in Range(numbers), m \in Shown(frames) : n < m => n \in Shown(frames)

\* Nothing follows an error but what belongs to it.
ErrorsLast(frames) ==
  \A i, j \in DOMAIN frames :
    i < j /\ frames[i].kind = "error" => frames[j].kind \in {"error", "failed", "done"}

Has(frames, kind) == \E i \in DOMAIN frames : frames[i].kind = kind

\* A client that reads until the response stops or is done, or an error comes, takes
\* it for complete.
Ends(frames) ==
  \E i \in DOMAIN frames :
    /\ frames[i].kind \in {"stop", "done"}
    /\ \A j \in DOMAIN frames : j < i => frames[j].kind # "error"

\* The response has the end that its format asks for; a passthrough has its upstream's.
Closed(frames) ==
  IF mode = "passthrough" THEN Has(frames, "stop") \/ Has(frames, "done")
  ELSE /\ Has(frames, "stop")
       /\ mode = "translate" /\ format = "openai" => Has(frames, "done")

Finished == stage = "done" /\ client = "reading"

\* The client gets the upstream's frames in the order in which they were sent,
\* none twice and none left out, through the buffer before the commit, the
\* channel and the aggregate's body.
InOrder == Ascending(taken) /\ Follows(Delivered, taken)

\* A response that is logged as a success reached a client that stayed as a
\* whole: every frame, the regular end of its format, and no error.
SuccessIsComplete ==
  Finished /\ status = "success" =>
    Shown(Delivered) = Range(taken) /\ Closed(Delivered) /\ ~Has(Delivered, "error")

\* A response that broke off never looks complete, at any time and in any format: no
\* [DONE] and no finish_reason comes before the error unless the upstream had ended the
\* response itself; a client that stayed is told of the error, and nothing of the
\* response follows it.
TruncationIsVisible ==
  /\ Ends(Delivered) => terminalSeen
  /\ Finished /\ status = "stream_error" => Has(Delivered, "error")
  /\ ErrorsLast(Delivered)

\* The idle timeout is for upstreams that are silent: it does not fire while a
\* frame waits that came in time (Attempt.idle_timeout).
IdleMeansSilence ==
  [][stage = "select" /\ stage' = "ended" /\ inbox' = inbox =>
       inbox = <<>> \/ Head(inbox).late]_vars

\* The driver of an upstream that stops sending ends, and with it what the
\* request holds and its live entry, if the client keeps reading or leaves.
EveryStreamEnds ==
  []<>(Gone \/ channel = <<>>) => <>(stage \in {"done", "dropped"})

\* What a client has received is, in order, what the upstream sent; it takes a response
\* for complete only if the upstream completed it, and is told when one was cut off.
ClientSeesTheTruth == TypeOK /\ InOrder /\ SuccessIsComplete /\ TruncationIsVisible
=============================================================================
