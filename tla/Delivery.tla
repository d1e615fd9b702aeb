------------------------------ MODULE Delivery ------------------------------
(***************************************************************************)
(* One inference request from the HTTP handler to the last byte of its     *)
(* answer: the bridge (backend/internal/bridge), the converters of the     *)
(* stream (backend/internal/compat) and the copy loop of the server        *)
(* (backend/internal/api/server.go, writeResult).                          *)
(*                                                                         *)
(* The handler's goroutine reads the converted stream and writes to the    *)
(* client.  For a Chat or a Responses client it also pulls the upstream;   *)
(* for an Anthropic client a second goroutine, the worker, pulls the       *)
(* upstream and hands each frame over a pipe.  The upstream body and the   *)
(* lease of the account are closed together (leaseReadCloser), at the end  *)
(* of the body or by Close.                                                *)
(*                                                                         *)
(* The provider sends the events of a response in the order the Responses  *)
(* protocol gives them, and may stop, fail or disconnect anywhere.         *)
(***************************************************************************)
EXTENDS Naturals, Sequences, FiniteSets

CONSTANTS
    NItems,      \* output items of the response
    MaxDeltas    \* bound: deltas of an item

ASSUME DeliveryAssumption == NItems \in Nat \ {0} /\ MaxDeltas \in Nat

Items == 1 .. NItems

Anthropic == INSTANCE AnthropicStream
Chat      == INSTANCE ChatStream
Tools     == INSTANCE ToolRewrite

VARIABLES
    req,      \* the request: format and streaming of the client, thinking, and
              \* the kinds of the items its response will have
    pc,       \* where the handler is
    up,       \* what the provider has sent
    conv,     \* the converter; conv.out holds the frames not yet read from it
    worker,   \* pipeResponsesToAnthropic
    lease,    \* the lease, and with it the upstream body
    client,   \* "here" or "gone"
    reply,    \* how the request was answered
    view      \* what the client has put together from its frames, while it is there

vars == <<req, pc, up, conv, worker, lease, client, reply, view>>

Formats == {"chat", "anthropic", "responses"}

\* Pipeline.Chat, Messages and Responses: a body of the Responses kind is served
\* as one on every path.
Route(path, kind) == IF kind = "responses" THEN "responses" ELSE path

\* The kinds of items a converter tells apart.  Only a Responses client can
\* declare an apply_patch tool, and only an Anthropic client is shown reasoning.
Kinds == [chat |-> {"message", "tool"}, anthropic |-> {"message", "tool", "reasoning"},
          responses |-> {"tool", "patch"}]

\* What is aggregated is not told apart by kind at all.
Requests ==
    (UNION {[format : {f}, stream : {TRUE}, plan : [Items -> Kinds[f]],
             mode : IF f = "anthropic" THEN {"off", "summarized", "omitted"} ELSE {"off"}] :
               f \in UNION {{Route(path, kind) : kind \in Formats} : path \in Formats}})
    \cup [format : Formats, stream : {FALSE}, plan : [Items -> {"message"}], mode : {"off"}]

Translated == req.format = "anthropic" /\ req.stream    \* a worker converts

Finals == {"completed", "incomplete"}

Broken == Anthropic!Broken

-----------------------------------------------------------------------------
(* The provider (external): which event may come next.  at[i] is how far    *)
(* item i has come: 0 nothing, 1 added, 2 content, 3 content done, 4 done.  *)

NoUp == [end |-> "open", created |-> FALSE, at |-> [i \in Items |-> 0],
         sent |-> [i \in Items |-> 0], full |-> [i \in Items |-> FALSE], output |-> FALSE]

Ev(type, i, full, output) == [type |-> type, item |-> i, full |-> full, output |-> output]

\* Items come one after the other, except that tool calls may run in parallel.
\* An item may be left out and appear only in the output of the last event.
MayRun(i) ==
    /\ \A j \in Items : j < i => up.at[j] \in {0, 4} \/ {req.plan[i], req.plan[j]} = {"tool"}
    /\ \A j \in Items : j > i => up.at[j] = 0 \/ ({req.plan[i], req.plan[j]} = {"tool"} /\ up.at[i] # 0)

\* apply_patch calls and reasoning are always announced; a summary part that was
\* opened has text, and a reasoning item is ended before anything follows it.
EmptyPart(i) == req.plan[i] = "reasoning" /\ up.at[i] = 2 /\ up.sent[i] = 0

Announced(i) == req.plan[i] \in {"tool", "message"} \/ up.at[i] >= 1

ItemEvents(i) ==
    LET k == req.plan[i]
        more == up.sent[i] < MaxDeltas /\ ~up.full[i] /\ Announced(i)
        E(type, guard) == IF guard THEN {Ev(type, i, FALSE, FALSE)} ELSE {}
    IN  IF ~MayRun(i) THEN {}
        ELSE UNION {
            E("added", up.at[i] = 0),
            IF up.at[i] = 0 /\ k # "message" THEN {Ev("added", i, TRUE, FALSE)} ELSE {},
            E("text_delta", k = "message" /\ up.at[i] <= 2 /\ more),
            E("part_added", k = "reasoning" /\ up.at[i] = 1),
            E("reasoning_delta", k = "reasoning" /\ up.at[i] \in 1 .. 2 /\ up.sent[i] < MaxDeltas),
            E("part_done", k = "reasoning" /\ up.at[i] = 2 /\ ~EmptyPart(i)),
            E("args_delta", k \in {"tool", "patch"} /\ up.at[i] <= 2 /\ more),
            E("args_done", k \in {"tool", "patch"} /\ up.at[i] <= 2 /\ Announced(i)),
            E("item_done", up.at[i] # 4 /\ Announced(i) /\ ~EmptyPart(i))}

Events ==
    IF up.end # "open" THEN {}
    ELSE {Ev(t, 0, FALSE, FALSE) : t \in {"failed"} \cup Broken}
         \cup
         (IF ~up.created THEN {Ev(t, 0, FALSE, FALSE) : t \in {"created", "json"}}
          ELSE (UNION {ItemEvents(i) : i \in Items})
               \cup
               (IF \E i \in Items : req.plan[i] = "reasoning" /\ up.at[i] \in 1 .. 3 THEN {}
                ELSE UNION {{Ev(t, 0, FALSE, o) : o \in BOOLEAN} : t \in Finals}))

Stage == [added |-> 1, text_delta |-> 2, part_added |-> 2, reasoning_delta |-> 2, part_done |-> 3,
          args_delta |-> 2, args_done |-> 3, item_done |-> 4]

\* Events without an item that are not the last one.
Midway == {"created", "broken_created", "broken_text", "garbage"}

Sent(ev) ==
    IF ev.item = 0
    THEN [up EXCEPT !.created = @ \/ ev.type # "garbage", !.output = ev.output,
                    !.end = IF ev.type \in Midway THEN @ ELSE ev.type]
    ELSE [up EXCEPT !.at[ev.item] = Stage[ev.type], !.full[ev.item] = @ \/ ev.full,
                    !.sent[ev.item] = @ + IF ev.type \in {"text_delta", "reasoning_delta", "args_delta"}
                                          THEN 1 ELSE 0]

-----------------------------------------------------------------------------
(* The client (external) *)

NoView == [begun |-> FALSE, started |-> 0, open |-> {}, end |-> "none",
           parts |-> [i \in Items |-> <<>>], home |-> [i \in Items |-> {}]]

Content == {"piece", "whole"}

Shown(v, f) ==
    [begun |-> TRUE,
     started |-> v.started + IF f.type \in {"block_start", "tool_start"} THEN 1 ELSE 0,
     open |-> CASE f.type \in {"block_start", "tool_start"} -> v.open \cup {f.block}
                [] f.type = "block_stop" -> v.open \ {f.block}
                [] OTHER -> v.open,
     end |-> CASE f.type \in {"message_stop", "done"} \cup Finals -> "success"
               [] f.type = "error" -> "error"
               [] OTHER -> v.end,
     parts |-> [i \in Items |-> IF f.item = i /\ f.part \in Content
                                THEN Append(v.parts[i], f.part) ELSE v.parts[i]],
     home |-> [i \in Items |-> IF f.item = i /\ f.block # 0
                               THEN v.home[i] \cup {f.block} ELSE v.home[i]]]

-----------------------------------------------------------------------------
Init ==
    /\ req \in Requests
    /\ pc = "prepare" /\ up = NoUp /\ conv = [out |-> <<>>]
    /\ worker = "none" /\ lease = "none" /\ client = "here" /\ reply = "none" /\ view = NoView

\* deliver: the converter for the client's format.  A stream of the Responses
\* format is passed through the restorer of tools; what is not streamed is
\* aggregated, here into whether the last event was seen.
NewConv ==
    IF ~req.stream THEN [final |-> FALSE, out |-> <<>>]
    ELSE CASE req.format = "anthropic" -> Anthropic!newAnthropicStreamTranslator(req.mode)
           [] req.format = "chat" -> Chat!NewResponsesToChatStream
           [] OTHER -> Tools!RewriteResponseStream

Convert(ev) ==
    IF ~req.stream THEN [conv EXCEPT !.final = @ \/ ev.type \in {"completed", "json"}]
    ELSE CASE req.format = "anthropic" -> Anthropic!processData(conv, ev, req.plan)
           [] req.format = "chat" -> Chat!pull(conv, ev, req.plan)
           [] OTHER -> Tools!rewriteSSEPayload(conv, ev, req.plan)

Finish(r) == pc' = "done" /\ reply' = r

\* The handler: the body is converted, or refused with 400.
Prepare ==
    /\ pc = "prepare"
    /\ \/ pc' = "gateway" /\ reply' = reply
       \/ Finish("bad_request")
    /\ UNCHANGED <<req, up, conv, worker, lease, client, view>>

\* writeBridgeError: the pool is empty, or the upstream cannot be reached; or
\* the upstream answers with an error status, whose body is passed on.
GatewayRefuses ==
    /\ pc = "gateway"
    /\ \E r \in {"unavailable", "bad_gateway", "upstream_error"} : Finish(r)
    /\ UNCHANGED <<req, up, conv, worker, lease, client, view>>

\* executeResponses: the upstream streams, whatever the client asked for.
GatewayStreams ==
    /\ pc = "gateway"
    /\ lease' = "held"
    /\ conv' = NewConv
    /\ worker' = IF Translated THEN "running" ELSE "none"
    /\ pc' = IF req.stream THEN "copy" ELSE "aggregate"
    /\ reply' = IF req.stream THEN "stream" ELSE reply
    /\ UNCHANGED <<req, up, client, view>>

-----------------------------------------------------------------------------
(* Reading the upstream: the worker, or the handler when no frame is pending *)

Reading ==
    /\ conv.out = <<>>
    /\ IF Translated THEN worker = "running"
       ELSE pc = "aggregate" \/ (pc = "copy" /\ ~conv.done)

\* An event that the translator cannot parse ends the worker.  Once the client
\* has left, the context of the request is cancelled; an event that was buffered
\* before that is one read just before the client left.
ReadEvent ==
    /\ Reading /\ lease = "held" /\ client = "here"
    /\ \E ev \in Events :
        /\ up' = Sent(ev)
        /\ conv' = Convert(ev)
        /\ worker' = IF Translated /\ ev.type \in Broken THEN "ending" ELSE worker
    /\ UNCHANGED <<req, pc, lease, client, reply, view>>

\* A bare [DONE]: ignored, except by the restorer of tools.
ReadMark ==
    /\ Reading /\ lease = "held" /\ client = "here"
    /\ req.stream /\ req.format = "responses"
    /\ conv' = Tools!passMark(conv)
    /\ UNCHANGED <<req, pc, up, worker, lease, client, reply, view>>

\* AggregateResponsesStream, AggregateResponsesToAnthropic and deliverResponses
\* at the end of the body: the last event, or what can be put together without it.
aggregated ==
    IF conv.final THEN "final" ELSE IF req.format = "responses" THEN "raw" ELSE "synthetic"

\* The end of the body closes it.
ReadEOF ==
    /\ Reading /\ lease = "held"
    /\ lease' = "released"
    /\ CASE Translated -> /\ conv' = Anthropic!atEnd(conv, FALSE)
                          /\ worker' = "ending" /\ UNCHANGED <<pc, reply>>
         [] ~req.stream -> Finish(aggregated) /\ UNCHANGED <<conv, worker>>
         [] req.stream /\ req.format = "chat" -> conv' = Chat!pullEnd(conv, FALSE) /\ UNCHANGED <<pc, worker, reply>>
         [] OTHER -> conv' = [conv EXCEPT !.done = TRUE] /\ UNCHANGED <<pc, worker, reply>>
    /\ UNCHANGED <<req, up, client, view>>

\* The connection breaks, the request's context was cancelled, or Close has
\* closed the body.  The pipe is closed with the error, a converter returns it.
ReadError ==
    /\ Reading
    /\ CASE Translated -> /\ conv' = Anthropic!atEnd(conv, TRUE)
                          /\ worker' = "ending" /\ UNCHANGED <<pc, lease, reply>>
         [] ~req.stream -> Finish("bad_gateway") /\ lease' = "released" /\ UNCHANGED <<conv, worker>>
         [] OTHER -> pc' = "close" /\ UNCHANGED <<conv, worker, lease, reply>>
    /\ UNCHANGED <<req, up, client, view>>

-----------------------------------------------------------------------------
(* writeResult *)

\* A frame is read from the converter and written.
WriteFrame ==
    /\ pc = "copy" /\ conv.out # <<>>
    /\ view' = IF client = "here" THEN Shown(view, Head(conv.out)) ELSE view
    /\ conv' = [conv EXCEPT !.out = Tail(@)]
    /\ UNCHANGED <<req, pc, up, worker, lease, client, reply>>

\* The write fails, or the converter is at its end.
CopyEnds ==
    /\ pc = "copy"
    /\ \/ client = "gone" /\ conv.out # <<>>
       \/ conv.out = <<>> /\ IF Translated THEN worker = "ended" ELSE conv.done
    /\ pc' = "close"
    /\ UNCHANGED <<req, up, conv, worker, lease, client, reply, view>>

\* Mutant: only the pipe is closed, not the body behind it.
Close_PipeOnly ==
    /\ pc = "close"
    /\ pc' = "done"
    /\ UNCHANGED <<req, up, conv, worker, lease, client, reply, view>>

\* The deferred Close: the reader's end of the pipe, and the body.
Close ==
    /\ pc = "close"
    /\ pc' = "done" /\ lease' = "released"
    /\ UNCHANGED <<req, up, conv, worker, client, reply, view>>

\* The worker has written its last frame, or its write fails because the reader
\* has closed the pipe; it closes the body.
WorkerEnds ==
    /\ \/ worker = "ending" /\ conv.out = <<>>
       \/ worker \in {"running", "ending"} /\ conv.out # <<>> /\ pc = "done"
    /\ worker' = "ended" /\ lease' = "released"
    /\ conv' = [conv EXCEPT !.out = <<>>]
    /\ UNCHANGED <<req, pc, up, client, reply, view>>

\* The client disconnects, which cancels the request's context.
ClientLeaves ==
    /\ client = "here" /\ pc # "done"
    /\ client' = "gone" /\ view' = NoView
    /\ UNCHANGED <<req, pc, up, conv, worker, lease, reply>>

Next ==
    \/ Prepare \/ GatewayRefuses \/ GatewayStreams
    \/ ReadEvent \/ ReadMark \/ ReadEOF \/ ReadError
    \/ WriteFrame \/ CopyEnds \/ Close \/ WorkerEnds \/ ClientLeaves

\* The goroutines run; a read ends once the client has left, the body has been
\* closed, or the provider has sent its last event (and then closes).  A provider
\* that falls silent is not obliged to anything: streams have no deadline.
Fairness ==
    /\ WF_vars(Prepare) /\ WF_vars(GatewayRefuses \/ GatewayStreams)
    /\ WF_vars(WriteFrame) /\ WF_vars(CopyEnds) /\ WF_vars(Close) /\ WF_vars(WorkerEnds)
    /\ WF_vars(ReadError /\ (client = "gone" \/ lease = "released"))
    /\ WF_vars(ReadEOF /\ up.end # "open")

Spec == Init /\ [][Next]_vars /\ Fairness

-----------------------------------------------------------------------------
(* Properties *)

Replies == {"none", "stream", "final", "synthetic", "raw",
            "bad_request", "unavailable", "bad_gateway", "upstream_error"}

\* Types: in particular there is a worker exactly for a translated stream, and a
\* converter never numbers more blocks than the response has items.
TypeOK ==
    /\ req \in Requests
    /\ pc \in {"prepare", "gateway", "copy", "aggregate", "close", "done"}
    /\ worker \in {"none", "running", "ending", "ended"}
    /\ worker # "none" <=> Translated /\ lease # "none"
    /\ lease \in {"none", "held", "released"} /\ client \in {"here", "gone"}
    /\ reply \in Replies
    /\ "next" \in DOMAIN conv => conv.next \in 1 .. NItems + 1

\* What the protocol of the client allows next.
Allowed(f, v) ==
    /\ v.end = "none"
    /\ IF v.begun THEN f.type \notin {"message_start", "role"}
       ELSE f.type \in {"message_start", "role", "error"}
    /\ f.type \in {"block_start", "tool_start"} => f.block = v.started + 1
    /\ f.type \in {"block_delta", "block_stop", "tool_args"} => f.block \in v.open
    /\ f.type \in {"message_delta", "message_stop"} => v.open = {}

\* The frames a Chat or an Anthropic client gets follow its protocol: one opening
\* frame, indexes in order, deltas and stops only of open blocks, no block open
\* when the message ends, and nothing after the end (ensureStart, stopAllBlocks,
\* queueTerminal, queueToolCallChunk).
FrameOrder ==
    [][WriteFrame /\ client = "here" /\ req.format # "responses"
          => Allowed(Head(conv.out), view)]_vars

Pieces(n) == [k \in 1 .. n |-> "piece"]
Succeeded == view.end = "success"

\* What the client must have been shown of item i when the stream succeeds.
OtherText(i) == \E j \in Items \ {i} : req.plan[j] = "message" /\ view.parts[j] # <<>>
Given(i) == \/ up.at[i] = 4
            \/ /\ req.format = "anthropic"
               /\ \/ up.output /\ (req.plan[i] = "message" => ~OtherText(i))
                  \/ req.plan[i] = "tool" /\ (up.at[i] = 3 \/ up.full[i])
Visible(i) == CASE req.plan[i] = "reasoning" -> req.mode = "summarized"
                [] req.plan[i] = "message" -> req.format = "anthropic" \/ up.sent[i] > 0
                [] OTHER -> TRUE

\* Every text, argument string and summary reaches a streaming client exactly
\* once: as the pieces it was sent in, or whole when it came in no piece; all of
\* it under one index that no other item shares; and nothing that was given is
\* missing when the stream succeeds (emitToolCallDone, completedReason, Emitted).
\* A patch is only ever shown whole.
ContentOnce ==
    /\ req.format # "responses" => \A i \in Items :
        /\ view.parts[i] \in {Pieces(n) : n \in 0 .. up.sent[i]} \cup {<<"whole">>}
        /\ Cardinality(view.home[i]) <= 1 /\ \A j \in Items \ {i} : view.home[i] \cap view.home[j] = {}
        /\ Succeeded /\ Visible(i) /\ (up.sent[i] > 0 \/ Given(i)) =>
              view.parts[i] = IF up.sent[i] > 0 THEN Pieces(up.sent[i]) ELSE <<"whole">>
    /\ \A i \in Items : req.plan[i] = "patch" => view.parts[i] \in {<<>>, <<"whole">>}

\* What a converter takes for the provider's word that the answer is complete: for
\* a Chat client the name of the last event is enough.
SaidComplete == up.end \in Finals \/ (req.format = "chat" /\ up.end = "broken_final")

\* A streaming client is told that the answer is complete only when the provider
\* said so, never after a failure, at the end of a body, or at a bare [DONE]; and
\* it is told whenever the provider did, if it stays (pull, pullEnd,
\* pipeResponsesToAnthropic).  The types are part of it.
ToldAsSent ==
    /\ TypeOK
    /\ req.stream =>
          /\ Succeeded => SaidComplete
          /\ pc = "done" /\ client = "here" /\ SaidComplete => Succeeded

\* "Do not forge finish_reason=stop: clients treat that as a full answer" (pull): a
\* streaming client is told success only after a whole terminal event.  The code
\* breaks it for a Chat client whose stream is cut inside that event.
NoForgedSuccess == req.stream /\ Succeeded => up.end \in Finals

\* Once the client has left or the provider has sent its last event, the handler
\* returns, the worker ends and the lease goes back, however the frames, the
\* reads and the Close interleave (leaseReadCloser, responsesAnthropicStream).
StreamReleased ==
    (client = "gone" \/ up.end # "open") ~>
        (pc = "done" /\ lease # "held" /\ worker \in {"none", "ended"})
=============================================================================
