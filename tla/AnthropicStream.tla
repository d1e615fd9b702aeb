-------------------------- MODULE AnthropicStream ---------------------------
(***************************************************************************)
(* The translator from Responses events to Anthropic Messages events       *)
(* (backend/internal/compat/anthropic_stream_responses.go).                *)
(*                                                                         *)
(* A translator is a record; every operator returns the translator after   *)
(* the event, with the frames it has written appended to out.  Text and    *)
(* arguments are abstracted to where they come from: a piece is one delta  *)
(* of the upstream, a whole is the complete content of an item.  Block n   *)
(* here is the content block with index n - 1.                             *)
(***************************************************************************)
EXTENDS Naturals, Sequences

CONSTANTS NItems     \* output items

Items == 1 .. NItems

NoItem == 0

\* Events whose data cannot be parsed, told apart by the name in their event:
\* line as far as a converter does: created or in_progress, a text delta,
\* completed or incomplete, failed or error, and any other.
Broken == {"broken_created", "broken_text", "broken_final", "broken_failed", "garbage"}

Frame(type, block, item, part) == [type |-> type, block |-> block, item |-> item, part |-> part]
Mark(type) == Frame(type, 0, NoItem, "none")

NewBlock == [index |-> 0, emitted |-> FALSE, stopped |-> FALSE]

newAnthropicStreamTranslator(mode) ==
    [mode |-> mode, started |-> FALSE, finished |-> FALSE, failed |-> FALSE,
     hasToolUse |-> FALSE, next |-> 1, blocks |-> [i \in Items |-> NewBlock],
     thinking |-> 0,          \* index of the open thinking block
     stopPend |-> FALSE,      \* the part is over, its block not yet
     signature |-> FALSE,     \* a signature has been captured
     current |-> NoItem,      \* currentReasoning
     completed |-> {},        \* completedReason
     out |-> <<>>]

Write(t, f) == [t EXCEPT !.out = Append(@, f)]

ensureStart(t) ==
    IF t.started THEN t ELSE Write([t EXCEPT !.started = TRUE], Mark("message_start"))

-----------------------------------------------------------------------------
(* Thinking blocks *)

\* A signature seen on the item is written before the block is stopped.  With
\* clear, signature and item are forgotten.
finalizeThinkingBlock(t, clear) ==
    LET n == t.thinking
        signed == IF t.signature
                  THEN Write(t, Frame("block_delta", n, t.current, "signature")) ELSE t
        closed == [Write(signed, Frame("block_stop", n, t.current, "none")) EXCEPT
                      !.thinking = 0, !.stopPend = FALSE,
                      !.completed = @ \cup ({t.current} \ {NoItem})]
        done == IF n = 0 THEN t ELSE closed
    IN  IF t.mode = "off" THEN t
        ELSE IF clear
        THEN [done EXCEPT !.signature = FALSE, !.current = IF n = 0 THEN @ ELSE NoItem]
        ELSE done

finishThinkingBeforeContent(t) == IF t.thinking = 0 THEN t ELSE finalizeThinkingBlock(t, TRUE)

ensureThinkingBlock(t) ==
    LET u == ensureStart(t) IN
    IF t.mode = "off" \/ t.thinking # 0 THEN t
    ELSE [Write(u, Frame("block_start", u.next, u.current, "thinking"))
             EXCEPT !.thinking = u.next, !.next = u.next + 1, !.stopPend = FALSE]

startThinkingPart(t, i) ==
    LET u == IF t.thinking # 0 /\ t.stopPend THEN finalizeThinkingBlock(t, FALSE) ELSE t IN
    IF t.mode = "off" THEN t ELSE ensureThinkingBlock([u EXCEPT !.current = i])

thinkingDelta(t, i, part) ==
    LET u == ensureThinkingBlock(t) IN
    IF t.mode # "summarized" THEN t ELSE Write(u, Frame("block_delta", u.thinking, i, part))

captureThinkingSignature(t, i, signed) ==
    IF t.mode = "off" \/ ~signed THEN t ELSE [t EXCEPT !.current = i, !.signature = TRUE]

\* A reasoning item that was not streamed is shown from its complete form, once.
emitFinalReasoningItem(t, i, signed) ==
    LET u == [t EXCEPT !.current = i, !.signature = @ \/ signed] IN
    IF \/ t.mode = "off"
       \/ i \in t.completed
       \/ t.mode = "omitted" /\ ~u.signature
    THEN t
    ELSE finalizeThinkingBlock(thinkingDelta(ensureThinkingBlock(u), i, "whole"), TRUE)

-----------------------------------------------------------------------------
(* Text and tool blocks, one per item *)

\* ensureTextBlock, ensureToolBlock
ensureBlock(t, i, kind) ==
    LET u == finishThinkingBeforeContent(t) IN
    IF u.blocks[i].index # 0 THEN u
    ELSE [Write(u, Frame("block_start", u.next, i, kind)) EXCEPT
             !.next = @ + 1, !.blocks[i].index = u.next,
             !.hasToolUse = @ \/ kind = "tool"]

\* textDelta, toolArgsDelta
blockDelta(t, i, kind, part) ==
    LET u == ensureBlock(t, i, kind) IN
    IF u.blocks[i].stopped THEN u
    ELSE [Write(u, Frame("block_delta", u.blocks[i].index, i, part)) EXCEPT !.blocks[i].emitted = TRUE]

\* Mutant: a block may be stopped twice.
stopBlock_Twice(t, i) ==
    IF t.blocks[i].index = 0 THEN t
    ELSE [Write(t, Frame("block_stop", t.blocks[i].index, i, "none")) EXCEPT !.blocks[i].stopped = TRUE]

stopBlock(t, i) ==
    IF t.blocks[i].index = 0 \/ t.blocks[i].stopped THEN t
    ELSE [Write(t, Frame("block_stop", t.blocks[i].index, i, "none")) EXCEPT !.blocks[i].stopped = TRUE]

\* The blocks that are open, in the order of their indexes.
stopAllBlocks(t) ==
    LET after[n \in 0 .. t.next - 1] ==
            IF n = 0 THEN t
            ELSE IF \E i \in Items : t.blocks[i].index = n
            THEN stopBlock(after[n - 1], CHOOSE i \in Items : t.blocks[i].index = n)
            ELSE after[n - 1]
    IN  after[t.next - 1]

hasEmittedText(t, plan) == \E i \in Items : plan[i] = "message" /\ t.blocks[i].emitted

\* What is left of a tool call once its complete arguments are known: they are
\* written when no delta was, and the block is stopped.
completeTool(t, i) ==
    LET u == ensureBlock(t, i, "tool") IN
    stopBlock(IF u.blocks[i].emitted THEN u ELSE blockDelta(u, i, "tool", "whole"), i)

completeText(t, i) ==
    stopBlock(IF t.blocks[i].index # 0 /\ t.blocks[i].emitted THEN t
              ELSE blockDelta(t, i, "message", "whole"), i)

-----------------------------------------------------------------------------
(* The ends of a stream *)

finish(t) ==
    IF t.finished THEN t
    ELSE LET u == stopAllBlocks(finalizeThinkingBlock(ensureStart(t), TRUE)) IN
         [Write(Write(u, Mark("message_delta")), Mark("message_stop")) EXCEPT !.finished = TRUE]

fail(t) ==
    IF t.finished THEN t
    ELSE [Write(stopAllBlocks(finalizeThinkingBlock(t, TRUE)), Mark("error"))
             EXCEPT !.failed = TRUE, !.finished = TRUE]

\* Items that the terminal event repeats are shown now if they were not before.
emitFinalItem(t, i, plan) ==
    CASE plan[i] = "reasoning" -> emitFinalReasoningItem(t, i, TRUE)
      [] plan[i] = "message" ->
            IF t.blocks[i].index = 0 /\ hasEmittedText(t, plan) THEN t ELSE completeText(t, i)
      [] plan[i] = "tool" -> completeTool(t, i)
      [] OTHER -> t

emitFinalOutput(t, plan) ==
    LET after[i \in 0 .. NItems] == IF i = 0 THEN t ELSE emitFinalItem(after[i - 1], i, plan)
    IN  after[NItems]

-----------------------------------------------------------------------------
(* processData: one event of the upstream *)

itemAdded(t, ev, plan) ==
    LET u == ensureStart(t) IN
    CASE plan[ev.item] = "reasoning" ->
            captureThinkingSignature([u EXCEPT !.current = ev.item], ev.item, ev.full)
      [] plan[ev.item] = "tool" /\ ev.full -> blockDelta(u, ev.item, "tool", "whole")
      [] plan[ev.item] = "tool" /\ ~ev.full -> ensureBlock(u, ev.item, "tool")
      [] OTHER -> u

itemDone(t, ev, plan) ==
    CASE plan[ev.item] = "reasoning" ->
            LET u == captureThinkingSignature([t EXCEPT !.current = ev.item], ev.item, TRUE) IN
            IF u.thinking = 0 THEN emitFinalReasoningItem(u, ev.item, TRUE)
            ELSE finalizeThinkingBlock(u, TRUE)
      [] plan[ev.item] = "tool" -> completeTool(ensureStart(t), ev.item)
      [] plan[ev.item] = "message" -> completeText(t, ev.item)
      [] OTHER -> t

reasoningDelta(t, ev) ==
    LET u == ensureStart(t)
        v == IF u.thinking = 0 THEN startThinkingPart(u, ev.item) ELSE u
    IN  thinkingDelta(v, ev.item, "piece")

\* The name of an event is not looked at, only its data, and data that cannot be
\* parsed fails the stream.
processData(t, ev, plan) ==
    CASE ev.type = "created" -> ensureStart(t)
      [] ev.type = "text_delta" -> blockDelta(ensureStart(t), ev.item, "message", "piece")
      [] ev.type = "part_added" -> startThinkingPart(ensureStart(t), ev.item)
      [] ev.type = "reasoning_delta" -> reasoningDelta(t, ev)
      [] ev.type = "part_done" -> [t EXCEPT !.stopPend = TRUE]
      [] ev.type = "added" -> itemAdded(t, ev, plan)
      [] ev.type = "args_delta" -> blockDelta(ensureStart(t), ev.item, "tool", "piece")
      [] ev.type = "args_done" -> completeTool(ensureStart(t), ev.item)
      [] ev.type = "item_done" -> itemDone(t, ev, plan)
      [] ev.type \in {"completed", "incomplete"} ->
            finish(IF ev.output THEN emitFinalOutput(ensureStart(t), plan) ELSE ensureStart(t))
      [] ev.type \in {"failed"} \cup Broken -> fail(t)
      [] OTHER -> t

\* The upstream closed its side, or reading failed: a stream that has started is
\* ended by an error, never by a message_stop.
atEnd(t, broken) ==
    IF broken /\ ~t.started THEN t ELSE fail(t)
=============================================================================
