----------------------------- MODULE ChatStream -----------------------------
(***************************************************************************)
(* The translator from Responses events to Chat Completions chunks         *)
(* (backend/internal/compat/responses_stream.go).                          *)
(*                                                                         *)
(* An added or done item carries its item id and its call id, a delta only *)
(* the item id; every event carries the output index.  Tool n here is the  *)
(* tool call with index n - 1; 0 stands for none.                          *)
(***************************************************************************)
EXTENDS Naturals, Sequences

CONSTANTS Items      \* output indexes

CallKeys == {"call", "item"} \X Items

Chunk(type, index, item, part) == [type |-> type, block |-> index, item |-> item, part |-> part]

NewResponsesToChatStream ==
    [started |-> FALSE, done |-> FALSE, next |-> 1, sawTools |-> FALSE,
     byCall |-> [k \in CallKeys |-> 0],   \* toolByCallID
     byOut  |-> [i \in Items |-> 0],      \* toolByOutIdx
     argsEmitted |-> {}, out |-> <<>>]

queue(c, f) == [c EXCEPT !.out = Append(@, f)]

start(c) == IF c.started THEN c ELSE queue([c EXCEPT !.started = TRUE], Chunk("role", 0, 0, "none"))

\* An item is found by its call id, and otherwise by its output index.
resolveToolIndex(c, key, i) == IF c.byCall[key] # 0 THEN c.byCall[key] ELSE c.byOut[i]

\* A tool call gets its index and its start frame.
openTool(c, key, i) ==
    LET u == start(c) IN
    queue([u EXCEPT !.next = @ + 1, !.byCall[key] = u.next, !.byOut[i] = u.next, !.sawTools = TRUE],
          Chunk("tool_start", u.next, i, "none"))

argumentsChunk(c, n, i, part) ==
    [queue(c, Chunk("tool_args", n, i, part)) EXCEPT !.argsEmitted = @ \cup {n}]

emitToolCallStart(c, i) ==
    LET key == <<"call", i>> IN
    IF c.byCall[key] # 0 THEN [c EXCEPT !.byOut[i] = c.byCall[key]] ELSE openTool(c, key, i)

emitToolCallArgumentsDelta(c, i) ==
    LET key == <<"item", i>>
        u == IF resolveToolIndex(c, key, i) # 0 THEN c ELSE openTool(c, key, i)
    IN  argumentsChunk(u, resolveToolIndex(u, key, i), i, "piece")

emitToolCallDone(c, i) ==
    LET key == <<"call", i>>
        u == IF resolveToolIndex(c, key, i) # 0 THEN c ELSE openTool(c, key, i)
        n == resolveToolIndex(u, key, i)
    IN  IF n \in u.argsEmitted THEN u ELSE argumentsChunk(u, n, i, "whole")

queueTerminal(c) ==
    IF c.done THEN c
    ELSE [queue(queue(start(c), Chunk("finish", 0, 0, "none")), Chunk("done", 0, 0, "none"))
             EXCEPT !.done = TRUE]

queueStreamError(c) == [queue(c, Chunk("error", 0, 0, "none")) EXCEPT !.done = TRUE]

\* pull, for an event that was read.  ReadSSEEvent gives an event that cannot be
\* parsed, or was cut off by the end of the body, the type in its event: line: it
\* is taken for one without an item and without text.
pull(c, ev, plan) ==
    CASE ev.type \in {"created", "broken_created"} -> start(c)
      [] ev.type = "broken_text" -> queue(start(c), Chunk("content", 0, 0, "none"))
      [] ev.type = "text_delta" -> queue(start(c), Chunk("content", 0, ev.item, "piece"))
      [] ev.type = "added" /\ plan[ev.item] = "tool" -> emitToolCallStart(c, ev.item)
      [] ev.type = "args_delta" -> emitToolCallArgumentsDelta(c, ev.item)
      [] ev.type = "item_done" /\ plan[ev.item] = "tool" -> emitToolCallDone(c, ev.item)
      [] ev.type \in {"completed", "incomplete", "broken_final"} -> queueTerminal(c)
      [] ev.type \in {"failed", "broken_failed"} -> queueStreamError(c)
      [] OTHER -> c

\* Mutant: a stream that ends early is closed like a complete one.
pullEnd_Stops(c, broken) == IF c.done \/ broken THEN c ELSE queueTerminal(c)

\* pull at the end of the body: an error chunk, unless reading failed, in which
\* case the read itself fails.
pullEnd(c, broken) == IF c.done \/ broken THEN c ELSE queueStreamError(c)
=============================================================================
