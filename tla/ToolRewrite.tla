---------------------------- MODULE ToolRewrite -----------------------------
(***************************************************************************)
(* The stream that restores the tools a Responses client declared          *)
(* (backend/internal/compat/tool_response.go).  The upstream only knows    *)
(* functions: an apply_patch call reaches it under an alias and comes back *)
(* as a function call, which is turned into one apply_patch_call item once *)
(* its arguments are complete.  Everything else passes, with names restored. *)
(***************************************************************************)
EXTENDS Naturals, Sequences

Event(ev, part) == [type |-> ev.type, block |-> 0, item |-> ev.item, part |-> part]

RewriteResponseStream == [streamCalls |-> {}, done |-> FALSE, out |-> <<>>]

Pass(s, ev, part) == [s EXCEPT !.out = Append(@, Event(ev, part))]

\* The calls whose identity is known from their first event.
rememberStreamCall(s, ev, plan) ==
    IF plan[ev.item] = "patch" THEN [s EXCEPT !.streamCalls = @ \cup {ev.item}] ELSE s

\* Mutant: the identity of a call is looked up by its name, which its argument
\* events do not carry.
streamIdentity_ByName(s, ev) == FALSE

streamIdentity(s, ev) == ev.item \in s.streamCalls

\* pull: a bare [DONE] is passed on and ends the stream.
passMark(s) ==
    [s EXCEPT !.out = Append(@, [type |-> "mark", block |-> 0, item |-> 0, part |-> "none"]),
              !.done = TRUE]

\* What cannot be parsed passes as it is, under its name.
rewriteSSEPayload(s, ev, plan) ==
    IF ev.type = "added" /\ plan[ev.item] = "patch" THEN rememberStreamCall(s, ev, plan)
    ELSE IF ev.type \in {"args_delta", "args_done"} /\ streamIdentity(s, ev) THEN s
    ELSE CASE ev.type \in {"text_delta", "args_delta", "reasoning_delta"} -> Pass(s, ev, "piece")
           [] ev.type \in {"args_done", "item_done"} -> Pass(s, ev, "whole")
           [] OTHER -> Pass(s, ev, "none")
=============================================================================
