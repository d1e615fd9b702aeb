--------------------------- MODULE DeliveryProofs ---------------------------
(***************************************************************************)
(* What a streaming client is shown, for any number of items and deltas:   *)
(* frames in the order its protocol asks for, every content once, and a    *)
(* success exactly when the provider told one.                             *)
(*                                                                         *)
(* The client lags behind the converter by the frames not yet read.  The   *)
(* invariant therefore speaks of two views: v, the client's (or what it    *)
(* would have, had it stayed), and x, the one it has after the pending     *)
(* frames (Leads).  x is kept together with the converter and with what    *)
(* the provider has sent; v is below x.                                    *)
(***************************************************************************)
EXTENDS Delivery, FiniteSetTheorems, SequenceTheorems, WellFoundedInduction, TLAPS

-----------------------------------------------------------------------------
(* Views and frames.                                                       *)

View == [begun : BOOLEAN, started : Nat, open : SUBSET Nat,
         end : {"none", "success", "error"},
         parts : [Items -> Seq(Content)], home : [Items -> SUBSET Nat]]

\* Names of the events of no item.
General == {"created", "json", "failed"} \cup Broken \cup Finals

EventNames == {"added", "text_delta", "part_added",
               "reasoning_delta", "part_done", "args_delta", "args_done", "item_done"} \cup General
FrameNames == EventNames \cup
    {"mark", "message_start", "block_start", "block_delta", "block_stop", "message_delta", "message_stop",
     "role", "content", "tool_start", "tool_args", "finish", "done", "error"}
PartNames  == {"none", "piece", "whole", "signature", "message", "tool", "thinking"}
MarkNames == {"message_delta", "message_stop", "error"}
DeltaParts == Content \cup {"signature"}

FrameType == [type : FrameNames, block : Nat, item : 0 .. NItems, part : PartNames]

Prefix(p, q) == Len(p) <= Len(q) /\ \A k \in 1 .. Len(p) : p[k] = q[k]

\* Nothing that v shows is taken back in x.
Below(v, x) ==
    /\ \A i \in Items : v.home[i] \subseteq x.home[i] /\ Prefix(v.parts[i], x.parts[i])
    /\ v.end # "none" => x.end = v.end

\* The frames s turn the view v into x; for a client whose protocol has an order
\* (strict) each of them is allowed when it comes.
Leads(v, s, x, strict) ==
    \E w : /\ w[0] = v /\ w[Len(s)] = x
           /\ \A n \in 0 .. Len(s) : w[n] \in View /\ Below(w[n], x)
           /\ \A n \in 1 .. Len(s) : /\ w[n] = Shown(w[n - 1], s[n])
                                     /\ strict => Allowed(s[n], w[n - 1])

\* Indexes are given out in order, each to one item, and no item has two.
Numbered(x, next) ==
    /\ next \in Nat \ {0} /\ x.started = next - 1
    /\ \A i \in Items : x.home[i] \subseteq 1 .. next - 1
    /\ \A i \in Items : \A a, b \in x.home[i] : a = b
    /\ \A i, j \in Items : i # j => x.home[i] \cap x.home[j] = {}
    /\ Cardinality({i \in Items : x.home[i] # {}}) = next - 1

\* The first part of ContentOnce, for the view x after the events u.
Shaped(x, u) ==
    \A i \in Items :
        /\ x.parts[i] \in {Pieces(n) : n \in 0 .. u.sent[i]} \cup {<<"whole">>}
        /\ \A a, b \in x.home[i] : a = b
        /\ \A j \in Items \ {i} : x.home[i] \cap x.home[j] = {}

\* The second part: nothing that was given is missing.
Elsewhere(x, plan, i) == \E j \in Items \ {i} : plan[j] = "message" /\ x.parts[j] # <<>>
Owed(x, u, r, i) ==
    \/ u.at[i] = 4
    \/ /\ r.format = "anthropic"
       /\ \/ u.output /\ (r.plan[i] = "message" => ~Elsewhere(x, r.plan, i))
          \/ r.plan[i] = "tool" /\ (u.at[i] = 3 \/ u.full[i])
Told(u, r, i) ==
    CASE r.plan[i] = "reasoning" -> r.mode = "summarized"
      [] r.plan[i] = "message" -> r.format = "anthropic" \/ u.sent[i] > 0
      [] OTHER -> TRUE
Complete(x, u, r) ==
    \A i \in Items :
        Told(u, r, i) /\ (u.sent[i] > 0 \/ Owed(x, u, r, i)) =>
            x.parts[i] = IF u.sent[i] > 0 THEN Pieces(u.sent[i]) ELSE <<"whole">>

UpType == [end : {"open", "json", "failed", "broken_final", "broken_failed"} \cup Finals, created : BOOLEAN,
           at : [Items -> 0 .. 4], sent : [Items -> Nat], full : [Items -> BOOLEAN],
           output : BOOLEAN]

-----------------------------------------------------------------------------
(* The translator for Anthropic clients.                                   *)

BlockType == [index : Nat, emitted : BOOLEAN, stopped : BOOLEAN]

Translator ==
    [mode : {"off", "summarized", "omitted"}, started : BOOLEAN, finished : BOOLEAN,
     failed : BOOLEAN, hasToolUse : BOOLEAN, next : Nat, blocks : [Items -> BlockType],
     thinking : Nat, stopPend : BOOLEAN, signature : BOOLEAN, current : 0 .. NItems,
     completed : SUBSET Items, out : Seq(FrameType)]

\* The blocks the translator knows are those the client has, open or stopped.
Thinks(t, i) == t.thinking # 0 /\ t.current = i
Opened(t, i) == t.blocks[i].index # 0 \/ i \in t.completed \/ Thinks(t, i)

Sync(x, t) ==
    /\ x.end = "none" /\ x.begun = t.started /\ ~t.finished /\ ~t.failed
    /\ Numbered(x, t.next)
    /\ \A n \in Nat : n \in x.open <=>
          /\ n # 0
          /\ n = t.thinking \/ \E i \in Items : n = t.blocks[i].index /\ ~t.blocks[i].stopped
    /\ \A i \in Items :
          /\ x.home[i] = {} <=> ~Opened(t, i)
          /\ t.blocks[i].index # 0 => x.home[i] = {t.blocks[i].index}
          /\ t.blocks[i].emitted \/ t.blocks[i].stopped => t.blocks[i].index # 0
    /\ t.thinking # 0 => /\ t.started /\ t.current \in Items /\ t.blocks[t.current].index = 0
                         /\ t.current \notin t.completed
                         /\ x.home[t.current] = {t.thinking}
    /\ t.next > 1 => t.started
    /\ t.mode = "off" => t.thinking = 0

\* The client is at v, and at x once it has read what t has written so far.
InStep(v, x, t) ==
    t \in Translator /\ v \in View /\ x \in View /\ Leads(v, t.out, x, TRUE) /\ Sync(x, t)

\* No block is open.
Quiet(x) == x.begun /\ x.open = {}

\* t has written f, a frame that shows nothing of an item.
Marks(v, x, t, f) ==
    LET s == Anthropic!Write(t, f)
        y == Shown(x, f) IN
    /\ s \in Translator /\ y \in View /\ Leads(v, s.out, y, TRUE)
    /\ s.mode = t.mode /\ s.next = t.next /\ s.finished = t.finished /\ s.failed = t.failed
    /\ y.begun /\ y.started = x.started /\ y.open = x.open /\ y.parts = x.parts /\ y.home = x.home
    /\ y.end = IF f.type = "message_stop" THEN "success" ELSE IF f.type = "error" THEN "error" ELSE "none"

\* t has ended the stream, with the view y.
Ended(v, y, t, end) ==
    /\ t \in Translator /\ y \in View /\ Leads(v, t.out, y, TRUE) /\ Numbered(y, t.next)
    /\ t.finished /\ (t.failed <=> end = "error") /\ y.end = end

\* What the later events depend on.
Kept(t, s) ==
    /\ s.mode = t.mode /\ s.blocks = t.blocks /\ s.completed = t.completed
    /\ s.thinking = t.thinking /\ s.current = t.current

\* Only the block of item i was touched.
Touched(t, s, i) ==
    /\ s.mode = t.mode /\ s.completed = t.completed /\ s.started = t.started
    /\ s.thinking = t.thinking /\ s.current = t.current
    /\ \A j \in Items : j # i => s.blocks[j] = t.blocks[j]

\* One more part of item i.
Plus(parts, i, p) == [parts EXCEPT ![i] = Append(@, p)]

\* A thinking block was opened for the current item of t; the one open was
\* stopped; the current item is i.
Thinking(v, x, t, s) ==
    /\ s.started /\ s.thinking # 0 /\ s.mode = t.mode /\ s.blocks = t.blocks
    /\ s.completed = t.completed /\ s.current = t.current
    /\ \E y : InStep(v, y, s) /\ y.parts = x.parts

Rests(v, x, t, s) ==
    /\ s.thinking = 0 /\ s.mode = t.mode /\ s.blocks = t.blocks /\ s.started = t.started
    /\ s.completed = t.completed \cup (IF t.thinking # 0 THEN {t.current} ELSE {})
    /\ \E y : InStep(v, y, s) /\ y.parts = x.parts

Aims(v, x, t, s, i) ==
    /\ InStep(v, x, s) /\ s.current = i /\ s.thinking = t.thinking /\ s.mode = t.mode
    /\ s.blocks = t.blocks /\ s.completed = t.completed /\ s.started = t.started

\* The reasoning item i is among the completed ones, and shown if it was not.
Recalls(v, x, t, s, i) ==
    /\ s.started /\ s.mode = t.mode /\ s.blocks = t.blocks /\ s.thinking = 0
    /\ s.completed = t.completed \cup (IF t.mode = "off" THEN {} ELSE {i})
    /\ \E y : /\ InStep(v, y, s)
              /\ y.parts = IF t.mode = "summarized" /\ i \notin t.completed
                           THEN Plus(x.parts, i, "whole") ELSE x.parts

\* One more delta of the block of item i.
Emit(t, i, p) ==
    [Anthropic!Write(t, Anthropic!Frame("block_delta", t.blocks[i].index, i, p))
        EXCEPT !.blocks[i].emitted = TRUE]

\* The content of item i is complete, and its block is stopped.
Completes(v, x, t, s, i) ==
    /\ Touched(t, s, i) /\ s.blocks[i].index # 0 /\ s.blocks[i].stopped
    /\ s.blocks[i].emitted <=> t.blocks[i].emitted \/ ~t.blocks[i].stopped
    /\ \E y : /\ InStep(v, y, s)
              /\ y.parts = IF t.blocks[i].emitted \/ t.blocks[i].stopped THEN x.parts
                           ELSE Plus(x.parts, i, "whole")

\* Text and tool calls.
ContentSync(x, t, u, i) ==
    LET b == t.blocks[i] IN
    /\ i \notin t.completed
    /\ x.parts[i] = IF u.sent[i] > 0 THEN Pieces(u.sent[i])
                    ELSE IF b.emitted THEN <<"whole">> ELSE <<>>
    /\ b.stopped <=> u.at[i] \in {3, 4}
    /\ b.emitted <=> u.sent[i] > 0 \/ u.at[i] \in {3, 4} \/ u.full[i]

\* Reasoning: the item with the open block is the one being sent.
ThoughtSync(x, t, u, i) ==
    /\ t.blocks[i].index = 0
    /\ u.at[i] \in {0, 1} => u.sent[i] = 0
    /\ u.at[i] = 3 => u.sent[i] > 0
    /\ u.at[i] \in {2, 3} /\ t.mode # "off" => Thinks(t, i)
    /\ i \in t.completed <=> u.at[i] = 4 /\ t.mode # "off"
    /\ x.parts[i] = IF t.mode # "summarized" \/ u.at[i] \in {0, 1} THEN <<>>
                    ELSE IF u.at[i] \in {2, 3} \/ u.sent[i] > 0 THEN Pieces(u.sent[i])
                    ELSE <<"whole">>

ItemSync(x, t, u, plan, i) ==
    /\ plan[i] = "reasoning" => ThoughtSync(x, t, u, i)
    /\ plan[i] # "reasoning" => ContentSync(x, t, u, i)
    /\ u.at[i] = 0 => u.sent[i] = 0 /\ ~u.full[i]

\* A thinking block is open only while its item is being sent.
ThinkPhase(t, u, plan) ==
    t.thinking # 0 => plan[t.current] = "reasoning" /\ u.at[t.current] \in {2, 3} /\ t.mode # "off"

Phase(x, t, u, plan) ==
    /\ u.created => t.started
    /\ ThinkPhase(t, u, plan)
    /\ \A i \in Items : ItemSync(x, t, u, plan, i)

AnthropicOK(x, t, u, r) ==
    /\ t.mode = r.mode /\ t.next \in 1 .. NItems + 1
    /\ Shaped(x, u)
    /\ IF t.finished
       THEN /\ x.end = IF t.failed THEN "error" ELSE "success"
            /\ u.end \in Finals <=> ~t.failed
            /\ ~t.failed => Complete(x, u, r)
       ELSE /\ Sync(x, t)
            /\ u.end \notin Finals
            /\ u.end = "open" => Phase(x, t, u, r.plan)

\* The translator goes on, and the provider too.
Live(v, x, t, u, r) ==
    /\ InStep(v, x, t) /\ Phase(x, t, u, r.plan) /\ u \in UpType /\ u.end = "open"
    /\ t.mode = r.mode /\ \A i \in Items : r.plan[i] \in {"message", "tool", "reasoning"}

\* The provider has sent more of item i: from u to w.
Advances(u, w, i, at, full, n) ==
    /\ w \in UpType /\ w.end = u.end /\ w.created = u.created /\ w.output = u.output
    /\ w.at[i] = at /\ w.full[i] = full /\ w.sent[i] = n
    /\ \A j \in Items : j # i => w.at[j] = u.at[j] /\ w.full[j] = u.full[j] /\ w.sent[j] = u.sent[j]

\* Nothing of item j has changed.
Apart(x, t, y, s, j) ==
    /\ y.parts[j] = x.parts[j] /\ s.blocks[j] = t.blocks[j]
    /\ j \in s.completed <=> j \in t.completed
    /\ Thinks(t, j) => Thinks(s, j)

\* The client is at v and will be at y, the converter at t and the provider at u.
AnthropicLed(v, y, t, u, r) ==
    t \in Translator /\ Leads(v, t.out, y, TRUE) /\ AnthropicOK(y, t, u, r)

\* The output that the last event repeats has been gone through up to item k.
FinalThoughtSync(y, s, u, k, j) ==
    /\ s.blocks[j].index = 0
    /\ u.at[j] \in {0, 4} /\ (u.at[j] = 0 => u.sent[j] = 0)
    /\ j \in s.completed <=> s.mode # "off" /\ (u.at[j] = 4 \/ j <= k)
    /\ y.parts[j] = IF s.mode # "summarized" \/ (k < j /\ u.at[j] = 0) THEN <<>>
                    ELSE IF u.sent[j] > 0 THEN Pieces(u.sent[j]) ELSE <<"whole">>

FinalContentSync(y, s, u, plan, k, j) ==
    /\ j \notin s.completed
    /\ y.parts[j] = IF u.sent[j] > 0 THEN Pieces(u.sent[j])
                    ELSE IF s.blocks[j].emitted THEN <<"whole">> ELSE <<>>
    /\ \/ u.sent[j] > 0 \/ u.at[j] \in {3, 4} \/ u.full[j]
       \/ j <= k /\ plan[j] = "tool"
       \/ s.blocks[j].stopped
       => s.blocks[j].emitted
    /\ j <= k /\ plan[j] = "message" /\ ~s.blocks[j].emitted =>
          \E m \in Items \ {j} : plan[m] = "message" /\ s.blocks[m].emitted

Ending(v, y, s, u, r, k) ==
    /\ InStep(v, y, s) /\ s.started /\ s.thinking = 0 /\ s.mode = r.mode
    /\ \A j \in Items : IF r.plan[j] = "reasoning" THEN FinalThoughtSync(y, s, u, k, j)
                         ELSE FinalContentSync(y, s, u, r.plan, k, j)

-----------------------------------------------------------------------------
(* The translator for Chat clients.                                        *)

ChatType ==
    [started : BOOLEAN, done : BOOLEAN, next : Nat, sawTools : BOOLEAN,
     byCall : [Chat!CallKeys -> Nat], byOut : [Items -> Nat], argsEmitted : SUBSET Nat,
     out : Seq(FrameType)]

ChatSync(x, c) ==
    /\ x.end = "none" /\ x.begun = c.started
    /\ Numbered(x, c.next)
    /\ c.argsEmitted \subseteq 1 .. c.next - 1
    /\ \A n \in Nat : n \in x.open <=> n # 0 /\ \E i \in Items : n = c.byOut[i]
    /\ \A i \in Items :
          /\ x.home[i] = {c.byOut[i]} \ {0}
          /\ \A k \in {"call", "item"} : c.byCall[<<k, i>>] \in {0, c.byOut[i]}

\* The client is at v, and at x once it has read what c has written so far.
ChatIn(v, x, c) ==
    /\ c \in ChatType /\ ~c.done /\ v \in View /\ x \in View
    /\ Leads(v, c.out, x, TRUE) /\ ChatSync(x, c)

\* The same, whether the stream is over or not.
ChatWritten(v, x, c) ==
    c \in ChatType /\ v \in View /\ x \in View /\ Leads(v, c.out, x, TRUE) /\ Numbered(x, c.next)

\* What is known of the tool calls is the same.
ChatKept(c, s) ==
    /\ s.byOut = c.byOut /\ s.byCall = c.byCall /\ s.argsEmitted = c.argsEmitted /\ s.next = c.next

\* Item i has one more part, p; its tool call, if it is one, has had arguments.
ChatShows(v, x, c, s, i, p) ==
    /\ s.byOut = c.byOut /\ s.started
    /\ \A j \in Items : j # i => (s.byOut[j] \in s.argsEmitted <=> c.byOut[j] \in c.argsEmitted)
    /\ s.byOut[i] \in s.argsEmitted <=> c.byOut[i] # 0
    /\ \E y : ChatIn(v, y, s) /\ y.parts = Plus(x.parts, i, p)

\* The tool call of item i has got its index.
ChatOpens(v, x, c, s, i) ==
    /\ s.started /\ s.byOut[i] # 0 /\ s.byOut[i] \notin s.argsEmitted
    /\ \A j \in Items : j # i => /\ s.byOut[j] = c.byOut[j]
                                 /\ (s.byOut[j] \in s.argsEmitted <=> c.byOut[j] \in c.argsEmitted)
    /\ \E y : ChatIn(v, y, s) /\ y.parts = x.parts

\* It has one now, whether it had one before or not.
ChatKnows(v, x, c, s, i) ==
    /\ s.started /\ s.byOut[i] # 0
    /\ \A j \in Items : s.byOut[j] \in s.argsEmitted <=> c.byOut[j] \in c.argsEmitted
    /\ \A j \in Items : j # i => s.byOut[j] = c.byOut[j]
    /\ \E y : ChatIn(v, y, s) /\ y.parts = x.parts

\* Item i is ready for its part: it has an index if it is a tool call.
Ready(c, d, plan, i) ==
    /\ \A j \in Items : d.byOut[j] \in d.argsEmitted <=> c.byOut[j] \in c.argsEmitted
    /\ \A j \in Items : j # i => d.byOut[j] = c.byOut[j]
    /\ plan[i] = "tool" <=> d.byOut[i] # 0

\* The part p is what comes next of item i: one more piece, or all at the end.
Due(p, u, plan, i, at, n) ==
    \/ p = "piece" /\ n = u.sent[i] + 1 /\ u.at[i] <= 2 /\ at = 2
    \/ p = "whole" /\ n = 0 /\ u.sent[i] = 0 /\ u.at[i] # 4 /\ at = 4 /\ plan[i] = "tool"

\* Nothing of item j has changed.
ChatApart(x, c, y, s, j) ==
    /\ y.parts[j] = x.parts[j] /\ s.byOut[j] = c.byOut[j]
    /\ s.byOut[j] \in s.argsEmitted <=> c.byOut[j] \in c.argsEmitted

ChatItem(x, c, u, plan, i) ==
    /\ u.at[i] = 0 => c.byOut[i] = 0 /\ u.sent[i] = 0
    /\ c.byOut[i] \in c.argsEmitted <=> plan[i] = "tool" /\ (u.sent[i] > 0 \/ u.at[i] = 4)
    /\ plan[i] # "tool" => c.byOut[i] = 0
    /\ x.parts[i] = IF u.sent[i] > 0 THEN Pieces(u.sent[i])
                    ELSE IF c.byOut[i] \in c.argsEmitted THEN <<"whole">> ELSE <<>>

ChatPhase(x, c, u, plan) ==
    /\ u.created => c.started
    /\ \A i \in Items : ChatItem(x, c, u, plan, i)

\* For a Chat client the name of the last event is enough.
ChatFinals == Finals \cup {"broken_final"}

ChatOK(x, c, u, r) ==
    /\ c.next \in 1 .. NItems + 1
    /\ Shaped(x, u)
    /\ IF c.done
       THEN /\ x.end \in {"success", "error"}
            /\ u.end \in ChatFinals <=> x.end = "success"
            /\ x.end = "success" => Complete(x, u, r)
       ELSE /\ ChatSync(x, c)
            /\ u.end \notin ChatFinals
            /\ u.end = "open" => ChatPhase(x, c, u, r.plan)

\* The translator goes on, and the provider too.
ChatLive(v, x, c, u, r) ==
    /\ ChatIn(v, x, c) /\ ChatPhase(x, c, u, r.plan) /\ u \in UpType /\ u.end = "open"
    /\ \A i \in Items : r.plan[i] \in {"message", "tool"}

ChatLed(v, y, c, u, r) ==
    c \in ChatType /\ Leads(v, c.out, y, TRUE) /\ ChatOK(y, c, u, r)

-----------------------------------------------------------------------------
(* The restorer of tools for Responses clients.                            *)

RestorerType == [streamCalls : SUBSET Items, done : BOOLEAN, out : Seq(FrameType)]

RestorerOK(x, s, u, r) ==
    /\ x.end = IF u.end \in Finals THEN "success" ELSE "none"
    /\ \A i \in Items : r.plan[i] = "patch" =>
          /\ u.at[i] \in 1 .. 3 => i \in s.streamCalls
          /\ x.parts[i] = IF u.at[i] = 4 THEN <<"whole">> ELSE <<>>

RestorerLed(v, y, s, u, r) ==
    s \in RestorerType /\ Leads(v, s.out, y, FALSE) /\ RestorerOK(y, s, u, r)

\* An event of item i was passed on with this part, or kept back.
Passes(v, x, s, y, z, i, part) ==
    /\ z \in RestorerType /\ s.streamCalls \subseteq z.streamCalls /\ y \in View
    /\ Leads(v, z.out, y, FALSE) /\ \A j \in Items : j # i => y.parts[j] = x.parts[j]
    /\ i \in Items => y.parts[i] = IF part \in Content THEN Append(x.parts[i], part) ELSE x.parts[i]

Passed(v, x, s, z, i, part, type) ==
    \E y : /\ Passes(v, x, s, y, z, i, part)
           /\ type \in Finals => y.end = "success"
           /\ type \notin Finals => y.end = "none"

-----------------------------------------------------------------------------
(* The inductive invariant.                                                *)

\* The client is at v and will be at x, whatever its format.
Led(v, x, c, u, r) ==
    /\ r.format = "anthropic" => AnthropicLed(v, x, c, u, r)
    /\ r.format = "chat" => ChatLed(v, x, c, u, r)
    /\ r.format = "responses" => RestorerLed(v, x, c, u, r)

Types ==
    /\ req \in Requests /\ up \in UpType
    /\ pc \in {"prepare", "gateway", "copy", "aggregate", "close", "done"}
    /\ worker \in {"none", "running", "ending", "ended"}
    /\ worker # "none" <=> Translated /\ lease # "none"
    /\ lease \in {"none", "held", "released"} /\ client \in {"here", "gone"}
    /\ reply \in Replies

\* Before the upstream answers there is nothing.
Nothing ==
    lease = "none" => /\ pc \in {"prepare", "gateway", "done"}
                      /\ up = NoUp /\ conv = [out |-> <<>>] /\ view = NoView

\* What is not streamed shows nothing until it is complete.
Aggregating ==
    ~req.stream /\ lease # "none" =>
        pc \in {"aggregate", "done"} /\ view = NoView /\ conv \in [final : BOOLEAN, out : {<<>>}]

\* The copy loop leaves no frame behind for a client that stays, and a worker that
\* has ended its stream stops reading.
Streaming == req.stream /\ lease # "none"
Copying ==
    Streaming =>
        /\ pc \in {"copy", "close", "done"}
        /\ client = "here" /\ pc \in {"close", "done"} =>
               conv.out = <<>> /\ (Translated => worker = "ended")
        /\ Translated /\ conv.finished => worker # "running" \/ up.end # "open"

Following ==
    Streaming => \E v, x : (client = "here" => v = view) /\ Led(v, x, conv, up, req)

DeliveryInv ==
    /\ Types /\ Nothing /\ Aggregating /\ Copying /\ Following
    /\ client = "gone" => view = NoView

-----------------------------------------------------------------------------
(* Induction, for a property given as the set of the numbers that have it. *)

\* Every nonempty set of numbers has a least one.
LEMMA LeastNumber ==
    ASSUME NEW S \in SUBSET Nat, S # {}
    PROVE  \E n \in S : \A m \in S : n <= m
<1> DEFINE R == {p \in Nat \X Nat : p[1] < p[2]}
<1>1. IsWellFoundedOn(R, Nat)
  BY NatLessThanWellFounded, Zenon DEF OpToRel
<1>2. PICK n \in S : \A m \in S : <<m, n>> \notin R
  <2> HIDE DEF R
  <2> QED
    BY <1>1, WFMin
<1>3. ASSUME NEW m \in S PROVE n <= m
  <2>1. <<m, n>> \notin R
    BY <1>2
  <2>2. m \in Nat /\ n \in Nat
    OBVIOUS
  <2>3. ~(m < n)
    BY <2>1, <2>2
  <2> QED
    BY <2>2, <2>3
<1> QED
  BY <1>3

\* What holds of 0, and of n when it holds of n - 1, holds up to k.
LEMMA Induction ==
    ASSUME NEW k \in Nat, NEW S, 0 \in S, \A n \in 1 .. k : n - 1 \in S => n \in S
    PROVE  0 .. k \subseteq S
<1> SUFFICES ASSUME NEW x \in 0 .. k, x \notin S PROVE FALSE
  OBVIOUS
<1> DEFINE B == {n \in 0 .. k : n \notin S}
<1>1. B \in SUBSET Nat /\ B # {}
  OBVIOUS
<1>2. PICK n \in B : \A m \in B : n <= m
  BY <1>1, LeastNumber
<1>3. n \in 1 .. k
  BY <1>2
<1>4. n - 1 \in 0 .. k /\ ~(n <= n - 1)
  BY <1>3
<1>5. n - 1 \in S
  BY <1>2, <1>4
<1> QED
  BY <1>2, <1>3, <1>5

\* emitFinalOutput applies emitFinalItem to one item after the other.
LEMMA FinalFold ==
    ASSUME NEW t, NEW plan
    PROVE  \E f : /\ f[0] = t
                  /\ \A i \in Items : f[i] = Anthropic!emitFinalItem(f[i - 1], i, plan)
                  /\ Anthropic!emitFinalOutput(t, plan) = f[NItems]
<1> DEFINE step(f, i) == Anthropic!emitFinalItem(f[i - 1], i, plan)
           body(f, k) == [i \in 0 .. k |-> IF i = 0 THEN t ELSE step(f, i)]
           S == {k \in Nat : \E f : f = body(f, k)}
<1>0. NItems \in Nat
  BY DeliveryAssumption
<1>1. 0 \in S
  <2> DEFINE f == [i \in 0 .. 0 |-> t]
  <2>1. f = body(f, 0)
    OBVIOUS
  <2> QED
    BY <2>1
<1>2. ASSUME NEW n \in 1 .. NItems, n - 1 \in S PROVE n \in S
  <2>1. PICK f : f = body(f, n - 1)
    BY <1>2
  <2> DEFINE g == [i \in 0 .. n |-> IF i = n THEN step(f, n) ELSE f[i]]
  <2>2. \A i \in 0 .. n - 1 : f[i] = IF i = 0 THEN t ELSE step(f, i)
    BY <2>1
  <2>3. \A i \in 0 .. n : g[i] = IF i = 0 THEN t ELSE step(g, i)
    BY <2>2
  <2>4. g = body(g, n)
    BY <2>3
  <2>5. n \in Nat
    OBVIOUS
  <2> HIDE DEF g, body
  <2> QED
    BY <2>4, <2>5
<1> HIDE DEF S
<1>3. 0 .. NItems \subseteq S
  BY <1>0, <1>1, <1>2, Induction
<1>4. \E f : f = body(f, NItems)
  BY <1>3, <1>0 DEF S
<1> DEFINE h == CHOOSE f : f = body(f, NItems)
<1>5. h = body(h, NItems)
  BY <1>4
<1>6. Anthropic!emitFinalOutput(t, plan) = h[NItems]
  BY DEF Anthropic!emitFinalOutput
<1> HIDE DEF h
<1>7. h[0] = t /\ \A i \in Items : h[i] = Anthropic!emitFinalItem(h[i - 1], i, plan)
  BY <1>5, <1>0 DEF Items
<1> QED
  BY <1>6, <1>7

\* The items of the two modules are the same.
LEMMA SameItems == Anthropic!Items = Items
  BY DEF Anthropic!Items, Items

\* stopAllBlocks goes through the indexes, and stops the block that has it.
LEMMA StopFold ==
    ASSUME NEW t, t.next \in Nat \ {0}
    PROVE  \E f : /\ f[0] = t
                  /\ \A n \in 1 .. t.next - 1 :
                        f[n] = IF \E i \in Items : t.blocks[i].index = n
                               THEN Anthropic!stopBlock(f[n - 1], CHOOSE i \in Items : t.blocks[i].index = n)
                               ELSE f[n - 1]
                  /\ Anthropic!stopAllBlocks(t) = f[t.next - 1]
<1> DEFINE step(p, n) == IF \E i \in Items : t.blocks[i].index = n
                         THEN Anthropic!stopBlock(p, CHOOSE i \in Items : t.blocks[i].index = n)
                         ELSE p
           body(f, k) == [n \in 0 .. k |-> IF n = 0 THEN t ELSE step(f[n - 1], n)]
           S == {k \in Nat : \E f : f = body(f, k)}
           top == t.next - 1
<1>0. top \in Nat
  OBVIOUS
<1> HIDE DEF step, top
<1>1. 0 \in S
  <2> DEFINE f == [i \in 0 .. 0 |-> t]
  <2>1. f = body(f, 0)
    OBVIOUS
  <2> QED
    BY <2>1
<1>2. ASSUME NEW n \in 1 .. top, n - 1 \in S PROVE n \in S
  <2>1. PICK f : f = body(f, n - 1)
    BY <1>2
  <2> DEFINE g == [i \in 0 .. n |-> IF i = n THEN step(f[n - 1], n) ELSE f[i]]
  <2>2. \A i \in 0 .. n - 1 : f[i] = IF i = 0 THEN t ELSE step(f[i - 1], i)
    BY <2>1
  <2>3. \A i \in 0 .. n : g[i] = IF i = 0 THEN t ELSE step(g[i - 1], i)
    BY <2>2, <1>0
  <2>4. g = body(g, n)
    BY <2>3
  <2>5. n \in Nat
    BY <1>0
  <2> HIDE DEF g, body
  <2> QED
    BY <2>4, <2>5
<1> HIDE DEF S
<1>3. 0 .. top \subseteq S
  BY <1>0, <1>1, <1>2, Induction
<1>4. \E f : f = body(f, top)
  BY <1>3, <1>0 DEF S
<1> DEFINE h == CHOOSE f : f = body(f, top)
<1>5. h = body(h, top)
  BY <1>4
<1>6. Anthropic!stopAllBlocks(t) = h[top]
  BY DEF Anthropic!stopAllBlocks, step, top, Anthropic!Items, Items
<1> HIDE DEF h
<1>7. h[0] = t /\ \A n \in 1 .. top : h[n] = step(h[n - 1], n)
  BY <1>5, <1>0
<1>8. \A n \in 1 .. top :
         h[n] = IF \E i \in Items : t.blocks[i].index = n
                THEN Anthropic!stopBlock(h[n - 1], CHOOSE i \in Items : t.blocks[i].index = n)
                ELSE h[n - 1]
  BY <1>7, Zenon DEF step
<1> QED
  BY <1>6, <1>7, <1>8, Zenon DEF top

-----------------------------------------------------------------------------
(* Views.                                                                  *)

\* A frame turns a view into a view.
LEMMA ShownType ==
    ASSUME NEW x \in View, NEW f \in FrameType
    PROVE  /\ Shown(x, f) \in View
           /\ x.end \in {"none", Shown(x, f).end} => Below(x, Shown(x, f))
<1> DEFINE y == Shown(x, f)
<1>1. ASSUME NEW i \in Items PROVE /\ y.parts[i] \in Seq(Content) /\ y.home[i] \in SUBSET Nat
                                   /\ x.home[i] \subseteq y.home[i]
                                   /\ Prefix(x.parts[i], y.parts[i])
  <2>1. x.parts[i] \in Seq(Content) /\ x.home[i] \in SUBSET Nat
    BY DEF View
  <2>2. y.home[i] = IF f.item = i /\ f.block # 0 THEN x.home[i] \cup {f.block} ELSE x.home[i]
    BY DEF Shown
  <2>3. y.parts[i] = IF f.item = i /\ f.part \in Content THEN Append(x.parts[i], f.part) ELSE x.parts[i]
    BY DEF Shown
  <2>4. f.block \in Nat
    BY DEF FrameType
  <2>5. y.home[i] \in SUBSET Nat /\ x.home[i] \subseteq y.home[i]
    BY <2>1, <2>2, <2>4
  <2>6. y.parts[i] \in Seq(Content) /\ Prefix(x.parts[i], y.parts[i])
    BY <2>1, <2>3 DEF Prefix
  <2> QED
    BY <2>5, <2>6
<1>2. y.parts \in [Items -> Seq(Content)] /\ y.home \in [Items -> SUBSET Nat]
  <2>1. y.parts = [i \in Items |-> y.parts[i]] /\ y.home = [i \in Items |-> y.home[i]]
    BY DEF Shown
  <2> QED
    BY <1>1, <2>1
<1>3. y.begun \in BOOLEAN /\ y.started \in Nat /\ y.open \in SUBSET Nat
  BY DEF Shown, View, FrameType
<1>4. y.end \in {"none", "success", "error"}
  BY DEF Shown, View, FrameType
<1>5. y = [begun |-> y.begun, started |-> y.started, open |-> y.open, end |-> y.end,
           parts |-> y.parts, home |-> y.home]
  BY DEF Shown
<1>6. y \in View
  <2> HIDE DEF y
  <2> QED
    BY <1>2, <1>3, <1>4, <1>5 DEF View
<1> QED
  BY <1>1, <1>6 DEF Below

\* What is below is below what is shown later.
LEMMA BelowTrans ==
    ASSUME NEW a \in View, NEW b \in View, NEW c \in View, Below(a, b), Below(b, c)
    PROVE  Below(a, c)
<1>1. ASSUME NEW i \in Items PROVE Prefix(a.parts[i], c.parts[i])
  <2>1. a.parts[i] \in Seq(Content) /\ b.parts[i] \in Seq(Content) /\ c.parts[i] \in Seq(Content)
    BY DEF View
  <2> QED
    BY <2>1 DEF Below, Prefix
<1> QED
  BY <1>1 DEF Below

\* A view takes nothing back from itself.
LEMMA BelowSame ==
    ASSUME NEW v \in View
    PROVE  Below(v, v)
<1>1. \A i \in Items : v.parts[i] \in Seq(Content)
  BY DEF View
<1> QED
  BY <1>1 DEF Below, Prefix

\* A view without pending frames is the one the client has.
LEMMA LeadsNone ==
    ASSUME NEW v \in View, NEW strict
    PROVE  Leads(v, <<>>, v, strict)
<1> DEFINE w == [n \in 0 .. 0 |-> v]
<1>1. Below(v, v)
  BY BelowSame
<1>2. w[0] = v /\ Len(<<>>) = 0
  OBVIOUS
<1>3. \A n \in 0 .. 0 : w[n] \in View /\ Below(w[n], v)
  BY <1>1
<1>4. 1 .. 0 = {}
  OBVIOUS
<1> HIDE DEF w
<1> QED
  BY <1>2, <1>3, <1>4 DEF Leads

\* Without pending frames the client is where they lead.
LEMMA LeadsEnd ==
    ASSUME NEW v, NEW x, NEW strict, Leads(v, <<>>, x, strict)
    PROVE  v = x /\ v \in View
  BY DEF Leads

\* What the client has is never taken back by the pending frames.
LEMMA LeadsBelow ==
    ASSUME NEW v, NEW x, NEW strict, NEW s \in Seq(FrameType), Leads(v, s, x, strict)
    PROVE  v \in View /\ x \in View /\ Below(v, x)
  BY DEF Leads

\* One more frame.
LEMMA LeadsMore ==
    ASSUME NEW v, NEW x, NEW strict, NEW s \in Seq(FrameType), Leads(v, s, x, strict),
           NEW f \in FrameType, x.end \in {"none", Shown(x, f).end}, strict => Allowed(f, x)
    PROVE  Leads(v, Append(s, f), Shown(x, f), strict) /\ Shown(x, f) \in View
<1> DEFINE y == Shown(x, f)
           m == Len(s)
<1>1. PICK w : /\ w[0] = v /\ w[m] = x
               /\ \A n \in 0 .. m : w[n] \in View /\ Below(w[n], x)
               /\ \A n \in 1 .. m : w[n] = Shown(w[n - 1], s[n]) /\ (strict => Allowed(s[n], w[n - 1]))
  BY DEF Leads
<1> DEFINE z == [n \in 0 .. m + 1 |-> IF n = m + 1 THEN y ELSE w[n]]
           g == Append(s, f)
<1>2. m \in Nat /\ Len(g) = m + 1 /\ g[m + 1] = f /\ \A n \in 1 .. m : g[n] = s[n]
  OBVIOUS
<1>3. y \in View /\ Below(x, y) /\ x \in View
  BY <1>1, <1>2, ShownType
<1>4. Below(y, y)
  BY <1>3, BelowSame
<1> HIDE DEF y, g, m
<1>5. z[0] = v /\ z[m + 1] = y /\ z[m] = x
  BY <1>1, <1>2
<1>6. ASSUME NEW n \in 0 .. m + 1 PROVE z[n] \in View /\ Below(z[n], y)
  <2>1. CASE n = m + 1
    BY <2>1, <1>3, <1>4, <1>5
  <2>2. CASE n # m + 1
    <3>1. n \in 0 .. m /\ z[n] = w[n]
      BY <2>2, <1>2
    <3>2. w[n] \in View /\ Below(w[n], x)
      BY <3>1, <1>1
    <3> QED
      BY <3>1, <3>2, <1>3, BelowTrans
  <2> QED
    BY <2>1, <2>2
<1>7. ASSUME NEW n \in 1 .. m + 1
      PROVE  z[n] = Shown(z[n - 1], g[n]) /\ (strict => Allowed(g[n], z[n - 1]))
  <2>1. CASE n = m + 1
    <3>1. n - 1 = m /\ z[n - 1] = x /\ g[n] = f
      BY <2>1, <1>2, <1>5
    <3> QED
      BY <3>1, <2>1, <1>5 DEF y
  <2>2. CASE n # m + 1
    <3>1. n \in 1 .. m /\ n - 1 \in 0 .. m /\ z[n] = w[n] /\ z[n - 1] = w[n - 1] /\ g[n] = s[n]
      BY <2>2, <1>2
    <3> QED
      BY <3>1, <1>1
  <2> QED
    BY <2>1, <2>2
<1> HIDE DEF z
<1>8. Leads(v, g, y, strict)
  BY <1>2, <1>5, <1>6, <1>7 DEF Leads
<1> QED
  BY <1>3, <1>8 DEF y, g

\* The client is shown the first pending frame.
LEMMA LeadsHead ==
    ASSUME NEW v, NEW x, NEW strict, NEW s \in Seq(FrameType), Leads(v, s, x, strict), s # <<>>
    PROVE  /\ Leads(Shown(v, Head(s)), Tail(s), x, strict)
           /\ strict => Allowed(Head(s), v)
<1> DEFINE m == Len(s)
<1>1. PICK w : /\ w[0] = v /\ w[m] = x
               /\ \A n \in 0 .. m : w[n] \in View /\ Below(w[n], x)
               /\ \A n \in 1 .. m : w[n] = Shown(w[n - 1], s[n]) /\ (strict => Allowed(s[n], w[n - 1]))
  BY DEF Leads
<1> DEFINE z == [n \in 0 .. m - 1 |-> w[n + 1]]
           g == Tail(s)
<1>2. m \in Nat \ {0} /\ Len(g) = m - 1 /\ Head(s) = s[1] /\ \A n \in 1 .. m - 1 : g[n] = s[n + 1]
  OBVIOUS
<1> HIDE DEF g, m
<1>3. w[1] = Shown(v, Head(s)) /\ (strict => Allowed(Head(s), v))
  BY <1>1, <1>2
<1>4. z[0] = w[1] /\ z[m - 1] = x
  BY <1>1, <1>2
<1>5. \A n \in 0 .. m - 1 : z[n] \in View /\ Below(z[n], x)
  BY <1>1, <1>2
<1>6. ASSUME NEW n \in 1 .. m - 1
      PROVE  z[n] = Shown(z[n - 1], g[n]) /\ (strict => Allowed(g[n], z[n - 1]))
  <2>1. n + 1 \in 1 .. m /\ (n + 1) - 1 = n
    BY <1>2
  <2>2. w[n + 1] = Shown(w[n], s[n + 1]) /\ (strict => Allowed(s[n + 1], w[n]))
    BY <2>1, <1>1
  <2>3. z[n] = w[n + 1] /\ z[n - 1] = w[n] /\ g[n] = s[n + 1]
    BY <1>2
  <2> QED
    BY <2>2, <2>3
<1> HIDE DEF z
<1>7. Leads(w[1], g, x, strict)
  BY <1>2, <1>4, <1>5, <1>6 DEF Leads
<1> QED
  BY <1>3, <1>7 DEF g

\* Where the protocol has an order, nothing is pending after the end.
LEMMA LeadsOver ==
    ASSUME NEW v, NEW x, NEW s \in Seq(FrameType), Leads(v, s, x, TRUE), v.end # "none"
    PROVE  s = <<>> /\ v = x
<1>1. s = <<>>
  BY LeadsHead DEF Allowed
<1> QED
  BY <1>1, LeadsEnd

-----------------------------------------------------------------------------
(* Indexes.                                                                *)

\* The items can be counted.
LEMMA ItemsFinite == IsFiniteSet(Items) /\ Cardinality(Items) = NItems /\ NItems \in Nat
<1>1. NItems \in Nat
  BY DeliveryAssumption
<1> QED
  BY <1>1, FS_Interval DEF Items

\* There are no more indexes than items.
LEMMA NumberedBound ==
    ASSUME NEW x \in View, NEW next, Numbered(x, next)
    PROVE  next \in 1 .. NItems + 1
<1> DEFINE S == {i \in Items : x.home[i] # {}}
<1>1. Cardinality(S) <= NItems
  BY ItemsFinite, FS_Subset
<1>2. Cardinality(S) = next - 1 /\ next \in Nat \ {0}
  BY DEF Numbered
<1> HIDE DEF S
<1> QED
  BY <1>1, <1>2, ItemsFinite

\* An item that has no index gets the next one.
LEMMA NumberedNew ==
    ASSUME NEW x \in View, NEW next, Numbered(x, next), NEW i \in Items, x.home[i] = {},
           NEW y \in View, y.started = x.started + 1, y.home = [x.home EXCEPT ![i] = {next}]
    PROVE  Numbered(y, next + 1)
<1> DEFINE S == {j \in Items : x.home[j] # {}}
           T == {j \in Items : y.home[j] # {}}
<1>1. x.home \in [Items -> SUBSET Nat]
  BY DEF View
<1>2. \A j \in Items : y.home[j] = IF j = i THEN {next} ELSE x.home[j]
  BY <1>1
<1>3. T = S \cup {i} /\ i \notin S
  BY <1>2
<1>4. IsFiniteSet(S)
  BY ItemsFinite, FS_Subset
<1>5. Cardinality(T) = Cardinality(S) + 1
  BY <1>3, <1>4, FS_AddElement
<1>6. Cardinality(S) = next - 1 /\ next \in Nat \ {0} /\ x.started = next - 1
  BY DEF Numbered
<1>7. Cardinality(T) = next
  BY <1>5, <1>6
<1> HIDE DEF S, T
<1>8. next + 1 \in Nat \ {0} /\ y.started = (next + 1) - 1 /\ (next + 1) - 1 = next
  BY <1>6
<1>9. \A j \in Items : x.home[j] \subseteq 1 .. next - 1
  BY DEF Numbered
<1>10. \A j \in Items : y.home[j] \subseteq 1 .. next
  BY <1>2, <1>9, <1>6
<1>11. \A j \in Items : next \notin x.home[j]
  BY <1>9, <1>6
<1>12. \A j \in Items : \A a, b \in y.home[j] : a = b
  BY <1>2 DEF Numbered
<1>13. \A j, k \in Items : j # k => y.home[j] \cap y.home[k] = {}
  BY <1>2, <1>11 DEF Numbered
<1> QED
  BY <1>7, <1>8, <1>10, <1>12, <1>13 DEF Numbered, T

\* Numbering depends on the indexes only.
LEMMA NumberedSame ==
    ASSUME NEW x \in View, NEW next, Numbered(x, next),
           NEW y \in View, y.started = x.started, y.home = x.home
    PROVE  Numbered(y, next)
  BY DEF Numbered

-----------------------------------------------------------------------------
(* What a frame of each kind does to a view.                               *)

\* The fields of a frame of the Anthropic translator.
LEMMA FrameIs ==
    ASSUME NEW type \in FrameNames, NEW b \in Nat, NEW i \in 0 .. NItems, NEW part \in PartNames
    PROVE  LET f == Anthropic!Frame(type, b, i, part) IN
           /\ f \in FrameType
           /\ f.type = type /\ f.block = b /\ f.item = i /\ f.part = part
  BY DEF Anthropic!Frame, FrameType

\* The first frame of a block (tool call) of item i.
LEMMA ShownStart ==
    ASSUME NEW x \in View, NEW f \in FrameType, f.type \in {"block_start", "tool_start"},
           f.item \in Items, f.block # 0, f.part \notin Content, x.home[f.item] = {}
    PROVE  LET y == Shown(x, f) IN
           /\ y.begun /\ y.started = x.started + 1 /\ y.open = x.open \cup {f.block}
           /\ y.end = x.end /\ y.parts = x.parts /\ y.home = [x.home EXCEPT ![f.item] = {f.block}]
<1> DEFINE y == Shown(x, f)
<1>1. x.home \in [Items -> SUBSET Nat] /\ x.parts \in [Items -> Seq(Content)]
  BY DEF View
<1>2. y.home = [i \in Items |-> IF f.item = i /\ f.block # 0 THEN x.home[i] \cup {f.block} ELSE x.home[i]]
  BY DEF Shown
<1>3. y.parts = [i \in Items |-> IF f.item = i /\ f.part \in Content THEN Append(x.parts[i], f.part) ELSE x.parts[i]]
  BY DEF Shown
<1>4. y.begun /\ y.started = x.started + 1 /\ y.open = x.open \cup {f.block} /\ y.end = x.end
  BY DEF Shown, Finals
<1> HIDE DEF y
<1>5. y.home = [x.home EXCEPT ![f.item] = {f.block}]
  BY <1>1, <1>2
<1>6. y.parts = x.parts
  BY <1>1, <1>3
<1> QED
  BY <1>4, <1>5, <1>6 DEF y

\* A frame of an item that has its index already.
LEMMA ShownMore ==
    ASSUME NEW x \in View, NEW f \in FrameType,
           f.type \in {"block_delta", "block_stop", "tool_args"},
           f.item \in Items, x.home[f.item] = {f.block}, x.begun
    PROVE  LET y == Shown(x, f) IN
           /\ y.begun /\ y.started = x.started /\ y.end = x.end /\ y.home = x.home
           /\ y.open = IF f.type = "block_stop" THEN x.open \ {f.block} ELSE x.open
           /\ y.parts = IF f.part \in Content
                        THEN [x.parts EXCEPT ![f.item] = Append(@, f.part)] ELSE x.parts
<1> DEFINE y == Shown(x, f)
<1>1. x.home \in [Items -> SUBSET Nat] /\ x.parts \in [Items -> Seq(Content)] /\ x.started \in Nat
  BY DEF View
<1>2. y.home = [i \in Items |-> IF f.item = i /\ f.block # 0 THEN x.home[i] \cup {f.block} ELSE x.home[i]]
  BY DEF Shown
<1>3. y.parts = [i \in Items |-> IF f.item = i /\ f.part \in Content THEN Append(x.parts[i], f.part) ELSE x.parts[i]]
  BY DEF Shown
<1>4. y.begun /\ y.started = x.started /\ y.end = x.end
  BY <1>1 DEF Shown, Finals
<1>5. y.open = IF f.type = "block_stop" THEN x.open \ {f.block} ELSE x.open
  BY DEF Shown
<1> HIDE DEF y
<1>6. y.home = x.home
  BY <1>1, <1>2
<1>7. y.parts = IF f.part \in Content THEN [x.parts EXCEPT ![f.item] = Append(@, f.part)] ELSE x.parts
  BY <1>1, <1>3
<1> QED
  BY <1>4, <1>5, <1>6, <1>7 DEF y

\* A frame of no item.
LEMMA ShownMark ==
    ASSUME NEW x \in View, NEW f \in FrameType, f.item = 0,
           f.type \notin {"block_start", "tool_start", "block_stop"}
    PROVE  LET y == Shown(x, f) IN
           /\ y.begun /\ y.started = x.started /\ y.open = x.open
           /\ y.parts = x.parts /\ y.home = x.home
           /\ y.end = CASE f.type \in {"message_stop", "done"} \cup Finals -> "success"
                        [] f.type = "error" -> "error"
                        [] OTHER -> x.end
<1> DEFINE y == Shown(x, f)
<1>0. 0 \notin Items
  BY DEF Items
<1>1. x.home \in [Items -> SUBSET Nat] /\ x.parts \in [Items -> Seq(Content)] /\ x.started \in Nat
  BY DEF View
<1>2. y.home = [i \in Items |-> IF f.item = i /\ f.block # 0 THEN x.home[i] \cup {f.block} ELSE x.home[i]]
  BY DEF Shown
<1>3. y.parts = [i \in Items |-> IF f.item = i /\ f.part \in Content THEN Append(x.parts[i], f.part) ELSE x.parts[i]]
  BY DEF Shown
<1>4. y.begun /\ y.started = x.started /\ y.open = x.open
  BY <1>1 DEF Shown
<1>5. y.end = CASE f.type \in {"message_stop", "done"} \cup Finals -> "success"
                [] f.type = "error" -> "error"
                [] OTHER -> x.end
  BY DEF Shown
<1> HIDE DEF y
<1>6. y.home = x.home
  BY <1>0, <1>1, <1>2
<1>7. y.parts = x.parts
  BY <1>0, <1>1, <1>3
<1> QED
  BY <1>4, <1>5, <1>6, <1>7 DEF y

\* One more frame of a client whose protocol has an order.
LEMMA PutFrame ==
    ASSUME NEW v, NEW x, NEW s \in Seq(FrameType), Leads(v, s, x, TRUE),
           NEW f \in FrameType, Allowed(f, x)
    PROVE  Shown(x, f) \in View /\ Leads(v, Append(s, f), Shown(x, f), TRUE)
<1>1. x.end = "none"
  BY DEF Allowed
<1> QED
  BY <1>1, LeadsMore

-----------------------------------------------------------------------------
(* The steps of the translator for Anthropic clients.                      *)

\* Write: one more frame, and nothing else.
LEMMA WriteIs ==
    ASSUME NEW t \in Translator, NEW f \in FrameType
    PROVE  LET s == Anthropic!Write(t, f) IN
           /\ s \in Translator /\ s.out = Append(t.out, f) /\ Kept(t, s)
           /\ s.started = t.started /\ s.finished = t.finished /\ s.failed = t.failed
           /\ s.hasToolUse = t.hasToolUse /\ s.next = t.next
           /\ s.stopPend = t.stopPend /\ s.signature = t.signature
<1> DEFINE q == Append(t.out, f)
<1>1. q \in Seq(FrameType)
  BY DEF Translator
<1>2. Anthropic!Write(t, f) = [t EXCEPT !.out = q]
  BY DEF Anthropic!Write
<1> HIDE DEF q
<1> QED
  BY <1>1, <1>2 DEF Translator, Kept, q

\* The fields of a frame that belongs to no item.
LEMMA MarkIs ==
    ASSUME NEW type \in FrameNames
    PROVE  LET f == Anthropic!Mark(type) IN
           /\ f \in FrameType
           /\ f.type = type /\ f.block = 0 /\ f.item = 0 /\ f.part = "none"
<1>1. 0 \in 0 .. NItems
  BY ItemsFinite
<1> QED
  BY <1>1 DEF Anthropic!Mark, Anthropic!NoItem, Anthropic!Frame, FrameType, PartNames

\* A step that opens and stops no block keeps translator and view together.
LEMMA SyncSame ==
    ASSUME NEW x \in View, NEW t, Sync(x, t), NEW y \in View, NEW s, Kept(t, s), s.next = t.next,
           ~s.finished, ~s.failed, y.begun = s.started, t.started => s.started,
           y.started = x.started, y.end = x.end, y.home = x.home, y.open = x.open
    PROVE  Sync(y, s)
<1>1. Numbered(y, s.next)
  BY NumberedSame DEF Sync
<1>2. /\ s.blocks = t.blocks /\ s.completed = t.completed /\ s.thinking = t.thinking
      /\ s.current = t.current /\ s.mode = t.mode
  BY DEF Kept
<1>3. \A i \in Items : Opened(s, i) <=> Opened(t, i)
  BY <1>2 DEF Opened, Thinks
<1> QED
  BY <1>1, <1>2, <1>3 DEF Sync

\* ensureStart: the opening frame, once.
LEMMA StartStep ==
    ASSUME NEW v, NEW x, NEW t, InStep(v, x, t)
    PROVE  LET s == Anthropic!ensureStart(t) IN
           /\ s.started /\ Kept(t, s)
           /\ \E y : InStep(v, y, s) /\ y.parts = x.parts /\ y.home = x.home
<1> DEFINE s == Anthropic!ensureStart(t)
<1>0. t \in Translator /\ v \in View /\ x \in View /\ Leads(v, t.out, x, TRUE) /\ Sync(x, t)
  BY DEF InStep
<1>1. CASE t.started
  <2>1. s = t
    BY <1>1 DEF Anthropic!ensureStart
  <2> QED
    BY <2>1, <1>1 DEF Kept
<1>2. CASE ~t.started
  <2> DEFINE u == [t EXCEPT !.started = TRUE]
             f == Anthropic!Mark("message_start")
             y == Shown(x, f)
  <2>1. s = Anthropic!Write(u, f)
    BY <1>2 DEF Anthropic!ensureStart
  <2>2. /\ u \in Translator /\ u.started /\ u.out = t.out /\ u.next = t.next
        /\ u.finished = t.finished /\ u.failed = t.failed /\ Kept(t, u)
    BY <1>0 DEF Translator, Kept
  <2>3. f \in FrameType /\ f.type = "message_start" /\ f.item = 0 /\ f.block = 0 /\ f.part = "none"
    <3>1. "message_start" \in FrameNames
      BY DEF FrameNames
    <3> QED
      BY <3>1, MarkIs
  <2> HIDE DEF s, u, f
  <2>4. /\ s \in Translator /\ s.out = Append(t.out, f) /\ Kept(t, s) /\ s.started
        /\ s.finished = t.finished /\ s.failed = t.failed /\ s.next = t.next
    BY <2>1, <2>2, <2>3, WriteIs DEF Kept
  <2>5. Allowed(f, x)
    BY <1>0, <1>2, <2>3 DEF Allowed, Sync
  <2>6. y \in View /\ Leads(v, s.out, y, TRUE)
    <3>1. t.out \in Seq(FrameType) /\ x.end = "none"
      BY <1>0 DEF Translator, Sync
    <3> QED
      BY <3>1, <1>0, <2>3, <2>4, <2>5, PutFrame
  <2>7. /\ y.begun /\ y.started = x.started /\ y.open = x.open
        /\ y.parts = x.parts /\ y.home = x.home /\ y.end = x.end
    BY <1>0, <2>3, ShownMark DEF Finals
  <2> HIDE DEF y
  <2>8. ~s.finished /\ ~s.failed /\ y.begun = s.started
    BY <1>0, <2>4, <2>7 DEF Sync, Translator
  <2>9. Sync(y, s)
    BY <1>0, <2>4, <2>6, <2>7, <2>8, SyncSame
  <2> QED
    BY <1>0, <2>4, <2>6, <2>7, <2>9 DEF InStep, s
<1> QED
  BY <1>1, <1>2

\* ensureThinkingBlock: a block for the current item, which has none.
LEMMA ThinkStep ==
    ASSUME NEW v, NEW x, NEW t, InStep(v, x, t), t.started, t.mode # "off", t.thinking = 0,
           t.current \in Items, ~Opened(t, t.current)
    PROVE  Thinking(v, x, t, Anthropic!ensureThinkingBlock(t))
<1> DEFINE s == Anthropic!ensureThinkingBlock(t)
           i == t.current
           f == Anthropic!Frame("block_start", t.next, i, "thinking")
           w == Anthropic!Write(t, f)
           y == Shown(x, f)
<1>0. t \in Translator /\ v \in View /\ x \in View /\ Leads(v, t.out, x, TRUE) /\ Sync(x, t)
  BY DEF InStep
<1>1. s = [w EXCEPT !.thinking = t.next, !.next = t.next + 1, !.stopPend = FALSE]
  BY DEF Anthropic!ensureThinkingBlock, Anthropic!ensureStart
<1>2. Numbered(x, t.next) /\ t.next \in Nat \ {0} /\ x.started = t.next - 1 /\ x.started \in Nat
      /\ t.out \in Seq(FrameType)
  BY <1>0 DEF Sync, Numbered, Translator, View
<1>3. f \in FrameType /\ f.type = "block_start" /\ f.item = i /\ f.block = t.next /\ f.part = "thinking"
  <2>1. "block_start" \in FrameNames /\ "thinking" \in PartNames /\ i \in 0 .. NItems
    BY <1>0 DEF FrameNames, PartNames, Translator
  <2> QED
    BY <2>1, <1>2, FrameIs
<1> HIDE DEF s, f, w
<1>4. /\ w \in Translator /\ w.out = Append(t.out, f) /\ Kept(t, w) /\ w.started = t.started
      /\ w.finished = t.finished /\ w.failed = t.failed /\ w.next = t.next
  BY <1>0, <1>3, WriteIs DEF w
<1>5. /\ s \in Translator /\ s.out = Append(t.out, f) /\ s.thinking = t.next /\ s.next = t.next + 1
      /\ s.mode = t.mode /\ s.blocks = t.blocks /\ s.completed = t.completed /\ s.current = t.current
      /\ s.started = t.started /\ s.finished = t.finished /\ s.failed = t.failed
  <2> DEFINE m == t.next + 1
  <2>1. w \in Translator /\ t.next \in Nat /\ m \in Nat
    BY <1>2, <1>4
  <2>2. s = [w EXCEPT !.thinking = t.next, !.next = m, !.stopPend = FALSE] /\ m = t.next + 1
    BY <1>1
  <2> HIDE DEF m
  <2>3. /\ s \in Translator /\ s.out = w.out /\ s.thinking = t.next /\ s.next = m
        /\ s.mode = w.mode /\ s.blocks = w.blocks /\ s.completed = w.completed /\ s.current = w.current
        /\ s.started = w.started /\ s.finished = w.finished /\ s.failed = w.failed
    BY <2>1, <2>2 DEF Translator
  <2> QED
    BY <1>4, <2>2, <2>3 DEF Kept
<1>6. x.home[i] = {} /\ x.begun /\ x.end = "none"
  BY <1>0 DEF Sync
<1>7. Allowed(f, x)
  BY <1>2, <1>3, <1>6 DEF Allowed
<1>8. y \in View /\ Leads(v, s.out, y, TRUE)
  BY <1>0, <1>2, <1>3, <1>5, <1>7, PutFrame
<1>9. /\ y.begun /\ y.started = x.started + 1 /\ y.open = x.open \cup {t.next} /\ y.end = x.end
      /\ y.parts = x.parts /\ y.home = [x.home EXCEPT ![i] = {t.next}]
  <2>1. f.type \in {"block_start", "tool_start"} /\ f.part \notin Content /\ f.block # 0
        /\ f.item \in Items /\ x.home[f.item] = {}
    BY <1>2, <1>3, <1>6 DEF Content
  <2>2. x \in View /\ f \in FrameType /\ f.item = i /\ f.block = t.next
    BY <1>0, <1>3
  <2> HIDE DEF i
  <2> QED
    BY <2>1, <2>2, ShownStart
<1> HIDE DEF y, i
<1>10. i \in Items /\ i = t.current
  BY DEF i
<1>11. Numbered(y, s.next)
  <2>1. x \in View /\ Numbered(x, t.next) /\ i \in Items /\ x.home[i] = {} /\ s.next = t.next + 1
    BY <1>0, <1>2, <1>5, <1>6, <1>10
  <2>2. y \in View /\ y.started = x.started + 1 /\ y.home = [x.home EXCEPT ![i] = {t.next}]
    BY <1>8, <1>9
  <2> QED
    BY <2>1, <2>2, NumberedNew
<1>12. x.home \in [Items -> SUBSET Nat]
  BY <1>0 DEF View
<1>13. \A n \in Nat : n \in y.open <=>
          /\ n # 0
          /\ n = s.thinking \/ \E j \in Items : n = s.blocks[j].index /\ ~s.blocks[j].stopped
  BY <1>0, <1>2, <1>5, <1>9 DEF Sync
<1>14. \A j \in Items : y.home[j] = IF j = i THEN {t.next} ELSE x.home[j]
  BY <1>9, <1>12
<1>15. ASSUME NEW j \in Items
       PROVE  /\ y.home[j] = {} <=> ~Opened(s, j)
              /\ s.blocks[j].index # 0 => y.home[j] = {s.blocks[j].index}
              /\ s.blocks[j].emitted \/ s.blocks[j].stopped => s.blocks[j].index # 0
  <2>1. /\ x.home[j] = {} <=> ~Opened(t, j)
        /\ t.blocks[j].index # 0 => x.home[j] = {t.blocks[j].index}
        /\ t.blocks[j].emitted \/ t.blocks[j].stopped => t.blocks[j].index # 0
    BY <1>0 DEF Sync
  <2>2. Opened(s, j) <=> Opened(t, j) \/ j = i
    BY <1>2, <1>5, <1>10 DEF Opened, Thinks
  <2>3. j = i => t.blocks[j].index = 0
    BY <1>10 DEF Opened
  <2> QED
    BY <2>1, <2>2, <2>3, <1>5, <1>14
<1>16. s.thinking # 0 => /\ s.started /\ s.current \in Items /\ s.blocks[s.current].index = 0
                         /\ s.current \notin s.completed
                         /\ y.home[s.current] = {s.thinking}
  BY <1>5, <1>10, <1>14 DEF Opened
<1>17. Sync(y, s)
  BY <1>0, <1>5, <1>9, <1>11, <1>13, <1>15, <1>16 DEF Sync
<1> QED
  BY <1>0, <1>2, <1>5, <1>8, <1>9, <1>17 DEF InStep, Thinking, s

\* A delta of the open thinking block.
LEMMA ThoughtStep ==
    ASSUME NEW v, NEW x, NEW t, InStep(v, x, t), t.thinking # 0, NEW p \in DeltaParts
    PROVE  LET s == Anthropic!Write(t, Anthropic!Frame("block_delta", t.thinking, t.current, p)) IN
           /\ Kept(t, s) /\ s.started
           /\ \E y : /\ InStep(v, y, s)
                     /\ y.parts = IF p \in Content THEN Plus(x.parts, t.current, p)
                                  ELSE x.parts
<1> DEFINE f == Anthropic!Frame("block_delta", t.thinking, t.current, p)
           s == Anthropic!Write(t, f)
           y == Shown(x, f)
<1>0. t \in Translator /\ v \in View /\ x \in View /\ Leads(v, t.out, x, TRUE) /\ Sync(x, t)
  BY DEF InStep
<1>1. /\ t.current \in Items /\ x.home[t.current] = {t.thinking} /\ t.started /\ x.begun
      /\ x.end = "none" /\ t.thinking \in Nat /\ t.out \in Seq(FrameType) /\ t.thinking \in x.open
      /\ t.current \in 0 .. NItems
  BY <1>0 DEF Sync, Translator
<1>2. f \in FrameType /\ f.type = "block_delta" /\ f.item = t.current /\ f.block = t.thinking /\ f.part = p
  <2>1. "block_delta" \in FrameNames /\ p \in PartNames
    BY DEF FrameNames, PartNames, DeltaParts, Content
  <2> QED
    BY <2>1, <1>1, FrameIs
<1> HIDE DEF f
<1>3. /\ s \in Translator /\ s.out = Append(t.out, f) /\ Kept(t, s) /\ s.started = t.started
      /\ s.finished = t.finished /\ s.failed = t.failed /\ s.next = t.next
  BY <1>0, <1>2, WriteIs
<1>4. Allowed(f, x)
  BY <1>1, <1>2 DEF Allowed
<1>5. y \in View /\ Leads(v, s.out, y, TRUE)
  <2>1. y \in View /\ Leads(v, Append(t.out, f), y, TRUE)
    BY <1>0, <1>1, <1>2, <1>4, PutFrame
  <2> QED
    BY <2>1, <1>3
<1>6. /\ y.begun /\ y.started = x.started /\ y.open = x.open /\ y.end = x.end /\ y.home = x.home
      /\ y.parts = IF p \in Content THEN Plus(x.parts, t.current, p) ELSE x.parts
  <2>1. f.type \in {"block_delta", "block_stop", "tool_args"} /\ f.type # "block_stop"
        /\ f.item \in Items /\ x.home[f.item] = {f.block} /\ x.begun
    BY <1>1, <1>2
  <2>2. x \in View /\ f \in FrameType /\ f.item = t.current /\ f.part = p
    BY <1>0, <1>2
  <2> QED
    BY <2>1, <2>2, ShownMore DEF Plus
<1> HIDE DEF s, y
<1>7. ~s.finished /\ ~s.failed /\ y.begun = s.started
  BY <1>0, <1>1, <1>3, <1>6 DEF Sync, Translator
<1>8. Sync(y, s)
  BY <1>0, <1>3, <1>5, <1>6, <1>7, SyncSame
<1> QED
  BY <1>0, <1>1, <1>3, <1>5, <1>6, <1>8 DEF InStep, s, f

\* finalizeThinkingBlock: the open thinking block is stopped, and its item is
\* complete.
LEMMA EndThought ==
    ASSUME NEW v, NEW x, NEW t, InStep(v, x, t)
    PROVE  Rests(v, x, t, Anthropic!finalizeThinkingBlock(t, TRUE))
<1> DEFINE s == Anthropic!finalizeThinkingBlock(t, TRUE)
           n == t.thinking
           i == t.current
<1>0. t \in Translator /\ v \in View /\ x \in View /\ Leads(v, t.out, x, TRUE) /\ Sync(x, t)
  BY DEF InStep
<1>1. CASE t.mode = "off"
  <2>1. s = t /\ t.thinking = 0
    BY <1>0, <1>1 DEF Anthropic!finalizeThinkingBlock, Sync
  <2>2. s.completed = t.completed \cup (IF t.thinking # 0 THEN {t.current} ELSE {})
    BY <2>1
  <2> QED
    BY <2>1, <2>2 DEF Rests
<1>2. CASE t.mode # "off" /\ n = 0
  <2>1. s = [t EXCEPT !.signature = FALSE, !.current = i]
    BY <1>2 DEF Anthropic!finalizeThinkingBlock
  <2> HIDE DEF s
  <2>2. /\ s \in Translator /\ s.out = t.out /\ s.next = t.next /\ s.mode = t.mode
        /\ s.blocks = t.blocks /\ s.completed = t.completed /\ s.thinking = t.thinking
        /\ s.current = t.current
    BY <2>1, <1>0 DEF Translator
  <2>3. s.started = t.started /\ s.finished = t.finished /\ s.failed = t.failed
    BY <2>1, <1>0 DEF Translator
  <2>4. Sync(x, s)
    BY <1>0, <2>2, <2>3, SyncSame DEF Kept, Sync
  <2>5. s.completed = t.completed \cup (IF t.thinking # 0 THEN {t.current} ELSE {})
    BY <2>2, <1>2
  <2> QED
    BY <2>2, <2>3, <2>4, <2>5, <1>0, <1>2 DEF InStep, Rests, s
<1>3. CASE t.mode # "off" /\ n # 0
  <2> DEFINE g == Anthropic!Write(t, Anthropic!Frame("block_delta", n, i, "signature"))
             r == IF t.signature THEN g ELSE t
             f == Anthropic!Frame("block_stop", n, i, "none")
             w == Anthropic!Write(r, f)
             c == w.completed \cup ({i} \ {Anthropic!NoItem})
  <2>1. s = [[w EXCEPT !.thinking = 0, !.stopPend = FALSE, !.completed = c]
                EXCEPT !.signature = FALSE, !.current = Anthropic!NoItem]
    BY <1>3 DEF Anthropic!finalizeThinkingBlock
  <2>2. Kept(t, r) /\ r.started /\ \E y : InStep(v, y, r) /\ y.parts = x.parts
    <3>1. CASE t.signature
      <4>1. /\ Kept(t, g) /\ g.started
            /\ \E y : /\ InStep(v, y, g)
                      /\ y.parts = IF "signature" \in Content
                                   THEN Plus(x.parts, i, "signature") ELSE x.parts
        <5>1. "signature" \in DeltaParts
          BY DEF DeltaParts
        <5> QED
          BY <5>1, <1>3, ThoughtStep
      <4> QED
        BY <4>1, <3>1 DEF Content
    <3>2. CASE ~t.signature
      <4>1. t.started
        BY <1>0, <1>3 DEF Sync
      <4> QED
        BY <3>2, <4>1 DEF Kept
    <3> QED
      BY <3>1, <3>2
  <2>3. PICK z : InStep(v, z, r) /\ z.parts = x.parts
    BY <2>2
  <2> HIDE DEF r, g
  <2>4. r \in Translator /\ z \in View /\ Leads(v, r.out, z, TRUE) /\ Sync(z, r)
    BY <2>3 DEF InStep
  <2>5. /\ r.thinking = n /\ r.current = i /\ r.blocks = t.blocks /\ r.completed = t.completed
        /\ r.mode = t.mode
    BY <2>2 DEF Kept
  <2>6. /\ i \in Items /\ i # Anthropic!NoItem /\ z.home[i] = {n} /\ n \in z.open /\ z.begun
        /\ z.end = "none" /\ n \in Nat /\ r.out \in Seq(FrameType) /\ i \in 0 .. NItems
        /\ r.blocks[i].index = 0 /\ i \notin r.completed /\ ~r.finished /\ ~r.failed
    BY <1>0, <1>3, <2>4, <2>5 DEF Sync, Translator, Anthropic!NoItem, Items
  <2>7. f \in FrameType /\ f.type = "block_stop" /\ f.item = i /\ f.block = n /\ f.part = "none"
    <3>1. "block_stop" \in FrameNames /\ "none" \in PartNames
      BY DEF FrameNames, PartNames
    <3> QED
      BY <3>1, <2>6, FrameIs
  <2> HIDE DEF f, s
  <2>8. /\ w \in Translator /\ w.out = Append(r.out, f) /\ Kept(r, w) /\ w.started = r.started
        /\ w.finished = r.finished /\ w.failed = r.failed /\ w.next = r.next
    BY <2>4, <2>7, WriteIs
  <2>9. c = t.completed \cup {i} /\ c \in SUBSET Items
    <3>1. t.completed \in SUBSET Items
      BY <1>0 DEF Translator
    <3> QED
      BY <3>1, <2>5, <2>6, <2>8 DEF Kept
  <2> HIDE DEF w, c
  <2>10. /\ s \in Translator /\ s.out = w.out /\ s.next = w.next /\ s.mode = w.mode
         /\ s.blocks = w.blocks /\ s.completed = c /\ s.thinking = 0
    <3>1. Anthropic!NoItem \in 0 .. NItems
      BY ItemsFinite DEF Anthropic!NoItem
    <3> QED
      BY <3>1, <2>1, <2>8, <2>9 DEF Translator
  <2>11. s.started = w.started /\ s.finished = w.finished /\ s.failed = w.failed
    BY <2>1, <2>8 DEF Translator
  <2> DEFINE y == Shown(z, f)
  <2>12. Allowed(f, z)
    BY <2>6, <2>7 DEF Allowed
  <2>13. y \in View /\ Leads(v, s.out, y, TRUE)
    <3>1. y \in View /\ Leads(v, Append(r.out, f), y, TRUE)
      BY <2>4, <2>6, <2>7, <2>12, PutFrame
    <3> QED
      BY <3>1, <2>8, <2>10
  <2>14. /\ y.begun /\ y.started = z.started /\ y.open = z.open \ {n} /\ y.end = z.end
         /\ y.home = z.home /\ y.parts = z.parts
    <3>1. f.type \in {"block_delta", "block_stop", "tool_args"} /\ f.type = "block_stop"
          /\ f.item \in Items /\ z.home[f.item] = {f.block} /\ z.begun /\ f.part \notin Content
      BY <2>6, <2>7 DEF Content
    <3>2. z \in View /\ f \in FrameType /\ f.block = n
      BY <2>4, <2>7
    <3> HIDE DEF n
    <3> QED
      BY <3>1, <3>2, ShownMore
  <2> HIDE DEF y
  <2>15. /\ s.next = r.next /\ s.mode = t.mode /\ s.blocks = t.blocks /\ s.completed = t.completed \cup {i}
         /\ s.thinking = 0 /\ s.started = r.started /\ ~s.finished /\ ~s.failed
    BY <2>5, <2>6, <2>8, <2>9, <2>10, <2>11 DEF Kept
  <2>16. Numbered(y, s.next)
    BY <2>4, <2>13, <2>14, <2>15, NumberedSame DEF Sync
  <2>17. ASSUME NEW j \in Items, t.blocks[j].index = n PROVE FALSE
    <3>1. z.home[j] = {n}
      BY <1>3, <2>4, <2>5, <2>17 DEF Sync
    <3>2. j # i
      BY <2>5, <2>6, <2>17, <1>3
    <3>3. z.home[j] \cap z.home[i] = {}
      BY <3>2, <2>4, <2>6 DEF Sync, Numbered
    <3> QED
      BY <3>1, <3>3, <2>6
  <2>18. \A m \in Nat : m \in y.open <=>
            /\ m # 0
            /\ m = s.thinking \/ \E j \in Items : m = s.blocks[j].index /\ ~s.blocks[j].stopped
    BY <2>4, <2>5, <2>14, <2>15, <2>17 DEF Sync
  <2>19. \A j \in Items : Opened(s, j) <=> Opened(r, j)
    BY <2>5, <2>15, <1>3 DEF Opened, Thinks
  <2>20. Sync(y, s)
    BY <2>4, <2>5, <2>14, <2>15, <2>16, <2>18, <2>19, <2>2 DEF Sync
  <2>21. s.started = t.started
    BY <2>2, <2>15, <1>0, <1>3 DEF Sync
  <2> QED
    BY <1>0, <1>3, <2>3, <2>10, <2>13, <2>14, <2>15, <2>20, <2>21 DEF InStep, Rests, s
<1> QED
  BY <1>1, <1>2, <1>3

\* One field of a block.
LEMMA BlockIndexed ==
    ASSUME NEW b \in BlockType, NEW k \in Nat
    PROVE  LET c == [b EXCEPT !.index = k] IN
           c \in BlockType /\ c.index = k /\ c.emitted = b.emitted /\ c.stopped = b.stopped
  BY DEF BlockType

\* The block has had content.
LEMMA BlockEmitted ==
    ASSUME NEW b \in BlockType
    PROVE  LET c == [b EXCEPT !.emitted = TRUE] IN
           c \in BlockType /\ c.index = b.index /\ c.emitted = TRUE /\ c.stopped = b.stopped
  BY DEF BlockType

\* The block is stopped.
LEMMA BlockStopped ==
    ASSUME NEW b \in BlockType
    PROVE  LET c == [b EXCEPT !.stopped = TRUE] IN
           c \in BlockType /\ c.index = b.index /\ c.emitted = b.emitted /\ c.stopped = TRUE
  BY DEF BlockType

\* ensureTextBlock, ensureToolBlock: the block of item i is there.
LEMMA OpenStep ==
    ASSUME NEW v, NEW x, NEW t, InStep(v, x, t), t.started, t.thinking = 0,
           NEW i \in Items, i \notin t.completed, NEW kind \in {"message", "tool"}
    PROVE  LET s == Anthropic!ensureBlock(t, i, kind) IN
           /\ Touched(t, s, i) /\ s.blocks[i].index # 0
           /\ s.blocks[i].emitted = t.blocks[i].emitted /\ s.blocks[i].stopped = t.blocks[i].stopped
           /\ \E y : InStep(v, y, s) /\ y.parts = x.parts
<1> DEFINE s == Anthropic!ensureBlock(t, i, kind)
<1>0. t \in Translator /\ v \in View /\ x \in View /\ Leads(v, t.out, x, TRUE) /\ Sync(x, t)
  BY DEF InStep
<1>1. CASE t.blocks[i].index # 0
  <2>1. s = t
    BY <1>1 DEF Anthropic!ensureBlock, Anthropic!finishThinkingBeforeContent
  <2> QED
    BY <1>1, <2>1 DEF Touched
<1>2. CASE t.blocks[i].index = 0
  <2> DEFINE f == Anthropic!Frame("block_start", t.next, i, kind)
             w == Anthropic!Write(t, f)
             m == t.next + 1
             h == w.hasToolUse \/ kind = "tool"
             y == Shown(x, f)
             b == [t.blocks[i] EXCEPT !.index = t.next]
  <2>1. s = [w EXCEPT !.next = @ + 1, !.blocks[i].index = t.next, !.hasToolUse = h]
    BY <1>2 DEF Anthropic!ensureBlock, Anthropic!finishThinkingBeforeContent
  <2>2. Numbered(x, t.next) /\ t.next \in Nat \ {0} /\ x.started = t.next - 1 /\ x.started \in Nat
        /\ t.out \in Seq(FrameType) /\ m \in Nat /\ t.blocks[i] \in BlockType
        /\ t.blocks \in [Items -> BlockType]
    BY <1>0 DEF Sync, Numbered, Translator, View
  <2>3. f \in FrameType /\ f.type = "block_start" /\ f.item = i /\ f.block = t.next /\ f.part = kind
    <3>1. "block_start" \in FrameNames /\ kind \in PartNames /\ i \in 0 .. NItems
      BY ItemsFinite DEF FrameNames, PartNames, Items
    <3> QED
      BY <3>1, <2>2, FrameIs
  <2> HIDE DEF s, f
  <2>4. /\ w \in Translator /\ w.out = Append(t.out, f) /\ Kept(t, w) /\ w.started = t.started
        /\ w.finished = t.finished /\ w.failed = t.failed /\ w.next = t.next
    BY <1>0, <2>3, WriteIs
  <2>5. h \in BOOLEAN
    OBVIOUS
  <2>b. /\ b \in BlockType /\ b.index = t.next /\ b.emitted = t.blocks[i].emitted
         /\ b.stopped = t.blocks[i].stopped
    BY <2>2, BlockIndexed
  <2> HIDE DEF w, h, b
  <2>6. s = [w EXCEPT !.next = m, !.blocks = [t.blocks EXCEPT ![i] = b], !.hasToolUse = h]
    <3>1. w.blocks = t.blocks /\ w.next = t.next
      BY <2>4 DEF Kept
    <3> QED
      BY <2>1, <2>2, <2>4, <3>1 DEF Translator, b
  <2> DEFINE B == [t.blocks EXCEPT ![i] = b]
  <2>7. B \in [Items -> BlockType] /\ B[i] = b /\ \A j \in Items : j # i => B[j] = t.blocks[j]
    BY <2>2, <2>b
  <2> HIDE DEF B, m
  <2>8. /\ s \in Translator /\ s.out = w.out /\ s.next = m /\ s.blocks = B /\ s.mode = w.mode
        /\ s.thinking = w.thinking /\ s.completed = w.completed /\ s.current = w.current
    BY <2>2, <2>4, <2>5, <2>6, <2>7 DEF Translator, B
  <2>9. s.started = w.started /\ s.finished = w.finished /\ s.failed = w.failed
    BY <2>4, <2>6 DEF Translator, B
  <2>10. /\ s.out = Append(t.out, f) /\ s.next = t.next + 1 /\ s.mode = t.mode /\ s.thinking = 0
         /\ s.completed = t.completed /\ s.current = t.current /\ s.started = t.started
         /\ ~s.finished /\ ~s.failed
    BY <1>0, <2>4, <2>8, <2>9 DEF Kept, Sync, m
  <2>11. /\ s.blocks[i].index = t.next /\ s.blocks[i].emitted = t.blocks[i].emitted
         /\ s.blocks[i].stopped = t.blocks[i].stopped
         /\ \A j \in Items : j # i => s.blocks[j] = t.blocks[j]
    BY <2>7, <2>8, <2>b
  <2>12. x.home[i] = {} /\ x.begun /\ x.end = "none"
    BY <1>0, <1>2 DEF Sync, Opened, Thinks
  <2>13. Allowed(f, x)
    BY <2>2, <2>3, <2>12 DEF Allowed
  <2>14. y \in View /\ Leads(v, s.out, y, TRUE)
    <3>1. y \in View /\ Leads(v, Append(t.out, f), y, TRUE)
      BY <1>0, <2>2, <2>3, <2>13, PutFrame
    <3> QED
      BY <3>1, <2>10
  <2>15. /\ y.begun /\ y.started = x.started + 1 /\ y.open = x.open \cup {t.next} /\ y.end = x.end
         /\ y.parts = x.parts /\ y.home = [x.home EXCEPT ![i] = {t.next}]
    <3>1. f.type \in {"block_start", "tool_start"} /\ f.part \notin Content /\ f.block # 0
          /\ f.item \in Items /\ x.home[f.item] = {}
      BY <2>2, <2>3, <2>12 DEF Content
    <3> QED
      BY <1>0, <2>3, <3>1, ShownStart
  <2> HIDE DEF y
  <2>16. Numbered(y, s.next)
    <3>1. x \in View /\ Numbered(x, t.next) /\ x.home[i] = {} /\ s.next = t.next + 1
      BY <1>0, <2>2, <2>10, <2>12
    <3> QED
      BY <3>1, <2>14, <2>15, NumberedNew
  <2>17. \A j \in Items : y.home[j] = IF j = i THEN {t.next} ELSE x.home[j]
    <3>1. x.home \in [Items -> SUBSET Nat]
      BY <1>0 DEF View
    <3> QED
      BY <3>1, <2>15
  <2>18. ~t.blocks[i].stopped /\ ~t.blocks[i].emitted
    BY <1>0, <1>2 DEF Sync
  <2>19. ASSUME NEW n \in Nat
         PROVE  n \in y.open <=>
                  /\ n # 0
                  /\ n = s.thinking \/ \E j \in Items : n = s.blocks[j].index /\ ~s.blocks[j].stopped
    <3>1. n \in x.open <=> n # 0 /\ \E j \in Items : n = t.blocks[j].index /\ ~t.blocks[j].stopped
      BY <1>0 DEF Sync
    <3>2. n \in y.open <=> n \in x.open \/ n = t.next
      BY <2>15
    <3>3. ASSUME n # 0
          PROVE  (\E j \in Items : n = s.blocks[j].index /\ ~s.blocks[j].stopped)
                    <=> n = t.next \/ \E j \in Items : n = t.blocks[j].index /\ ~t.blocks[j].stopped
      BY <3>3, <1>2, <2>11, <2>18
    <3> QED
      BY <3>1, <3>2, <3>3, <2>2, <2>10
  <2>20. ASSUME NEW j \in Items
         PROVE  /\ y.home[j] = {} <=> ~Opened(s, j)
                /\ s.blocks[j].index # 0 => y.home[j] = {s.blocks[j].index}
                /\ s.blocks[j].emitted \/ s.blocks[j].stopped => s.blocks[j].index # 0
    <3>1. CASE j = i
      BY <3>1, <2>2, <2>11, <2>17 DEF Opened
    <3>2. CASE j # i
      <4>1. s.blocks[j] = t.blocks[j] /\ y.home[j] = x.home[j]
        BY <3>2, <2>11, <2>17
      <4>2. Opened(s, j) <=> Opened(t, j)
        BY <4>1, <2>10 DEF Opened, Thinks
      <4> QED
        BY <1>0, <4>1, <4>2 DEF Sync
    <3> QED
      BY <3>1, <3>2
  <2>21. Sync(y, s)
    BY <1>0, <2>10, <2>15, <2>16, <2>19, <2>20 DEF Sync
  <2>22. Touched(t, s, i)
    BY <2>10, <2>11 DEF Touched
  <2> QED
    BY <1>0, <2>2, <2>8, <2>11, <2>14, <2>15, <2>21, <2>22 DEF InStep, s
<1> QED
  BY <1>1, <1>2

\* A delta of the block of item i.
LEMMA PutDelta ==
    ASSUME NEW v, NEW x, NEW t, InStep(v, x, t), NEW i \in Items, t.blocks[i].index # 0,
           ~t.blocks[i].stopped, NEW p \in Content
    PROVE  LET s == Emit(t, i, p) IN
           /\ Touched(t, s, i) /\ s.blocks[i].index # 0 /\ s.blocks[i].emitted /\ ~s.blocks[i].stopped
           /\ \E y : InStep(v, y, s) /\ y.parts = Plus(x.parts, i, p)
<1> DEFINE n == t.blocks[i].index
           f == Anthropic!Frame("block_delta", n, i, p)
           w == Anthropic!Write(t, f)
           s == [w EXCEPT !.blocks[i].emitted = TRUE]
           y == Shown(x, f)
           b == [t.blocks[i] EXCEPT !.emitted = TRUE]
           B == [t.blocks EXCEPT ![i] = b]
<1>0. t \in Translator /\ v \in View /\ x \in View /\ Leads(v, t.out, x, TRUE) /\ Sync(x, t)
  BY DEF InStep
<1>1. t.blocks \in [Items -> BlockType] /\ t.blocks[i] \in BlockType /\ n \in Nat /\ t.out \in Seq(FrameType)
      /\ i \in 0 .. NItems /\ t.next \in Nat
  <2>1. t.blocks \in [Items -> BlockType] /\ t.out \in Seq(FrameType) /\ t.next \in Nat
    BY <1>0 DEF Translator
  <2>2. t.blocks[i] \in BlockType
    BY <2>1
  <2>3. n \in Nat
    BY <2>2 DEF BlockType
  <2>4. i \in 0 .. NItems
    BY ItemsFinite DEF Items
  <2> QED
    BY <2>1, <2>2, <2>3, <2>4
<1>2. x.home[i] = {n} /\ n \in x.open /\ x.end = "none" /\ x.begun = t.started
  BY <1>0, <1>1 DEF Sync
<1>3. x.begun
  <2>1. n \in 1 .. t.next - 1
    BY <1>0, <1>2 DEF Sync, Numbered
  <2>2. t.next > 1
    BY <2>1, <1>1
  <2> QED
    BY <2>2, <1>0, <1>2 DEF Sync
<1>4. f \in FrameType /\ f.type = "block_delta" /\ f.item = i /\ f.block = n /\ f.part = p
  <2>1. "block_delta" \in FrameNames /\ p \in PartNames
    BY DEF FrameNames, PartNames, Content
  <2> QED
    BY <2>1, <1>1, FrameIs
<1> HIDE DEF f, n
<1>5. /\ w \in Translator /\ w.out = Append(t.out, f) /\ Kept(t, w) /\ w.started = t.started
      /\ w.finished = t.finished /\ w.failed = t.failed /\ w.next = t.next
  BY <1>0, <1>4, WriteIs
<1>b. b \in BlockType /\ b.index = n /\ b.emitted = TRUE /\ b.stopped = t.blocks[i].stopped
  BY <1>1, BlockEmitted DEF n
<1> HIDE DEF w, b
<1>6. B \in [Items -> BlockType] /\ B[i] = b /\ \A j \in Items : j # i => B[j] = t.blocks[j]
  BY <1>1, <1>b
<1>7. s = [w EXCEPT !.blocks = B]
  <2>1. w.blocks = t.blocks
    BY <1>5 DEF Kept
  <2> QED
    BY <1>1, <1>5, <2>1 DEF Translator, b
<1> HIDE DEF s, B
<1>8. /\ s \in Translator /\ s.out = w.out /\ s.next = w.next /\ s.blocks = B /\ s.mode = w.mode
      /\ s.thinking = w.thinking /\ s.completed = w.completed /\ s.current = w.current
  BY <1>5, <1>6, <1>7 DEF Translator
<1>9. s.started = w.started /\ s.finished = w.finished /\ s.failed = w.failed
  BY <1>5, <1>7 DEF Translator
<1>10. /\ s.out = Append(t.out, f) /\ s.next = t.next /\ s.mode = t.mode /\ s.thinking = t.thinking
       /\ s.completed = t.completed /\ s.current = t.current /\ s.started = t.started
       /\ ~s.finished /\ ~s.failed
  BY <1>0, <1>5, <1>8, <1>9 DEF Kept, Sync
<1>11. /\ s.blocks[i].index = n /\ s.blocks[i].emitted = TRUE
       /\ s.blocks[i].stopped = t.blocks[i].stopped
       /\ \A j \in Items : j # i => s.blocks[j] = t.blocks[j]
  BY <1>6, <1>b, <1>8
<1>12. Allowed(f, x)
  BY <1>2, <1>3, <1>4 DEF Allowed
<1>13. y \in View /\ Leads(v, s.out, y, TRUE)
  <2>1. y \in View /\ Leads(v, Append(t.out, f), y, TRUE)
    BY <1>0, <1>1, <1>4, <1>12, PutFrame
  <2> QED
    BY <2>1, <1>10
<1>14. /\ y.begun /\ y.started = x.started /\ y.open = x.open /\ y.end = x.end
       /\ y.home = x.home /\ y.parts = Plus(x.parts, i, p)
  <2>1. f.type \in {"block_delta", "block_stop", "tool_args"} /\ f.type # "block_stop"
        /\ f.item \in Items /\ x.home[f.item] = {f.block} /\ x.begun
    BY <1>2, <1>3, <1>4
  <2>2. x \in View /\ f \in FrameType /\ f.item = i /\ f.part = p
    BY <1>0, <1>4
  <2> QED
    BY <2>1, <2>2, ShownMore DEF Plus
<1> HIDE DEF y
<1>15. Numbered(y, s.next)
  BY <1>0, <1>10, <1>13, <1>14, NumberedSame DEF Sync
<1>16. \A j \in Items : s.blocks[j].index = t.blocks[j].index /\ (s.blocks[j].stopped = t.blocks[j].stopped)
  BY <1>11 DEF n
<1>17. ASSUME NEW j \in Items
       PROVE  /\ y.home[j] = {} <=> ~Opened(s, j)
              /\ s.blocks[j].index # 0 => y.home[j] = {s.blocks[j].index}
              /\ s.blocks[j].emitted \/ s.blocks[j].stopped => s.blocks[j].index # 0
  <2>1. Opened(s, j) <=> Opened(t, j)
    BY <1>16, <1>10 DEF Opened, Thinks
  <2>2. /\ y.home[j] = {} <=> ~Opened(s, j)
        /\ s.blocks[j].index # 0 => y.home[j] = {s.blocks[j].index}
    BY <2>1, <1>0, <1>14, <1>16 DEF Sync
  <2>3. s.blocks[j].emitted \/ s.blocks[j].stopped => s.blocks[j].index # 0
    BY <1>0, <1>11 DEF Sync, n
  <2> QED
    BY <2>2, <2>3
<1>18. \A m \in Nat : m \in y.open <=>
          /\ m # 0
          /\ m = s.thinking \/ \E j \in Items : m = s.blocks[j].index /\ ~s.blocks[j].stopped
  BY <1>0, <1>10, <1>14, <1>16 DEF Sync
<1>19. Sync(y, s)
  <2>1. s.thinking # 0 => /\ s.started /\ s.current \in Items /\ s.blocks[s.current].index = 0
                          /\ s.current \notin s.completed
                          /\ y.home[s.current] = {s.thinking}
    BY <1>0, <1>10, <1>14, <1>16 DEF Sync
  <2>2. y.end = "none" /\ y.begun = s.started /\ ~s.finished /\ ~s.failed
        /\ (s.next > 1 => s.started) /\ (s.mode = "off" => s.thinking = 0)
    BY <1>0, <1>2, <1>3, <1>10, <1>14 DEF Sync
  <2> QED
    BY <2>1, <2>2, <1>15, <1>17, <1>18 DEF Sync
<1>20. Touched(t, s, i)
  BY <1>10, <1>11 DEF Touched
<1> QED
  BY <1>0, <1>8, <1>11, <1>13, <1>14, <1>19, <1>20 DEF InStep, s, w, f, n, Emit

\* textDelta, toolArgsDelta: a delta, unless the block has been stopped.
LEMMA DeltaStep ==
    ASSUME NEW v, NEW x, NEW t, InStep(v, x, t), t.started, t.thinking = 0, NEW i \in Items,
           i \notin t.completed, NEW kind \in {"message", "tool"}, NEW p \in Content
    PROVE  LET s == Anthropic!blockDelta(t, i, kind, p) IN
           /\ Touched(t, s, i) /\ s.blocks[i].index # 0
           /\ s.blocks[i].emitted <=> t.blocks[i].emitted \/ ~t.blocks[i].stopped
           /\ s.blocks[i].stopped <=> t.blocks[i].stopped
           /\ \E y : /\ InStep(v, y, s)
                     /\ y.parts = IF t.blocks[i].stopped THEN x.parts
                                  ELSE Plus(x.parts, i, p)
<1> DEFINE u == Anthropic!ensureBlock(t, i, kind)
           s == Anthropic!blockDelta(t, i, kind, p)
<1>1. /\ Touched(t, u, i) /\ u.blocks[i].index # 0
      /\ u.blocks[i].emitted = t.blocks[i].emitted /\ u.blocks[i].stopped = t.blocks[i].stopped
      /\ \E y : InStep(v, y, u) /\ y.parts = x.parts
  BY OpenStep
<1>2. PICK z : InStep(v, z, u) /\ z.parts = x.parts
  BY <1>1
<1>3. CASE u.blocks[i].stopped
  <2>1. s = u
    BY <1>3 DEF Anthropic!blockDelta
  <2> HIDE DEF u, s
  <2> QED
    BY <1>1, <1>2, <1>3, <2>1 DEF s
<1>4. CASE ~u.blocks[i].stopped
  <2>1. s = Emit(u, i, p)
    BY <1>4 DEF Anthropic!blockDelta, Emit
  <2> HIDE DEF u, s
  <2>2. /\ Touched(u, s, i) /\ s.blocks[i].index # 0 /\ s.blocks[i].emitted /\ ~s.blocks[i].stopped
        /\ \E y : InStep(v, y, s) /\ y.parts = Plus(z.parts, i, p)
    BY <1>1, <1>2, <1>4, <2>1, PutDelta
  <2>3. Touched(t, s, i)
    BY <1>1, <2>2 DEF Touched
  <2> QED
    BY <1>1, <1>2, <1>4, <2>2, <2>3 DEF s
<1> QED
  BY <1>3, <1>4

\* stopBlock: the block of item i is stopped, once.
LEMMA StopStep ==
    ASSUME NEW v, NEW x, NEW t, InStep(v, x, t), NEW i \in Items
    PROVE  LET s == Anthropic!stopBlock(t, i) IN
           /\ Touched(t, s, i) /\ s.next = t.next
           /\ s.blocks[i].index = t.blocks[i].index /\ s.blocks[i].emitted = t.blocks[i].emitted
           /\ s.blocks[i].stopped <=> t.blocks[i].index # 0
           /\ \E y : InStep(v, y, s) /\ y.parts = x.parts
<1> DEFINE s == Anthropic!stopBlock(t, i)
           n == t.blocks[i].index
<1>0. t \in Translator /\ v \in View /\ x \in View /\ Leads(v, t.out, x, TRUE) /\ Sync(x, t)
  BY DEF InStep
<1>1. CASE n = 0 \/ t.blocks[i].stopped
  <2>1. s = t
    BY <1>1 DEF Anthropic!stopBlock
  <2>2. t.blocks[i].stopped <=> t.blocks[i].index # 0
    BY <1>0, <1>1 DEF Sync
  <2> QED
    BY <2>1, <2>2 DEF Touched
<1>2. CASE n # 0 /\ ~t.blocks[i].stopped
  <2> DEFINE f == Anthropic!Frame("block_stop", n, i, "none")
             w == Anthropic!Write(t, f)
             b == [t.blocks[i] EXCEPT !.stopped = TRUE]
             B == [t.blocks EXCEPT ![i] = b]
             y == Shown(x, f)
  <2>1. s = [w EXCEPT !.blocks[i].stopped = TRUE]
    BY <1>2 DEF Anthropic!stopBlock
  <2>2. t.blocks \in [Items -> BlockType] /\ t.blocks[i] \in BlockType /\ n \in Nat /\ t.out \in Seq(FrameType)
        /\ i \in 0 .. NItems /\ t.next \in Nat
    <3>1. t.blocks \in [Items -> BlockType] /\ t.out \in Seq(FrameType) /\ t.next \in Nat
      BY <1>0 DEF Translator
    <3>2. t.blocks[i] \in BlockType
      BY <3>1
    <3>3. n \in Nat
      BY <3>2 DEF BlockType
    <3>4. i \in 0 .. NItems
      BY ItemsFinite DEF Items
    <3> QED
      BY <3>1, <3>2, <3>3, <3>4
  <2>3. x.home[i] = {n} /\ n \in x.open /\ x.end = "none" /\ x.begun = t.started
    BY <1>0, <1>2, <2>2 DEF Sync
  <2>4. x.begun
    <3>1. n \in 1 .. t.next - 1
      BY <1>0, <2>3 DEF Sync, Numbered
    <3>2. t.next > 1
      BY <3>1, <2>2
    <3> QED
      BY <3>2, <1>0, <2>3 DEF Sync
  <2>5. f \in FrameType /\ f.type = "block_stop" /\ f.item = i /\ f.block = n /\ f.part = "none"
    <3>1. "block_stop" \in FrameNames /\ "none" \in PartNames
      BY DEF FrameNames, PartNames
    <3> QED
      BY <3>1, <2>2, FrameIs
  <2>6. b \in BlockType /\ b.index = n /\ b.emitted = t.blocks[i].emitted /\ b.stopped = TRUE
    BY <2>2, BlockStopped
  <2> HIDE DEF f, s, n
  <2>7. /\ w \in Translator /\ w.out = Append(t.out, f) /\ Kept(t, w) /\ w.started = t.started
        /\ w.finished = t.finished /\ w.failed = t.failed /\ w.next = t.next
    BY <1>0, <2>5, WriteIs
  <2> HIDE DEF w, b
  <2>8. B \in [Items -> BlockType] /\ B[i] = b /\ \A j \in Items : j # i => B[j] = t.blocks[j]
    BY <2>2, <2>6
  <2>9. s = [w EXCEPT !.blocks = B]
    <3>1. w.blocks = t.blocks
      BY <2>7 DEF Kept
    <3> QED
      BY <2>1, <2>2, <2>7, <3>1 DEF Translator, b
  <2> HIDE DEF B
  <2>10. /\ s \in Translator /\ s.out = w.out /\ s.next = w.next /\ s.blocks = B /\ s.mode = w.mode
         /\ s.thinking = w.thinking /\ s.completed = w.completed /\ s.current = w.current
    BY <2>7, <2>8, <2>9 DEF Translator
  <2>11. s.started = w.started /\ s.finished = w.finished /\ s.failed = w.failed
    BY <2>7, <2>9 DEF Translator
  <2>12. /\ s.out = Append(t.out, f) /\ s.next = t.next /\ s.mode = t.mode /\ s.thinking = t.thinking
         /\ s.completed = t.completed /\ s.current = t.current /\ s.started = t.started
         /\ ~s.finished /\ ~s.failed
    BY <1>0, <2>7, <2>10, <2>11 DEF Kept, Sync
  <2>13. /\ s.blocks[i].index = n /\ s.blocks[i].emitted = t.blocks[i].emitted
         /\ s.blocks[i].stopped = TRUE
         /\ \A j \in Items : j # i => s.blocks[j] = t.blocks[j]
    BY <2>6, <2>8, <2>10
  <2>14. Allowed(f, x)
    BY <2>3, <2>4, <2>5 DEF Allowed
  <2>15. y \in View /\ Leads(v, s.out, y, TRUE)
    <3>1. y \in View /\ Leads(v, Append(t.out, f), y, TRUE)
      BY <1>0, <2>2, <2>5, <2>14, PutFrame
    <3> QED
      BY <3>1, <2>12
  <2>16. /\ y.begun /\ y.started = x.started /\ y.open = x.open \ {n} /\ y.end = x.end
         /\ y.home = x.home /\ y.parts = x.parts
    <3>1. f.type \in {"block_delta", "block_stop", "tool_args"} /\ f.type = "block_stop"
          /\ f.item \in Items /\ x.home[f.item] = {f.block} /\ x.begun /\ f.part \notin Content
      BY <2>3, <2>4, <2>5 DEF Content
    <3>2. x \in View /\ f \in FrameType /\ f.block = n
      BY <1>0, <2>5
    <3> QED
      BY <3>1, <3>2, ShownMore
  <2> HIDE DEF y
  <2>17. Numbered(y, s.next)
    BY <1>0, <2>12, <2>15, <2>16, NumberedSame DEF Sync
  <2>18. \A j \in Items : s.blocks[j].index = t.blocks[j].index
    BY <2>13 DEF n
  <2>19. ASSUME NEW j \in Items
         PROVE  /\ y.home[j] = {} <=> ~Opened(s, j)
                /\ s.blocks[j].index # 0 => y.home[j] = {s.blocks[j].index}
                /\ s.blocks[j].emitted \/ s.blocks[j].stopped => s.blocks[j].index # 0
    <3>1. Opened(s, j) <=> Opened(t, j)
      BY <2>18, <2>12 DEF Opened, Thinks
    <3>2. /\ y.home[j] = {} <=> ~Opened(s, j)
          /\ s.blocks[j].index # 0 => y.home[j] = {s.blocks[j].index}
      BY <3>1, <1>0, <2>16, <2>18 DEF Sync
    <3>3. s.blocks[j].emitted \/ s.blocks[j].stopped => s.blocks[j].index # 0
      BY <1>0, <1>2, <2>13 DEF Sync
    <3> QED
      BY <3>2, <3>3
  <2>20. ASSUME NEW j \in Items, j # i, t.blocks[j].index = n PROVE FALSE
    <3>1. x.home[j] = {n}
      BY <1>0, <1>2, <2>20 DEF Sync
    <3>2. x.home[j] \cap x.home[i] = {}
      BY <1>0, <2>20 DEF Sync, Numbered
    <3> QED
      BY <3>1, <3>2, <2>3
  <2>21. t.thinking # n
    <3> SUFFICES ASSUME t.thinking = n PROVE FALSE
      OBVIOUS
    <3>1. t.current \in Items /\ t.blocks[t.current].index = 0 /\ x.home[t.current] = {n}
      BY <1>0, <1>2 DEF Sync
    <3>2. t.current # i
      BY <3>1, <1>2 DEF n
    <3>3. x.home[t.current] \cap x.home[i] = {}
      BY <1>0, <3>1, <3>2 DEF Sync, Numbered
    <3> QED
      BY <3>1, <3>3, <2>3
  <2>22. ASSUME NEW m \in Nat
         PROVE  m \in y.open <=>
                  /\ m # 0
                  /\ m = s.thinking \/ \E j \in Items : m = s.blocks[j].index /\ ~s.blocks[j].stopped
    <3>1. m \in x.open <=> /\ m # 0
                           /\ m = t.thinking \/ \E j \in Items : m = t.blocks[j].index /\ ~t.blocks[j].stopped
      BY <1>0 DEF Sync
    <3>2. m \in y.open <=> m \in x.open /\ m # n
      BY <2>16
    <3>3. (\E j \in Items : m = s.blocks[j].index /\ ~s.blocks[j].stopped)
             <=> m # n /\ \E j \in Items : m = t.blocks[j].index /\ ~t.blocks[j].stopped
      <4>1. ASSUME NEW j \in Items, m = s.blocks[j].index, ~s.blocks[j].stopped
            PROVE  m # n /\ m = t.blocks[j].index /\ ~t.blocks[j].stopped
        <5>1. j # i
          BY <4>1, <2>13
        <5> QED
          BY <5>1, <4>1, <2>13, <2>20
      <4>2. ASSUME NEW j \in Items, m # n, m = t.blocks[j].index, ~t.blocks[j].stopped
            PROVE  m = s.blocks[j].index /\ ~s.blocks[j].stopped
        <5>1. j # i
          BY <4>2 DEF n
        <5> QED
          BY <5>1, <4>2, <2>13
      <4> QED
        BY <4>1, <4>2
    <3> QED
      BY <3>1, <3>2, <3>3, <2>12, <2>21
  <2>23. Sync(y, s)
    <3>1. s.thinking # 0 => /\ s.started /\ s.current \in Items /\ s.blocks[s.current].index = 0
                            /\ s.current \notin s.completed
                            /\ y.home[s.current] = {s.thinking}
      BY <1>0, <2>12, <2>16, <2>18 DEF Sync
    <3>2. y.end = "none" /\ y.begun = s.started /\ ~s.finished /\ ~s.failed
          /\ (s.next > 1 => s.started) /\ (s.mode = "off" => s.thinking = 0)
      BY <1>0, <2>3, <2>4, <2>12, <2>16 DEF Sync
    <3> QED
      BY <3>1, <3>2, <2>17, <2>19, <2>22 DEF Sync
  <2>24. Touched(t, s, i)
    BY <2>12, <2>13 DEF Touched
  <2> QED
    BY <1>0, <1>2, <2>10, <2>12, <2>13, <2>15, <2>16, <2>23, <2>24 DEF InStep, s, n
<1> QED
  BY <1>1, <1>2

\* No two items share a block, and every block has been numbered.
LEMMA OneBlock ==
    ASSUME NEW x, NEW t, Sync(x, t), NEW i \in Items, t.blocks[i].index # 0
    PROVE  /\ t.blocks[i].index \in 1 .. t.next - 1
           /\ \A j \in Items : t.blocks[j].index = t.blocks[i].index => j = i
<1>1. x.home[i] = {t.blocks[i].index}
  BY DEF Sync
<1>2. t.blocks[i].index \in 1 .. t.next - 1
  BY <1>1 DEF Sync, Numbered
<1>3. ASSUME NEW j \in Items, t.blocks[j].index = t.blocks[i].index, j # i PROVE FALSE
  <2>1. x.home[j] = x.home[i]
    BY <1>1, <1>3 DEF Sync
  <2>2. x.home[j] \cap x.home[i] = {}
    BY <1>3 DEF Sync, Numbered
  <2> QED
    BY <1>1, <2>1, <2>2
<1> QED
  BY <1>2, <1>3

\* stopAllBlocks leaves no block open.
LEMMA StopAll ==
    ASSUME NEW v, NEW x, NEW t, InStep(v, x, t), t.thinking = 0
    PROVE  LET s == Anthropic!stopAllBlocks(t) IN
           /\ s.mode = t.mode /\ s.started = t.started
           /\ \E y : InStep(v, y, s) /\ y.parts = x.parts /\ y.open = {}
<1> DEFINE s == Anthropic!stopAllBlocks(t)
           top == t.next - 1
           Has(n) == \E i \in Items : t.blocks[i].index = n
           Who(n) == CHOOSE i \in Items : t.blocks[i].index = n
<1>0. t \in Translator /\ Sync(x, t)
  BY DEF InStep
<1>1. t.next \in Nat \ {0} /\ top \in Nat
  BY <1>0 DEF Sync, Numbered
<1>2. PICK f : /\ f[0] = t /\ s = f[top]
               /\ \A n \in 1 .. top : f[n] = IF Has(n) THEN Anthropic!stopBlock(f[n - 1], Who(n)) ELSE f[n - 1]
  BY <1>1, StopFold
<1>3. \A n : Has(n) => Who(n) \in Items /\ t.blocks[Who(n)].index = n
  OBVIOUS
<1> HIDE DEF Has, Who, s, top
<1> DEFINE Past(n) == /\ f[n].thinking = 0 /\ f[n].mode = t.mode /\ f[n].started = t.started
                      /\ \A i \in Items : /\ f[n].blocks[i].index = t.blocks[i].index
                                          /\ t.blocks[i].index \in 1 .. n => f[n].blocks[i].stopped
                      /\ \E y : InStep(v, y, f[n]) /\ y.parts = x.parts
           S == {n \in Nat : Past(n)}
<1>4. 0 \in S
  <2>1. 1 .. 0 = {}
    OBVIOUS
  <2> QED
    BY <1>2, <2>1
<1>5. ASSUME NEW n \in 1 .. top, n - 1 \in S PROVE n \in S
  <2> DEFINE p == f[n - 1]
             q == f[n]
  <2>1. n \in Nat /\ n # 0 /\ \A k : k \in 1 .. n <=> k \in 1 .. n - 1 \/ k = n
    BY <1>1
  <2>2. /\ p.thinking = 0 /\ p.mode = t.mode /\ p.started = t.started
        /\ \A i \in Items : /\ p.blocks[i].index = t.blocks[i].index
                            /\ t.blocks[i].index \in 1 .. n - 1 => p.blocks[i].stopped
        /\ \E y : InStep(v, y, p) /\ y.parts = x.parts
    BY <1>5
  <2>3. PICK z : InStep(v, z, p) /\ z.parts = x.parts
    BY <2>2
  <2>4. q = IF Has(n) THEN Anthropic!stopBlock(p, Who(n)) ELSE p
    BY <1>2
  <2> HIDE DEF p, q
  <2>5. /\ q.thinking = 0 /\ q.mode = t.mode /\ q.started = t.started
        /\ \A i \in Items : /\ q.blocks[i].index = t.blocks[i].index
                            /\ t.blocks[i].index \in 1 .. n => q.blocks[i].stopped
        /\ \E y : InStep(v, y, q) /\ y.parts = x.parts
    <3>1. CASE ~Has(n)
      <4>1. q = p
        BY <2>4, <3>1
      <4>2. \A i \in Items : t.blocks[i].index # n
        BY <3>1 DEF Has
      <4> QED
        BY <2>1, <2>2, <4>1, <4>2
    <3>2. CASE Has(n)
      <4> DEFINE k == Who(n)
      <4>1. q = Anthropic!stopBlock(p, k) /\ k \in Items /\ t.blocks[k].index = n
        BY <1>3, <2>4, <3>2
      <4> HIDE DEF k
      <4>2. /\ Touched(p, q, k)
            /\ q.blocks[k].index = p.blocks[k].index
            /\ q.blocks[k].stopped <=> p.blocks[k].index # 0
            /\ \E y : InStep(v, y, q) /\ y.parts = z.parts
        BY <2>3, <4>1, StopStep
      <4>3. \A i \in Items : i # k => q.blocks[i] = p.blocks[i] /\ t.blocks[i].index # n
        <5>1. \A i \in Items : t.blocks[i].index = n => i = k
          BY <4>1, <2>1, <1>0, OneBlock
        <5> QED
          BY <5>1, <4>2 DEF Touched
      <4>4. q.thinking = 0 /\ q.mode = t.mode /\ q.started = t.started
        BY <2>2, <4>2 DEF Touched
      <4>5. ASSUME NEW i \in Items
            PROVE  /\ q.blocks[i].index = t.blocks[i].index
                   /\ t.blocks[i].index \in 1 .. n => q.blocks[i].stopped
        <5>1. CASE i = k
          BY <5>1, <4>1, <4>2, <2>1, <2>2
        <5>2. CASE i # k
          BY <5>2, <4>3, <2>1, <2>2
        <5> QED
          BY <5>1, <5>2
      <4> QED
        BY <2>3, <4>2, <4>4, <4>5
    <3> QED
      BY <3>1, <3>2
  <2> QED
    BY <2>1, <2>5 DEF q
<1> HIDE DEF S
<1>6. top \in S
  <2>1. 0 .. top \subseteq S
    BY <1>1, <1>4, <1>5, Induction
  <2> QED
    BY <2>1, <1>1
<1>7. /\ s.thinking = 0 /\ s.mode = t.mode /\ s.started = t.started
      /\ \A i \in Items : /\ s.blocks[i].index = t.blocks[i].index
                          /\ t.blocks[i].index \in 1 .. top => s.blocks[i].stopped
      /\ \E y : InStep(v, y, s) /\ y.parts = x.parts
  BY <1>2, <1>6 DEF S
<1>8. PICK y : InStep(v, y, s) /\ y.parts = x.parts
  BY <1>7
<1>9. \A i \in Items : s.blocks[i].index # 0 => s.blocks[i].stopped
  BY <1>0, <1>7, OneBlock DEF top
<1>10. y.open = {}
  <2>1. y.open \subseteq Nat /\ Sync(y, s)
    BY <1>8 DEF InStep, View
  <2>2. \A n \in Nat : n \notin y.open
    BY <2>1, <1>7, <1>9 DEF Sync
  <2> QED
    BY <2>1, <2>2
<1> QED
  BY <1>7, <1>8, <1>10 DEF s

\* A frame that ends a part of the message.
LEMMA PutMark ==
    ASSUME NEW v, NEW x, NEW t \in Translator, x \in View, Leads(v, t.out, x, TRUE),
           NEW f \in FrameType, f.item = 0, f.type \in MarkNames,
           x.end = "none", f.type # "error" => Quiet(x)
    PROVE  Marks(v, x, t, f)
<1> DEFINE s == Anthropic!Write(t, f)
           y == Shown(x, f)
<1>2. /\ s \in Translator /\ s.out = Append(t.out, f) /\ Kept(t, s) /\ s.next = t.next
      /\ s.finished = t.finished /\ s.failed = t.failed
  BY WriteIs
<1>3. Allowed(f, x)
  BY DEF Allowed, MarkNames, Quiet
<1>4. t.out \in Seq(FrameType)
  BY DEF Translator
<1>5. y \in View /\ Leads(v, Append(t.out, f), y, TRUE)
  BY <1>3, <1>4, PutFrame
<1>6. /\ y.begun /\ y.started = x.started /\ y.open = x.open /\ y.parts = x.parts /\ y.home = x.home
      /\ y.end = CASE f.type \in {"message_stop", "done"} \cup Finals -> "success"
                   [] f.type = "error" -> "error"
                   [] OTHER -> x.end
  <2>1. f.type \notin {"block_start", "tool_start", "block_stop"}
    BY DEF MarkNames
  <2> QED
    BY <2>1, ShownMark
<1>7. y.end = IF f.type = "message_stop" THEN "success" ELSE IF f.type = "error" THEN "error" ELSE "none"
  BY <1>6 DEF Finals, MarkNames
<1> QED
  BY <1>2, <1>5, <1>6, <1>7 DEF Kept, Marks

\* The frames that end a stream.
LEMMA MarkFrames ==
    /\ \E f \in FrameType : f = Anthropic!Mark("message_delta") /\ f.item = 0 /\ f.type = "message_delta"
    /\ \E f \in FrameType : f = Anthropic!Mark("message_stop") /\ f.item = 0 /\ f.type = "message_stop"
    /\ \E f \in FrameType : f = Anthropic!Mark("error") /\ f.item = 0 /\ f.type = "error"
<1>1. "message_delta" \in FrameNames /\ "message_stop" \in FrameNames /\ "error" \in FrameNames
  BY DEF FrameNames
<1> QED
  BY <1>1, MarkIs

\* finish: what is open is stopped, and the message ends as a success.
LEMMA FinishStep ==
    ASSUME NEW v, NEW x, NEW t, InStep(v, x, t)
    PROVE  LET s == Anthropic!finish(t) IN
           s.mode = t.mode /\ \E y : Ended(v, y, s, "success") /\ y.parts = x.parts
<1>f. PICK f \in FrameType : f = Anthropic!Mark("message_delta") /\ f.item = 0 /\ f.type = "message_delta"
  BY MarkFrames
<1>g. PICK g \in FrameType : g = Anthropic!Mark("message_stop") /\ g.item = 0 /\ g.type = "message_stop"
  BY MarkFrames
<1> DEFINE a == Anthropic!ensureStart(t)
           b == Anthropic!finalizeThinkingBlock(a, TRUE)
           c == Anthropic!stopAllBlocks(b)
           d == Anthropic!Write(c, f)
           e == Anthropic!Write(d, g)
           s == Anthropic!finish(t)
<1>1. s = [e EXCEPT !.finished = TRUE]
  BY <1>f, <1>g DEF Anthropic!finish, InStep, Sync
<1>2. PICK xa : InStep(v, xa, a) /\ xa.parts = x.parts /\ a.started /\ a.mode = t.mode
  BY StartStep DEF Kept
<1> HIDE DEF a, s
<1>3. PICK xb : InStep(v, xb, b) /\ xb.parts = x.parts /\ b.thinking = 0 /\ b.started = a.started /\ b.mode = t.mode
  <2>1. Rests(v, xa, a, b)
    BY <1>2, EndThought
  <2> QED
    BY <1>2, <2>1 DEF Rests
<1> HIDE DEF b
<1>4. PICK xc : InStep(v, xc, c) /\ xc.parts = x.parts /\ xc.open = {} /\ c.started = b.started /\ c.mode = t.mode
  BY <1>3, StopAll
<1> HIDE DEF c
<1>5. /\ c \in Translator /\ xc \in View /\ Leads(v, c.out, xc, TRUE) /\ xc.end = "none" /\ xc.begun
      /\ Numbered(xc, c.next) /\ ~c.finished /\ ~c.failed
  BY <1>2, <1>3, <1>4 DEF InStep, Sync
<1> DEFINE xd == Shown(xc, f)
           y == Shown(xd, g)
<1>6. /\ d \in Translator /\ xd \in View /\ Leads(v, d.out, xd, TRUE)
      /\ d.mode = c.mode /\ d.next = c.next /\ d.finished = c.finished /\ d.failed = c.failed
      /\ xd.begun /\ xd.started = xc.started /\ xd.open = {} /\ xd.parts = xc.parts /\ xd.home = xc.home
      /\ xd.end = "none"
  <2>1. f.type \in MarkNames
    BY <1>f DEF MarkNames
  <2>2. /\ c \in Translator /\ xc \in View /\ Leads(v, c.out, xc, TRUE)
        /\ f \in FrameType /\ f.item = 0 /\ f.type \in MarkNames
        /\ xc.end = "none" /\ (f.type # "error" => Quiet(xc))
    BY <2>1, <1>f, <1>4, <1>5 DEF Quiet
  <2>3. Marks(v, xc, c, f)
    BY <2>2, PutMark
  <2> QED
    BY <2>2, <2>3, <1>f, <1>4, <1>5 DEF Marks, Quiet
<1> HIDE DEF d, xd
<1>7. /\ e \in Translator /\ y \in View /\ Leads(v, e.out, y, TRUE)
      /\ e.mode = d.mode /\ e.next = d.next /\ e.finished = d.finished /\ e.failed = d.failed
      /\ y.started = xd.started /\ y.parts = xd.parts /\ y.home = xd.home
      /\ y.end = "success"
  <2>1. g.type \in MarkNames
    BY <1>g DEF MarkNames
  <2>2. /\ d \in Translator /\ xd \in View /\ Leads(v, d.out, xd, TRUE)
        /\ g \in FrameType /\ g.item = 0 /\ g.type \in MarkNames
        /\ xd.end = "none" /\ (g.type # "error" => Quiet(xd))
    BY <2>1, <1>g, <1>6 DEF Quiet
  <2>3. Marks(v, xd, d, g)
    BY <2>2, PutMark
  <2> QED
    BY <2>2, <2>3, <1>g, <1>6 DEF Marks, Quiet
<1> HIDE DEF e, y
<1>8. s \in Translator /\ s.out = e.out /\ s.mode = e.mode /\ s.next = e.next
  BY <1>1, <1>7 DEF Translator
<1>9. s.finished = TRUE /\ s.failed = e.failed
  BY <1>1, <1>7 DEF Translator
<1>10. Numbered(y, s.next)
  BY <1>5, <1>6, <1>7, <1>8, NumberedSame
<1>11. Ended(v, y, s, "success")
  BY <1>5, <1>6, <1>7, <1>8, <1>9, <1>10 DEF Ended
<1> QED
  BY <1>4, <1>6, <1>7, <1>8, <1>11 DEF s

\* fail: what is open is stopped, and the message ends with an error.
LEMMA FailStep ==
    ASSUME NEW v, NEW x, NEW t, InStep(v, x, t)
    PROVE  LET s == Anthropic!fail(t) IN
           s.mode = t.mode /\ \E y : Ended(v, y, s, "error") /\ y.parts = x.parts
<1>f. PICK f \in FrameType : f = Anthropic!Mark("error") /\ f.item = 0 /\ f.type = "error"
  BY MarkFrames
<1> DEFINE b == Anthropic!finalizeThinkingBlock(t, TRUE)
           c == Anthropic!stopAllBlocks(b)
           e == Anthropic!Write(c, f)
           s == Anthropic!fail(t)
<1>1. s = [e EXCEPT !.failed = TRUE, !.finished = TRUE]
  BY <1>f DEF Anthropic!fail, InStep, Sync
<1>2. PICK xb : InStep(v, xb, b) /\ xb.parts = x.parts /\ b.thinking = 0 /\ b.mode = t.mode
  <2>1. Rests(v, x, t, b)
    BY EndThought
  <2> QED
    BY <2>1 DEF Rests
<1> HIDE DEF b, s
<1>3. PICK xc : InStep(v, xc, c) /\ xc.parts = x.parts /\ c.mode = t.mode
  BY <1>2, StopAll
<1> HIDE DEF c
<1>4. /\ c \in Translator /\ xc \in View /\ Leads(v, c.out, xc, TRUE) /\ xc.end = "none"
      /\ Numbered(xc, c.next)
  BY <1>3 DEF InStep, Sync
<1> DEFINE y == Shown(xc, f)
<1>5. /\ e \in Translator /\ y \in View /\ Leads(v, e.out, y, TRUE)
      /\ e.mode = c.mode /\ e.next = c.next
      /\ y.started = xc.started /\ y.parts = xc.parts /\ y.home = xc.home
      /\ y.end = "error"
  <2>1. f.type \in MarkNames
    BY <1>f DEF MarkNames
  <2>2. /\ c \in Translator /\ xc \in View /\ Leads(v, c.out, xc, TRUE)
        /\ f \in FrameType /\ f.item = 0 /\ f.type \in MarkNames
        /\ xc.end = "none" /\ (f.type # "error" => Quiet(xc))
    BY <2>1, <1>f, <1>4 DEF Quiet
  <2>3. Marks(v, xc, c, f)
    BY <2>2, PutMark
  <2> QED
    BY <2>2, <2>3, <1>f, <1>4 DEF Marks, Quiet
<1> HIDE DEF e, y
<1>6. s \in Translator /\ s.out = e.out /\ s.mode = e.mode /\ s.next = e.next
  BY <1>1, <1>5 DEF Translator
<1>7. s.finished = TRUE /\ s.failed = TRUE
  BY <1>1, <1>5 DEF Translator
<1>8. Numbered(y, s.next)
  BY <1>4, <1>5, <1>6, NumberedSame
<1>9. Ended(v, y, s, "error")
  BY <1>5, <1>6, <1>7, <1>8 DEF Ended
<1> QED
  BY <1>3, <1>5, <1>6, <1>9 DEF s

\* A block that has been opened and has its content is stopped.
LEMMA StopComplete ==
    ASSUME NEW v, NEW x, NEW t, NEW i \in Items, NEW u, Touched(t, u, i), u.blocks[i].index # 0,
           u.blocks[i].emitted <=> t.blocks[i].emitted \/ ~t.blocks[i].stopped,
           NEW z, InStep(v, z, u),
           z.parts = IF t.blocks[i].emitted \/ t.blocks[i].stopped THEN x.parts
                     ELSE Plus(x.parts, i, "whole")
    PROVE  Completes(v, x, t, Anthropic!stopBlock(u, i), i)
<1> DEFINE s == Anthropic!stopBlock(u, i)
<1>1. /\ Touched(u, s, i) /\ s.blocks[i].index = u.blocks[i].index
      /\ s.blocks[i].emitted = u.blocks[i].emitted /\ s.blocks[i].stopped
      /\ \E y : InStep(v, y, s) /\ y.parts = z.parts
  BY StopStep
<1> HIDE DEF s
<1>2. Touched(t, s, i)
  BY <1>1 DEF Touched
<1>3. Completes(v, x, t, s, i)
  BY <1>1, <1>2 DEF Completes
<1> QED
  BY <1>3 DEF s

\* completeTool: the arguments, unless deltas have brought them, and the stop.
LEMMA ToolComplete ==
    ASSUME NEW v, NEW x, NEW t, InStep(v, x, t), t.started, t.thinking = 0, NEW i \in Items,
           i \notin t.completed
    PROVE  Completes(v, x, t, Anthropic!completeTool(t, i), i)
<1> DEFINE u == Anthropic!ensureBlock(t, i, "tool")
           d == Anthropic!blockDelta(u, i, "tool", "whole")
<1>1. "tool" \in {"message", "tool"} /\ "whole" \in Content
  BY DEF Content
<1>2. /\ Touched(t, u, i) /\ u.blocks[i].index # 0
      /\ u.blocks[i].emitted = t.blocks[i].emitted /\ u.blocks[i].stopped = t.blocks[i].stopped
      /\ \E y : InStep(v, y, u) /\ y.parts = x.parts
  BY <1>1, OpenStep
<1>3. Anthropic!completeTool(t, i) = Anthropic!stopBlock(IF u.blocks[i].emitted THEN u ELSE d, i)
  BY DEF Anthropic!completeTool
<1> HIDE DEF u
<1>4. PICK z : InStep(v, z, u) /\ z.parts = x.parts
  BY <1>2
<1>5. CASE u.blocks[i].emitted
  <2>1. Completes(v, x, t, Anthropic!stopBlock(u, i), i)
    BY <1>2, <1>4, <1>5, StopComplete
  <2> QED
    BY <1>3, <1>5, <2>1
<1>6. CASE ~u.blocks[i].emitted
  <2>1. u.started /\ u.thinking = 0 /\ i \notin u.completed
    BY <1>2 DEF Touched
  <2>2. /\ Touched(u, d, i) /\ d.blocks[i].index # 0
        /\ d.blocks[i].emitted <=> u.blocks[i].emitted \/ ~u.blocks[i].stopped
        /\ \E y : /\ InStep(v, y, d)
                  /\ y.parts = IF u.blocks[i].stopped THEN z.parts ELSE Plus(z.parts, i, "whole")
    BY <1>1, <1>4, <2>1, DeltaStep
  <2> HIDE DEF d
  <2>3. PICK y : /\ InStep(v, y, d)
                 /\ y.parts = IF u.blocks[i].stopped THEN z.parts ELSE Plus(z.parts, i, "whole")
    BY <2>2
  <2>4. Touched(t, d, i)
    BY <1>2, <2>2 DEF Touched
  <2>5. /\ d.blocks[i].emitted <=> t.blocks[i].emitted \/ ~t.blocks[i].stopped
        /\ y.parts = IF t.blocks[i].emitted \/ t.blocks[i].stopped THEN x.parts
                     ELSE Plus(x.parts, i, "whole")
    BY <1>2, <1>4, <1>6, <2>2, <2>3
  <2>6. Completes(v, x, t, Anthropic!stopBlock(d, i), i)
    BY <2>2, <2>3, <2>4, <2>5, StopComplete
  <2> QED
    BY <1>3, <1>6, <2>6
<1> QED
  BY <1>5, <1>6

\* completeText: the text, unless deltas have brought it, and the stop.
LEMMA TextComplete ==
    ASSUME NEW v, NEW x, NEW t, InStep(v, x, t), t.started, t.thinking = 0, NEW i \in Items,
           i \notin t.completed
    PROVE  Completes(v, x, t, Anthropic!completeText(t, i), i)
<1> DEFINE d == Anthropic!blockDelta(t, i, "message", "whole")
<1>1. "message" \in {"message", "tool"} /\ "whole" \in Content
  BY DEF Content
<1>2. t.blocks[i].emitted => t.blocks[i].index # 0
  BY DEF InStep, Sync
<1>3. Anthropic!completeText(t, i) = Anthropic!stopBlock(IF t.blocks[i].emitted THEN t ELSE d, i)
  BY <1>2 DEF Anthropic!completeText
<1>4. CASE t.blocks[i].emitted
  <2>1. Touched(t, t, i)
    BY DEF Touched
  <2>2. Completes(v, x, t, Anthropic!stopBlock(t, i), i)
    BY <1>2, <1>4, <2>1, StopComplete
  <2> QED
    BY <1>3, <1>4, <2>2
<1>5. CASE ~t.blocks[i].emitted
  <2>1. /\ Touched(t, d, i) /\ d.blocks[i].index # 0
        /\ d.blocks[i].emitted <=> t.blocks[i].emitted \/ ~t.blocks[i].stopped
        /\ \E y : /\ InStep(v, y, d)
                  /\ y.parts = IF t.blocks[i].stopped THEN x.parts ELSE Plus(x.parts, i, "whole")
    BY <1>1, DeltaStep
  <2> HIDE DEF d
  <2>2. PICK y : /\ InStep(v, y, d)
                 /\ y.parts = IF t.blocks[i].stopped THEN x.parts ELSE Plus(x.parts, i, "whole")
    BY <2>1
  <2>3. Completes(v, x, t, Anthropic!stopBlock(d, i), i)
    BY <1>5, <2>1, <2>2, StopComplete
  <2> QED
    BY <1>3, <1>5, <2>3
<1> QED
  BY <1>4, <1>5

-----------------------------------------------------------------------------
(* Reasoning: summary parts and complete items.                            *)

\* captureThinkingSignature and the assignments of currentReasoning: outside a
\* thinking block of another item, the item to come may be noted at any time.
LEMMA AimStep ==
    ASSUME NEW v, NEW x, NEW t, InStep(v, x, t), NEW i \in Items, t.thinking = 0 \/ t.current = i, NEW b \in BOOLEAN,
           NEW s, s = [t EXCEPT !.current = i, !.signature = b]
    PROVE  Aims(v, x, t, s, i) /\ s.signature = b
<1>0. t \in Translator /\ v \in View /\ x \in View /\ Leads(v, t.out, x, TRUE) /\ Sync(x, t)
  BY DEF InStep
<1>1. i \in 0 .. NItems
  BY ItemsFinite DEF Items
<1>2. /\ s \in Translator /\ s.current = i /\ s.thinking = t.thinking /\ s.mode = t.mode
      /\ s.blocks = t.blocks /\ s.completed = t.completed /\ s.next = t.next /\ s.out = t.out
  BY <1>0, <1>1 DEF Translator
<1>3. s.started = t.started /\ s.finished = t.finished /\ s.failed = t.failed /\ s.signature = b
  BY <1>0 DEF Translator
<1>4. \A j \in Items : Opened(s, j) <=> Opened(t, j)
  BY <1>2 DEF Opened, Thinks
<1>5. Sync(x, s)
  BY <1>0, <1>2, <1>3, <1>4 DEF Sync
<1> QED
  BY <1>0, <1>2, <1>3, <1>5 DEF InStep, Aims

\* The same, for the item alone.
LEMMA AimOnly ==
    ASSUME NEW v, NEW x, NEW t, InStep(v, x, t), NEW i \in Items, t.thinking = 0 \/ t.current = i,
           NEW s, s = [t EXCEPT !.current = i]
    PROVE  Aims(v, x, t, s, i)
<1>1. t \in Translator /\ t.signature \in BOOLEAN
  BY DEF InStep, Translator
<1>2. s = [t EXCEPT !.current = i, !.signature = t.signature]
  BY <1>1 DEF Translator
<1> QED
  BY <1>1, <1>2, AimStep

\* startThinkingPart, when no thinking block is open.
LEMMA PartStep ==
    ASSUME NEW v, NEW x, NEW t, InStep(v, x, t), t.started, t.thinking = 0, NEW i \in Items,
           ~Opened(t, i)
    PROVE  LET s == Anthropic!startThinkingPart(t, i) IN
           /\ s.started /\ s.mode = t.mode /\ s.blocks = t.blocks /\ s.completed = t.completed
           /\ IF t.mode = "off" THEN s.thinking = 0 ELSE s.thinking # 0 /\ s.current = i
           /\ \E y : InStep(v, y, s) /\ y.parts = x.parts
<1> DEFINE u == [t EXCEPT !.current = i]
           s == Anthropic!startThinkingPart(t, i)
<1>1. CASE t.mode = "off"
  <2>1. s = t
    BY <1>1 DEF Anthropic!startThinkingPart
  <2> QED
    BY <1>1, <2>1
<1>2. CASE t.mode # "off"
  <2>1. s = Anthropic!ensureThinkingBlock(u)
    BY <1>2 DEF Anthropic!startThinkingPart
  <2>2. Aims(v, x, t, u, i)
    <3>1. u = [t EXCEPT !.current = i]
      OBVIOUS
    <3> HIDE DEF u
    <3> QED
      BY <3>1, AimOnly
  <2> HIDE DEF u, s
  <2>3. InStep(v, x, u) /\ u.started /\ u.mode # "off" /\ u.thinking = 0 /\ u.current \in Items /\ u.current = i
    BY <1>2, <2>2 DEF Aims
  <2>4. ~Opened(u, u.current)
    BY <2>2 DEF Aims, Opened, Thinks
  <2>5. Thinking(v, x, u, s)
    BY <2>1, <2>3, <2>4, ThinkStep
  <2> QED
    BY <1>2, <2>2, <2>5 DEF Aims, Thinking, s
<1> QED
  BY <1>1, <1>2

\* thinkingDelta, of the item whose block is open.
LEMMA ThoughtDelta ==
    ASSUME NEW v, NEW x, NEW t, InStep(v, x, t), t.thinking # 0, NEW p \in Content
    PROVE  LET s == Anthropic!thinkingDelta(t, t.current, p) IN
           /\ Kept(t, s) /\ s.started
           /\ \E y : /\ InStep(v, y, s)
                     /\ y.parts = IF t.mode = "summarized" THEN Plus(x.parts, t.current, p)
                                  ELSE x.parts
<1> DEFINE s == Anthropic!thinkingDelta(t, t.current, p)
<1>1. CASE t.mode # "summarized"
  <2>1. s = t
    BY <1>1 DEF Anthropic!thinkingDelta
  <2>2. t.started
    BY DEF InStep, Sync
  <2> QED
    BY <1>1, <2>1, <2>2 DEF Kept
<1>2. CASE t.mode = "summarized"
  <2>1. s = Anthropic!Write(t, Anthropic!Frame("block_delta", t.thinking, t.current, p))
    BY <1>2 DEF Anthropic!thinkingDelta, Anthropic!ensureThinkingBlock
  <2>2. p \in DeltaParts
    BY DEF DeltaParts
  <2> HIDE DEF s
  <2>3. /\ Kept(t, s) /\ s.started
        /\ \E y : InStep(v, y, s) /\ y.parts = IF p \in Content THEN Plus(x.parts, t.current, p) ELSE x.parts
    BY <2>1, <2>2, ThoughtStep
  <2> QED
    BY <1>2, <2>3 DEF s
<1> QED
  BY <1>1, <1>2

\* emitFinalReasoningItem: an item that was not shown is, from its complete form.
LEMMA FinalThought ==
    ASSUME NEW v, NEW x, NEW t, InStep(v, x, t), t.started, t.thinking = 0, NEW i \in Items,
           t.blocks[i].index = 0
    PROVE  Recalls(v, x, t, Anthropic!emitFinalReasoningItem(t, i, TRUE), i)
<1> DEFINE u == [t EXCEPT !.current = i, !.signature = TRUE]
           a == Anthropic!ensureThinkingBlock(u)
           d == Anthropic!thinkingDelta(a, i, "whole")
           e == Anthropic!finalizeThinkingBlock(d, TRUE)
           s == Anthropic!emitFinalReasoningItem(t, i, TRUE)
<1>1. CASE t.mode = "off" \/ i \in t.completed
  <2>1. s = t
    BY <1>1 DEF Anthropic!emitFinalReasoningItem
  <2>2. s.completed = t.completed \cup (IF t.mode = "off" THEN {} ELSE {i})
    BY <1>1, <2>1
  <2> HIDE DEF s
  <2> QED
    BY <1>1, <2>1, <2>2 DEF Recalls, s
<1>2. CASE t.mode # "off" /\ i \notin t.completed
  <2>1. Aims(v, x, t, u, i) /\ u.signature = TRUE
    <3>1. u = [t EXCEPT !.current = i, !.signature = TRUE]
      OBVIOUS
    <3> HIDE DEF u
    <3> QED
      BY <3>1, AimStep
  <2>2. s = e
    <3>1. u = [t EXCEPT !.current = i, !.signature = @ \/ TRUE]
      OBVIOUS
    <3> QED
      BY <1>2, <2>1, <3>1 DEF Anthropic!emitFinalReasoningItem
  <2> HIDE DEF u, s
  <2>3. InStep(v, x, u) /\ u.started /\ u.mode # "off" /\ u.thinking = 0 /\ u.current \in Items /\ u.current = i
    BY <1>2, <2>1 DEF Aims
  <2>4. ~Opened(u, u.current)
    BY <1>2, <2>1 DEF Aims, Opened, Thinks
  <2>5. PICK xa : /\ InStep(v, xa, a) /\ xa.parts = x.parts
                  /\ a.thinking # 0 /\ a.mode = t.mode /\ a.blocks = t.blocks
                  /\ a.completed = t.completed /\ a.current = i
    <3>1. Thinking(v, x, u, a)
      BY <2>3, <2>4, ThinkStep
    <3> QED
      BY <2>1, <3>1 DEF Aims, Thinking
  <2> HIDE DEF a
  <2>6. "whole" \in Content
    BY DEF Content
  <2>8. /\ Kept(a, d) /\ d.started
        /\ \E y : /\ InStep(v, y, d)
                  /\ y.parts = IF a.mode = "summarized" THEN Plus(xa.parts, i, "whole") ELSE xa.parts
    BY <2>5, <2>6, ThoughtDelta
  <2> HIDE DEF d
  <2>9. PICK xd : /\ InStep(v, xd, d)
                  /\ xd.parts = IF a.mode = "summarized" THEN Plus(xa.parts, i, "whole") ELSE xa.parts
    BY <2>8
  <2>10. Rests(v, xd, d, e)
    BY <2>9, EndThought
  <2> HIDE DEF e
  <2>11. d.mode = t.mode /\ d.blocks = t.blocks /\ d.completed = t.completed /\ d.thinking # 0 /\ d.current = i
    BY <2>5, <2>8 DEF Kept
  <2>12. e.completed = t.completed \cup (IF t.mode = "off" THEN {} ELSE {i})
    BY <1>2, <2>10, <2>11 DEF Rests
  <2>13. \E y : /\ InStep(v, y, e)
                /\ y.parts = IF t.mode = "summarized" /\ i \notin t.completed
                             THEN Plus(x.parts, i, "whole") ELSE x.parts
    BY <1>2, <2>5, <2>9, <2>10 DEF Rests
  <2>14. e.started /\ e.mode = t.mode /\ e.blocks = t.blocks /\ e.thinking = 0
    BY <2>8, <2>10, <2>11 DEF Rests
  <2> QED
    BY <2>2, <2>12, <2>13, <2>14 DEF Recalls, s
<1> QED
  BY <1>1, <1>2

-----------------------------------------------------------------------------
(* What the provider sends, and what that means for an item.               *)

\* Deltas are counted by the pieces.
LEMMA PiecesMore ==
    ASSUME NEW n \in Nat
    PROVE  Append(Pieces(n), "piece") = Pieces(n + 1) /\ Pieces(0) = <<>> /\ Pieces(n) \in Seq(Content)
<1>1. Pieces(n) \in Seq({"piece"}) /\ Len(Pieces(n)) = n /\ \A k \in 1 .. n : Pieces(n)[k] = "piece"
  BY DEF Pieces
<1>2. Append(Pieces(n), "piece") = [k \in 1 .. n + 1 |-> "piece"]
  <2> DEFINE a == Append(Pieces(n), "piece")
             b == [k \in 1 .. n + 1 |-> "piece"]
  <2>1. a \in Seq({"piece"}) /\ Len(a) = n + 1
    BY <1>1, AppendProperties
  <2>2. b \in Seq({"piece"}) /\ Len(b) = n + 1
    OBVIOUS
  <2>3. \A k \in 1 .. n + 1 : a[k] = "piece" /\ b[k] = "piece"
    BY <2>1
  <2> HIDE DEF a, b
  <2>4. a = b
    BY <2>1, <2>2, <2>3, SeqEqual
  <2> QED
    BY <2>4 DEF a, b
<1>3. Pieces(0) = <<>>
  BY DEF Pieces
<1> QED
  BY <1>1, <1>2, <1>3 DEF Pieces, Content

\* More of an item: the other parts stay.
LEMMA PlusIs ==
    ASSUME NEW x \in View, NEW i \in Items, NEW p \in Content
    PROVE  /\ Plus(x.parts, i, p)[i] = Append(x.parts[i], p)
           /\ \A j \in Items : j # i => Plus(x.parts, i, p)[j] = x.parts[j]
  BY DEF Plus, View

\* Sent, for an event of an item.
LEMMA SentIs ==
    ASSUME up \in UpType, NEW i \in Items, NEW full \in BOOLEAN, NEW type \in DOMAIN Stage
    PROVE  Advances(up, Sent(Ev(type, i, full, FALSE)), i, Stage[type], up.full[i] \/ full,
                    IF type \in {"text_delta", "reasoning_delta", "args_delta"}
                    THEN up.sent[i] + 1 ELSE up.sent[i])
<1> DEFINE ev == Ev(type, i, full, FALSE)
           n == IF type \in {"text_delta", "reasoning_delta", "args_delta"}
                THEN up.sent[i] + 1 ELSE up.sent[i]
           at == [up.at EXCEPT ![i] = Stage[type]]
           fl == [up.full EXCEPT ![i] = @ \/ full]
           sn == [up.sent EXCEPT ![i] = n]
<1>1. ev.item = i /\ ev.type = type /\ ev.full = full /\ i # 0
  BY DEF Ev, Items
<1>2. up.at \in [Items -> 0 .. 4] /\ up.full \in [Items -> BOOLEAN] /\ up.sent \in [Items -> Nat]
  BY DEF UpType
<1>3. Stage[type] \in 0 .. 4
  BY DEF Stage
<1>4. n \in Nat /\ n = up.sent[i] + (IF type \in {"text_delta", "reasoning_delta", "args_delta"} THEN 1 ELSE 0)
  BY <1>2
<1>5. Sent(ev) = [up EXCEPT !.at = at, !.full = fl, !.sent = sn]
  BY <1>1, <1>2, <1>4 DEF Sent
<1> HIDE DEF n
<1>6. at \in [Items -> 0 .. 4] /\ fl \in [Items -> BOOLEAN] /\ sn \in [Items -> Nat]
      /\ at[i] = Stage[type] /\ fl[i] = (up.full[i] \/ full) /\ sn[i] = n
      /\ \A j \in Items : j # i => at[j] = up.at[j] /\ fl[j] = up.full[j] /\ sn[j] = up.sent[j]
  BY <1>2, <1>3, <1>4
<1> HIDE DEF at, fl, sn, ev
<1> DEFINE w == Sent(ev)
<1>7. /\ w \in UpType /\ w.at = at /\ w.full = fl /\ w.sent = sn
      /\ w.end = up.end /\ w.created = up.created /\ w.output = up.output
  BY <1>5, <1>6 DEF UpType
<1> HIDE DEF w
<1>8. Advances(up, w, i, Stage[type], up.full[i] \/ full, n)
  BY <1>6, <1>7 DEF Advances
<1> QED
  BY <1>8 DEF w, ev, n

\* The parts of an item are what ContentOnce allows.
LEMMA ItemParts ==
    ASSUME NEW x, NEW t, NEW u \in UpType, NEW plan, NEW i \in Items, ItemSync(x, t, u, plan, i)
    PROVE  x.parts[i] \in {Pieces(n) : n \in 0 .. u.sent[i]} \cup {<<"whole">>}
<1>1. u.sent[i] \in Nat /\ Pieces(0) = <<>>
  BY PiecesMore DEF UpType
<1>2. x.parts[i] \in {Pieces(0), Pieces(u.sent[i]), <<"whole">>}
  BY <1>1 DEF ItemSync, ThoughtSync, ContentSync
<1> QED
  BY <1>1, <1>2

\* The first part of ContentOnce from what is known of a running translator.
LEMMA ShapedRunning ==
    ASSUME NEW x, NEW next, Numbered(x, next), NEW t, NEW u \in UpType, NEW plan,
           \A i \in Items : ItemSync(x, t, u, plan, i)
    PROVE  Shaped(x, u)
  BY ItemParts DEF Shaped, Numbered

\* A translator that goes on satisfies the invariant.
LEMMA Going ==
    ASSUME NEW v, NEW x, NEW t, NEW u, NEW r, Live(v, x, t, u, r)
    PROVE  AnthropicOK(x, t, u, r)
<1>1. Sync(x, t) /\ Numbered(x, t.next) /\ ~t.finished /\ x \in View /\ u \in UpType /\ u.end = "open"
      /\ t.mode = r.mode /\ Phase(x, t, u, r.plan)
  BY DEF Live, InStep, Sync
<1>2. t.next \in 1 .. NItems + 1
  BY <1>1, NumberedBound
<1>3. Shaped(x, u)
  BY <1>1, ShapedRunning DEF Phase
<1>4. u.end \notin Finals
  BY <1>1 DEF Finals
<1> QED
  BY <1>1, <1>2, <1>3, <1>4 DEF AnthropicOK

\* An event of item i leaves what is known of the others.
LEMMA OthersSync ==
    ASSUME NEW x, NEW t, NEW u, NEW plan, NEW y, NEW s, NEW w, NEW i \in Items,
           NEW at, NEW full, NEW n, Advances(u, w, i, at, full, n), s.mode = t.mode,
           NEW j \in Items, j # i, ItemSync(x, t, u, plan, j), Apart(x, t, y, s, j)
    PROVE  ItemSync(y, s, w, plan, j)
  BY DEF Advances, Apart, ItemSync, ThoughtSync, ContentSync

\* An event of item i is dealt with when what is known of i holds again.
LEMMA NextLive ==
    ASSUME NEW v, NEW x, NEW t, NEW u, NEW r, Live(v, x, t, u, r), NEW y, NEW s, NEW w,
           NEW i \in Items, NEW at, NEW full, NEW n, Advances(u, w, i, at, full, n),
           InStep(v, y, s), s.mode = t.mode, s.started, ThinkPhase(s, w, r.plan),
           \A j \in Items : j # i => Apart(x, t, y, s, j), ItemSync(y, s, w, r.plan, i)
    PROVE  Live(v, y, s, w, r)
<1>1. \A j \in Items : ItemSync(x, t, u, r.plan, j)
  BY DEF Live, Phase
<1>2. \A j \in Items : ItemSync(y, s, w, r.plan, j)
  BY <1>1, OthersSync
<1>3. Phase(y, s, w, r.plan)
  BY <1>2 DEF Phase
<1>4. w \in UpType /\ w.end = "open"
  BY DEF Advances, Live
<1> QED
  BY <1>3, <1>4 DEF Live

\* Items come one after the other: while a thinking block is open, only events of
\* its item arrive.
LEMMA OneThought ==
    ASSUME NEW v, NEW x, NEW t, Live(v, x, t, up, req), NEW i \in Items, MayRun(i)
    PROVE  t.thinking # 0 => t.current = i /\ req.plan[i] = "reasoning" /\ up.at[i] \in {2, 3}
<1> SUFFICES ASSUME t.thinking # 0
             PROVE  t.current = i /\ req.plan[i] = "reasoning" /\ up.at[i] \in {2, 3}
  OBVIOUS
<1> DEFINE c == t.current
<1>1. c \in Items /\ req.plan[c] = "reasoning" /\ up.at[c] \in {2, 3}
  BY DEF Live, InStep, Sync, Phase, ThinkPhase
<1> HIDE DEF c
<1>2. i \in Nat /\ c \in Nat
  BY <1>1, ItemsFinite DEF Items
<1>3. {req.plan[i], req.plan[c]} # {"tool"}
  BY <1>1
<1>4. CASE c < i
  BY <1>1, <1>3, <1>4 DEF MayRun
<1>5. CASE c > i
  BY <1>1, <1>3, <1>5 DEF MayRun
<1> QED
  BY <1>1, <1>2, <1>4, <1>5 DEF c

-----------------------------------------------------------------------------
(* The events of an item.                                                  *)

\* ensureStart, before any event.
LEMMA StartLive ==
    ASSUME NEW v, NEW x, NEW t, NEW u, NEW r, Live(v, x, t, u, r)
    PROVE  \E y : Live(v, y, Anthropic!ensureStart(t), u, r) /\ Anthropic!ensureStart(t).started
<1> DEFINE s == Anthropic!ensureStart(t)
<1>1. InStep(v, x, t)
  BY DEF Live
<1>2. s.started /\ Kept(t, s) /\ \E y : InStep(v, y, s) /\ y.parts = x.parts /\ y.home = x.home
  BY <1>1, StartStep
<1> HIDE DEF s
<1>3. PICK y : InStep(v, y, s) /\ y.parts = x.parts
  BY <1>2
<1>4. \A i \in Items : ItemSync(x, t, u, r.plan, i) => ItemSync(y, s, u, r.plan, i)
  BY <1>2, <1>3 DEF Kept, ItemSync, ThoughtSync, ContentSync, Thinks
<1>5. Phase(y, s, u, r.plan)
  BY <1>2, <1>4 DEF Live, Phase, ThinkPhase, Kept
<1>6. Live(v, y, s, u, r)
  BY <1>2, <1>3, <1>5 DEF Live, Kept
<1> QED
  BY <1>2, <1>6 DEF s

\* A block of item i was touched, and no other item.
LEMMA TouchedApart ==
    ASSUME NEW x \in View, NEW y, NEW t, NEW s, NEW i \in Items, Touched(t, s, i), NEW p \in Content,
           y.parts = x.parts \/ y.parts = Plus(x.parts, i, p)
    PROVE  \A j \in Items : j # i => Apart(x, t, y, s, j)
<1>1. \A j \in Items : j # i => y.parts[j] = x.parts[j]
  BY PlusIs
<1> QED
  BY <1>1 DEF Touched, Apart, Thinks

\* response.output_text.delta, response.function_call_arguments.delta.
LEMMA DeltaEvent ==
    ASSUME NEW v, NEW x, NEW t, Live(v, x, t, up, req), t.started, NEW i \in Items, MayRun(i),
           NEW kind \in {"message", "tool"}, req.plan[i] = kind, up.at[i] <= 2, ~up.full[i],
           NEW w, Advances(up, w, i, 2, up.full[i], up.sent[i] + 1)
    PROVE  \E y : Live(v, y, Anthropic!blockDelta(t, i, kind, "piece"), w, req)
<1> DEFINE s == Anthropic!blockDelta(t, i, kind, "piece")
<1>1. InStep(v, x, t) /\ ContentSync(x, t, up, i) /\ x \in View /\ req.plan[i] # "reasoning"
      /\ up.sent[i] \in Nat /\ up.at[i] \in 0 .. 4
  BY DEF Live, Phase, ItemSync, InStep, UpType
<1>2. t.thinking = 0
  BY <1>1, OneThought
<1>3. i \notin t.completed /\ ~t.blocks[i].stopped
  BY <1>1 DEF ContentSync
<1>4. "piece" \in Content
  BY DEF Content
<1>5. /\ Touched(t, s, i) /\ s.blocks[i].index # 0
      /\ s.blocks[i].emitted <=> t.blocks[i].emitted \/ ~t.blocks[i].stopped
      /\ s.blocks[i].stopped <=> t.blocks[i].stopped
      /\ \E y : /\ InStep(v, y, s)
                /\ y.parts = IF t.blocks[i].stopped THEN x.parts ELSE Plus(x.parts, i, "piece")
  BY <1>1, <1>2, <1>3, <1>4, DeltaStep
<1> HIDE DEF s
<1>6. PICK y : InStep(v, y, s) /\ y.parts = Plus(x.parts, i, "piece")
  BY <1>3, <1>5
<1>7. y.parts[i] = Append(x.parts[i], "piece")
  BY <1>1, <1>4, <1>6, PlusIs
<1>8. x.parts[i] = Pieces(up.sent[i])
  <2>1. CASE up.sent[i] > 0
    BY <1>1, <2>1 DEF ContentSync
  <2>2. CASE up.sent[i] = 0
    <3>1. ~t.blocks[i].emitted
      BY <1>1, <2>2 DEF ContentSync
    <3>2. x.parts[i] = <<>>
      BY <1>1, <2>2, <3>1 DEF ContentSync
    <3>3. Pieces(0) = <<>>
      BY PiecesMore
    <3> QED
      BY <2>2, <3>2, <3>3
  <2> QED
    BY <1>1, <2>1, <2>2
<1>9. y.parts[i] = Pieces(up.sent[i] + 1)
  BY <1>1, <1>7, <1>8, PiecesMore
<1>10. w.at[i] = 2 /\ w.sent[i] = up.sent[i] + 1 /\ w.full[i] = up.full[i]
  BY DEF Advances
<1>11. ItemSync(y, s, w, req.plan, i)
  <2>1. i \notin s.completed
    BY <1>3, <1>5 DEF Touched
  <2>2. w.sent[i] > 0
    BY <1>1, <1>10
  <2>3. ContentSync(y, s, w, i)
    BY <2>1, <2>2, <1>3, <1>5, <1>9, <1>10 DEF ContentSync
  <2> QED
    BY <2>3, <1>1, <1>10 DEF ItemSync
<1>12. \A j \in Items : j # i => Apart(x, t, y, s, j)
  BY <1>1, <1>4, <1>5, <1>6, TouchedApart
<1>13. s.mode = t.mode /\ s.started /\ ThinkPhase(s, w, req.plan)
  BY <1>2, <1>5 DEF Touched, ThinkPhase
<1>14. Live(v, y, s, w, req)
  BY <1>6, <1>11, <1>12, <1>13, NextLive
<1> QED
  BY <1>14 DEF s

\* response.function_call_arguments.done, and response.output_item.done of a text
\* or a tool call.
LEMMA DoneEvent ==
    ASSUME NEW v, NEW x, NEW t, Live(v, x, t, up, req), t.started, t.thinking = 0,
           NEW i \in Items, req.plan[i] # "reasoning",
           NEW s, Completes(v, x, t, s, i), NEW at \in {3, 4},
           NEW w, Advances(up, w, i, at, up.full[i], up.sent[i])
    PROVE  \E y : Live(v, y, s, w, req)
<1>1. ContentSync(x, t, up, i) /\ x \in View /\ up.sent[i] \in Nat /\ up.at[i] \in 0 .. 4
  BY DEF Live, Phase, ItemSync, InStep, UpType
<1>2. "whole" \in Content
  BY DEF Content
<1>3. PICK y : /\ InStep(v, y, s)
               /\ y.parts = IF t.blocks[i].emitted \/ t.blocks[i].stopped THEN x.parts
                            ELSE Plus(x.parts, i, "whole")
  BY DEF Completes
<1>4. /\ Touched(t, s, i) /\ s.blocks[i].stopped
      /\ s.blocks[i].emitted <=> t.blocks[i].emitted \/ ~t.blocks[i].stopped
  BY DEF Completes
<1>5. t.blocks[i].stopped => t.blocks[i].emitted
  BY <1>1 DEF ContentSync
<1>6. y.parts[i] = IF t.blocks[i].emitted THEN x.parts[i] ELSE Append(x.parts[i], "whole")
  <2>1. Plus(x.parts, i, "whole")[i] = Append(x.parts[i], "whole")
    BY <1>1, <1>2, PlusIs
  <2>2. CASE t.blocks[i].emitted
    BY <1>3, <2>2
  <2>3. CASE ~t.blocks[i].emitted
    BY <1>3, <1>5, <2>1, <2>3
  <2> QED
    BY <2>2, <2>3
<1>7. y.parts[i] = IF up.sent[i] > 0 THEN Pieces(up.sent[i]) ELSE <<"whole">>
  <2>1. CASE up.sent[i] > 0
    <3>1. t.blocks[i].emitted /\ x.parts[i] = Pieces(up.sent[i])
      BY <1>1, <2>1 DEF ContentSync
    <3> QED
      BY <2>1, <3>1, <1>6
  <2>2. CASE ~(up.sent[i] > 0) /\ t.blocks[i].emitted
    <3>1. x.parts[i] = <<"whole">>
      BY <1>1, <2>2 DEF ContentSync
    <3> QED
      BY <2>2, <3>1, <1>6
  <2>3. CASE ~(up.sent[i] > 0) /\ ~t.blocks[i].emitted
    <3>1. x.parts[i] = <<>>
      BY <1>1, <2>3 DEF ContentSync
    <3> QED
      BY <2>3, <3>1, <1>6
  <2> QED
    BY <2>1, <2>2, <2>3
<1>8. w.at[i] = at /\ w.sent[i] = up.sent[i] /\ w.full[i] = up.full[i]
  BY DEF Advances
<1>9. ItemSync(y, s, w, req.plan, i)
  <2>1. i \notin s.completed
    BY <1>1, <1>4 DEF Touched, ContentSync
  <2>2. s.blocks[i].emitted
    BY <1>4, <1>5
  <2>3. ContentSync(y, s, w, i)
    BY <2>1, <2>2, <1>4, <1>7, <1>8 DEF ContentSync
  <2> QED
    BY <2>3, <1>8 DEF ItemSync
<1>10. \A j \in Items : j # i => Apart(x, t, y, s, j)
  BY <1>1, <1>2, <1>3, <1>4, TouchedApart
<1>11. s.mode = t.mode /\ s.started /\ ThinkPhase(s, w, req.plan)
  BY <1>4 DEF Touched, ThinkPhase
<1>12. Live(v, y, s, w, req)
  BY <1>3, <1>9, <1>10, <1>11, NextLive
<1> QED
  BY <1>12

\* response.output_item.added of a tool call, with or without its arguments.
LEMMA AddedCall ==
    ASSUME NEW v, NEW x, NEW t, Live(v, x, t, up, req), t.started, NEW i \in Items, MayRun(i),
           req.plan[i] = "tool", up.at[i] = 0, NEW full \in BOOLEAN,
           NEW w, Advances(up, w, i, 1, up.full[i] \/ full, up.sent[i]),
           NEW s, s = IF full THEN Anthropic!blockDelta(t, i, "tool", "whole")
                      ELSE Anthropic!ensureBlock(t, i, "tool")
    PROVE  \E y : Live(v, y, s, w, req)
<1>1. InStep(v, x, t) /\ ContentSync(x, t, up, i) /\ x \in View /\ up.sent[i] = 0 /\ ~up.full[i]
  BY DEF Live, Phase, ItemSync, InStep
<1>2. t.thinking = 0
  BY OneThought
<1>3. /\ i \notin t.completed /\ ~t.blocks[i].stopped /\ ~t.blocks[i].emitted /\ x.parts[i] = <<>>
  <2>1. i \notin t.completed /\ ~t.blocks[i].stopped
    BY <1>1 DEF ContentSync
  <2>2. ~t.blocks[i].emitted
    BY <1>1 DEF ContentSync
  <2>3. x.parts[i] = <<>>
    BY <1>1, <2>2 DEF ContentSync
  <2> QED
    BY <2>1, <2>2, <2>3
<1>4. "whole" \in Content /\ "tool" \in {"message", "tool"}
  BY DEF Content
<1>5. PICK y : /\ InStep(v, y, s) /\ Touched(t, s, i) /\ ~s.blocks[i].stopped
               /\ s.blocks[i].emitted <=> full
               /\ y.parts = IF full THEN Plus(x.parts, i, "whole") ELSE x.parts
  <2>1. CASE full
    <3>1. /\ Touched(t, s, i)
          /\ s.blocks[i].emitted <=> t.blocks[i].emitted \/ ~t.blocks[i].stopped
          /\ s.blocks[i].stopped <=> t.blocks[i].stopped
          /\ \E y : /\ InStep(v, y, s)
                    /\ y.parts = IF t.blocks[i].stopped THEN x.parts ELSE Plus(x.parts, i, "whole")
      <4>1. s = Anthropic!blockDelta(t, i, "tool", "whole")
        BY <2>1
      <4> QED
        BY <4>1, <1>1, <1>2, <1>3, <1>4, DeltaStep
    <3> QED
      BY <2>1, <3>1, <1>3
  <2>2. CASE ~full
    <3>1. /\ Touched(t, s, i)
          /\ s.blocks[i].emitted = t.blocks[i].emitted /\ s.blocks[i].stopped = t.blocks[i].stopped
          /\ \E y : InStep(v, y, s) /\ y.parts = x.parts
      <4>1. s = Anthropic!ensureBlock(t, i, "tool")
        BY <2>2
      <4> QED
        BY <4>1, <1>1, <1>2, <1>3, <1>4, OpenStep
    <3> QED
      BY <2>2, <3>1, <1>3
  <2> QED
    BY <2>1, <2>2
<1>6. y.parts[i] = IF full THEN <<"whole">> ELSE <<>>
  <2>1. Plus(x.parts, i, "whole")[i] = Append(x.parts[i], "whole")
    BY <1>1, <1>4, PlusIs
  <2>2. Plus(x.parts, i, "whole")[i] = <<"whole">>
    BY <2>1, <1>3
  <2> QED
    BY <2>2, <1>3, <1>5
<1>7. w.at[i] = 1 /\ w.sent[i] = 0 /\ (w.full[i] <=> full)
  BY <1>1 DEF Advances
<1>8. ItemSync(y, s, w, req.plan, i)
  <2>1. i \notin s.completed
    BY <1>3, <1>5 DEF Touched
  <2>2. ContentSync(y, s, w, i)
    BY <2>1, <1>5, <1>6, <1>7 DEF ContentSync
  <2> QED
    BY <2>2, <1>7 DEF ItemSync
<1>9. \A j \in Items : j # i => Apart(x, t, y, s, j)
  BY <1>1, <1>4, <1>5, TouchedApart
<1>10. s.mode = t.mode /\ s.started /\ ThinkPhase(s, w, req.plan)
  BY <1>2, <1>5 DEF Touched, ThinkPhase
<1>11. Live(v, y, s, w, req)
  BY <1>5, <1>8, <1>9, <1>10, NextLive
<1> QED
  BY <1>11

\* response.output_item.added of a text, which shows nothing.
LEMMA AddedText ==
    ASSUME NEW v, NEW x, NEW t, Live(v, x, t, up, req), t.started, NEW i \in Items, MayRun(i),
           req.plan[i] = "message", up.at[i] = 0,
           NEW w, Advances(up, w, i, 1, up.full[i] \/ FALSE, up.sent[i])
    PROVE  Live(v, x, t, w, req)
<1>1. InStep(v, x, t) /\ ContentSync(x, t, up, i) /\ x \in View /\ up.sent[i] = 0 /\ ~up.full[i]
  BY DEF Live, Phase, ItemSync, InStep
<1>2. t.thinking = 0
  BY OneThought
<1>3. w.at[i] = 1 /\ w.sent[i] = 0 /\ ~w.full[i]
  BY <1>1 DEF Advances
<1>4. ItemSync(x, t, w, req.plan, i)
  BY <1>1, <1>3 DEF ItemSync, ContentSync
<1>5. \A j \in Items : j # i => Apart(x, t, x, t, j)
  BY DEF Apart
<1>6. ThinkPhase(t, w, req.plan)
  BY <1>2 DEF ThinkPhase
<1> QED
  BY <1>1, <1>4, <1>5, <1>6, NextLive

\* An event of a reasoning item leaves the others alone.
LEMMA ThoughtApart ==
    ASSUME NEW x \in View, NEW y, NEW t, NEW s, NEW i \in Items, t.thinking = 0 \/ t.current = i,
           s.blocks = t.blocks, \A j \in Items : j # i => (j \in s.completed <=> j \in t.completed),
           NEW p \in Content, y.parts = x.parts \/ y.parts = Plus(x.parts, i, p)
    PROVE  \A j \in Items : j # i => Apart(x, t, y, s, j)
<1>1. \A j \in Items : j # i => y.parts[j] = x.parts[j]
  BY PlusIs
<1> QED
  BY <1>1 DEF Apart, Thinks

\* response.output_item.added of a reasoning item, whose signature may be noted.
LEMMA AddedThought ==
    ASSUME NEW v, NEW x, NEW t, Live(v, x, t, up, req), t.started, NEW i \in Items, MayRun(i),
           req.plan[i] = "reasoning", up.at[i] = 0, NEW full,
           NEW w, Advances(up, w, i, 1, full, up.sent[i]), NEW s, Aims(v, x, t, s, i)
    PROVE  Live(v, x, s, w, req)
<1>1. InStep(v, x, t) /\ ThoughtSync(x, t, up, i) /\ x \in View
  BY DEF Live, Phase, ItemSync, InStep
<1>2. t.thinking = 0
  BY OneThought
<1>3. w.at[i] = 1 /\ w.sent[i] = up.sent[i]
  BY DEF Advances
<1>4. /\ InStep(v, x, s) /\ s.thinking = 0 /\ s.mode = t.mode /\ s.blocks = t.blocks
      /\ s.completed = t.completed /\ s.started
  BY <1>2 DEF Aims
<1>5. ItemSync(x, s, w, req.plan, i)
  BY <1>1, <1>3, <1>4 DEF ItemSync, ThoughtSync
<1>6. \A j \in Items : j # i => Apart(x, t, x, s, j)
  BY <1>2, <1>4 DEF Apart, Thinks
<1>7. ThinkPhase(s, w, req.plan)
  BY <1>4 DEF ThinkPhase
<1> QED
  BY <1>4, <1>5, <1>6, <1>7, NextLive

\* response.reasoning_summary_part.added.
LEMMA PartEvent ==
    ASSUME NEW v, NEW x, NEW t, Live(v, x, t, up, req), t.started, NEW i \in Items, MayRun(i),
           req.plan[i] = "reasoning", up.at[i] = 1,
           NEW w, Advances(up, w, i, 2, up.full[i], up.sent[i])
    PROVE  \E y : Live(v, y, Anthropic!startThinkingPart(t, i), w, req)
<1> DEFINE s == Anthropic!startThinkingPart(t, i)
<1>1. InStep(v, x, t) /\ ThoughtSync(x, t, up, i) /\ x \in View
  BY DEF Live, Phase, ItemSync, InStep
<1>2. t.thinking = 0
  BY OneThought
<1>3. ~Opened(t, i)
  BY <1>1, <1>2 DEF ThoughtSync, Opened, Thinks
<1>4. /\ s.started /\ s.mode = t.mode /\ s.blocks = t.blocks /\ s.completed = t.completed
      /\ IF t.mode = "off" THEN s.thinking = 0 ELSE s.thinking # 0 /\ s.current = i
      /\ \E y : InStep(v, y, s) /\ y.parts = x.parts
  BY <1>1, <1>2, <1>3, PartStep
<1> HIDE DEF s
<1>5. PICK y : InStep(v, y, s) /\ y.parts = x.parts
  BY <1>4
<1>6. w.at[i] = 2 /\ w.sent[i] = up.sent[i] /\ up.sent[i] = 0
  BY <1>1 DEF Advances, ThoughtSync
<1>7. ItemSync(y, s, w, req.plan, i)
  <2>1. y.parts[i] = <<>> /\ Pieces(w.sent[i]) = <<>>
    BY <1>1, <1>5, <1>6, PiecesMore DEF ThoughtSync
  <2>2. s.mode # "off" => Thinks(s, i)
    BY <1>4 DEF Thinks
  <2>3. i \notin s.completed /\ s.blocks[i].index = 0
    BY <1>1, <1>4 DEF ThoughtSync
  <2>4. ThoughtSync(y, s, w, i)
    BY <1>6, <2>1, <2>2, <2>3 DEF ThoughtSync
  <2> QED
    BY <2>4, <1>6 DEF ItemSync
<1>8. \A j \in Items : j # i => Apart(x, t, y, s, j)
  BY <1>2, <1>4, <1>5 DEF Apart, Thinks
<1>9. ThinkPhase(s, w, req.plan)
  BY <1>4, <1>6 DEF ThinkPhase
<1>10. Live(v, y, s, w, req)
  BY <1>4, <1>5, <1>7, <1>8, <1>9, NextLive
<1> QED
  BY <1>10 DEF s

\* response.reasoning_summary_text.delta, with a part that was announced or not.
LEMMA ThoughtEvent ==
    ASSUME NEW v, NEW x, NEW t, Live(v, x, t, up, req), t.started, NEW i \in Items, MayRun(i),
           req.plan[i] = "reasoning", up.at[i] \in 1 .. 2,
           NEW w, Advances(up, w, i, 2, up.full[i], up.sent[i] + 1),
           NEW m, m = IF t.thinking = 0 THEN Anthropic!startThinkingPart(t, i) ELSE t
    PROVE  \E y : Live(v, y, Anthropic!thinkingDelta(m, i, "piece"), w, req)
<1> DEFINE s == Anthropic!thinkingDelta(m, i, "piece")
<1>1. InStep(v, x, t) /\ ThoughtSync(x, t, up, i) /\ x \in View /\ up.sent[i] \in Nat
  BY DEF Live, Phase, ItemSync, InStep, UpType
<1>2. t.thinking = 0 \/ t.current = i
  BY OneThought
<1>3. t.blocks[i].index = 0 /\ i \notin t.completed
  BY <1>1 DEF ThoughtSync
<1>4. w.at[i] = 2 /\ w.sent[i] = up.sent[i] + 1 /\ w.sent[i] > 0
  BY <1>1 DEF Advances
<1>5. "piece" \in Content
  BY DEF Content
<1>6. PICK z : /\ InStep(v, z, m) /\ z.parts = x.parts
               /\ m.started /\ m.mode = t.mode /\ m.blocks = t.blocks /\ m.completed = t.completed
               /\ IF t.mode = "off" THEN m.thinking = 0 ELSE m.thinking # 0 /\ m.current = i
  <2>1. CASE t.thinking = 0
    <3>1. ~Opened(t, i)
      BY <1>3, <2>1 DEF Opened, Thinks
    <3>2. m = Anthropic!startThinkingPart(t, i)
      BY <2>1
    <3> QED
      BY <1>1, <2>1, <3>1, <3>2, PartStep
  <2>2. CASE t.thinking # 0
    <3>1. m = t /\ t.mode # "off" /\ t.current = i
      BY <1>1, <1>2, <2>2 DEF InStep, Sync
    <3> QED
      BY <1>1, <2>2, <3>1
  <2> QED
    BY <2>1, <2>2
<1>7. PICK y : /\ InStep(v, y, s)
               /\ s.started /\ s.mode = t.mode /\ s.blocks = t.blocks /\ s.completed = t.completed
               /\ s.thinking = m.thinking /\ s.current = m.current
               /\ y.parts = IF t.mode = "summarized" THEN Plus(x.parts, i, "piece") ELSE x.parts
  <2>1. CASE t.mode = "off"
    <3>1. s = m
      BY <1>6, <2>1 DEF Anthropic!thinkingDelta
    <3> HIDE DEF s
    <3> QED
      BY <1>6, <2>1, <3>1
  <2>2. CASE t.mode # "off"
    <3>1. m.thinking # 0 /\ m.current = i
      BY <1>6, <2>2
    <3>2. /\ Kept(m, s) /\ s.started
          /\ \E y : /\ InStep(v, y, s)
                    /\ y.parts = IF m.mode = "summarized" THEN Plus(z.parts, i, "piece") ELSE z.parts
      BY <1>5, <1>6, <3>1, ThoughtDelta
    <3> HIDE DEF s
    <3> QED
      BY <1>6, <3>2 DEF Kept
  <2> QED
    BY <2>1, <2>2
<1> HIDE DEF s
<1>8. y.parts[i] = IF t.mode # "summarized" THEN <<>> ELSE Pieces(w.sent[i])
  <2>1. CASE t.mode # "summarized"
    BY <1>1, <1>7, <2>1 DEF ThoughtSync
  <2>2. CASE t.mode = "summarized"
    <3>1. y.parts[i] = Append(x.parts[i], "piece")
      BY <1>1, <1>5, <1>7, <2>2, PlusIs
    <3>2. x.parts[i] = Pieces(up.sent[i])
      <4>1. CASE up.at[i] = 1
        <5>1. x.parts[i] = <<>> /\ up.sent[i] = 0
          BY <1>1, <4>1 DEF ThoughtSync
        <5>2. Pieces(0) = <<>>
          BY PiecesMore
        <5> QED
          BY <5>1, <5>2
      <4>2. CASE up.at[i] = 2
        BY <1>1, <2>2, <4>2 DEF ThoughtSync
      <4> QED
        BY <4>1, <4>2
    <3>3. y.parts[i] = Pieces(up.sent[i] + 1)
      BY <1>1, <3>1, <3>2, PiecesMore
    <3> QED
      BY <2>2, <3>3, <1>4
  <2> QED
    BY <2>1, <2>2
<1>9. ItemSync(y, s, w, req.plan, i)
  <2>1. s.mode # "off" => Thinks(s, i)
    BY <1>6, <1>7 DEF Thinks
  <2>2. i \notin s.completed /\ s.blocks[i].index = 0
    BY <1>3, <1>7
  <2>3. ThoughtSync(y, s, w, i)
    BY <1>4, <1>7, <1>8, <2>1, <2>2 DEF ThoughtSync
  <2> QED
    BY <2>3, <1>4 DEF ItemSync
<1>10. \A j \in Items : j # i => Apart(x, t, y, s, j)
  BY <1>1, <1>2, <1>5, <1>7, ThoughtApart
<1>11. ThinkPhase(s, w, req.plan)
  BY <1>4, <1>6, <1>7 DEF ThinkPhase
<1>12. Live(v, y, s, w, req)
  BY <1>7, <1>9, <1>10, <1>11, NextLive
<1> QED
  BY <1>12 DEF s

\* response.reasoning_summary_part.done: the block stays open.
LEMMA PartDoneEvent ==
    ASSUME NEW v, NEW x, NEW t, Live(v, x, t, up, req), t.started, NEW i \in Items, MayRun(i),
           req.plan[i] = "reasoning", up.at[i] = 2, up.sent[i] # 0,
           NEW w, Advances(up, w, i, 3, up.full[i], up.sent[i]),
           NEW s, s = [t EXCEPT !.stopPend = TRUE]
    PROVE  Live(v, x, s, w, req)
<1>1. /\ InStep(v, x, t) /\ ThoughtSync(x, t, up, i) /\ x \in View /\ up.sent[i] \in Nat
      /\ t \in Translator /\ v \in View /\ Leads(v, t.out, x, TRUE) /\ Sync(x, t)
      /\ ThinkPhase(t, up, req.plan)
  BY DEF Live, Phase, ItemSync, InStep, UpType
<1>2. /\ s \in Translator /\ s.out = t.out /\ s.next = t.next /\ Kept(t, s)
  BY <1>1 DEF Translator, Kept
<1>3. s.started = t.started /\ s.finished = t.finished /\ s.failed = t.failed
  BY <1>1 DEF Translator
<1>4. Sync(x, s)
  <2>1. ~t.finished /\ ~t.failed /\ x.begun = t.started
    BY <1>1 DEF Sync
  <2> QED
    BY <1>1, <1>2, <1>3, <2>1, SyncSame
<1>5. InStep(v, x, s)
  BY <1>1, <1>2, <1>4 DEF InStep
<1>6. w.at[i] = 3 /\ w.sent[i] = up.sent[i] /\ w.sent[i] > 0
  BY <1>1 DEF Advances
<1>7. ItemSync(x, s, w, req.plan, i)
  <2>1. ThoughtSync(x, s, w, i)
    BY <1>1, <1>2, <1>6 DEF ThoughtSync, Kept, Thinks
  <2> QED
    BY <2>1, <1>6 DEF ItemSync
<1>8. \A j \in Items : j # i => Apart(x, t, x, s, j)
  BY <1>2 DEF Apart, Kept, Thinks
<1>9. ThinkPhase(s, w, req.plan)
  <2>1. t.thinking # 0 => t.current = i
    BY OneThought
  <2> QED
    BY <2>1, <1>1, <1>2, <1>6 DEF ThinkPhase, Kept
<1>10. s.mode = t.mode
  BY <1>2 DEF Kept
<1> QED
  BY <1>3, <1>5, <1>7, <1>8, <1>9, <1>10, NextLive

\* A reasoning item is over: it is among the completed ones, and shown.
LEMMA ThoughtOver ==
    ASSUME NEW v, NEW x, NEW t, Live(v, x, t, up, req), NEW i \in Items,
           req.plan[i] = "reasoning", t.thinking = 0 \/ t.current = i,
           NEW full, NEW w, Advances(up, w, i, 4, full, up.sent[i]),
           NEW y, NEW s, InStep(v, y, s), s.started, s.mode = t.mode, s.blocks = t.blocks, s.thinking = 0,
           s.completed = t.completed \cup (IF t.mode = "off" THEN {} ELSE {i}),
           y.parts = x.parts \/ y.parts = Plus(x.parts, i, "whole"),
           y.parts[i] = IF t.mode # "summarized" THEN <<>>
                        ELSE IF up.sent[i] > 0 THEN Pieces(up.sent[i]) ELSE <<"whole">>,
           t.mode = "off" => i \notin t.completed
    PROVE  Live(v, y, s, w, req)
<1>1. ThoughtSync(x, t, up, i) /\ x \in View
  BY DEF Live, Phase, ItemSync, InStep
<1>2. w.at[i] = 4 /\ w.sent[i] = up.sent[i]
  BY DEF Advances
<1>3. s.blocks[i].index = 0 /\ (i \in s.completed <=> t.mode # "off")
  BY <1>1 DEF ThoughtSync
<1>4. ThoughtSync(y, s, w, i)
  BY <1>2, <1>3 DEF ThoughtSync
<1>5. ItemSync(y, s, w, req.plan, i)
  BY <1>2, <1>4 DEF ItemSync
<1>6. "whole" \in Content /\ \A j \in Items : j # i => (j \in s.completed <=> j \in t.completed)
  BY DEF Content
<1>7. \A j \in Items : j # i => Apart(x, t, y, s, j)
  BY <1>1, <1>6, ThoughtApart
<1>8. ThinkPhase(s, w, req.plan)
  BY DEF ThinkPhase
<1> QED
  BY <1>5, <1>7, <1>8, NextLive

\* response.output_item.done of a reasoning item.
LEMMA ThoughtDoneEvent ==
    ASSUME NEW v, NEW x, NEW t, Live(v, x, t, up, req), t.started, NEW i \in Items, MayRun(i),
           req.plan[i] = "reasoning", up.at[i] \in 1 .. 3, up.at[i] = 2 => up.sent[i] # 0,
           NEW full, NEW w, Advances(up, w, i, 4, full, up.sent[i]),
           NEW a, Aims(v, x, t, a, i),
           NEW s, s = IF a.thinking = 0 THEN Anthropic!emitFinalReasoningItem(a, i, TRUE)
                      ELSE Anthropic!finalizeThinkingBlock(a, TRUE)
    PROVE  \E y : Live(v, y, s, w, req)
<1>1. InStep(v, x, t) /\ ThoughtSync(x, t, up, i) /\ x \in View /\ up.sent[i] \in Nat
  BY DEF Live, Phase, ItemSync, InStep, UpType
<1>2. t.thinking = 0 \/ t.current = i
  BY OneThought
<1>3. t.blocks[i].index = 0 /\ i \notin t.completed
  BY <1>1 DEF ThoughtSync
<1>4. /\ InStep(v, x, a) /\ a.current = i /\ a.thinking = t.thinking /\ a.mode = t.mode
      /\ a.blocks = t.blocks /\ a.completed = t.completed /\ a.started
  BY DEF Aims
<1>5. CASE t.thinking = 0
  <2>1. a.thinking = 0 /\ a.blocks[i].index = 0 /\ s = Anthropic!emitFinalReasoningItem(a, i, TRUE)
    BY <1>3, <1>4, <1>5
  <2>2. Recalls(v, x, a, s, i)
    BY <1>4, <2>1, FinalThought
  <2>3. PICK y : /\ InStep(v, y, s)
                 /\ y.parts = IF t.mode = "summarized" THEN Plus(x.parts, i, "whole") ELSE x.parts
    BY <2>2, <1>3, <1>4 DEF Recalls
  <2>4. t.mode = "summarized" => x.parts[i] = <<>> /\ up.sent[i] = 0
    <3>1. t.mode = "summarized" => up.at[i] = 1
      BY <1>1, <1>5 DEF ThoughtSync, Thinks
    <3> QED
      BY <3>1, <1>1 DEF ThoughtSync
  <2>5. y.parts[i] = IF t.mode # "summarized" THEN <<>>
                     ELSE IF up.sent[i] > 0 THEN Pieces(up.sent[i]) ELSE <<"whole">>
    <3>1. CASE t.mode # "summarized"
      BY <1>1, <2>3, <3>1 DEF ThoughtSync
    <3>2. CASE t.mode = "summarized"
      <4>1. "whole" \in Content
        BY DEF Content
      <4>2. y.parts[i] = Append(x.parts[i], "whole")
        BY <1>1, <2>3, <3>2, <4>1, PlusIs
      <4> QED
        BY <2>4, <3>2, <4>2
    <3> QED
      BY <3>1, <3>2
  <2>6. s.started /\ s.mode = t.mode /\ s.blocks = t.blocks /\ s.thinking = 0
        /\ s.completed = t.completed \cup (IF t.mode = "off" THEN {} ELSE {i})
    BY <1>4, <2>2 DEF Recalls
  <2>7. y.parts = x.parts \/ y.parts = Plus(x.parts, i, "whole")
    BY <2>3
  <2> QED
    BY <1>2, <1>3, <2>3, <2>5, <2>6, <2>7, ThoughtOver
<1>6. CASE t.thinking # 0
  <2>1. t.mode # "off" /\ t.current = i /\ s = Anthropic!finalizeThinkingBlock(a, TRUE)
    BY <1>1, <1>2, <1>4, <1>6 DEF InStep, Sync
  <2>2. Rests(v, x, a, s)
    BY <1>4, <2>1, EndThought
  <2>3. /\ s.thinking = 0 /\ s.mode = t.mode /\ s.blocks = t.blocks /\ s.started
        /\ s.completed = t.completed \cup {i}
        /\ \E y : InStep(v, y, s) /\ y.parts = x.parts
    BY <1>4, <1>6, <2>2 DEF Rests
  <2>4. PICK y : InStep(v, y, s) /\ y.parts = x.parts
    BY <2>3
  <2>5. up.at[i] \in {2, 3}
    BY <1>6, OneThought
  <2>6. up.sent[i] > 0
    BY <1>1, <2>5 DEF ThoughtSync
  <2>7. y.parts[i] = IF t.mode # "summarized" THEN <<>>
                     ELSE IF up.sent[i] > 0 THEN Pieces(up.sent[i]) ELSE <<"whole">>
    BY <1>1, <2>4, <2>5, <2>6 DEF ThoughtSync
  <2>8. s.completed = t.completed \cup (IF t.mode = "off" THEN {} ELSE {i})
    BY <2>1, <2>3
  <2> QED
    BY <1>2, <1>3, <2>3, <2>4, <2>7, <2>8, ThoughtOver
<1> QED
  BY <1>5, <1>6

-----------------------------------------------------------------------------
(* The last event: what it repeats, and what must have been shown then.    *)

\* Before the output is gone through.  No thinking block is open at a final event.
LEMMA EndingStart ==
    ASSUME NEW v, NEW x, NEW t, NEW u, NEW r, Live(v, x, t, u, r), t.started,
           \A j \in Items : r.plan[j] = "reasoning" => u.at[j] \in {0, 4},
           NEW w, w.at = u.at, w.sent = u.sent, w.full = u.full
    PROVE  Ending(v, x, t, w, r, 0)
<1>1. InStep(v, x, t) /\ t.mode = r.mode /\ ThinkPhase(t, u, r.plan)
      /\ \A j \in Items : ItemSync(x, t, u, r.plan, j)
  BY DEF Live, Phase
<1>2. t.thinking = 0
  <2>1. t.thinking # 0 => t.current \in Items
    BY <1>1 DEF InStep, Sync
  <2> QED
    BY <1>1, <2>1 DEF ThinkPhase
<1>3. ASSUME NEW j \in Items, r.plan[j] = "reasoning"
      PROVE  FinalThoughtSync(x, t, w, 0, j)
  <2>1. ThoughtSync(x, t, u, j) /\ u.at[j] \in {0, 4} /\ (u.at[j] = 0 => u.sent[j] = 0)
    BY <1>1, <1>3 DEF ItemSync
  <2>2. ~(j <= 0) /\ 0 < j
    BY ItemsFinite DEF Items
  <2> QED
    BY <2>1, <2>2 DEF ThoughtSync, FinalThoughtSync
<1>4. ASSUME NEW j \in Items, r.plan[j] # "reasoning"
      PROVE  FinalContentSync(x, t, w, r.plan, 0, j)
  <2>1. ContentSync(x, t, u, j)
    BY <1>1, <1>4 DEF ItemSync
  <2>2. ~(j <= 0)
    BY ItemsFinite DEF Items
  <2> QED
    BY <2>1, <2>2 DEF ContentSync, FinalContentSync
<1> QED
  BY <1>1, <1>2, <1>3, <1>4 DEF Ending

\* An item that the step for i leaves alone.
LEMMA EndingOther ==
    ASSUME NEW v, NEW x, NEW t, NEW u, NEW r, NEW i \in Items, Ending(v, x, t, u, r, i - 1),
           NEW y, NEW s, s.mode = t.mode,
           \A j \in Items : j # i => /\ y.parts[j] = x.parts[j] /\ s.blocks[j] = t.blocks[j]
                                     /\ (j \in s.completed <=> j \in t.completed),
           t.blocks[i].emitted => s.blocks[i].emitted,
           NEW j \in Items, j # i
    PROVE  IF r.plan[j] = "reasoning" THEN FinalThoughtSync(y, s, u, i, j)
           ELSE FinalContentSync(y, s, u, r.plan, i, j)
<1>1. /\ j <= i - 1 <=> j <= i
      /\ i - 1 < j <=> i < j
  BY ItemsFinite DEF Items
<1>2. /\ y.parts[j] = x.parts[j] /\ s.blocks[j] = t.blocks[j]
      /\ j \in s.completed <=> j \in t.completed
  OBVIOUS
<1>3. CASE r.plan[j] = "reasoning"
  <2>1. FinalThoughtSync(x, t, u, i - 1, j)
    BY <1>3 DEF Ending
  <2>2. FinalThoughtSync(y, s, u, i, j)
    BY <1>1, <1>2, <2>1 DEF FinalThoughtSync
  <2> QED
    BY <1>3, <2>2
<1>4. CASE r.plan[j] # "reasoning"
  <2>1. FinalContentSync(x, t, u, r.plan, i - 1, j)
    BY <1>4 DEF Ending
  <2>2. \A m \in Items : t.blocks[m].emitted => s.blocks[m].emitted
    OBVIOUS
  <2>3. FinalContentSync(y, s, u, r.plan, i, j)
    BY <1>1, <1>2, <2>1, <2>2 DEF FinalContentSync
  <2> QED
    BY <1>4, <2>3
<1> QED
  BY <1>3, <1>4

\* The reasoning item i, from its complete form.
LEMMA EndingThought ==
    ASSUME NEW v, NEW x, NEW t, NEW u, NEW r, NEW i \in Items, Ending(v, x, t, u, r, i - 1),
           r.plan[i] = "reasoning", NEW s, Recalls(v, x, t, s, i)
    PROVE  \E y : Ending(v, y, s, u, r, i)
<1>1. PICK y : /\ InStep(v, y, s)
               /\ y.parts = IF t.mode = "summarized" /\ i \notin t.completed
                            THEN Plus(x.parts, i, "whole") ELSE x.parts
  BY DEF Recalls
<1>2. /\ s.started /\ s.mode = t.mode /\ s.blocks = t.blocks /\ s.thinking = 0
      /\ s.completed = t.completed \cup (IF t.mode = "off" THEN {} ELSE {i})
  BY DEF Recalls
<1>3. FinalThoughtSync(x, t, u, i - 1, i) /\ t.mode = r.mode /\ x \in View
  BY DEF Ending, InStep
<1>4. ~(i <= i - 1) /\ i - 1 < i /\ i <= i /\ ~(i < i)
  BY ItemsFinite DEF Items
<1>5. i \in t.completed <=> t.mode # "off" /\ u.at[i] = 4
  BY <1>3, <1>4 DEF FinalThoughtSync
<1>6. "whole" \in Content
  BY DEF Content
<1>7. /\ Plus(x.parts, i, "whole")[i] = Append(x.parts[i], "whole")
      /\ \A j \in Items : j # i => Plus(x.parts, i, "whole")[j] = x.parts[j]
  BY <1>3, <1>6, PlusIs
<1>8. y.parts[i] = IF s.mode # "summarized" THEN <<>>
                   ELSE IF u.sent[i] > 0 THEN Pieces(u.sent[i]) ELSE <<"whole">>
  <2>1. CASE s.mode # "summarized"
    <3>1. x.parts[i] = <<>>
      BY <1>2, <1>3, <2>1 DEF FinalThoughtSync
    <3> QED
      BY <1>1, <1>2, <2>1, <3>1
  <2>2. CASE s.mode = "summarized" /\ u.at[i] = 4
    <3>1. y.parts = x.parts
      BY <1>1, <1>2, <1>5, <2>2
    <3> QED
      BY <1>2, <1>3, <2>2, <3>1 DEF FinalThoughtSync
  <2>3. CASE s.mode = "summarized" /\ u.at[i] = 0
    <3>1. x.parts[i] = <<>> /\ u.sent[i] = 0
      BY <1>2, <1>3, <1>4, <2>3 DEF FinalThoughtSync
    <3>2. y.parts[i] = Append(x.parts[i], "whole")
      BY <1>1, <1>2, <1>5, <1>7, <2>3
    <3> QED
      BY <2>3, <3>1, <3>2
  <2>4. u.at[i] \in {0, 4}
    BY <1>3 DEF FinalThoughtSync
  <2> QED
    BY <2>1, <2>2, <2>3, <2>4
<1>9. FinalThoughtSync(y, s, u, i, i)
  BY <1>2, <1>3, <1>4, <1>8 DEF FinalThoughtSync
<1>10. \A j \in Items : j # i => /\ y.parts[j] = x.parts[j] /\ s.blocks[j] = t.blocks[j]
                                 /\ (j \in s.completed <=> j \in t.completed)
  BY <1>1, <1>2, <1>7
<1>11. \A j \in Items : j # i => IF r.plan[j] = "reasoning" THEN FinalThoughtSync(y, s, u, i, j)
                                 ELSE FinalContentSync(y, s, u, r.plan, i, j)
  BY <1>2, <1>10, EndingOther
<1>12. Ending(v, y, s, u, r, i)
  BY <1>1, <1>2, <1>3, <1>9, <1>11 DEF Ending
<1> QED
  BY <1>12

\* The text or tool call i, complete.
LEMMA EndingContent ==
    ASSUME NEW v, NEW x, NEW t, NEW u, NEW r, NEW i \in Items, Ending(v, x, t, u, r, i - 1),
           r.plan[i] # "reasoning", NEW s, Completes(v, x, t, s, i)
    PROVE  \E y : Ending(v, y, s, u, r, i)
<1>1. PICK y : /\ InStep(v, y, s)
               /\ y.parts = IF t.blocks[i].emitted \/ t.blocks[i].stopped THEN x.parts
                            ELSE Plus(x.parts, i, "whole")
  BY DEF Completes
<1>2. Touched(t, s, i) /\ s.blocks[i].stopped
      /\ (s.blocks[i].emitted <=> t.blocks[i].emitted \/ ~t.blocks[i].stopped)
  BY DEF Completes
<1>3. FinalContentSync(x, t, u, r.plan, i - 1, i) /\ t.mode = r.mode /\ t.started /\ t.thinking = 0 /\ x \in View
  BY DEF Ending, InStep
<1>4. s.blocks[i].emitted /\ (t.blocks[i].stopped => t.blocks[i].emitted) /\ i \notin s.completed
  BY <1>2, <1>3 DEF FinalContentSync, Touched
<1>5. "whole" \in Content
  BY DEF Content
<1>6. /\ Plus(x.parts, i, "whole")[i] = Append(x.parts[i], "whole")
      /\ \A j \in Items : j # i => Plus(x.parts, i, "whole")[j] = x.parts[j]
  BY <1>3, <1>5, PlusIs
<1>7. y.parts[i] = IF u.sent[i] > 0 THEN Pieces(u.sent[i]) ELSE <<"whole">>
  <2>1. CASE t.blocks[i].emitted
    <3>1. y.parts = x.parts
      BY <1>1, <2>1
    <3> QED
      BY <1>3, <2>1, <3>1 DEF FinalContentSync
  <2>2. CASE ~t.blocks[i].emitted
    <3>1. x.parts[i] = <<>> /\ ~(u.sent[i] > 0)
      BY <1>3, <2>2 DEF FinalContentSync
    <3>2. y.parts[i] = Append(x.parts[i], "whole")
      BY <1>1, <1>4, <1>6, <2>2
    <3> QED
      BY <3>1, <3>2
  <2> QED
    BY <2>1, <2>2
<1>8. FinalContentSync(y, s, u, r.plan, i, i)
  BY <1>4, <1>7 DEF FinalContentSync
<1>9. \A j \in Items : j # i => /\ y.parts[j] = x.parts[j] /\ s.blocks[j] = t.blocks[j]
                                /\ (j \in s.completed <=> j \in t.completed)
  BY <1>1, <1>2, <1>6 DEF Touched
<1>10. s.mode = t.mode /\ s.started /\ s.thinking = 0
  BY <1>2, <1>3 DEF Touched
<1>11. \A j \in Items : j # i => IF r.plan[j] = "reasoning" THEN FinalThoughtSync(y, s, u, i, j)
                                 ELSE FinalContentSync(y, s, u, r.plan, i, j)
  BY <1>4, <1>9, <1>10, EndingOther
<1>12. Ending(v, y, s, u, r, i)
  BY <1>1, <1>3, <1>8, <1>10, <1>11 DEF Ending
<1> QED
  BY <1>12

\* emitFinalItem: item i is shown now if it was not before.
LEMMA EndingStep ==
    ASSUME NEW v, NEW x, NEW t, NEW u, NEW r, NEW i \in Items, Ending(v, x, t, u, r, i - 1),
           r.plan[i] \in {"message", "tool", "reasoning"}
    PROVE  \E y : Ending(v, y, Anthropic!emitFinalItem(t, i, r.plan), u, r, i)
<1> DEFINE s == Anthropic!emitFinalItem(t, i, r.plan)
<1>1. InStep(v, x, t) /\ t.started /\ t.thinking = 0
  BY DEF Ending
<1>2. CASE r.plan[i] = "reasoning"
  <2>1. s = Anthropic!emitFinalReasoningItem(t, i, TRUE)
    BY <1>2 DEF Anthropic!emitFinalItem
  <2>2. t.blocks[i].index = 0
    BY <1>2 DEF Ending, FinalThoughtSync
  <2>3. Recalls(v, x, t, s, i)
    BY <1>1, <2>1, <2>2, FinalThought
  <2> HIDE DEF s
  <2>4. \E y : Ending(v, y, s, u, r, i)
    BY <1>2, <2>3, EndingThought
  <2> QED
    BY <2>4 DEF s
<1>3. CASE r.plan[i] # "reasoning"
  <2>1. i \notin t.completed /\ FinalContentSync(x, t, u, r.plan, i - 1, i)
    BY <1>3 DEF Ending, FinalContentSync
  <2>2. CASE r.plan[i] = "message" /\ t.blocks[i].index = 0 /\ Anthropic!hasEmittedText(t, r.plan)
    <3>1. s = t
      BY <2>2 DEF Anthropic!emitFinalItem
    <3>2. ~t.blocks[i].emitted
      BY <1>1, <2>2 DEF InStep, Sync
    <3>3. \E m \in Items \ {i} : r.plan[m] = "message" /\ t.blocks[m].emitted
      BY <2>2, <3>2, SameItems DEF Anthropic!hasEmittedText
    <3>4. FinalContentSync(x, t, u, r.plan, i, i)
      BY <2>1, <2>2, <3>3 DEF FinalContentSync
    <3>5. \A j \in Items : j # i => IF r.plan[j] = "reasoning" THEN FinalThoughtSync(x, t, u, i, j)
                                    ELSE FinalContentSync(x, t, u, r.plan, i, j)
      BY EndingOther
    <3>6. Ending(v, x, t, u, r, i)
      BY <1>3, <3>4, <3>5 DEF Ending
    <3> QED
      BY <3>1, <3>6
  <2>3. CASE r.plan[i] = "message" /\ ~(t.blocks[i].index = 0 /\ Anthropic!hasEmittedText(t, r.plan))
    <3>1. s = Anthropic!completeText(t, i)
      BY <2>3 DEF Anthropic!emitFinalItem
    <3>2. Completes(v, x, t, s, i)
      BY <1>1, <2>1, <3>1, TextComplete
    <3> HIDE DEF s
    <3>3. \E y : Ending(v, y, s, u, r, i)
      BY <1>3, <3>2, EndingContent
    <3> QED
      BY <3>3 DEF s
  <2>4. CASE r.plan[i] = "tool"
    <3>1. s = Anthropic!completeTool(t, i)
      BY <2>4 DEF Anthropic!emitFinalItem
    <3>2. Completes(v, x, t, s, i)
      BY <1>1, <2>1, <3>1, ToolComplete
    <3> HIDE DEF s
    <3>3. \E y : Ending(v, y, s, u, r, i)
      BY <1>3, <3>2, EndingContent
    <3> QED
      BY <3>3 DEF s
  <2> QED
    BY <1>3, <2>2, <2>3, <2>4
<1> QED
  BY <1>2, <1>3

\* emitFinalOutput, by induction on the items.
LEMMA EndingAll ==
    ASSUME NEW v, NEW x, NEW t, NEW u, NEW r, Ending(v, x, t, u, r, 0),
           \A i \in Items : r.plan[i] \in {"message", "tool", "reasoning"}
    PROVE  \E y : Ending(v, y, Anthropic!emitFinalOutput(t, r.plan), u, r, NItems)
<1>1. PICK f : /\ f[0] = t
               /\ \A i \in Items : f[i] = Anthropic!emitFinalItem(f[i - 1], i, r.plan)
               /\ Anthropic!emitFinalOutput(t, r.plan) = f[NItems]
  BY FinalFold
<1> DEFINE S == {n \in 0 .. NItems : \E y : Ending(v, y, f[n], u, r, n)}
<1>2. 0 \in S
  BY <1>1, ItemsFinite
<1>3. ASSUME NEW n \in 1 .. NItems, n - 1 \in S
      PROVE  n \in S
  <2>1. PICK z : Ending(v, z, f[n - 1], u, r, n - 1)
    BY <1>3
  <2>2. n \in Items /\ n \in 0 .. NItems
    BY ItemsFinite DEF Items
  <2>3. \E y : Ending(v, y, Anthropic!emitFinalItem(f[n - 1], n, r.plan), u, r, n)
    BY <2>1, <2>2, EndingStep
  <2> QED
    BY <1>1, <2>2, <2>3
<1>4. 0 .. NItems \subseteq S
  <2> HIDE DEF S
  <2> QED
    BY <1>2, <1>3, Induction, ItemsFinite
<1>5. NItems \in S
  BY <1>4, ItemsFinite
<1> QED
  BY <1>1, <1>5

\* The parts at the end are what ContentOnce allows.
LEMMA EndingParts ==
    ASSUME NEW v, NEW y, NEW s, NEW u \in UpType, NEW r, NEW k, Ending(v, y, s, u, r, k), NEW i \in Items
    PROVE  y.parts[i] \in {Pieces(n) : n \in 0 .. u.sent[i]} \cup {<<"whole">>}
<1>1. u.sent[i] \in Nat /\ Pieces(0) = <<>>
  BY PiecesMore DEF UpType
<1>2. y.parts[i] \in {Pieces(0), Pieces(u.sent[i]), <<"whole">>}
  <2>1. CASE r.plan[i] = "reasoning"
    BY <1>1, <2>1 DEF Ending, FinalThoughtSync
  <2>2. CASE r.plan[i] # "reasoning"
    BY <1>1, <2>2 DEF Ending, FinalContentSync
  <2> QED
    BY <2>1, <2>2
<1> QED
  BY <1>1, <1>2

\* Nothing that was given is missing, once the output was gone through or there
\* was none.
LEMMA EndingComplete ==
    ASSUME NEW v, NEW y, NEW s, NEW u \in UpType, NEW r, NEW k, Ending(v, y, s, u, r, k),
           k = IF u.output THEN NItems ELSE 0,
           \A i \in Items : r.plan[i] \in {"message", "tool", "reasoning"}
    PROVE  Complete(y, u, r)
<1> SUFFICES ASSUME NEW i \in Items, Told(u, r, i), u.sent[i] > 0 \/ Owed(y, u, r, i)
             PROVE  y.parts[i] = IF u.sent[i] > 0 THEN Pieces(u.sent[i]) ELSE <<"whole">>
  BY DEF Complete
<1>1. u.output => i <= k
  BY ItemsFinite DEF Items
<1>2. i \in Nat /\ k \in Nat /\ \A j \in Items : u.sent[j] \in Nat
  BY ItemsFinite DEF Items, UpType
<1>3. CASE r.plan[i] = "reasoning"
  <2>1. FinalThoughtSync(y, s, u, k, i)
    BY <1>3 DEF Ending
  <2>2. s.mode = "summarized"
    BY <1>3 DEF Told, Ending
  <2>3. ~(k < i /\ u.at[i] = 0)
    <3>1. u.at[i] = 0 => u.sent[i] = 0
      BY <2>1 DEF FinalThoughtSync
    <3>2. Owed(y, u, r, i) => u.at[i] = 4 \/ u.output
      BY <1>3 DEF Owed
    <3> QED
      BY <1>1, <1>2, <3>1, <3>2
  <2> QED
    BY <2>1, <2>2, <2>3 DEF FinalThoughtSync
<1>4. CASE r.plan[i] # "reasoning"
  <2>1. FinalContentSync(y, s, u, r.plan, k, i)
    BY <1>4 DEF Ending
  <2>2. CASE u.sent[i] > 0
    BY <2>1, <2>2 DEF FinalContentSync
  <2>3. CASE ~(u.sent[i] > 0)
    <3>1. s.blocks[i].emitted
      <4> SUFFICES ASSUME ~s.blocks[i].emitted
                   PROVE  FALSE
        OBVIOUS
      <4>1. u.at[i] \notin {3, 4} /\ ~u.full[i] /\ ~(i <= k /\ r.plan[i] = "tool")
        BY <2>1 DEF FinalContentSync
      <4>2. Owed(y, u, r, i)
        BY <2>3
      <4>3. u.output /\ (r.plan[i] = "message" => ~Elsewhere(y, r.plan, i))
        BY <4>1, <4>2 DEF Owed
      <4>4. r.plan[i] = "message" /\ i <= k
        BY <1>1, <1>4, <4>1, <4>3
      <4>5. PICK m \in Items \ {i} : r.plan[m] = "message" /\ s.blocks[m].emitted
        BY <2>1, <4>4 DEF FinalContentSync
      <4>6. FinalContentSync(y, s, u, r.plan, k, m)
        BY <4>5 DEF Ending
      <4>7. y.parts[m] = IF u.sent[m] > 0 THEN Pieces(u.sent[m]) ELSE <<"whole">>
        BY <4>5, <4>6 DEF FinalContentSync
      <4>8. y.parts[m] # <<>>
        <5>1. CASE u.sent[m] > 0
          <6>1. Len(Pieces(u.sent[m])) = u.sent[m]
            BY <1>2, <4>5 DEF Pieces
          <6> QED
            BY <4>7, <5>1, <6>1
        <5>2. CASE ~(u.sent[m] > 0)
          BY <4>7, <5>2
        <5> QED
          BY <5>1, <5>2
      <4> QED
        BY <4>3, <4>4, <4>5, <4>8 DEF Elsewhere
    <3> QED
      BY <2>1, <2>3, <3>1 DEF FinalContentSync
  <2> QED
    BY <2>2, <2>3
<1> QED
  BY <1>3, <1>4

\* A stream that has ended satisfies the invariant.
LEMMA EndedOK ==
    ASSUME NEW v, NEW y, NEW s, NEW end \in {"success", "error"}, Ended(v, y, s, end),
           NEW u \in UpType, NEW r, s.mode = r.mode,
           \A i \in Items : y.parts[i] \in {Pieces(n) : n \in 0 .. u.sent[i]} \cup {<<"whole">>},
           u.end \in Finals <=> end = "success", end = "success" => Complete(y, u, r)
    PROVE  AnthropicOK(y, s, u, r)
<1>1. y \in View /\ Numbered(y, s.next) /\ s.finished /\ (s.failed <=> end = "error") /\ y.end = end
  BY DEF Ended
<1>2. s.next \in 1 .. NItems + 1
  BY <1>1, NumberedBound
<1>3. Shaped(y, u)
  BY <1>1 DEF Shaped, Numbered
<1> QED
  BY <1>1, <1>2, <1>3 DEF AnthropicOK

-----------------------------------------------------------------------------
(* processData: every event the provider may send.                         *)

\* The events, each with what is known when it comes.
LEMMA EventCases ==
    ASSUME NEW ev \in Events
    PROVE  /\ up.end = "open"
           /\ \/ ~up.created /\ \E type \in {"created", "json"} : ev = Ev(type, 0, FALSE, FALSE)
              \/ up.created /\ \E i \in Items : ev \in ItemEvents(i)
              \/ /\ up.created
                 /\ \A i \in Items : req.plan[i] = "reasoning" => up.at[i] \notin 1 .. 3
                 /\ \E type \in Finals, output \in BOOLEAN : ev = Ev(type, 0, FALSE, output)
              \/ \E type \in {"failed"} \cup Broken : ev = Ev(type, 0, FALSE, FALSE)
<1> DEFINE First == {Ev(t, 0, FALSE, FALSE) : t \in {"created", "json"}}
           Middle == UNION {ItemEvents(i) : i \in Items}
           thought == \E i \in Items : req.plan[i] = "reasoning" /\ up.at[i] \in 1 .. 3
           Last == UNION {{Ev(t, 0, FALSE, o) : o \in BOOLEAN} : t \in Finals}
           Bad == {Ev(t, 0, FALSE, FALSE) : t \in {"failed"} \cup Broken}
<1>1. Events = IF up.end # "open" THEN {}
               ELSE Bad \cup (IF ~up.created THEN First
                              ELSE Middle \cup (IF thought THEN {} ELSE Last))
  BY DEF Events
<1>2. ev \in First => \E type \in {"created", "json"} : ev = Ev(type, 0, FALSE, FALSE)
  OBVIOUS
<1>3. ev \in Middle => \E i \in Items : ev \in ItemEvents(i)
  OBVIOUS
<1>4. ev \in Last => \E type \in Finals, output \in BOOLEAN : ev = Ev(type, 0, FALSE, output)
  OBVIOUS
<1>5. ev \in Bad => \E type \in {"failed"} \cup Broken : ev = Ev(type, 0, FALSE, FALSE)
  OBVIOUS
<1>6. ~thought => \A i \in Items : req.plan[i] = "reasoning" => up.at[i] \notin 1 .. 3
  OBVIOUS
<1> HIDE DEF First, Middle, thought, Last, Bad
<1>7. /\ up.end = "open"
      /\ (~up.created /\ ev \in First) \/ (up.created /\ ev \in Middle)
         \/ (up.created /\ ~thought /\ ev \in Last) \/ ev \in Bad
  BY <1>1
<1> QED
  BY <1>2, <1>3, <1>4, <1>5, <1>6, <1>7

\* The events that may come of an item.
LEMMA ItemCases ==
    ASSUME NEW i \in Items, NEW ev \in ItemEvents(i)
    PROVE  /\ MayRun(i)
           /\ \/ /\ up.at[i] = 0
                 /\ \E full \in BOOLEAN : /\ ev = Ev("added", i, full, FALSE)
                                          /\ full => req.plan[i] # "message"
              \/ /\ req.plan[i] = "message" /\ up.at[i] <= 2 /\ ~up.full[i] /\ Announced(i)
                 /\ ev = Ev("text_delta", i, FALSE, FALSE)
              \/ req.plan[i] = "reasoning" /\ up.at[i] = 1 /\ ev = Ev("part_added", i, FALSE, FALSE)
              \/ /\ req.plan[i] = "reasoning" /\ up.at[i] \in 1 .. 2
                 /\ ev = Ev("reasoning_delta", i, FALSE, FALSE)
              \/ /\ req.plan[i] = "reasoning" /\ up.at[i] = 2 /\ ~EmptyPart(i)
                 /\ ev = Ev("part_done", i, FALSE, FALSE)
              \/ /\ req.plan[i] \in {"tool", "patch"} /\ up.at[i] <= 2 /\ ~up.full[i] /\ Announced(i)
                 /\ ev = Ev("args_delta", i, FALSE, FALSE)
              \/ /\ req.plan[i] \in {"tool", "patch"} /\ up.at[i] <= 2 /\ Announced(i)
                 /\ ev = Ev("args_done", i, FALSE, FALSE)
              \/ /\ up.at[i] # 4 /\ Announced(i) /\ ~EmptyPart(i)
                 /\ ev = Ev("item_done", i, FALSE, FALSE)
<1>1. MayRun(i)
  BY DEF ItemEvents
<1> DEFINE k == req.plan[i]
           more == up.sent[i] < MaxDeltas /\ ~up.full[i] /\ Announced(i)
           E(type, guard) == IF guard THEN {Ev(type, i, FALSE, FALSE)} ELSE {}
<1>2. ev \in UNION {
            E("added", up.at[i] = 0),
            IF up.at[i] = 0 /\ k # "message" THEN {Ev("added", i, TRUE, FALSE)} ELSE {},
            E("text_delta", k = "message" /\ up.at[i] <= 2 /\ more),
            E("part_added", k = "reasoning" /\ up.at[i] = 1),
            E("reasoning_delta", k = "reasoning" /\ up.at[i] \in 1 .. 2 /\ up.sent[i] < MaxDeltas),
            E("part_done", k = "reasoning" /\ up.at[i] = 2 /\ ~EmptyPart(i)),
            E("args_delta", k \in {"tool", "patch"} /\ up.at[i] <= 2 /\ more),
            E("args_done", k \in {"tool", "patch"} /\ up.at[i] <= 2 /\ Announced(i)),
            E("item_done", up.at[i] # 4 /\ Announced(i) /\ ~EmptyPart(i))}
  BY <1>1 DEF ItemEvents
<1> QED
  BY <1>1, <1>2

\* Stage, by event.
LEMMA StageIs ==
    /\ DOMAIN Stage = {"added", "text_delta", "part_added", "reasoning_delta", "part_done",
                       "args_delta", "args_done", "item_done"}
    /\ Stage["added"] = 1 /\ Stage["text_delta"] = 2 /\ Stage["part_added"] = 2
    /\ Stage["reasoning_delta"] = 2 /\ Stage["part_done"] = 3 /\ Stage["args_delta"] = 2
    /\ Stage["args_done"] = 3 /\ Stage["item_done"] = 4
  BY DEF Stage

\* Sent, by event.
LEMMA SentPlain ==
    ASSUME up \in UpType, NEW i \in Items
    PROVE  /\ Advances(up, Sent(Ev("text_delta", i, FALSE, FALSE)), i, 2, up.full[i], up.sent[i] + 1)
           /\ Advances(up, Sent(Ev("part_added", i, FALSE, FALSE)), i, 2, up.full[i], up.sent[i])
           /\ Advances(up, Sent(Ev("reasoning_delta", i, FALSE, FALSE)), i, 2, up.full[i], up.sent[i] + 1)
           /\ Advances(up, Sent(Ev("part_done", i, FALSE, FALSE)), i, 3, up.full[i], up.sent[i])
           /\ Advances(up, Sent(Ev("args_delta", i, FALSE, FALSE)), i, 2, up.full[i], up.sent[i] + 1)
           /\ Advances(up, Sent(Ev("args_done", i, FALSE, FALSE)), i, 3, up.full[i], up.sent[i])
           /\ Advances(up, Sent(Ev("item_done", i, FALSE, FALSE)), i, 4, up.full[i], up.sent[i])
<1> DEFINE F == up.full[i] \/ FALSE
           D == {"text_delta", "reasoning_delta", "args_delta"}
<1>1. F = up.full[i]
  BY DEF UpType
<1> HIDE DEF F
<1>2. \A type \in DOMAIN Stage :
         Advances(up, Sent(Ev(type, i, FALSE, FALSE)), i, Stage[type], F,
                  IF type \in D THEN up.sent[i] + 1 ELSE up.sent[i])
  BY SentIs DEF F
<1>3. \A type \in DOMAIN Stage :
         Advances(up, Sent(Ev(type, i, FALSE, FALSE)), i, Stage[type], up.full[i],
                  IF type \in D THEN up.sent[i] + 1 ELSE up.sent[i])
  BY <1>1, <1>2
<1>4. \A type \in DOMAIN Stage :
         /\ type \in D =>
               Advances(up, Sent(Ev(type, i, FALSE, FALSE)), i, Stage[type], up.full[i], up.sent[i] + 1)
         /\ type \notin D =>
               Advances(up, Sent(Ev(type, i, FALSE, FALSE)), i, Stage[type], up.full[i], up.sent[i])
  BY <1>3
<1>5. /\ "text_delta" \in D /\ "reasoning_delta" \in D /\ "args_delta" \in D
      /\ "part_added" \notin D /\ "part_done" \notin D /\ "args_done" \notin D /\ "item_done" \notin D
  OBVIOUS
<1> HIDE DEF D
<1> QED
  BY <1>4, <1>5, StageIs

\* What the provider has sent after announcing an item.
LEMMA SentAdded ==
    ASSUME up \in UpType, NEW i \in Items, NEW full \in BOOLEAN
    PROVE  Advances(up, Sent(Ev("added", i, full, FALSE)), i, 1, up.full[i] \/ full, up.sent[i])
<1>1. /\ Advances(up, Sent(Ev("added", i, full, FALSE)), i, Stage["added"], up.full[i] \/ full,
                 IF "added" \in {"text_delta", "reasoning_delta", "args_delta"}
                 THEN up.sent[i] + 1 ELSE up.sent[i])
      /\ "added" \notin {"text_delta", "reasoning_delta", "args_delta"}
  BY SentIs, StageIs
<1> QED
  BY <1>1, StageIs

\* ensureStart does nothing once the stream has begun.
LEMMA StartedSame ==
    ASSUME NEW t, t.started
    PROVE  Anthropic!ensureStart(t) = t
  BY DEF Anthropic!ensureStart

\* itemAdded and itemDone note the item, and its signature where reasoning is shown.
LEMMA CaptureAims ==
    ASSUME NEW v, NEW x, NEW t, InStep(v, x, t), NEW i \in Items, t.thinking = 0 \/ t.current = i,
           NEW signed
    PROVE  Aims(v, x, t, Anthropic!captureThinkingSignature([t EXCEPT !.current = i], i, signed), i)
<1> DEFINE a == [t EXCEPT !.current = i]
           c == Anthropic!captureThinkingSignature(a, i, signed)
<1>1. a = [t EXCEPT !.current = i]
  OBVIOUS
<1> HIDE DEF a
<1>2. Aims(v, x, t, a, i)
  BY <1>1, AimOnly
<1>3. CASE a.mode = "off" \/ ~signed
  <2>1. c = a
    BY <1>3 DEF Anthropic!captureThinkingSignature
  <2> QED
    BY <1>2, <2>1 DEF a
<1>4. CASE ~(a.mode = "off" \/ ~signed)
  <2>1. c = [a EXCEPT !.current = i, !.signature = TRUE]
    BY <1>4 DEF Anthropic!captureThinkingSignature
  <2>2. InStep(v, x, a) /\ a.current = i
    BY <1>2 DEF Aims
  <2> HIDE DEF c
  <2>3. Aims(v, x, a, c, i)
    BY <2>1, <2>2, AimStep
  <2>4. Aims(v, x, t, c, i)
    BY <1>2, <2>3 DEF Aims
  <2> QED
    BY <2>4 DEF c, a
<1> QED
  BY <1>3, <1>4

\* response.output_item.added.
LEMMA AddedEvent ==
    ASSUME NEW v, NEW x, NEW t, Live(v, x, t, up, req), t.started, NEW i \in Items, MayRun(i),
           up.at[i] = 0, NEW full \in BOOLEAN, full => req.plan[i] # "message"
    PROVE  LET ev == Ev("added", i, full, FALSE) IN
           \E y : Live(v, y, Anthropic!processData(t, ev, req.plan), Sent(ev), req)
<1> DEFINE ev == Ev("added", i, full, FALSE)
           s == Anthropic!processData(t, ev, req.plan)
           w == Sent(ev)
<1>1. ev.type = "added" /\ ev.item = i /\ ev.full = full
  BY DEF Ev
<1>2. up \in UpType /\ InStep(v, x, t) /\ req.plan[i] \in {"message", "tool", "reasoning"}
  BY DEF Live
<1>3. Advances(up, w, i, 1, up.full[i] \/ full, up.sent[i])
  BY <1>2, SentAdded
<1> HIDE DEF ev, w
<1>4. s = Anthropic!itemAdded(t, ev, req.plan) /\ Anthropic!ensureStart(t) = t
  BY <1>1, StartedSame DEF Anthropic!processData, Anthropic!Broken
<1> HIDE DEF s
<1>5. CASE req.plan[i] = "reasoning"
  <2>1. s = Anthropic!captureThinkingSignature([t EXCEPT !.current = i], i, full)
    BY <1>1, <1>4, <1>5 DEF Anthropic!itemAdded
  <2>2. t.thinking = 0
    BY OneThought
  <2>3. Aims(v, x, t, s, i)
    BY <1>2, <2>1, <2>2, CaptureAims
  <2>4. Live(v, x, s, w, req)
    BY <1>3, <1>5, <2>3, AddedThought
  <2> QED
    BY <2>4 DEF s, w, ev
<1>6. CASE req.plan[i] = "tool"
  <2>1. s = IF full THEN Anthropic!blockDelta(t, i, "tool", "whole") ELSE Anthropic!ensureBlock(t, i, "tool")
    BY <1>1, <1>4, <1>6 DEF Anthropic!itemAdded
  <2>2. \E y : Live(v, y, s, w, req)
    BY <1>3, <1>6, <2>1, AddedCall
  <2> QED
    BY <2>2 DEF s, w, ev
<1>7. CASE req.plan[i] = "message"
  <2>1. s = t
    BY <1>1, <1>4, <1>7 DEF Anthropic!itemAdded
  <2>2. full = FALSE
    BY <1>7
  <2>3. Live(v, x, t, w, req)
    BY <1>3, <1>7, <2>2, AddedText
  <2> QED
    BY <2>1, <2>3 DEF s, w, ev
<1> QED
  BY <1>2, <1>5, <1>6, <1>7

\* response.output_item.done.
LEMMA ItemDoneEvent ==
    ASSUME NEW v, NEW x, NEW t, Live(v, x, t, up, req), t.started, NEW i \in Items, MayRun(i),
           up.at[i] # 4, Announced(i), ~EmptyPart(i)
    PROVE  LET ev == Ev("item_done", i, FALSE, FALSE) IN
           \E y : Live(v, y, Anthropic!processData(t, ev, req.plan), Sent(ev), req)
<1> DEFINE ev == Ev("item_done", i, FALSE, FALSE)
           s == Anthropic!processData(t, ev, req.plan)
           w == Sent(ev)
<1>1. ev.type = "item_done" /\ ev.item = i
  BY DEF Ev
<1>2. up \in UpType /\ InStep(v, x, t) /\ req.plan[i] \in {"message", "tool", "reasoning"}
  BY DEF Live
<1>3. Advances(up, w, i, 4, up.full[i], up.sent[i])
  BY <1>2, SentPlain
<1> HIDE DEF ev, w
<1>4. s = Anthropic!itemDone(t, ev, req.plan) /\ Anthropic!ensureStart(t) = t
  BY <1>1, StartedSame DEF Anthropic!processData, Anthropic!Broken
<1> HIDE DEF s
<1>5. CASE req.plan[i] = "reasoning"
  <2> DEFINE a == Anthropic!captureThinkingSignature([t EXCEPT !.current = i], i, TRUE)
  <2>1. s = IF a.thinking = 0 THEN Anthropic!emitFinalReasoningItem(a, i, TRUE)
            ELSE Anthropic!finalizeThinkingBlock(a, TRUE)
    BY <1>1, <1>4, <1>5 DEF Anthropic!itemDone
  <2>2. t.thinking = 0 \/ t.current = i
    BY OneThought
  <2>3. Aims(v, x, t, a, i)
    BY <1>2, <2>2, CaptureAims
  <2>4. up.at[i] \in 1 .. 3 /\ (up.at[i] = 2 => up.sent[i] # 0)
    <3>1. up.at[i] \in 0 .. 4
      BY <1>2 DEF UpType
    <3> QED
      BY <1>5, <3>1 DEF Announced, EmptyPart
  <2> HIDE DEF a
  <2>5. \E y : Live(v, y, s, w, req)
    BY <1>3, <1>5, <2>1, <2>3, <2>4, ThoughtDoneEvent
  <2> QED
    BY <2>5 DEF s, w, ev
<1>6. CASE req.plan[i] # "reasoning"
  <2>1. t.thinking = 0
    BY <1>6, OneThought
  <2>2. i \notin t.completed
    BY <1>6 DEF Live, Phase, ItemSync, ContentSync
  <2>3. Completes(v, x, t, s, i)
    <3>1. CASE req.plan[i] = "tool"
      <4>1. s = Anthropic!completeTool(t, i)
        BY <1>1, <1>4, <3>1 DEF Anthropic!itemDone
      <4> QED
        BY <1>2, <2>1, <2>2, <4>1, ToolComplete
    <3>2. CASE req.plan[i] = "message"
      <4>1. s = Anthropic!completeText(t, i)
        BY <1>1, <1>4, <3>2 DEF Anthropic!itemDone
      <4> QED
        BY <1>2, <2>1, <2>2, <4>1, TextComplete
    <3> QED
      BY <1>2, <1>6, <3>1, <3>2
  <2>4. \E y : Live(v, y, s, w, req)
    BY <1>3, <1>6, <2>1, <2>3, DoneEvent
  <2> QED
    BY <2>4 DEF s, w, ev
<1> QED
  BY <1>5, <1>6

\* The events of an item.
LEMMA ItemEventStep ==
    ASSUME NEW v, NEW x, NEW t, Live(v, x, t, up, req), t.started, NEW i \in Items,
           NEW ev \in ItemEvents(i)
    PROVE  \E y : Live(v, y, Anthropic!processData(t, ev, req.plan), Sent(ev), req)
<1> DEFINE s == Anthropic!processData(t, ev, req.plan)
<1>0. MayRun(i)
  BY ItemCases
<1>1. up \in UpType /\ InStep(v, x, t) /\ req.plan[i] \in {"message", "tool", "reasoning"}
      /\ Anthropic!ensureStart(t) = t
  BY StartedSame DEF Live
<1>2. ASSUME up.at[i] = 0, NEW full \in BOOLEAN, ev = Ev("added", i, full, FALSE),
             full => req.plan[i] # "message"
      PROVE  \E y : Live(v, y, s, Sent(ev), req)
  BY <1>0, <1>2, AddedEvent
<1>3. ASSUME req.plan[i] = "message", up.at[i] <= 2, ~up.full[i], ev = Ev("text_delta", i, FALSE, FALSE)
      PROVE  \E y : Live(v, y, s, Sent(ev), req)
  <2>1. ev.type = "text_delta" /\ ev.item = i
    BY <1>3 DEF Ev
  <2>2. s = Anthropic!blockDelta(t, i, "message", "piece")
    BY <1>1, <2>1 DEF Anthropic!processData, Anthropic!Broken
  <2>3. Advances(up, Sent(ev), i, 2, up.full[i], up.sent[i] + 1)
    BY <1>1, <1>3, SentPlain
  <2> HIDE DEF s
  <2> QED
    BY <1>0, <1>3, <2>2, <2>3, DeltaEvent
<1>4. ASSUME req.plan[i] = "reasoning", up.at[i] = 1, ev = Ev("part_added", i, FALSE, FALSE)
      PROVE  \E y : Live(v, y, s, Sent(ev), req)
  <2>1. ev.type = "part_added" /\ ev.item = i
    BY <1>4 DEF Ev
  <2>2. s = Anthropic!startThinkingPart(t, i)
    BY <1>1, <2>1 DEF Anthropic!processData, Anthropic!Broken
  <2>3. Advances(up, Sent(ev), i, 2, up.full[i], up.sent[i])
    BY <1>1, <1>4, SentPlain
  <2> HIDE DEF s
  <2> QED
    BY <1>0, <1>4, <2>2, <2>3, PartEvent
<1>5. ASSUME req.plan[i] = "reasoning", up.at[i] \in 1 .. 2, ev = Ev("reasoning_delta", i, FALSE, FALSE)
      PROVE  \E y : Live(v, y, s, Sent(ev), req)
  <2> DEFINE m == IF t.thinking = 0 THEN Anthropic!startThinkingPart(t, i) ELSE t
  <2>1. ev.type = "reasoning_delta" /\ ev.item = i
    BY <1>5 DEF Ev
  <2>2. s = Anthropic!thinkingDelta(m, i, "piece")
    BY <1>1, <2>1 DEF Anthropic!processData, Anthropic!Broken, Anthropic!reasoningDelta
  <2>3. Advances(up, Sent(ev), i, 2, up.full[i], up.sent[i] + 1)
    BY <1>1, <1>5, SentPlain
  <2>4. m = IF t.thinking = 0 THEN Anthropic!startThinkingPart(t, i) ELSE t
    OBVIOUS
  <2> HIDE DEF s, m
  <2> QED
    BY <1>0, <1>5, <2>2, <2>3, <2>4, ThoughtEvent
<1>6. ASSUME req.plan[i] = "reasoning", up.at[i] = 2, ~EmptyPart(i), ev = Ev("part_done", i, FALSE, FALSE)
      PROVE  \E y : Live(v, y, s, Sent(ev), req)
  <2>1. ev.type = "part_done" /\ ev.item = i
    BY <1>6 DEF Ev
  <2>2. s = [t EXCEPT !.stopPend = TRUE]
    BY <1>1, <2>1 DEF Anthropic!processData, Anthropic!Broken
  <2>3. Advances(up, Sent(ev), i, 3, up.full[i], up.sent[i])
    BY <1>1, <1>6, SentPlain
  <2>4. up.sent[i] # 0
    BY <1>6 DEF EmptyPart
  <2> HIDE DEF s
  <2> QED
    BY <1>0, <1>6, <2>2, <2>3, <2>4, PartDoneEvent
<1>7. ASSUME req.plan[i] = "tool", up.at[i] <= 2, ~up.full[i], ev = Ev("args_delta", i, FALSE, FALSE)
      PROVE  \E y : Live(v, y, s, Sent(ev), req)
  <2>1. ev.type = "args_delta" /\ ev.item = i
    BY <1>7 DEF Ev
  <2>2. s = Anthropic!blockDelta(t, i, "tool", "piece")
    BY <1>1, <2>1 DEF Anthropic!processData, Anthropic!Broken
  <2>3. Advances(up, Sent(ev), i, 2, up.full[i], up.sent[i] + 1)
    BY <1>1, <1>7, SentPlain
  <2> HIDE DEF s
  <2> QED
    BY <1>0, <1>7, <2>2, <2>3, DeltaEvent
<1>8. ASSUME req.plan[i] = "tool", up.at[i] <= 2, ev = Ev("args_done", i, FALSE, FALSE)
      PROVE  \E y : Live(v, y, s, Sent(ev), req)
  <2>1. ev.type = "args_done" /\ ev.item = i
    BY <1>8 DEF Ev
  <2>2. s = Anthropic!completeTool(t, i)
    BY <1>1, <2>1 DEF Anthropic!processData, Anthropic!Broken
  <2>3. Advances(up, Sent(ev), i, 3, up.full[i], up.sent[i])
    BY <1>1, <1>8, SentPlain
  <2>4. t.thinking = 0 /\ i \notin t.completed
    BY <1>0, <1>8, OneThought DEF Live, Phase, ItemSync, ContentSync
  <2> HIDE DEF s
  <2>5. Completes(v, x, t, s, i)
    BY <1>1, <2>2, <2>4, ToolComplete
  <2> QED
    BY <1>8, <2>3, <2>4, <2>5, DoneEvent
<1>9. ASSUME up.at[i] # 4, Announced(i), ~EmptyPart(i), ev = Ev("item_done", i, FALSE, FALSE)
      PROVE  \E y : Live(v, y, s, Sent(ev), req)
  BY <1>0, <1>9, ItemDoneEvent
<1> HIDE DEF s
<1>10. req.plan[i] \in {"tool", "patch"} => req.plan[i] = "tool"
  BY <1>1
<1>11. \E y : Live(v, y, s, Sent(ev), req)
  BY <1>2, <1>3, <1>4, <1>5, <1>6, <1>7, <1>8, <1>9, <1>10, ItemCases
<1> QED
  BY <1>11 DEF s

\* Where the names of these events belong.
LEMMA GeneralNames ==
    /\ {"created", "json", "failed"} \cup Broken \cup Finals = General
    /\ \A type \in Finals : type \notin Midway
    /\ \A type \in {"failed"} \cup Broken : type \notin Finals
    /\ Broken = {"broken_created", "broken_text", "broken_final", "broken_failed", "garbage"}
    /\ "created" \in Midway /\ "json" \notin Midway /\ "failed" \notin Midway
  BY DEF General, Finals, Midway, Broken, Anthropic!Broken

\* An event of no item.
LEMMA SentOther ==
    ASSUME up \in UpType, NEW type \in General, NEW output \in BOOLEAN
    PROVE  LET w == Sent(Ev(type, 0, FALSE, output)) IN
           /\ w \in UpType /\ w.created = (up.created \/ type # "garbage") /\ w.output = output
           /\ w.at = up.at /\ w.sent = up.sent /\ w.full = up.full
           /\ w.end = IF type \in Midway THEN up.end ELSE type
<1> DEFINE ev == Ev(type, 0, FALSE, output)
           e == IF type \in Midway THEN up.end ELSE type
           b == up.created \/ type # "garbage"
           w == Sent(ev)
<1>1. ev.item = 0 /\ ev.type = type /\ ev.output = output
  BY DEF Ev
<1>2. e \in {"open", "json", "failed", "broken_final", "broken_failed"} \cup Finals
  BY DEF UpType, General, Midway, Broken, Anthropic!Broken
<1>3. w = [up EXCEPT !.created = b, !.output = output, !.end = e]
  BY <1>1 DEF Sent
<1> HIDE DEF e, w
<1>6. b \in BOOLEAN
  OBVIOUS
<1> HIDE DEF b
<1>4. w \in UpType /\ w.at = up.at /\ w.sent = up.sent /\ w.full = up.full /\ w.end = e
  BY <1>2, <1>3, <1>6 DEF UpType
<1>5. w.created = b /\ w.output = output
  BY <1>3 DEF UpType
<1> QED
  BY <1>4, <1>5 DEF w, e, b

\* response.created, and an answer that is not a stream at all.
LEMMA FirstEventStep ==
    ASSUME NEW v, NEW x, NEW t, Live(v, x, t, up, req), NEW type \in {"created", "json"},
           NEW ev, ev = Ev(type, 0, FALSE, FALSE)
    PROVE  LET s == Anthropic!processData(t, ev, req.plan) IN
           ~s.finished /\ \E y : AnthropicLed(v, y, s, Sent(ev), req)
<1> DEFINE s == Anthropic!processData(t, ev, req.plan)
           w == Sent(ev)
<1>1. ev.type = type
  BY DEF Ev
<1>2. up \in UpType /\ up.end = "open" /\ InStep(v, x, t) /\ Sync(x, t) /\ x \in View /\ t \in Translator
      /\ Leads(v, t.out, x, TRUE) /\ ~t.finished
  BY DEF Live, InStep, Sync
<1>3. /\ w \in UpType /\ w.created /\ w.at = up.at /\ w.sent = up.sent /\ w.full = up.full
      /\ w.end = IF type \in Midway THEN up.end ELSE type
  BY <1>2, GeneralNames, SentOther
<1> HIDE DEF w
<1>4. CASE type = "created"
  <2>1. s = Anthropic!ensureStart(t)
    BY <1>1, <1>4 DEF Anthropic!processData, Anthropic!Broken
  <2>2. PICK y : Live(v, y, s, up, req) /\ s.started
    BY <2>1, StartLive
  <2> HIDE DEF s
  <2>3. Phase(y, s, w, req.plan)
    BY <1>3, <2>2 DEF Live, Phase, ThinkPhase, ItemSync, ThoughtSync, ContentSync
  <2>4. Live(v, y, s, w, req)
    BY <1>2, <1>3, <1>4, <2>2, <2>3 DEF Live, Midway
  <2>5. AnthropicOK(y, s, w, req)
    BY <2>4, Going
  <2>6. ~s.finished /\ s \in Translator /\ Leads(v, s.out, y, TRUE)
    BY <2>2 DEF Live, InStep, Sync
  <2> QED
    BY <2>5, <2>6 DEF AnthropicLed, s, w
<1>5. CASE type = "json"
  <2>1. s = t
    BY <1>1, <1>5 DEF Anthropic!processData, Anthropic!Broken
  <2>2. AnthropicOK(x, t, up, req)
    BY Going
  <2>3. w.end = "json" /\ w.end \notin Finals
    BY <1>3, <1>5 DEF Finals, Midway
  <2>4. AnthropicOK(x, t, w, req)
    BY <1>2, <1>3, <2>2, <2>3 DEF AnthropicOK, Shaped
  <2> HIDE DEF s
  <2> QED
    BY <1>2, <2>1, <2>4 DEF AnthropicLed, s, w
<1> QED
  BY <1>4, <1>5

\* response.completed and response.incomplete, with the output or without.
LEMMA FinalEventStep ==
    ASSUME NEW v, NEW x, NEW t, Live(v, x, t, up, req), t.started,
           \A i \in Items : req.plan[i] = "reasoning" => up.at[i] \notin 1 .. 3,
           NEW type \in Finals, NEW output \in BOOLEAN, NEW ev, ev = Ev(type, 0, FALSE, output)
    PROVE  LET s == Anthropic!processData(t, ev, req.plan) IN
           Sent(ev).end # "open" /\ \E y : AnthropicLed(v, y, s, Sent(ev), req)
<1> DEFINE o == IF output THEN Anthropic!emitFinalOutput(t, req.plan) ELSE t
           s == Anthropic!processData(t, ev, req.plan)
           w == Sent(ev)
           k == IF output THEN NItems ELSE 0
<1>1. ev.type = type /\ ev.output = output
  BY DEF Ev
<1>2. up \in UpType /\ InStep(v, x, t) /\ \A i \in Items : req.plan[i] \in {"message", "tool", "reasoning"}
  BY DEF Live
<1>3. /\ w \in UpType /\ w.output = output /\ w.at = up.at /\ w.sent = up.sent /\ w.full = up.full
      /\ w.end = type
  <2>1. type \notin Midway /\ type \in General
    BY GeneralNames
  <2> QED
    BY <1>2, <2>1, SentOther
<1> HIDE DEF w
<1>4. s = Anthropic!finish(o)
  <2>1. ev.type \in {"completed", "incomplete"}
    BY <1>1 DEF Finals
  <2> QED
    BY <1>1, <2>1, StartedSame DEF Anthropic!processData, Anthropic!Broken
<1> HIDE DEF s
<1>5. \A i \in Items : req.plan[i] = "reasoning" => up.at[i] \in {0, 4}
  BY <1>2 DEF UpType
<1>6. Ending(v, x, t, w, req, 0)
  BY <1>3, <1>5, EndingStart
<1>7. PICK z : Ending(v, z, o, w, req, k)
  BY <1>2, <1>6, EndingAll
<1> HIDE DEF o
<1>8. InStep(v, z, o) /\ o.mode = req.mode
  BY <1>7 DEF Ending
<1>9. s.mode = o.mode /\ \E y : Ended(v, y, s, "success") /\ y.parts = z.parts
  BY <1>4, <1>8, FinishStep
<1>10. PICK y : Ended(v, y, s, "success") /\ y.parts = z.parts
  BY <1>9
<1>11. \A i \in Items : y.parts[i] \in {Pieces(n) : n \in 0 .. w.sent[i]} \cup {<<"whole">>}
  BY <1>3, <1>7, <1>10, EndingParts
<1>12. Complete(y, w, req)
  <2>1. k = IF w.output THEN NItems ELSE 0
    BY <1>3
  <2> HIDE DEF k
  <2>2. Complete(z, w, req)
    BY <1>2, <1>3, <1>7, <2>1, EndingComplete
  <2> QED
    BY <1>10, <2>2 DEF Complete, Owed, Elsewhere
<1>13. w.end \in Finals /\ w.end # "open"
  BY <1>3 DEF Finals
<1>14. AnthropicOK(y, s, w, req)
  BY <1>3, <1>8, <1>9, <1>10, <1>11, <1>12, <1>13, EndedOK
<1>15. AnthropicLed(v, y, s, w, req)
  BY <1>10, <1>14 DEF AnthropicLed, Ended
<1> QED
  BY <1>13, <1>15 DEF s, w

\* fail: the stream ends with an error, which the provider has not contradicted.
LEMMA FailedStep ==
    ASSUME NEW v, NEW x, NEW t, InStep(v, x, t), NEW r, t.mode = r.mode,
           NEW u, Shaped(x, u), NEW w \in UpType, w.sent = u.sent, w.end \notin Finals
    PROVE  \E y : AnthropicLed(v, y, Anthropic!fail(t), w, r)
<1> DEFINE s == Anthropic!fail(t)
<1>1. s.mode = t.mode /\ \E y : Ended(v, y, s, "error") /\ y.parts = x.parts
  BY FailStep
<1> HIDE DEF s
<1>2. PICK y : Ended(v, y, s, "error") /\ y.parts = x.parts
  BY <1>1
<1>3. \A i \in Items : y.parts[i] \in {Pieces(n) : n \in 0 .. w.sent[i]} \cup {<<"whole">>}
  BY <1>2 DEF Shaped
<1>4. AnthropicOK(y, s, w, r)
  BY <1>1, <1>2, <1>3, EndedOK
<1>5. AnthropicLed(v, y, s, w, r)
  BY <1>2, <1>4 DEF AnthropicLed, Ended
<1> QED
  BY <1>5 DEF s

\* Every event the provider may send.
LEMMA AnthropicEvent ==
    ASSUME NEW v, NEW x, NEW t, Live(v, x, t, up, req), NEW ev \in Events
    PROVE  LET s == Anthropic!processData(t, ev, req.plan) IN
           /\ Sent(ev) \in UpType
           /\ s.finished => ev.type \in Broken \/ Sent(ev).end # "open"
           /\ \E y : AnthropicLed(v, y, s, Sent(ev), req)
<1> DEFINE s == Anthropic!processData(t, ev, req.plan)
<1>1. up \in UpType /\ InStep(v, x, t) /\ t.mode = req.mode /\ (up.created => t.started) /\ up.end = "open"
  BY DEF Live, Phase
<1>2. ASSUME NEW type \in {"created", "json"}, ev = Ev(type, 0, FALSE, FALSE)
      PROVE  /\ Sent(ev) \in UpType /\ ~s.finished
             /\ \E y : AnthropicLed(v, y, s, Sent(ev), req)
  BY <1>1, <1>2, GeneralNames, SentOther, FirstEventStep
<1>3. ASSUME up.created, NEW i \in Items, ev \in ItemEvents(i)
      PROVE  /\ Sent(ev) \in UpType /\ ~s.finished
             /\ \E y : AnthropicLed(v, y, s, Sent(ev), req)
  <2>1. PICK y : Live(v, y, s, Sent(ev), req)
    BY <1>1, <1>3, ItemEventStep
  <2> HIDE DEF s
  <2>2. AnthropicOK(y, s, Sent(ev), req)
    BY <2>1, Going
  <2>3. Sent(ev) \in UpType /\ ~s.finished /\ s \in Translator /\ Leads(v, s.out, y, TRUE)
    BY <2>1 DEF Live, InStep, Sync
  <2> QED
    BY <2>2, <2>3 DEF AnthropicLed
<1>4. ASSUME up.created, \A i \in Items : req.plan[i] = "reasoning" => up.at[i] \notin 1 .. 3,
             NEW type \in Finals, NEW output \in BOOLEAN, ev = Ev(type, 0, FALSE, output)
      PROVE  /\ Sent(ev) \in UpType /\ Sent(ev).end # "open"
             /\ \E y : AnthropicLed(v, y, s, Sent(ev), req)
  <2>1. Sent(ev) \in UpType
    BY <1>1, <1>4, GeneralNames, SentOther
  <2>2. Sent(ev).end # "open" /\ \E y : AnthropicLed(v, y, s, Sent(ev), req)
    BY <1>1, <1>4, FinalEventStep
  <2> QED
    BY <2>1, <2>2
<1>5. ASSUME NEW type \in {"failed"} \cup Broken, ev = Ev(type, 0, FALSE, FALSE)
      PROVE  /\ Sent(ev) \in UpType /\ (ev.type \in Broken \/ Sent(ev).end # "open")
             /\ \E y : AnthropicLed(v, y, s, Sent(ev), req)
  <2>1. ev.type = type
    BY <1>5 DEF Ev
  <2>2. s = Anthropic!fail(t)
    BY <1>5, <2>1 DEF Anthropic!processData, Broken, Anthropic!Broken
  <2>3. /\ Sent(ev) \in UpType /\ Sent(ev).sent = up.sent
        /\ Sent(ev).end = IF type \in Midway THEN up.end ELSE type
    <3>1. type \in General
      BY <1>5, GeneralNames
    <3> QED
      BY <1>1, <1>5, <3>1, SentOther
  <2>4. Shaped(x, up)
    BY Going DEF AnthropicOK
  <2>5. Sent(ev).end \notin Finals
    <3>1. "open" \notin Finals
      BY DEF Finals
    <3> QED
      BY <1>1, <1>5, <2>3, <3>1, GeneralNames
  <2>6. \E y : AnthropicLed(v, y, s, Sent(ev), req)
    BY <1>1, <2>2, <2>3, <2>4, <2>5, FailedStep
  <2>7. type = "failed" => Sent(ev).end # "open"
    BY <2>3, GeneralNames
  <2> QED
    BY <1>5, <2>1, <2>3, <2>6, <2>7
<1> HIDE DEF s
<1>6. /\ Sent(ev) \in UpType
      /\ s.finished => ev.type \in Broken \/ Sent(ev).end # "open"
      /\ \E y : AnthropicLed(v, y, s, Sent(ev), req)
  BY <1>2, <1>3, <1>4, <1>5, EventCases
<1> QED
  BY <1>6 DEF s

-----------------------------------------------------------------------------
(* The translator for Chat clients.                                        *)

\* A chunk is a frame.
LEMMA ChunkIs ==
    ASSUME NEW type \in FrameNames, NEW b \in Nat, NEW i \in 0 .. NItems, NEW part \in PartNames
    PROVE  LET f == Chat!Chunk(type, b, i, part) IN
           /\ f \in FrameType
           /\ f.type = type /\ f.block = b /\ f.item = i /\ f.part = part
  BY DEF Chat!Chunk, FrameType

\* queue: a frame is appended, and nothing else.
LEMMA QueueIs ==
    ASSUME NEW c \in ChatType, NEW f \in FrameType
    PROVE  LET s == Chat!queue(c, f) IN
           /\ s \in ChatType /\ s.out = Append(c.out, f) /\ ChatKept(c, s)
           /\ s.started = c.started /\ s.done = c.done
<1> DEFINE s == Chat!queue(c, f)
           o == Append(c.out, f)
<1>1. o \in Seq(FrameType)
  BY DEF ChatType
<1>2. s = [c EXCEPT !.out = o]
  BY DEF Chat!queue
<1> HIDE DEF o, s
<1>3. s \in ChatType /\ s.out = o /\ ChatKept(c, s)
  BY <1>1, <1>2 DEF ChatType, ChatKept
<1>4. s.started = c.started /\ s.done = c.done
  BY <1>2 DEF ChatType
<1> QED
  BY <1>3, <1>4 DEF s, o

\* A chunk of text: no tool call is concerned.
LEMMA ShownText ==
    ASSUME NEW x \in View, NEW f \in FrameType, f.type = "content", f.item \in Items, f.block = 0,
           f.part \in Content
    PROVE  LET y == Shown(x, f) IN
           /\ y.begun /\ y.started = x.started /\ y.end = x.end /\ y.home = x.home /\ y.open = x.open
           /\ y.parts = Plus(x.parts, f.item, f.part)
<1> DEFINE y == Shown(x, f)
<1>1. x.home \in [Items -> SUBSET Nat] /\ x.parts \in [Items -> Seq(Content)] /\ x.started \in Nat
  BY DEF View
<1>2. y.home = [i \in Items |-> IF f.item = i /\ f.block # 0 THEN x.home[i] \cup {f.block} ELSE x.home[i]]
  BY DEF Shown
<1>3. y.parts = [i \in Items |-> IF f.item = i /\ f.part \in Content THEN Append(x.parts[i], f.part) ELSE x.parts[i]]
  BY DEF Shown
<1>4. y.begun /\ y.started = x.started /\ y.end = x.end /\ y.open = x.open
  BY <1>1 DEF Shown, Finals
<1> HIDE DEF y
<1>5. y.home = x.home
  BY <1>1, <1>2
<1>6. y.parts = Plus(x.parts, f.item, f.part)
  BY <1>1, <1>3 DEF Plus
<1> QED
  BY <1>4, <1>5, <1>6 DEF y

\* What the translator knows of the tool calls depends on these only.
LEMMA ChatSyncSame ==
    ASSUME NEW x \in View, NEW c, ChatSync(x, c), NEW y \in View, NEW s, ChatKept(c, s),
           y.begun = s.started, y.started = x.started, y.end = x.end, y.home = x.home, y.open = x.open
    PROVE  ChatSync(y, s)
<1>1. Numbered(y, s.next)
  BY NumberedSame DEF ChatSync, ChatKept
<1> QED
  BY <1>1 DEF ChatSync, ChatKept

\* start: the chunk with the role, once.
LEMMA ChatStart ==
    ASSUME NEW v, NEW x, NEW c, ChatIn(v, x, c)
    PROVE  LET s == Chat!start(c) IN
           /\ s.started /\ ChatKept(c, s)
           /\ \E y : ChatIn(v, y, s) /\ y.parts = x.parts
<1> DEFINE s == Chat!start(c)
<1>0. c \in ChatType /\ ~c.done /\ v \in View /\ x \in View /\ Leads(v, c.out, x, TRUE) /\ ChatSync(x, c)
  BY DEF ChatIn
<1>1. CASE c.started
  <2>1. s = c
    BY <1>1 DEF Chat!start
  <2> QED
    BY <2>1, <1>1 DEF ChatKept
<1>2. CASE ~c.started
  <2> DEFINE u == [c EXCEPT !.started = TRUE]
             f == Chat!Chunk("role", 0, 0, "none")
             y == Shown(x, f)
  <2>1. s = Chat!queue(u, f)
    BY <1>2 DEF Chat!start
  <2>2. u \in ChatType /\ u.started /\ u.out = c.out /\ u.done = c.done /\ ChatKept(c, u)
    BY <1>0 DEF ChatType, ChatKept
  <2>3. f \in FrameType /\ f.type = "role" /\ f.item = 0 /\ f.block = 0
    <3>1. "role" \in FrameNames /\ "none" \in PartNames /\ 0 \in Nat /\ 0 \in 0 .. NItems
      BY ItemsFinite DEF FrameNames, PartNames
    <3> QED
      BY <3>1, ChunkIs
  <2> HIDE DEF s, u, f
  <2>4. s \in ChatType /\ s.out = Append(c.out, f) /\ ChatKept(c, s) /\ s.started /\ s.done = c.done
    BY <2>1, <2>2, <2>3, QueueIs DEF ChatKept
  <2>5. Allowed(f, x)
    BY <1>0, <1>2, <2>3 DEF Allowed, ChatSync
  <2>6. y \in View /\ Leads(v, s.out, y, TRUE)
    <3>1. c.out \in Seq(FrameType) /\ x.end = "none"
      BY <1>0 DEF ChatType, ChatSync
    <3> QED
      BY <3>1, <1>0, <2>3, <2>4, <2>5, PutFrame
  <2>7. /\ y.begun /\ y.started = x.started /\ y.open = x.open
        /\ y.parts = x.parts /\ y.home = x.home /\ y.end = x.end
    BY <1>0, <2>3, ShownMark DEF Finals
  <2> HIDE DEF y
  <2>8. y.begun = s.started /\ ~s.done
    BY <1>0, <2>4, <2>6, <2>7 DEF View, ChatType
  <2>9. ChatSync(y, s)
    BY <1>0, <2>4, <2>6, <2>7, <2>8, ChatSyncSame
  <2> QED
    BY <1>0, <2>4, <2>6, <2>7, <2>8, <2>9 DEF ChatIn, s
<1> QED
  BY <1>1, <1>2

\* response.output_text.delta: the chunk with the text.
LEMMA ChatText ==
    ASSUME NEW v, NEW x, NEW c, ChatIn(v, x, c), c.started, NEW i \in Items, c.byOut[i] = 0
    PROVE  ChatShows(v, x, c, Chat!queue(c, Chat!Chunk("content", 0, i, "piece")), i, "piece")
<1> DEFINE f == Chat!Chunk("content", 0, i, "piece")
           s == Chat!queue(c, f)
           y == Shown(x, f)
<1>0. c \in ChatType /\ ~c.done /\ v \in View /\ x \in View /\ Leads(v, c.out, x, TRUE) /\ ChatSync(x, c)
  BY DEF ChatIn
<1>1. f \in FrameType /\ f.type = "content" /\ f.item = i /\ f.block = 0 /\ f.part = "piece"
  <2>1. "content" \in FrameNames /\ "piece" \in PartNames /\ 0 \in Nat /\ i \in 0 .. NItems
    BY ItemsFinite DEF FrameNames, PartNames, Items
  <2> QED
    BY <2>1, ChunkIs
<1> HIDE DEF f
<1>2. s \in ChatType /\ s.out = Append(c.out, f) /\ ChatKept(c, s) /\ s.started = c.started /\ s.done = c.done
  BY <1>0, <1>1, QueueIs
<1>3. Allowed(f, x)
  BY <1>0, <1>1 DEF Allowed, ChatSync
<1>4. y \in View /\ Leads(v, s.out, y, TRUE)
  <2>1. c.out \in Seq(FrameType)
    BY <1>0 DEF ChatType
  <2> QED
    BY <2>1, <1>0, <1>1, <1>2, <1>3, PutFrame
<1>5. /\ y.begun /\ y.started = x.started /\ y.end = x.end /\ y.home = x.home /\ y.open = x.open
      /\ y.parts = Plus(x.parts, i, "piece")
  <2>1. f.item \in Items /\ f.part \in Content
    BY <1>1 DEF Content
  <2> QED
    BY <2>1, <1>0, <1>1, ShownText
<1> HIDE DEF s, y
<1>6. y.begun = s.started /\ ~s.done
  BY <1>0, <1>2, <1>4, <1>5 DEF View, ChatType
<1>7. ChatSync(y, s)
  BY <1>0, <1>2, <1>4, <1>5, <1>6, ChatSyncSame
<1>8. 0 \notin c.argsEmitted
  BY <1>0 DEF ChatSync, Numbered
<1>9. ChatShows(v, x, c, s, i, "piece")
  BY <1>0, <1>2, <1>4, <1>5, <1>6, <1>7, <1>8 DEF ChatIn, ChatKept, ChatShows
<1> QED
  BY <1>9 DEF s, f

\* A text delta without text: a chunk that shows nothing.
LEMMA ChatBlank ==
    ASSUME NEW v, NEW x, NEW c, ChatIn(v, x, c), c.started,
           NEW s, s = Chat!queue(c, Chat!Chunk("content", 0, 0, "none"))
    PROVE  /\ s.started /\ ChatKept(c, s)
           /\ \E y : ChatIn(v, y, s) /\ y.parts = x.parts
<1> DEFINE f == Chat!Chunk("content", 0, 0, "none")
           y == Shown(x, f)
<1>0. c \in ChatType /\ ~c.done /\ v \in View /\ x \in View /\ Leads(v, c.out, x, TRUE) /\ ChatSync(x, c)
  BY DEF ChatIn
<1>1. f \in FrameType /\ f.type = "content" /\ f.item = 0 /\ f.block = 0
  <2>1. "content" \in FrameNames /\ "none" \in PartNames /\ 0 \in Nat /\ 0 \in 0 .. NItems
    BY ItemsFinite DEF FrameNames, PartNames
  <2> QED
    BY <2>1, ChunkIs
<1>2. s = Chat!queue(c, f)
  OBVIOUS
<1> HIDE DEF f
<1>3. s \in ChatType /\ s.out = Append(c.out, f) /\ ChatKept(c, s) /\ s.started = c.started /\ s.done = c.done
  BY <1>0, <1>1, <1>2, QueueIs
<1>4. Allowed(f, x)
  BY <1>0, <1>1 DEF Allowed, ChatSync
<1>5. y \in View /\ Leads(v, s.out, y, TRUE)
  <2>1. c.out \in Seq(FrameType) /\ x.end = "none"
    BY <1>0 DEF ChatType, ChatSync
  <2> QED
    BY <2>1, <1>0, <1>1, <1>3, <1>4, PutFrame
<1>6. /\ y.begun /\ y.started = x.started /\ y.open = x.open
      /\ y.parts = x.parts /\ y.home = x.home /\ y.end = x.end
  BY <1>0, <1>1, ShownMark DEF Finals
<1> HIDE DEF y
<1>7. y.begun = s.started /\ ~s.done
  BY <1>0, <1>3, <1>5, <1>6 DEF View, ChatType
<1>8. ChatSync(y, s)
  BY <1>0, <1>3, <1>5, <1>6, <1>7, ChatSyncSame
<1> QED
  BY <1>0, <1>3, <1>5, <1>6, <1>7, <1>8 DEF ChatIn

\* An index belongs to one item.
LEMMA OneTool ==
    ASSUME NEW x, NEW c, ChatSync(x, c), NEW i \in Items, NEW j \in Items, c.byOut[i] # 0,
           c.byOut[i] = c.byOut[j]
    PROVE  i = j
<1>1. x.home[i] = {c.byOut[i]} \ {0} /\ x.home[j] = {c.byOut[j]} \ {0}
  BY DEF ChatSync
<1>2. i # j => x.home[i] \cap x.home[j] = {}
  BY DEF ChatSync, Numbered
<1> QED
  BY <1>1, <1>2

\* queueToolCallStart: the next index, and the chunk with the call's id and name.
LEMMA OpenTool ==
    ASSUME NEW v, NEW x, NEW c0, ChatIn(v, x, c0), NEW i \in Items, c0.byOut[i] = 0,
           NEW kind \in {"call", "item"}
    PROVE  ChatOpens(v, x, c0, Chat!openTool(c0, <<kind, i>>, i), i)
<1> DEFINE c == Chat!start(c0)
           n == c.next
           m == n + 1
           f == Chat!Chunk("tool_start", n, i, "none")
           key == <<kind, i>>
           B == [c.byCall EXCEPT ![key] = n]
           O == [c.byOut EXCEPT ![i] = n]
           u == [c EXCEPT !.next = m, !.byCall = B, !.byOut = O, !.sawTools = TRUE]
           s == Chat!openTool(c0, key, i)
<1>0. /\ c.started /\ ChatKept(c0, c)
      /\ \E y : ChatIn(v, y, c) /\ y.parts = x.parts
  BY ChatStart
<1>1. s = Chat!queue(u, f)
  BY DEF Chat!openTool
<1> HIDE DEF c, s
<1>2. PICK z : ChatIn(v, z, c) /\ z.parts = x.parts
  BY <1>0
<1>3. /\ c \in ChatType /\ ~c.done /\ v \in View /\ z \in View /\ Leads(v, c.out, z, TRUE)
      /\ ChatSync(z, c) /\ c.byOut[i] = 0
  BY <1>0, <1>2 DEF ChatIn, ChatKept
<1>4. /\ n \in Nat \ {0} /\ z.started = n - 1 /\ z.begun /\ z.end = "none" /\ z.home[i] = {} /\ m \in Nat
      /\ c.out \in Seq(FrameType) /\ Numbered(z, n)
  <2>1. Numbered(z, n) /\ z.begun /\ z.end = "none" /\ z.home[i] = {}
    BY <1>0, <1>3 DEF ChatSync
  <2>2. n \in Nat \ {0} /\ z.started = n - 1
    BY <2>1 DEF Numbered
  <2>3. c.out \in Seq(FrameType)
    BY <1>3 DEF ChatType
  <2> QED
    BY <2>1, <2>2, <2>3
<1>5. key \in Chat!CallKeys /\ c.byCall \in [Chat!CallKeys -> Nat] /\ c.byOut \in [Items -> Nat]
  BY <1>3 DEF Chat!CallKeys, ChatType
<1> HIDE DEF n
<1>6. B \in [Chat!CallKeys -> Nat] /\ O \in [Items -> Nat]
      /\ O[i] = n /\ (\A j \in Items : j # i => O[j] = c.byOut[j])
  BY <1>4, <1>5
<1>7. \A k \in {"call", "item"} : \A j \in Items :
         B[<<k, j>>] = IF k = kind /\ j = i THEN n ELSE c.byCall[<<k, j>>]
  <2>1. \A k \in {"call", "item"} : \A j \in Items : <<k, j>> \in Chat!CallKeys
    BY DEF Chat!CallKeys
  <2>2. \A k \in {"call", "item"} : \A j \in Items : <<k, j>> = key <=> k = kind /\ j = i
    OBVIOUS
  <2> HIDE DEF key
  <2> QED
    BY <1>5, <2>1, <2>2
<1> HIDE DEF B, O, m
<1>8. u \in ChatType /\ u.next = m /\ u.byCall = B /\ u.byOut = O /\ u.out = c.out
      /\ u.argsEmitted = c.argsEmitted
  BY <1>3, <1>4, <1>6 DEF ChatType
<1>9. u.started = c.started /\ u.done = c.done
  BY <1>3 DEF ChatType
<1>10. f \in FrameType /\ f.type = "tool_start" /\ f.item = i /\ f.block = n /\ f.part = "none"
  <2>1. "tool_start" \in FrameNames /\ "none" \in PartNames /\ i \in 0 .. NItems
    BY ItemsFinite DEF FrameNames, PartNames, Items
  <2> QED
    BY <1>4, <2>1, ChunkIs
<1> HIDE DEF u, f
<1>11. /\ s \in ChatType /\ s.out = Append(c.out, f) /\ s.next = m /\ s.byCall = B /\ s.byOut = O
       /\ s.argsEmitted = c.argsEmitted /\ s.started /\ ~s.done
  <2>1. s \in ChatType /\ s.out = Append(u.out, f) /\ ChatKept(u, s) /\ s.started = u.started /\ s.done = u.done
    BY <1>1, <1>8, <1>10, QueueIs
  <2> QED
    BY <1>0, <1>3, <1>8, <1>9, <2>1 DEF ChatKept
<1> DEFINE y == Shown(z, f)
<1>12. Allowed(f, z)
  BY <1>4, <1>10 DEF Allowed
<1>13. y \in View /\ Leads(v, s.out, y, TRUE)
  <2>1. Leads(v, c.out, z, TRUE) /\ c.out \in Seq(FrameType) /\ f \in FrameType
    BY <1>3, <1>4, <1>10
  <2>2. y \in View /\ Leads(v, Append(c.out, f), y, TRUE)
    BY <2>1, <1>12, PutFrame
  <2>3. s.out = Append(c.out, f)
    BY <1>11
  <2> HIDE DEF y
  <2> QED
    BY <2>2, <2>3
<1>14. /\ y.begun /\ y.started = z.started + 1 /\ y.open = z.open \cup {n} /\ y.end = z.end
       /\ y.parts = z.parts /\ y.home = [z.home EXCEPT ![i] = {n}]
  <2>1. f.type \in {"block_start", "tool_start"} /\ f.part \notin Content /\ f.block # 0
        /\ f.item \in Items /\ z.home[f.item] = {}
    BY <1>4, <1>10 DEF Content
  <2> QED
    BY <2>1, <1>3, <1>10, ShownStart
<1> HIDE DEF y
<1>15. Numbered(y, m)
  BY <1>3, <1>4, <1>13, <1>14, NumberedNew DEF m
<1>16. \A j \in Items : y.home[j] = IF j = i THEN {n} ELSE z.home[j]
  <2>1. z.home \in [Items -> SUBSET Nat]
    BY <1>3 DEF View
  <2> QED
    BY <1>14, <2>1
<1>17. c.argsEmitted \subseteq 1 .. n - 1
  BY <1>3 DEF ChatSync, n
<1>18. ChatSync(y, s)
  <2>1. s.argsEmitted \subseteq 1 .. m - 1
    BY <1>4, <1>11, <1>17 DEF m
  <2>2. \A k \in Nat : k \in y.open <=> k # 0 /\ \E j \in Items : k = O[j]
    <3>1. \A k \in Nat : k \in z.open <=> k # 0 /\ \E j \in Items : k = c.byOut[j]
      BY <1>3 DEF ChatSync
    <3> QED
      BY <1>3, <1>4, <1>6, <1>14, <3>1
  <2>3. ASSUME NEW j \in Items
        PROVE  y.home[j] = {O[j]} \ {0} /\ \A k \in {"call", "item"} : B[<<k, j>>] \in {0, O[j]}
    <3>1. z.home[j] = {c.byOut[j]} \ {0} /\ \A k \in {"call", "item"} : c.byCall[<<k, j>>] \in {0, c.byOut[j]}
      BY <1>3 DEF ChatSync
    <3>2. CASE j = i
      <4>1. \A k \in {"call", "item"} : B[<<k, i>>] \in {0, n}
        BY <1>3, <1>7, <3>1, <3>2
      <4> QED
        BY <1>4, <1>6, <1>16, <3>2, <4>1
    <3>3. CASE j # i
      BY <1>6, <1>7, <1>16, <3>1, <3>3
    <3> QED
      BY <3>2, <3>3
  <2>4. y.end = "none" /\ y.begun = s.started
    BY <1>4, <1>11, <1>13, <1>14 DEF View, ChatType
  <2> QED
    BY <1>11, <1>15, <2>1, <2>2, <2>3, <2>4 DEF ChatSync
<1>19. n \notin c.argsEmitted
  BY <1>4, <1>17
<1>20. \A j \in Items : c.byOut[j] = c0.byOut[j]
  BY <1>0 DEF ChatKept
<1>21. ChatIn(v, y, s)
  BY <1>3, <1>11, <1>13, <1>18 DEF ChatIn
<1>22. s.byOut[i] = n /\ (\A j \in Items : j # i => s.byOut[j] = c0.byOut[j])
       /\ s.argsEmitted = c0.argsEmitted
  BY <1>0, <1>6, <1>11, <1>20 DEF ChatKept
<1>23. ChatOpens(v, x, c0, s, i)
  BY <1>0, <1>2, <1>4, <1>11, <1>14, <1>19, <1>21, <1>22 DEF ChatOpens, ChatKept
<1> QED
  BY <1>23 DEF s

\* queueToolCallChunk: arguments of a tool call that has its index.
LEMMA ArgsChunk ==
    ASSUME NEW v, NEW x, NEW c, ChatIn(v, x, c), c.started, NEW i \in Items, c.byOut[i] # 0,
           NEW p \in Content
    PROVE  ChatShows(v, x, c, Chat!argumentsChunk(c, c.byOut[i], i, p), i, p)
<1> DEFINE n == c.byOut[i]
           f == Chat!Chunk("tool_args", n, i, p)
           q == Chat!queue(c, f)
           A == c.argsEmitted \cup {n}
           s == Chat!argumentsChunk(c, n, i, p)
           y == Shown(x, f)
<1>0. c \in ChatType /\ ~c.done /\ v \in View /\ x \in View /\ Leads(v, c.out, x, TRUE) /\ ChatSync(x, c)
  BY DEF ChatIn
<1>1. /\ n \in Nat /\ x.home[i] = {n} /\ n \in x.open /\ x.begun /\ x.end = "none"
      /\ c.out \in Seq(FrameType) /\ c.argsEmitted \in SUBSET Nat
  <2>1. c.byOut \in [Items -> Nat] /\ c.out \in Seq(FrameType) /\ c.argsEmitted \in SUBSET Nat
    BY <1>0 DEF ChatType
  <2>2. n \in Nat
    BY <2>1
  <2> QED
    BY <1>0, <2>1, <2>2 DEF ChatSync
<1>2. f \in FrameType /\ f.type = "tool_args" /\ f.item = i /\ f.block = n /\ f.part = p
  <2>1. "tool_args" \in FrameNames /\ p \in PartNames /\ i \in 0 .. NItems
    BY ItemsFinite DEF FrameNames, PartNames, Items, Content
  <2> QED
    BY <1>1, <2>1, ChunkIs
<1>3. n \in 1 .. c.next - 1
  BY <1>0, <1>1 DEF ChatSync, Numbered
<1> HIDE DEF n, f
<1>4. q \in ChatType /\ q.out = Append(c.out, f) /\ ChatKept(c, q) /\ q.started = c.started /\ q.done = c.done
  BY <1>0, <1>2, QueueIs
<1>5. s = [q EXCEPT !.argsEmitted = A]
  <2>1. s = [q EXCEPT !.argsEmitted = q.argsEmitted \cup {n}]
    BY DEF Chat!argumentsChunk, f
  <2>2. q.argsEmitted = c.argsEmitted
    BY <1>4 DEF ChatKept
  <2> HIDE DEF s, q
  <2> QED
    BY <2>1, <2>2
<1> HIDE DEF q, s
<1>6. A \in SUBSET Nat
  BY <1>1
<1> HIDE DEF A
<1>7. /\ s \in ChatType /\ s.out = q.out /\ s.byOut = q.byOut /\ s.byCall = q.byCall /\ s.next = q.next
      /\ s.argsEmitted = A
  BY <1>4, <1>5, <1>6 DEF ChatType
<1>8. s.started = q.started /\ s.done = q.done
  BY <1>4, <1>5 DEF ChatType
<1>9. Allowed(f, x)
  BY <1>1, <1>2 DEF Allowed
<1>10. y \in View /\ Leads(v, s.out, y, TRUE)
  <2>1. Leads(v, c.out, x, TRUE) /\ c.out \in Seq(FrameType) /\ f \in FrameType
    BY <1>0, <1>1, <1>2
  <2>2. y \in View /\ Leads(v, Append(c.out, f), y, TRUE)
    BY <2>1, <1>9, PutFrame
  <2>3. s.out = Append(c.out, f)
    BY <1>4, <1>7
  <2> HIDE DEF y
  <2> QED
    BY <2>2, <2>3
<1>11. /\ y.begun /\ y.started = x.started /\ y.open = x.open /\ y.end = x.end /\ y.home = x.home
       /\ y.parts = Plus(x.parts, i, p)
  <2>1. f.type \in {"block_delta", "block_stop", "tool_args"} /\ f.type # "block_stop"
        /\ f.item \in Items /\ x.home[f.item] = {f.block} /\ f.part \in Content
    BY <1>1, <1>2
  <2> QED
    BY <2>1, <1>0, <1>1, <1>2, ShownMore DEF Plus
<1> HIDE DEF y
<1>12. ChatSync(y, s)
  <2>1. Numbered(y, s.next)
    BY <1>0, <1>4, <1>7, <1>10, <1>11, NumberedSame DEF ChatSync, ChatKept
  <2>2. s.argsEmitted \subseteq 1 .. s.next - 1
    BY <1>0, <1>3, <1>4, <1>7 DEF ChatSync, ChatKept, A
  <2>3. y.begun = s.started
    BY <1>0, <1>4, <1>7, <1>8, <1>10, <1>11 DEF View, ChatType
  <2>4. s.byOut = c.byOut /\ s.byCall = c.byCall
    BY <1>4, <1>7 DEF ChatKept
  <2>5. /\ y.end = "none" /\ (\A k \in Nat : k \in y.open <=> k # 0 /\ \E j \in Items : k = s.byOut[j])
        /\ \A j \in Items :
              /\ y.home[j] = {s.byOut[j]} \ {0}
              /\ \A k \in {"call", "item"} : s.byCall[<<k, j>>] \in {0, s.byOut[j]}
    <3>1. /\ x.end = "none" /\ (\A k \in Nat : k \in x.open <=> k # 0 /\ \E j \in Items : k = c.byOut[j])
          /\ \A j \in Items :
                /\ x.home[j] = {c.byOut[j]} \ {0}
                /\ \A k \in {"call", "item"} : c.byCall[<<k, j>>] \in {0, c.byOut[j]}
      BY <1>0 DEF ChatSync
    <3>2. y.end = x.end /\ y.open = x.open /\ y.home = x.home
      BY <1>11
    <3> QED
      BY <2>4, <3>1, <3>2
  <2> QED
    BY <2>1, <2>2, <2>3, <2>5 DEF ChatSync
<1>13. \A j \in Items : j # i => (c.byOut[j] \in A <=> c.byOut[j] \in c.argsEmitted)
  BY <1>0, OneTool DEF A, n
<1>14. s.byOut = c.byOut /\ c.byOut[i] \in A
  BY <1>4, <1>7 DEF ChatKept, A, n
<1>15. ChatIn(v, y, s)
  BY <1>0, <1>4, <1>7, <1>8, <1>10, <1>12 DEF ChatIn
<1>16. ChatShows(v, x, c, s, i, p)
  BY <1>4, <1>7, <1>8, <1>11, <1>13, <1>14, <1>15 DEF ChatShows
<1> QED
  BY <1>16 DEF s, n

\* An item is found by its call id or by its output index, which agree.
LEMMA Resolve ==
    ASSUME NEW x, NEW c, ChatSync(x, c), NEW i \in Items, NEW kind \in {"call", "item"}
    PROVE  Chat!resolveToolIndex(c, <<kind, i>>, i) = c.byOut[i]
<1>1. c.byCall[<<kind, i>>] \in {0, c.byOut[i]}
  BY DEF ChatSync
<1> QED
  BY <1>1 DEF Chat!resolveToolIndex

\* The chunk with the finish reason, the last frame, or an error.
LEMMA ChatMark ==
    ASSUME NEW v, NEW x, NEW c, ChatWritten(v, x, c), x.end = "none",
           NEW type \in {"finish", "done", "error"}, x.begun \/ type = "error",
           NEW s, s = Chat!queue(c, Chat!Chunk(type, 0, 0, "none"))
    PROVE  \E y : /\ ChatWritten(v, y, s) /\ y.begun /\ y.parts = x.parts
                  /\ y.end = IF type = "done" THEN "success" ELSE IF type = "error" THEN "error" ELSE "none"
<1> DEFINE f == Chat!Chunk(type, 0, 0, "none")
           y == Shown(x, f)
<1>0. c \in ChatType /\ v \in View /\ x \in View /\ Leads(v, c.out, x, TRUE) /\ Numbered(x, c.next)
  BY DEF ChatWritten
<1>1. f \in FrameType /\ f.type = type /\ f.item = 0 /\ f.block = 0
  <2>1. type \in FrameNames /\ "none" \in PartNames /\ 0 \in Nat /\ 0 \in 0 .. NItems
    BY ItemsFinite DEF FrameNames, PartNames
  <2> QED
    BY <2>1, ChunkIs
<1>2. s = Chat!queue(c, f)
  OBVIOUS
<1> HIDE DEF f
<1>3. s \in ChatType /\ s.out = Append(c.out, f) /\ s.next = c.next
  BY <1>0, <1>1, <1>2, QueueIs DEF ChatKept
<1>4. Allowed(f, x)
  BY <1>1 DEF Allowed
<1>5. y \in View /\ Leads(v, s.out, y, TRUE)
  <2>1. c.out \in Seq(FrameType)
    BY <1>0 DEF ChatType
  <2>2. y \in View /\ Leads(v, Append(c.out, f), y, TRUE)
    BY <2>1, <1>0, <1>1, <1>4, PutFrame
  <2> HIDE DEF y
  <2> QED
    BY <2>2, <1>3
<1>6. /\ y.begun /\ y.started = x.started /\ y.open = x.open /\ y.parts = x.parts /\ y.home = x.home
      /\ y.end = CASE f.type \in {"message_stop", "done"} \cup Finals -> "success"
                   [] f.type = "error" -> "error"
                   [] OTHER -> x.end
  <2>1. f.type \notin {"block_start", "tool_start", "block_stop"}
    BY <1>1
  <2> QED
    BY <2>1, <1>0, <1>1, ShownMark
<1> HIDE DEF y
<1>7. y.end = IF type = "done" THEN "success" ELSE IF type = "error" THEN "error" ELSE "none"
  BY <1>1, <1>6 DEF Finals
<1>8. Numbered(y, s.next)
  BY <1>0, <1>3, <1>5, <1>6, NumberedSame
<1> QED
  BY <1>0, <1>3, <1>5, <1>6, <1>7, <1>8 DEF ChatWritten

\* The stream is marked as over.
LEMMA ChatDone ==
    ASSUME NEW v, NEW y, NEW c, ChatWritten(v, y, c), NEW s, s = [c EXCEPT !.done = TRUE]
    PROVE  ChatWritten(v, y, s) /\ s.done
<1>1. c \in ChatType
  BY DEF ChatWritten
<1>2. s \in ChatType /\ s.out = c.out /\ s.next = c.next
  BY <1>1 DEF ChatType
<1>3. s.done
  BY <1>1 DEF ChatType
<1> QED
  BY <1>2, <1>3 DEF ChatWritten

\* A running translator has written what the client will have.
LEMMA ChatInWritten ==
    ASSUME NEW v, NEW x, NEW c, ChatIn(v, x, c)
    PROVE  ChatWritten(v, x, c) /\ x.end = "none" /\ x.begun = c.started
  BY DEF ChatIn, ChatWritten, ChatSync

\* queueTerminal: the finish reason, then the last frame.
LEMMA ChatTerminal ==
    ASSUME NEW v, NEW x, NEW c, ChatIn(v, x, c)
    PROVE  LET s == Chat!queueTerminal(c) IN
           s.done /\ \E y : ChatWritten(v, y, s) /\ y.end = "success" /\ y.parts = x.parts
<1> DEFINE a == Chat!start(c)
           b == Chat!queue(a, Chat!Chunk("finish", 0, 0, "none"))
           d == Chat!queue(b, Chat!Chunk("done", 0, 0, "none"))
           s == Chat!queueTerminal(c)
<1>1. s = [d EXCEPT !.done = TRUE]
  BY DEF Chat!queueTerminal, ChatIn
<1>2. a.started /\ \E y : ChatIn(v, y, a) /\ y.parts = x.parts
  BY ChatStart
<1> HIDE DEF a, s
<1>3. PICK y1 : ChatIn(v, y1, a) /\ y1.parts = x.parts
  BY <1>2
<1>4. ChatWritten(v, y1, a) /\ y1.end = "none" /\ y1.begun
  BY <1>2, <1>3, ChatInWritten
<1>5. PICK y2 : ChatWritten(v, y2, b) /\ y2.begun /\ y2.parts = y1.parts /\ y2.end = "none"
  BY <1>4, ChatMark
<1> HIDE DEF b
<1>6. PICK y3 : ChatWritten(v, y3, d) /\ y3.parts = y2.parts /\ y3.end = "success"
  BY <1>5, ChatMark
<1> HIDE DEF d
<1>7. ChatWritten(v, y3, s) /\ s.done
  BY <1>1, <1>6, ChatDone
<1> QED
  BY <1>3, <1>5, <1>6, <1>7 DEF s

\* queueStreamError.
LEMMA ChatError ==
    ASSUME NEW v, NEW x, NEW c, ChatWritten(v, x, c), x.end = "none"
    PROVE  LET s == Chat!queueStreamError(c) IN
           s.done /\ \E y : ChatWritten(v, y, s) /\ y.end = "error" /\ y.parts = x.parts
<1> DEFINE d == Chat!queue(c, Chat!Chunk("error", 0, 0, "none"))
           s == Chat!queueStreamError(c)
<1>1. s = [d EXCEPT !.done = TRUE]
  BY DEF Chat!queueStreamError
<1>2. PICK y : ChatWritten(v, y, d) /\ y.parts = x.parts /\ y.end = "error"
  BY ChatMark
<1> HIDE DEF d, s
<1>3. ChatWritten(v, y, s) /\ s.done
  BY <1>1, <1>2, ChatDone
<1> QED
  BY <1>2, <1>3 DEF s

\* A translator that goes on satisfies the invariant.
LEMMA ChatGoing ==
    ASSUME NEW v, NEW x, NEW c, NEW u, NEW r, ChatLive(v, x, c, u, r)
    PROVE  ChatOK(x, c, u, r) /\ ChatLed(v, x, c, u, r)
<1>1. ChatSync(x, c) /\ Numbered(x, c.next) /\ ~c.done /\ x \in View /\ u \in UpType /\ u.end = "open"
      /\ ChatPhase(x, c, u, r.plan) /\ c \in ChatType /\ Leads(v, c.out, x, TRUE)
  BY DEF ChatLive, ChatIn, ChatSync
<1>2. c.next \in 1 .. NItems + 1
  BY <1>1, NumberedBound
<1>3. ASSUME NEW i \in Items
      PROVE  x.parts[i] \in {Pieces(n) : n \in 0 .. u.sent[i]} \cup {<<"whole">>}
  <2>1. u.sent[i] \in Nat /\ Pieces(0) = <<>>
    BY <1>1, PiecesMore DEF UpType
  <2>2. x.parts[i] \in {Pieces(0), Pieces(u.sent[i]), <<"whole">>}
    BY <1>1, <2>1 DEF ChatPhase, ChatItem
  <2> QED
    BY <2>1, <2>2
<1>4. Shaped(x, u)
  BY <1>1, <1>3 DEF Shaped, Numbered
<1>5. u.end \notin ChatFinals
  BY <1>1 DEF Finals, ChatFinals
<1>6. ChatOK(x, c, u, r)
  BY <1>1, <1>2, <1>4, <1>5 DEF ChatOK
<1> QED
  BY <1>1, <1>6 DEF ChatLed

\* A translator that is done satisfies it.
LEMMA ChatOver ==
    ASSUME NEW v, NEW y, NEW s, ChatWritten(v, y, s), s.done, NEW w, NEW r,
           \A i \in Items : y.parts[i] \in {Pieces(n) : n \in 0 .. w.sent[i]} \cup {<<"whole">>},
           y.end \in {"success", "error"}, w.end \in ChatFinals <=> y.end = "success",
           y.end = "success" => Complete(y, w, r)
    PROVE  ChatLed(v, y, s, w, r)
<1>1. s \in ChatType /\ Leads(v, s.out, y, TRUE) /\ Numbered(y, s.next) /\ y \in View
  BY DEF ChatWritten
<1>2. s.next \in 1 .. NItems + 1
  BY <1>1, NumberedBound
<1>3. Shaped(y, w)
  BY <1>1 DEF Shaped, Numbered
<1> QED
  BY <1>1, <1>2, <1>3 DEF ChatLed, ChatOK

\* An event of item i is dealt with when what is known of i holds again.
LEMMA ChatNext ==
    ASSUME NEW v, NEW x, NEW c, NEW u, NEW r, ChatLive(v, x, c, u, r), NEW y, NEW s, NEW w,
           NEW i \in Items, NEW at, NEW full, NEW n, Advances(u, w, i, at, full, n),
           ChatIn(v, y, s), s.started,
           \A j \in Items : j # i => ChatApart(x, c, y, s, j), ChatItem(y, s, w, r.plan, i)
    PROVE  ChatLive(v, y, s, w, r)
<1>1. \A j \in Items : j # i => ChatItem(y, s, w, r.plan, j)
  BY DEF ChatLive, ChatPhase, ChatItem, ChatApart, Advances
<1>2. ChatPhase(y, s, w, r.plan)
  BY <1>1 DEF ChatPhase
<1>3. w \in UpType /\ w.end = "open"
  BY DEF Advances, ChatLive
<1> QED
  BY <1>2, <1>3 DEF ChatLive

\* An event that says nothing to a Chat client.
LEMMA ChatSilent ==
    ASSUME NEW v, NEW x, NEW c, ChatLive(v, x, c, up, req), c.started, NEW i \in Items, up.at[i] # 4,
           NEW at \in {1, 3, 4}, at = 4 => req.plan[i] = "message",
           NEW full, NEW w, Advances(up, w, i, at, full, up.sent[i])
    PROVE  ChatLive(v, x, c, w, req)
<1>1. ChatItem(x, c, up, req.plan, i) /\ ChatIn(v, x, c)
  BY DEF ChatLive, ChatPhase
<1>2. w.at[i] = at /\ w.sent[i] = up.sent[i]
  BY DEF Advances
<1>3. c.byOut[i] \in c.argsEmitted <=> req.plan[i] = "tool" /\ (w.sent[i] > 0 \/ w.at[i] = 4)
  BY <1>1, <1>2 DEF ChatItem
<1>4. ChatItem(x, c, w, req.plan, i)
  BY <1>1, <1>2, <1>3 DEF ChatItem
<1>5. \A j \in Items : j # i => ChatApart(x, c, x, c, j)
  BY DEF ChatApart
<1> QED
  BY <1>1, <1>4, <1>5, ChatNext

\* One more part of item i.
LEMMA ChatMore ==
    ASSUME NEW v, NEW x, NEW c, ChatLive(v, x, c, up, req), NEW i \in Items,
           NEW d, NEW z, ChatIn(v, z, d), z.parts = x.parts, Ready(c, d, req.plan, i),
           NEW p \in Content, NEW s, ChatShows(v, z, d, s, i, p),
           NEW at, NEW n, Due(p, up, req.plan, i, at, n),
           NEW w, Advances(up, w, i, at, up.full[i], n)
    PROVE  \E y : ChatLive(v, y, s, w, req)
<1>1. /\ at \in {2, 4}
      /\ p = "piece" => n = up.sent[i] + 1 /\ up.at[i] <= 2
      /\ p = "whole" => n = 0 /\ up.sent[i] = 0 /\ at = 4 /\ req.plan[i] = "tool" /\ up.at[i] # 4
  BY DEF Due
<1>2. /\ \A j \in Items : d.byOut[j] \in d.argsEmitted <=> c.byOut[j] \in c.argsEmitted
      /\ \A j \in Items : j # i => d.byOut[j] = c.byOut[j]
      /\ req.plan[i] = "tool" <=> d.byOut[i] # 0
  BY DEF Ready
<1>3. ChatItem(x, c, up, req.plan, i) /\ x \in View /\ z \in View /\ up.sent[i] \in Nat
  BY DEF ChatLive, ChatPhase, ChatIn, UpType
<1>4. PICK y : ChatIn(v, y, s) /\ y.parts = Plus(z.parts, i, p)
  BY DEF ChatShows
<1>5. /\ s.byOut = d.byOut /\ s.started
      /\ \A j \in Items : j # i => (s.byOut[j] \in s.argsEmitted <=> d.byOut[j] \in d.argsEmitted)
      /\ s.byOut[i] \in s.argsEmitted <=> d.byOut[i] # 0
  BY DEF ChatShows
<1>6. y.parts[i] = Append(x.parts[i], p) /\ \A j \in Items : j # i => y.parts[j] = x.parts[j]
  BY <1>3, <1>4, PlusIs
<1>7. w.at[i] = at /\ w.sent[i] = n
  BY DEF Advances
<1>8. x.parts[i] = Pieces(up.sent[i])
  <2>1. CASE up.sent[i] > 0
    BY <1>3, <2>1 DEF ChatItem
  <2>2. CASE up.sent[i] = 0
    <3>1. c.byOut[i] \notin c.argsEmitted
      <4>1. up.at[i] # 4
        BY <1>1 DEF Content
      <4> QED
        BY <1>3, <2>2, <4>1 DEF ChatItem
    <3>2. x.parts[i] = <<>> /\ Pieces(0) = <<>>
      BY <1>3, <2>2, <3>1, PiecesMore DEF ChatItem
    <3> QED
      BY <2>2, <3>2
  <2> QED
    BY <1>3, <2>1, <2>2
<1>9. y.parts[i] = IF n > 0 THEN Pieces(n) ELSE <<"whole">>
  <2>1. CASE p = "piece"
    <3>1. n = up.sent[i] + 1 /\ n > 0
      BY <1>1, <1>3, <2>1
    <3> QED
      BY <1>3, <1>6, <1>8, <2>1, <3>1, PiecesMore
  <2>2. CASE p = "whole"
    <3>1. n = 0 /\ up.sent[i] = 0
      BY <1>1, <2>2
    <3>2. x.parts[i] = <<>>
      BY <1>8, <3>1, PiecesMore
    <3> QED
      BY <1>6, <2>2, <3>1, <3>2
  <2> QED
    BY <2>1, <2>2 DEF Content
<1>10. s.byOut[i] \in s.argsEmitted <=> req.plan[i] = "tool"
  BY <1>2, <1>5
<1>11. n > 0 \/ at = 4
  BY <1>1, <1>3 DEF Content
<1>12. n = 0 => req.plan[i] = "tool"
  BY <1>1, <1>3 DEF Content
<1>13. ChatItem(y, s, w, req.plan, i)
  <2>1. s.byOut[i] \in s.argsEmitted <=> req.plan[i] = "tool" /\ (w.sent[i] > 0 \/ w.at[i] = 4)
    BY <1>7, <1>10, <1>11
  <2>2. n \in Nat
    BY <1>1, <1>3 DEF Content
  <2>3. y.parts[i] = IF w.sent[i] > 0 THEN Pieces(w.sent[i])
                     ELSE IF s.byOut[i] \in s.argsEmitted THEN <<"whole">> ELSE <<>>
    BY <1>7, <1>9, <1>10, <1>12, <2>2
  <2> QED
    BY <1>1, <1>2, <1>5, <1>7, <2>1, <2>3 DEF ChatItem
<1>14. \A j \in Items : j # i => ChatApart(x, c, y, s, j)
  BY <1>2, <1>5, <1>6 DEF ChatApart
<1> QED
  BY <1>4, <1>5, <1>13, <1>14, ChatNext

\* A tool call that was not announced gets its index when it is first met.
LEMMA ToolKnown ==
    ASSUME NEW v, NEW x, NEW c, ChatIn(v, x, c), c.started, NEW i \in Items, NEW kind \in {"call", "item"},
           NEW key, key = <<kind, i>>,
           NEW s, s = IF Chat!resolveToolIndex(c, key, i) # 0 THEN c ELSE Chat!openTool(c, key, i)
    PROVE  ChatKnows(v, x, c, s, i) /\ Chat!resolveToolIndex(s, key, i) = s.byOut[i]
<1>1. ChatSync(x, c)
  BY DEF ChatIn
<1>2. Chat!resolveToolIndex(c, <<kind, i>>, i) = c.byOut[i]
  BY <1>1, Resolve
<1>3. ChatKnows(v, x, c, s, i)
  <2>1. CASE c.byOut[i] # 0
    BY <1>2, <2>1 DEF ChatKnows
  <2>2. CASE c.byOut[i] = 0
    <3>1. s = Chat!openTool(c, <<kind, i>>, i)
      BY <1>2, <2>2
    <3>2. ChatOpens(v, x, c, s, i)
      BY <2>2, <3>1, OpenTool
    <3>3. 0 \notin c.argsEmitted
      BY <1>1 DEF ChatSync, Numbered
    <3> QED
      BY <2>2, <3>2, <3>3 DEF ChatOpens, ChatKnows
  <2> QED
    BY <2>1, <2>2
<1>4. PICK y : ChatIn(v, y, s)
  BY <1>3 DEF ChatKnows
<1>5. ChatSync(y, s)
  BY <1>4 DEF ChatIn
<1> QED
  BY <1>3, <1>5, Resolve

\* emitToolCallStart, on response.output_item.added.
LEMMA ChatAdded ==
    ASSUME NEW v, NEW x, NEW c, ChatLive(v, x, c, up, req), c.started, NEW i \in Items,
           req.plan[i] = "tool", up.at[i] = 0,
           NEW full, NEW w, Advances(up, w, i, 1, full, up.sent[i])
    PROVE  \E y : ChatLive(v, y, Chat!emitToolCallStart(c, i), w, req)
<1> DEFINE s == Chat!emitToolCallStart(c, i)
<1>1. ChatItem(x, c, up, req.plan, i) /\ ChatIn(v, x, c) /\ ChatSync(x, c) /\ x \in View
  BY DEF ChatLive, ChatPhase, ChatIn
<1>2. c.byOut[i] = 0 /\ up.sent[i] = 0 /\ x.parts[i] = <<>>
  <2>1. c.byOut[i] = 0 /\ up.sent[i] = 0
    BY <1>1 DEF ChatItem
  <2>2. c.byOut[i] \notin c.argsEmitted
    BY <1>1, <2>1 DEF ChatItem
  <2> QED
    BY <1>1, <2>1, <2>2 DEF ChatItem
<1>3. c.byCall[<<"call", i>>] = 0
  BY <1>1, <1>2 DEF ChatSync
<1>4. s = Chat!openTool(c, <<"call", i>>, i)
  BY <1>3 DEF Chat!emitToolCallStart
<1> HIDE DEF s
<1>5. ChatOpens(v, x, c, s, i)
  BY <1>1, <1>2, <1>4, OpenTool
<1>6. PICK y : ChatIn(v, y, s) /\ y.parts = x.parts
  BY <1>5 DEF ChatOpens
<1>7. \A j \in Items : j # i => ChatApart(x, c, y, s, j)
  BY <1>5, <1>6 DEF ChatOpens, ChatApart
<1>8. ChatItem(y, s, w, req.plan, i)
  <2>1. w.at[i] = 1 /\ w.sent[i] = 0
    BY <1>2 DEF Advances
  <2>2. s.byOut[i] \notin s.argsEmitted /\ y.parts[i] = <<>>
    BY <1>2, <1>5, <1>6 DEF ChatOpens
  <2> QED
    BY <2>1, <2>2 DEF ChatItem
<1>9. s.started
  BY <1>5 DEF ChatOpens
<1>10. ChatLive(v, y, s, w, req)
  BY <1>6, <1>7, <1>8, <1>9, ChatNext
<1> QED
  BY <1>10 DEF s

\* emitToolCallArgumentsDelta, on response.function_call_arguments.delta.
LEMMA ChatArgs ==
    ASSUME NEW v, NEW x, NEW c, ChatLive(v, x, c, up, req), c.started, NEW i \in Items,
           req.plan[i] = "tool", up.at[i] <= 2,
           NEW w, Advances(up, w, i, 2, up.full[i], up.sent[i] + 1)
    PROVE  \E y : ChatLive(v, y, Chat!emitToolCallArgumentsDelta(c, i), w, req)
<1> DEFINE key == <<"item", i>>
           d == IF Chat!resolveToolIndex(c, key, i) # 0 THEN c ELSE Chat!openTool(c, key, i)
           s == Chat!emitToolCallArgumentsDelta(c, i)
<1>1. ChatIn(v, x, c)
  BY DEF ChatLive
<1>2. s = Chat!argumentsChunk(d, Chat!resolveToolIndex(d, key, i), i, "piece")
  BY DEF Chat!emitToolCallArgumentsDelta
<1>3. ChatKnows(v, x, c, d, i) /\ Chat!resolveToolIndex(d, key, i) = d.byOut[i]
  <2>1. "item" \in {"call", "item"} /\ key = <<"item", i>>
    OBVIOUS
  <2> HIDE DEF key
  <2>2. d = IF Chat!resolveToolIndex(c, key, i) # 0 THEN c ELSE Chat!openTool(c, key, i)
    OBVIOUS
  <2> HIDE DEF d
  <2> QED
    BY <1>1, <2>1, <2>2, ToolKnown
<1> HIDE DEF d, s, key
<1>4. PICK z : ChatIn(v, z, d) /\ z.parts = x.parts
  BY <1>3 DEF ChatKnows
<1>5. /\ d.started /\ d.byOut[i] # 0
      /\ \A j \in Items : d.byOut[j] \in d.argsEmitted <=> c.byOut[j] \in c.argsEmitted
      /\ \A j \in Items : j # i => d.byOut[j] = c.byOut[j]
  BY <1>3 DEF ChatKnows
<1>6. "piece" \in Content
  BY DEF Content
<1>7. s = Chat!argumentsChunk(d, d.byOut[i], i, "piece")
  BY <1>2, <1>3
<1>8. ChatShows(v, z, d, s, i, "piece")
  BY <1>4, <1>5, <1>6, <1>7, ArgsChunk
<1>9. Due("piece", up, req.plan, i, 2, up.sent[i] + 1) /\ Ready(c, d, req.plan, i)
  BY <1>5 DEF Due, Ready
<1>10. \E y : ChatLive(v, y, s, w, req)
  BY <1>4, <1>6, <1>8, <1>9, ChatMore
<1> QED
  BY <1>10 DEF s

\* emitToolCallDone, on response.output_item.done: the arguments, if none were sent.
LEMMA ChatCallDone ==
    ASSUME NEW v, NEW x, NEW c, ChatLive(v, x, c, up, req), c.started, NEW i \in Items,
           req.plan[i] = "tool", up.at[i] # 4,
           NEW w, Advances(up, w, i, 4, up.full[i], up.sent[i])
    PROVE  \E y : ChatLive(v, y, Chat!emitToolCallDone(c, i), w, req)
<1> DEFINE key == <<"call", i>>
           d == IF Chat!resolveToolIndex(c, key, i) # 0 THEN c ELSE Chat!openTool(c, key, i)
           n == Chat!resolveToolIndex(d, key, i)
           s == Chat!emitToolCallDone(c, i)
<1>1. ChatIn(v, x, c) /\ ChatItem(x, c, up, req.plan, i) /\ up.sent[i] \in Nat
  BY DEF ChatLive, ChatPhase, UpType
<1>2. s = IF n \in d.argsEmitted THEN d ELSE Chat!argumentsChunk(d, n, i, "whole")
  BY DEF Chat!emitToolCallDone
<1>3. ChatKnows(v, x, c, d, i) /\ n = d.byOut[i]
  <2>1. "call" \in {"call", "item"} /\ key = <<"call", i>>
    OBVIOUS
  <2> HIDE DEF key
  <2>2. d = IF Chat!resolveToolIndex(c, key, i) # 0 THEN c ELSE Chat!openTool(c, key, i)
    OBVIOUS
  <2> HIDE DEF d
  <2> QED
    BY <1>1, <2>1, <2>2, ToolKnown
<1> HIDE DEF n, d, s, key
<1>4. PICK z : ChatIn(v, z, d) /\ z.parts = x.parts
  BY <1>3 DEF ChatKnows
<1>5. /\ d.started /\ d.byOut[i] # 0
      /\ \A j \in Items : d.byOut[j] \in d.argsEmitted <=> c.byOut[j] \in c.argsEmitted
      /\ \A j \in Items : j # i => d.byOut[j] = c.byOut[j]
  BY <1>3 DEF ChatKnows
<1>6. d.byOut[i] \in d.argsEmitted <=> up.sent[i] > 0
  BY <1>1, <1>5 DEF ChatItem
<1>7. CASE up.sent[i] > 0
  <2>1. s = d
    BY <1>2, <1>3, <1>6, <1>7
  <2>2. w.at[i] = 4 /\ w.sent[i] = up.sent[i]
    BY DEF Advances
  <2>3. z.parts[i] = Pieces(up.sent[i])
    BY <1>1, <1>4, <1>7 DEF ChatItem
  <2>4. ChatItem(z, s, w, req.plan, i)
    BY <1>6, <1>7, <2>1, <2>2, <2>3 DEF ChatItem
  <2>5. \A j \in Items : j # i => ChatApart(x, c, z, s, j)
    BY <1>4, <1>5, <2>1 DEF ChatApart
  <2>6. ChatLive(v, z, s, w, req)
    BY <1>4, <1>5, <2>1, <2>4, <2>5, ChatNext
  <2> QED
    BY <2>6 DEF s
<1>8. CASE up.sent[i] = 0
  <2>1. s = Chat!argumentsChunk(d, d.byOut[i], i, "whole")
    BY <1>2, <1>3, <1>6, <1>8
  <2>2. "whole" \in Content
    BY DEF Content
  <2>3. ChatShows(v, z, d, s, i, "whole")
    BY <1>4, <1>5, <2>1, <2>2, ArgsChunk
  <2>4. Advances(up, w, i, 4, up.full[i], 0) /\ Due("whole", up, req.plan, i, 4, 0)
        /\ Ready(c, d, req.plan, i)
    BY <1>5, <1>8 DEF Due, Ready
  <2>5. \E y : ChatLive(v, y, s, w, req)
    BY <1>4, <2>2, <2>3, <2>4, ChatMore
  <2> QED
    BY <2>5 DEF s
<1> QED
  BY <1>1, <1>7, <1>8

\* response.output_text.delta.
LEMMA ChatDelta ==
    ASSUME NEW v, NEW x, NEW c, ChatLive(v, x, c, up, req), c.started, NEW i \in Items,
           req.plan[i] = "message", up.at[i] <= 2,
           NEW w, Advances(up, w, i, 2, up.full[i], up.sent[i] + 1)
    PROVE  \E y : ChatLive(v, y, Chat!queue(c, Chat!Chunk("content", 0, i, "piece")), w, req)
<1> DEFINE s == Chat!queue(c, Chat!Chunk("content", 0, i, "piece"))
<1>1. ChatIn(v, x, c) /\ c.byOut[i] = 0
  BY DEF ChatLive, ChatPhase, ChatItem
<1>2. ChatShows(v, x, c, s, i, "piece")
  BY <1>1, ChatText
<1>3. "piece" \in Content
  BY DEF Content
<1> HIDE DEF s
<1>4. Due("piece", up, req.plan, i, 2, up.sent[i] + 1) /\ Ready(c, c, req.plan, i)
  BY <1>1 DEF Due, Ready
<1>5. \E y : ChatLive(v, y, s, w, req)
  BY <1>1, <1>2, <1>3, <1>4, ChatMore
<1> QED
  BY <1>5 DEF s

\* start does nothing once the stream has begun.
LEMMA ChatStarted ==
    ASSUME NEW c, c.started
    PROVE  Chat!start(c) = c
  BY DEF Chat!start

\* The events of an item.
LEMMA ChatItemEvent ==
    ASSUME NEW v, NEW x, NEW c, ChatLive(v, x, c, up, req), c.started, NEW i \in Items,
           NEW ev \in ItemEvents(i)
    PROVE  \E y : ChatLive(v, y, Chat!pull(c, ev, req.plan), Sent(ev), req)
<1> DEFINE s == Chat!pull(c, ev, req.plan)
<1>1. up \in UpType /\ req.plan[i] \in {"message", "tool"} /\ Chat!start(c) = c
  BY ChatStarted DEF ChatLive
<1>2. ASSUME up.at[i] = 0, NEW full \in BOOLEAN, ev = Ev("added", i, full, FALSE)
      PROVE  \E y : ChatLive(v, y, s, Sent(ev), req)
  <2>1. ev.type = "added" /\ ev.item = i
    BY <1>2 DEF Ev
  <2>2. Advances(up, Sent(ev), i, 1, up.full[i] \/ full, up.sent[i])
    BY <1>1, <1>2, SentAdded
  <2>3. CASE req.plan[i] = "tool"
    <3>1. s = Chat!emitToolCallStart(c, i)
      BY <2>1, <2>3 DEF Chat!pull
    <3> HIDE DEF s
    <3> QED
      BY <1>2, <2>2, <2>3, <3>1, ChatAdded
  <2>4. CASE req.plan[i] = "message"
    <3>1. s = c
      BY <2>1, <2>4 DEF Chat!pull
    <3>2. up.at[i] # 4 /\ 1 \in {1, 3, 4} /\ 1 # 4
      BY <1>2
    <3> HIDE DEF s
    <3> QED
      BY <2>2, <2>4, <3>1, <3>2, ChatSilent
  <2> QED
    BY <1>1, <2>3, <2>4
<1>3. ASSUME req.plan[i] = "message", up.at[i] <= 2, ev = Ev("text_delta", i, FALSE, FALSE)
      PROVE  \E y : ChatLive(v, y, s, Sent(ev), req)
  <2>1. ev.type = "text_delta" /\ ev.item = i
    BY <1>3 DEF Ev
  <2>2. s = Chat!queue(c, Chat!Chunk("content", 0, i, "piece"))
    BY <1>1, <2>1 DEF Chat!pull
  <2>3. Advances(up, Sent(ev), i, 2, up.full[i], up.sent[i] + 1)
    BY <1>1, <1>3, SentPlain
  <2> HIDE DEF s
  <2> QED
    BY <1>3, <2>2, <2>3, ChatDelta
<1>4. ASSUME req.plan[i] = "tool", up.at[i] <= 2, ev = Ev("args_delta", i, FALSE, FALSE)
      PROVE  \E y : ChatLive(v, y, s, Sent(ev), req)
  <2>1. ev.type = "args_delta" /\ ev.item = i
    BY <1>4 DEF Ev
  <2>2. s = Chat!emitToolCallArgumentsDelta(c, i)
    BY <1>1, <2>1 DEF Chat!pull
  <2>3. Advances(up, Sent(ev), i, 2, up.full[i], up.sent[i] + 1)
    BY <1>1, <1>4, SentPlain
  <2> HIDE DEF s
  <2> QED
    BY <1>4, <2>2, <2>3, ChatArgs
<1>5. ASSUME up.at[i] <= 2, ev = Ev("args_done", i, FALSE, FALSE)
      PROVE  \E y : ChatLive(v, y, s, Sent(ev), req)
  <2>1. ev.type = "args_done" /\ ev.item = i
    BY <1>5 DEF Ev
  <2>2. s = c
    BY <2>1 DEF Chat!pull
  <2>3. Advances(up, Sent(ev), i, 3, up.full[i], up.sent[i])
    BY <1>1, <1>5, SentPlain
  <2>4. up.at[i] # 4 /\ 3 \in {1, 3, 4} /\ 3 # 4
    BY <1>5
  <2> HIDE DEF s
  <2> QED
    BY <2>2, <2>3, <2>4, ChatSilent
<1>6. ASSUME up.at[i] # 4, ev = Ev("item_done", i, FALSE, FALSE)
      PROVE  \E y : ChatLive(v, y, s, Sent(ev), req)
  <2>1. ev.type = "item_done" /\ ev.item = i
    BY <1>6 DEF Ev
  <2>2. Advances(up, Sent(ev), i, 4, up.full[i], up.sent[i])
    BY <1>1, <1>6, SentPlain
  <2>3. CASE req.plan[i] = "tool"
    <3>1. s = Chat!emitToolCallDone(c, i)
      BY <2>1, <2>3 DEF Chat!pull
    <3> HIDE DEF s
    <3> QED
      BY <1>6, <2>2, <2>3, <3>1, ChatCallDone
  <2>4. CASE req.plan[i] = "message"
    <3>1. s = c
      BY <2>1, <2>4 DEF Chat!pull
    <3>2. 4 \in {1, 3, 4}
      OBVIOUS
    <3> HIDE DEF s
    <3> QED
      BY <1>6, <2>2, <2>4, <3>1, <3>2, ChatSilent
  <2> QED
    BY <1>1, <2>3, <2>4
<1> HIDE DEF s
<1>7. req.plan[i] # "reasoning" /\ (req.plan[i] \in {"tool", "patch"} => req.plan[i] = "tool")
  BY <1>1
<1>8. \E y : ChatLive(v, y, s, Sent(ev), req)
  BY <1>2, <1>3, <1>4, <1>5, <1>6, <1>7, ItemCases
<1> QED
  BY <1>8 DEF s

\* What was sent of a tool call or of a text has reached the client.
LEMMA ChatComplete ==
    ASSUME NEW x, NEW c, NEW u \in UpType, NEW r, r.format = "chat", ChatPhase(x, c, u, r.plan),
           \A i \in Items : r.plan[i] \in {"message", "tool"},
           NEW y, y.parts = x.parts, NEW w, w.at = u.at, w.sent = u.sent
    PROVE  Complete(y, w, r)
<1> SUFFICES ASSUME NEW i \in Items, Told(w, r, i), w.sent[i] > 0 \/ Owed(y, w, r, i)
             PROVE  y.parts[i] = IF w.sent[i] > 0 THEN Pieces(w.sent[i]) ELSE <<"whole">>
  BY DEF Complete
<1>1. ChatItem(x, c, u, r.plan, i)
  BY DEF ChatPhase
<1>2. CASE u.sent[i] > 0
  BY <1>1, <1>2 DEF ChatItem
<1>3. CASE ~(u.sent[i] > 0)
  <2>1. u.at[i] = 4
    BY <1>3 DEF Owed
  <2>2. r.plan[i] = "tool"
    BY <1>3 DEF Told
  <2> QED
    BY <1>1, <1>3, <2>1, <2>2 DEF ChatItem
<1> QED
  BY <1>2, <1>3

\* pull, for every event the provider may send.
LEMMA ChatEvent ==
    ASSUME NEW v, NEW x, NEW c, ChatLive(v, x, c, up, req), req.format = "chat", NEW ev \in Events
    PROVE  /\ Sent(ev) \in UpType
           /\ \E y : ChatLed(v, y, Chat!pull(c, ev, req.plan), Sent(ev), req)
<1> DEFINE s == Chat!pull(c, ev, req.plan)
           w == Sent(ev)
<1>1. /\ up \in UpType /\ ChatIn(v, x, c) /\ (up.created => c.started) /\ up.end = "open"
      /\ ChatPhase(x, c, up, req.plan) /\ \A i \in Items : req.plan[i] \in {"message", "tool"}
  BY DEF ChatLive, ChatPhase
<1>2. /\ ChatOK(x, c, up, req) /\ Shaped(x, up) /\ ~c.done /\ c \in ChatType
      /\ Leads(v, c.out, x, TRUE)
  BY ChatGoing DEF ChatOK, ChatLive, ChatIn
<1>3. ASSUME NEW type \in {"created", "broken_created", "broken_text"}, ev = Ev(type, 0, FALSE, FALSE)
      PROVE  w \in UpType /\ \E y : ChatLed(v, y, s, w, req)
  <2>1. ev.type = type
    BY <1>3 DEF Ev
  <2>2. /\ w \in UpType /\ w.created /\ w.at = up.at /\ w.sent = up.sent /\ w.end = "open"
    <3>1. type \in General /\ type \in Midway
      BY <1>3, GeneralNames DEF Midway
    <3> QED
      BY <1>1, <1>3, <3>1, SentOther
  <2>3. /\ s.started /\ ChatKept(c, s)
        /\ \E y : ChatIn(v, y, s) /\ y.parts = x.parts
    <3> DEFINE a == Chat!start(c)
    <3>1. /\ a.started /\ ChatKept(c, a)
          /\ \E y : ChatIn(v, y, a) /\ y.parts = x.parts
      BY <1>1, ChatStart
    <3>2. CASE type # "broken_text"
      <4>1. s = a
        BY <1>3, <2>1, <3>2 DEF Chat!pull
      <4> HIDE DEF s, a
      <4> QED
        BY <3>1, <4>1
    <3>3. CASE type = "broken_text"
      <4>1. s = Chat!queue(a, Chat!Chunk("content", 0, 0, "none"))
        BY <2>1, <3>3 DEF Chat!pull
      <4> HIDE DEF s, a
      <4>2. PICK z : ChatIn(v, z, a) /\ z.parts = x.parts
        BY <3>1
      <4>3. /\ s.started /\ ChatKept(a, s)
            /\ \E y : ChatIn(v, y, s) /\ y.parts = z.parts
        BY <3>1, <4>1, <4>2, ChatBlank
      <4> QED
        BY <3>1, <4>2, <4>3 DEF ChatKept
    <3> QED
      BY <3>2, <3>3
  <2> HIDE DEF s, w
  <2>4. PICK y : ChatIn(v, y, s) /\ y.parts = x.parts
    BY <2>3
  <2>5. ChatPhase(y, s, w, req.plan)
    BY <1>1, <2>2, <2>3, <2>4 DEF ChatPhase, ChatItem, ChatKept
  <2>7. ChatLive(v, y, s, w, req)
    BY <1>1, <2>2, <2>4, <2>5 DEF ChatLive
  <2> QED
    BY <2>2, <2>7, ChatGoing
<1>4. ASSUME NEW type \in {"json", "garbage"}, ev = Ev(type, 0, FALSE, FALSE)
      PROVE  w \in UpType /\ \E y : ChatLed(v, y, s, w, req)
  <2>1. ev.type = type
    BY <1>4 DEF Ev
  <2>2. /\ w \in UpType /\ w.at = up.at /\ w.sent = up.sent
        /\ (type = "garbage" => w.end = "open") /\ (type = "garbage" => w.created = up.created)
        /\ (type = "json" => w.end = "json")
    <3>1. type \in General /\ (type \in Midway <=> type = "garbage")
      BY <1>4, GeneralNames DEF Midway
    <3>2. w = Sent(Ev(type, 0, FALSE, FALSE)) /\ up.created \in BOOLEAN
      BY <1>1, <1>4 DEF UpType
    <3> HIDE DEF w
    <3>3. w \in UpType /\ w.at = up.at /\ w.sent = up.sent
      BY <1>1, <3>1, <3>2, SentOther
    <3>4. w.end = IF type \in Midway THEN up.end ELSE type
      BY <1>1, <3>1, <3>2, SentOther
    <3>5. w.created = (up.created \/ type # "garbage")
      BY <1>1, <3>1, <3>2, SentOther
    <3>6. type = "garbage" => w.end = "open"
      BY <1>1, <3>1, <3>4
    <3>7. type = "garbage" => w.created = up.created
      BY <3>2, <3>5
    <3>8. type = "json" => w.end = "json"
      BY <1>4, <3>1, <3>4
    <3> QED
      BY <3>3, <3>6, <3>7, <3>8
  <2>3. s = c
    BY <1>4, <2>1 DEF Chat!pull
  <2> HIDE DEF s, w
  <2>4. w.end \notin ChatFinals
    BY <2>2 DEF Finals, ChatFinals
  <2>5. w.end = "open" => ChatPhase(x, c, w, req.plan)
    BY <1>1, <1>4, <2>2 DEF ChatPhase, ChatItem
  <2>6. ChatOK(x, c, w, req)
    BY <1>2, <2>2, <2>4, <2>5 DEF ChatOK, Shaped
  <2> QED
    BY <1>2, <2>2, <2>3, <2>6 DEF ChatLed
<1>5. ASSUME up.created, NEW i \in Items, ev \in ItemEvents(i)
      PROVE  w \in UpType /\ \E y : ChatLed(v, y, s, w, req)
  <2>1. PICK y : ChatLive(v, y, s, w, req)
    BY <1>1, <1>5, ChatItemEvent
  <2> HIDE DEF s, w
  <2>2. w \in UpType
    BY <2>1 DEF ChatLive
  <2> QED
    BY <2>1, <2>2, ChatGoing
<1>6. ASSUME NEW type \in ChatFinals, NEW output \in BOOLEAN, ev = Ev(type, 0, FALSE, output)
      PROVE  w \in UpType /\ \E y : ChatLed(v, y, s, w, req)
  <2>1. ev.type = type
    BY <1>6 DEF Ev
  <2>2. w \in UpType /\ w.at = up.at /\ w.sent = up.sent /\ w.end \in ChatFinals
    <3>1. type \in General /\ type \notin Midway
      BY <1>6, GeneralNames DEF ChatFinals, Midway
    <3>2. up \in UpType
      BY <1>1
    <3>3. ASSUME NEW b \in BOOLEAN, w = Sent(Ev(type, 0, FALSE, b))
          PROVE  w \in UpType /\ w.at = up.at /\ w.sent = up.sent /\ w.end = type
      <4> HIDE DEF w
      <4> QED
        BY <3>1, <3>2, <3>3, SentOther
    <3>4. w = Sent(Ev(type, 0, FALSE, TRUE)) \/ w = Sent(Ev(type, 0, FALSE, FALSE))
      <4>1. output = TRUE \/ output = FALSE
        BY <1>6
      <4> QED
        BY <1>6, <4>1
    <3> HIDE DEF w
    <3>5. w \in UpType /\ w.at = up.at /\ w.sent = up.sent /\ w.end = type
      BY <3>3, <3>4
    <3> QED
      BY <1>6, <3>5
  <2>3. s = Chat!queueTerminal(c)
    BY <1>6, <2>1 DEF Chat!pull, Finals, ChatFinals
  <2> HIDE DEF s, w
  <2>4. s.done /\ \E y : ChatWritten(v, y, s) /\ y.end = "success" /\ y.parts = x.parts
    BY <1>1, <2>3, ChatTerminal
  <2>5. PICK y : ChatWritten(v, y, s) /\ y.end = "success" /\ y.parts = x.parts
    BY <2>4
  <2>6. Complete(y, w, req)
    BY <1>1, <2>2, <2>5, ChatComplete
  <2>7. \A i \in Items : y.parts[i] \in {Pieces(n) : n \in 0 .. w.sent[i]} \cup {<<"whole">>}
    BY <1>2, <2>2, <2>5 DEF Shaped
  <2>8. ChatLed(v, y, s, w, req)
    BY <2>2, <2>4, <2>5, <2>6, <2>7, ChatOver
  <2> QED
    BY <2>2, <2>8
<1>7. ASSUME NEW type \in {"failed", "broken_failed"}, ev = Ev(type, 0, FALSE, FALSE)
      PROVE  w \in UpType /\ \E y : ChatLed(v, y, s, w, req)
  <2>1. ev.type = type
    BY <1>7 DEF Ev
  <2>2. w \in UpType /\ w.sent = up.sent /\ w.end \notin ChatFinals
    <3>1. type \in General /\ type \notin Midway /\ type \notin ChatFinals
      BY <1>7, GeneralNames DEF ChatFinals, Midway
    <3> QED
      BY <1>1, <1>7, <3>1, SentOther
  <2>3. s = Chat!queueStreamError(c)
    BY <1>7, <2>1 DEF Chat!pull
  <2> HIDE DEF s, w
  <2>4. ChatWritten(v, x, c) /\ x.end = "none"
    BY <1>1, ChatInWritten
  <2>5. s.done /\ \E y : ChatWritten(v, y, s) /\ y.end = "error" /\ y.parts = x.parts
    BY <2>3, <2>4, ChatError
  <2>6. PICK y : ChatWritten(v, y, s) /\ y.end = "error" /\ y.parts = x.parts
    BY <2>5
  <2>7. \A i \in Items : y.parts[i] \in {Pieces(n) : n \in 0 .. w.sent[i]} \cup {<<"whole">>}
    BY <1>2, <2>2, <2>6 DEF Shaped
  <2>8. ChatLed(v, y, s, w, req)
    BY <2>2, <2>5, <2>6, <2>7, ChatOver
  <2> QED
    BY <2>2, <2>8
<1> HIDE DEF s, w
<1>8. w \in UpType /\ \E y : ChatLed(v, y, s, w, req)
  <2>1. Finals \subseteq ChatFinals /\ "broken_final" \in ChatFinals /\ FALSE \in BOOLEAN
    BY DEF ChatFinals
  <2>2. ASSUME NEW type \in {"failed"} \cup Broken, ev = Ev(type, 0, FALSE, FALSE)
        PROVE  w \in UpType /\ \E y : ChatLed(v, y, s, w, req)
    <3>1. \/ type \in {"created", "broken_created", "broken_text"} \/ type \in {"json", "garbage"}
          \/ type \in {"failed", "broken_failed"} \/ type = "broken_final"
      BY GeneralNames
    <3> QED
      BY <1>3, <1>4, <1>6, <1>7, <2>1, <2>2, <3>1
  <2>3. ASSUME NEW type \in {"created", "json"}, ev = Ev(type, 0, FALSE, FALSE)
        PROVE  w \in UpType /\ \E y : ChatLed(v, y, s, w, req)
    <3>1. type \in {"created", "broken_created", "broken_text"} \/ type \in {"json", "garbage"}
      OBVIOUS
    <3> QED
      BY <1>3, <1>4, <2>3, <3>1
  <2>4. ASSUME NEW type \in Finals, NEW output \in BOOLEAN, ev = Ev(type, 0, FALSE, output)
        PROVE  w \in UpType /\ \E y : ChatLed(v, y, s, w, req)
    BY <1>6, <2>1, <2>4
  <2> QED
    BY <1>5, <2>2, <2>3, <2>4, EventCases
<1> QED
  BY <1>8 DEF s, w

\* pull at the end of the body: an error, unless the stream was complete.
LEMMA ChatEnd ==
    ASSUME NEW v, NEW x, NEW c, NEW u, NEW r, ChatLed(v, x, c, u, r)
    PROVE  \E y : ChatLed(v, y, Chat!pullEnd(c, FALSE), u, r)
<1> DEFINE s == Chat!pullEnd(c, FALSE)
<1>1. c \in ChatType /\ Leads(v, c.out, x, TRUE) /\ ChatOK(x, c, u, r) /\ Shaped(x, u)
  BY DEF ChatLed, ChatOK
<1>2. CASE c.done
  <2>1. s = c
    BY <1>2 DEF Chat!pullEnd
  <2> QED
    BY <2>1
<1>3. CASE ~c.done
  <2>1. s = Chat!queueStreamError(c)
    BY <1>3 DEF Chat!pullEnd
  <2>2. ChatSync(x, c) /\ u.end \notin ChatFinals
    BY <1>1, <1>3 DEF ChatOK
  <2>3. v \in View /\ x \in View
    BY <1>1, LeadsBelow DEF ChatType
  <2>4. ChatWritten(v, x, c) /\ x.end = "none"
    BY <1>1, <2>2, <2>3 DEF ChatWritten, ChatSync
  <2> HIDE DEF s
  <2>5. s.done /\ \E y : ChatWritten(v, y, s) /\ y.end = "error" /\ y.parts = x.parts
    BY <2>1, <2>4, ChatError
  <2>6. PICK y : ChatWritten(v, y, s) /\ y.end = "error" /\ y.parts = x.parts
    BY <2>5
  <2>7. \A i \in Items : y.parts[i] \in {Pieces(n) : n \in 0 .. u.sent[i]} \cup {<<"whole">>}
    BY <1>1, <2>6 DEF Shaped
  <2>8. ChatLed(v, y, s, u, r)
    BY <2>2, <2>5, <2>6, <2>7, ChatOver
  <2> QED
    BY <2>8 DEF s
<1> QED
  BY <1>2, <1>3

-----------------------------------------------------------------------------
(* The end of the body, for Anthropic clients.                             *)

\* pipeResponsesToAnthropic at the end of the body: an error, unless the stream was
\* complete, or broke before it began.
LEMMA AnthropicEnd ==
    ASSUME NEW v, NEW x, NEW t, NEW u \in UpType, NEW r, AnthropicLed(v, x, t, u, r), NEW broken
    PROVE  \E y : AnthropicLed(v, y, Anthropic!atEnd(t, broken), u, r)
<1> DEFINE s == Anthropic!atEnd(t, broken)
<1>1. t \in Translator /\ Leads(v, t.out, x, TRUE) /\ AnthropicOK(x, t, u, r) /\ Shaped(x, u) /\ t.mode = r.mode
  BY DEF AnthropicLed, AnthropicOK
<1>2. CASE t.finished \/ (broken /\ ~t.started)
  <2>1. s = t
    BY <1>2 DEF Anthropic!atEnd, Anthropic!fail
  <2> QED
    BY <2>1
<1>3. CASE ~(t.finished \/ (broken /\ ~t.started))
  <2>1. s = Anthropic!fail(t)
    BY <1>3 DEF Anthropic!atEnd
  <2>2. Sync(x, t) /\ u.end \notin Finals
    BY <1>1, <1>3 DEF AnthropicOK
  <2>3. v \in View /\ x \in View
    BY <1>1, LeadsBelow DEF Translator
  <2>4. InStep(v, x, t)
    BY <1>1, <2>2, <2>3 DEF InStep
  <2> HIDE DEF s
  <2>5. \E y : AnthropicLed(v, y, s, u, r)
    BY <1>1, <2>1, <2>2, <2>4, FailedStep
  <2> QED
    BY <2>5 DEF s
<1> QED
  BY <1>2, <1>3

-----------------------------------------------------------------------------
(* The restorer of tools.                                                  *)

\* An event is passed on.
LEMMA PassStep ==
    ASSUME NEW v, NEW x, NEW s, s \in RestorerType, Leads(v, s.out, x, FALSE), x.end = "none",
           NEW ev, ev.type \in EventNames, NEW i \in 0 .. NItems, ev.item = i, NEW part \in PartNames,
           NEW z, z = Tools!Pass(s, ev, part)
    PROVE  Passed(v, x, s, z, i, part, ev.type)
<1> DEFINE f == Tools!Event(ev, part)
           q == Append(s.out, f)
           y == Shown(x, f)
<1>1. f \in FrameType /\ f.type = ev.type /\ f.item = i /\ f.part = part
  <2>1. ev.type \in FrameNames /\ 0 \in Nat
    BY DEF FrameNames
  <2> QED
    BY <2>1 DEF Tools!Event, FrameType
<1>2. z = [s EXCEPT !.out = q]
  BY DEF Tools!Pass
<1> HIDE DEF f
<1>3. s.out \in Seq(FrameType) /\ q \in Seq(FrameType)
  BY <1>1 DEF RestorerType
<1>4. x \in View
  BY <1>3, LeadsBelow
<1>5. y \in View /\ Leads(v, q, y, FALSE)
  BY <1>1, <1>3, LeadsMore
<1> HIDE DEF q
<1>6. z \in RestorerType /\ z.streamCalls = s.streamCalls /\ z.out = q
  BY <1>2, <1>3 DEF RestorerType
<1>7. x.parts \in [Items -> Seq(Content)]
  BY <1>4 DEF View
<1>8. y.parts = [j \in Items |-> IF f.item = j /\ f.part \in Content THEN Append(x.parts[j], f.part) ELSE x.parts[j]]
  BY DEF Shown
<1>9. (ev.type \in Finals => y.end = "success") /\ (ev.type \notin Finals => y.end = "none")
  BY <1>1 DEF Shown, Finals, EventNames, General, Broken, Anthropic!Broken
<1> HIDE DEF y
<1>10. /\ \A j \in Items : j # i => y.parts[j] = x.parts[j]
       /\ i \in Items => y.parts[i] = IF part \in Content THEN Append(x.parts[i], part) ELSE x.parts[i]
  BY <1>1, <1>7, <1>8
<1>11. Passes(v, x, s, y, z, i, part)
  BY <1>5, <1>6, <1>10 DEF Passes
<1> QED
  BY <1>9, <1>11 DEF Passed

\* An event of item i is dealt with when what is known of i holds again.
LEMMA RestorerNext ==
    ASSUME NEW v, NEW x, NEW s, NEW u, NEW r, RestorerLed(v, x, s, u, r), u.end = "open",
           NEW i \in Items, NEW at, NEW full, NEW n, NEW w, Advances(u, w, i, at, full, n),
           NEW y, NEW z, NEW part, Passes(v, x, s, y, z, i, part), y.end = "none",
           r.plan[i] = "patch" => /\ at \in 1 .. 3 => i \in z.streamCalls
                                  /\ y.parts[i] = IF at = 4 THEN <<"whole">> ELSE <<>>
    PROVE  RestorerLed(v, y, z, w, r)
<1>1. z \in RestorerType /\ Leads(v, z.out, y, FALSE) /\ s.streamCalls \subseteq z.streamCalls
      /\ \A j \in Items : j # i => y.parts[j] = x.parts[j]
  BY DEF Passes
<1>2. w.end \notin Finals /\ w.at[i] = at /\ \A j \in Items : j # i => w.at[j] = u.at[j]
  BY DEF Advances, Finals
<1>3. RestorerOK(x, s, u, r)
  BY DEF RestorerLed
<1>4. RestorerOK(y, z, w, r)
  BY <1>1, <1>2, <1>3 DEF RestorerOK
<1> QED
  BY <1>1, <1>4 DEF RestorerLed

\* rewriteSSEPayload, for an event of an item.
LEMMA RestorerItem ==
    ASSUME NEW v, NEW x, NEW s, RestorerLed(v, x, s, up, req), up \in UpType, up.end = "open",
           NEW i \in Items, NEW ev \in ItemEvents(i), req.plan[i] \in {"tool", "patch"}
    PROVE  /\ Sent(ev) \in UpType
           /\ \E y : RestorerLed(v, y, Tools!rewriteSSEPayload(s, ev, req.plan), Sent(ev), req)
<1> DEFINE z == Tools!rewriteSSEPayload(s, ev, req.plan)
           w == Sent(ev)
<1>1. s \in RestorerType /\ Leads(v, s.out, x, FALSE) /\ RestorerOK(x, s, up, req) /\ x.end = "none"
  BY DEF RestorerLed, RestorerOK, Finals
<1>2. x \in View /\ i \in 0 .. NItems
  <2>1. s.out \in Seq(FrameType)
    BY <1>1 DEF RestorerType
  <2>2. i \in 0 .. NItems
    BY ItemsFinite DEF Items
  <2> QED
    BY <1>1, <2>1, <2>2, LeadsBelow
<1>3. Passes(v, x, s, x, s, i, "none")
  BY <1>1, <1>2 DEF Passes, Content
<1>4. req.plan[i] = "patch" => /\ up.at[i] \in 1 .. 3 => i \in s.streamCalls
                               /\ x.parts[i] = IF up.at[i] = 4 THEN <<"whole">> ELSE <<>>
  BY <1>1 DEF RestorerOK
<1>5. ASSUME up.at[i] = 0, NEW full \in BOOLEAN, ev = Ev("added", i, full, FALSE)
      PROVE  w \in UpType /\ \E y : RestorerLed(v, y, z, w, req)
  <2>1. ev.type = "added" /\ ev.item = i
    BY <1>5 DEF Ev
  <2>2. Advances(up, w, i, 1, up.full[i] \/ full, up.sent[i])
    BY <1>5, SentAdded
  <2>3. w \in UpType
    BY <2>2 DEF Advances
  <2> HIDE DEF w
  <2>4. CASE req.plan[i] = "patch"
    <3> DEFINE S == s.streamCalls \cup {i}
    <3>1. z = [s EXCEPT !.streamCalls = S]
      BY <2>1, <2>4 DEF Tools!rewriteSSEPayload, Tools!rememberStreamCall
    <3>2. S \in SUBSET Items /\ i \in S /\ s.streamCalls \subseteq S
      BY <1>1 DEF RestorerType
    <3> HIDE DEF S, z
    <3>3. z \in RestorerType /\ z.out = s.out /\ z.streamCalls = S
      BY <1>1, <3>1, <3>2 DEF RestorerType
    <3>4. x.parts[i] = <<>> /\ i \in z.streamCalls /\ s.streamCalls \subseteq z.streamCalls
      BY <1>4, <1>5, <2>4, <3>2, <3>3
    <3>5. Passes(v, x, s, x, z, i, "none")
      <4>1. "none" \notin Content /\ Leads(v, z.out, x, FALSE)
        BY <1>1, <3>3 DEF Content
      <4> QED
        BY <1>2, <3>3, <3>4, <4>1 DEF Passes
    <3>6. RestorerLed(v, x, z, w, req)
      BY <1>1, <2>2, <3>4, <3>5, RestorerNext
    <3> QED
      BY <2>3, <3>6
  <2>5. CASE req.plan[i] # "patch"
    <3>1. z = Tools!Pass(s, ev, "none")
      BY <2>1, <2>5 DEF Tools!rewriteSSEPayload
    <3>2. ev.type \in EventNames /\ ev.type \notin Finals /\ "none" \in PartNames
      BY <2>1 DEF EventNames, Finals, PartNames
    <3> HIDE DEF z
    <3>3. Passed(v, x, s, z, i, "none", ev.type)
      BY <1>1, <1>2, <2>1, <3>1, <3>2, PassStep
    <3>4. PICK y : Passes(v, x, s, y, z, i, "none") /\ y.end = "none"
      BY <3>2, <3>3 DEF Passed
    <3>5. RestorerLed(v, y, z, w, req)
      BY <2>2, <2>5, <3>4, RestorerNext
    <3> QED
      BY <2>3, <3>5
  <2> QED
    BY <2>4, <2>5
<1>6. ASSUME up.at[i] <= 2, Announced(i), NEW type \in {"args_delta", "args_done"}, ev = Ev(type, i, FALSE, FALSE)
      PROVE  w \in UpType /\ \E y : RestorerLed(v, y, z, w, req)
  <2> DEFINE at == IF type = "args_delta" THEN 2 ELSE 3
             n == IF type = "args_delta" THEN up.sent[i] + 1 ELSE up.sent[i]
             part == IF type = "args_delta" THEN "piece" ELSE "whole"
  <2>1. ev.type = type /\ ev.item = i
    BY <1>6 DEF Ev
  <2>2. Advances(up, w, i, at, up.full[i], n)
    BY <1>6, SentPlain
  <2>3. w \in UpType /\ at \in 1 .. 3 /\ at # 4 /\ part \in PartNames
    BY <2>2 DEF Advances, PartNames
  <2> HIDE DEF w, at, n
  <2>4. CASE req.plan[i] = "patch"
    <3>1. up.at[i] \in 1 .. 3
      <4>1. up.at[i] \in 0 .. 4
        BY DEF UpType
      <4> QED
        BY <1>6, <2>4, <4>1 DEF Announced
    <3>2. i \in s.streamCalls /\ x.parts[i] = <<>>
      BY <1>4, <2>4, <3>1
    <3>3. z = s
      BY <1>6, <2>1, <3>2 DEF Tools!rewriteSSEPayload, Tools!streamIdentity
    <3> HIDE DEF z
    <3>4. RestorerLed(v, x, s, w, req)
      BY <1>1, <1>3, <2>2, <2>3, <3>2, RestorerNext
    <3> QED
      BY <2>3, <3>3, <3>4
  <2>5. CASE req.plan[i] # "patch"
    <3>1. z \in {s, Tools!Pass(s, ev, part)}
      BY <1>6, <2>1 DEF Tools!rewriteSSEPayload
    <3>2. ev.type \in EventNames /\ ev.type \notin Finals
      BY <1>6, <2>1 DEF EventNames, Finals
    <3> HIDE DEF z, part
    <3>3. CASE z = s
      <4>1. RestorerLed(v, x, s, w, req)
        BY <1>1, <1>3, <2>2, <2>5, RestorerNext
      <4> QED
        BY <2>3, <3>3, <4>1
    <3>4. CASE z = Tools!Pass(s, ev, part)
      <4>1. Passed(v, x, s, z, i, part, ev.type)
        BY <1>1, <1>2, <2>1, <2>3, <3>2, <3>4, PassStep
      <4>2. PICK y : Passes(v, x, s, y, z, i, part) /\ y.end = "none"
        BY <3>2, <4>1 DEF Passed
      <4>3. RestorerLed(v, y, z, w, req)
        BY <2>2, <2>5, <4>2, RestorerNext
      <4> QED
        BY <2>3, <4>3
    <3> QED
      BY <3>1, <3>3, <3>4
  <2> QED
    BY <2>4, <2>5
<1>7. ASSUME up.at[i] # 4, ev = Ev("item_done", i, FALSE, FALSE)
      PROVE  w \in UpType /\ \E y : RestorerLed(v, y, z, w, req)
  <2>1. ev.type = "item_done" /\ ev.item = i
    BY <1>7 DEF Ev
  <2>2. Advances(up, w, i, 4, up.full[i], up.sent[i])
    BY <1>7, SentPlain
  <2>3. w \in UpType
    BY <2>2 DEF Advances
  <2>4. z = Tools!Pass(s, ev, "whole")
    BY <2>1 DEF Tools!rewriteSSEPayload
  <2>5. ev.type \in EventNames /\ ev.type \notin Finals /\ "whole" \in PartNames
    BY <2>1 DEF EventNames, Finals, PartNames
  <2> HIDE DEF z, w
  <2>6. PICK y : Passes(v, x, s, y, z, i, "whole") /\ y.end = "none"
    <3>1. Passed(v, x, s, z, i, "whole", ev.type)
      BY <1>1, <1>2, <2>1, <2>4, <2>5, PassStep
    <3> QED
      BY <2>5, <3>1 DEF Passed
  <2>7. y.parts[i] = Append(x.parts[i], "whole")
    BY <2>6 DEF Passes, Content
  <2>8. req.plan[i] = "patch" => y.parts[i] = <<"whole">>
    <3> SUFFICES ASSUME req.plan[i] = "patch" PROVE y.parts[i] = <<"whole">>
      OBVIOUS
    <3>1. x.parts[i] = <<>>
      BY <1>4, <1>7
    <3> QED
      BY <2>7, <3>1
  <2>9. 4 \notin 1 .. 3
    OBVIOUS
  <2>10. RestorerLed(v, y, z, w, req)
    BY <2>2, <2>6, <2>8, <2>9, RestorerNext
  <2> QED
    BY <2>3, <2>10
<1> HIDE DEF z, w
<1>8. req.plan[i] # "reasoning" /\ req.plan[i] # "message"
  OBVIOUS
<1>9. w \in UpType /\ \E y : RestorerLed(v, y, z, w, req)
  BY <1>5, <1>6, <1>7, <1>8, ItemCases
<1> QED
  BY <1>9 DEF z, w

\* rewriteSSEPayload, for every event the provider may send.
LEMMA RestorerEvent ==
    ASSUME NEW v, NEW x, NEW s, RestorerLed(v, x, s, up, req), up \in UpType,
           \A i \in Items : req.plan[i] \in {"tool", "patch"}, NEW ev \in Events
    PROVE  /\ Sent(ev) \in UpType
           /\ \E y : RestorerLed(v, y, Tools!rewriteSSEPayload(s, ev, req.plan), Sent(ev), req)
<1> DEFINE z == Tools!rewriteSSEPayload(s, ev, req.plan)
           w == Sent(ev)
<1>0. up.end = "open"
  BY EventCases
<1>1. s \in RestorerType /\ Leads(v, s.out, x, FALSE) /\ RestorerOK(x, s, up, req) /\ x.end = "none"
  BY <1>0 DEF RestorerLed, RestorerOK, Finals
<1>2. ASSUME NEW type \in General, NEW output \in BOOLEAN, ev = Ev(type, 0, FALSE, output)
      PROVE  w \in UpType /\ \E y : RestorerLed(v, y, z, w, req)
  <2>1. ev.type = type /\ ev.item = 0
    BY <1>2 DEF Ev
  <2>2. w \in UpType /\ w.at = up.at /\ w.end = IF type \in Midway THEN up.end ELSE type
    BY <1>2, SentOther
  <2>3. w.end \in Finals <=> type \in Finals
    BY <1>0, <1>2, <2>2, GeneralNames DEF Finals
  <2>4. z = Tools!Pass(s, ev, "none")
    BY <1>2, <2>1 DEF Tools!rewriteSSEPayload, Finals, General, Broken, Anthropic!Broken
  <2>5. ev.type \in EventNames /\ 0 \in 0 .. NItems /\ "none" \in PartNames
    <3>1. 0 \in 0 .. NItems /\ "none" \in PartNames
      BY ItemsFinite DEF PartNames
    <3> QED
      BY <1>2, <2>1, <3>1 DEF EventNames
  <2> HIDE DEF z, w
  <2>6. PICK y : /\ Passes(v, x, s, y, z, 0, "none")
                 /\ type \in Finals => y.end = "success"
                 /\ type \notin Finals => y.end = "none"
    <3>1. Passed(v, x, s, z, 0, "none", ev.type)
      BY <1>1, <2>1, <2>4, <2>5, PassStep
    <3> QED
      BY <2>1, <3>1 DEF Passed
  <2>7. \A j \in Items : y.parts[j] = x.parts[j]
    BY <2>6 DEF Passes, Items
  <2>8. RestorerOK(y, z, w, req)
    BY <1>1, <2>2, <2>3, <2>6, <2>7 DEF RestorerOK, Passes
  <2> QED
    BY <2>2, <2>6, <2>8 DEF RestorerLed, Passes
<1>3. ASSUME NEW i \in Items, ev \in ItemEvents(i)
      PROVE  w \in UpType /\ \E y : RestorerLed(v, y, z, w, req)
  BY <1>0, <1>3, RestorerItem
<1> HIDE DEF z, w
<1>4. {"created", "json"} \subseteq General /\ {"failed"} \cup Broken \subseteq General /\ Finals \subseteq General
  BY DEF General
<1>5. w \in UpType /\ \E y : RestorerLed(v, y, z, w, req)
  BY <1>2, <1>3, <1>4, EventCases
<1> QED
  BY <1>5 DEF z, w

-----------------------------------------------------------------------------
(* The pieces of the inductive invariant.                                  *)

\* What a request can be.
LEMMA RequestIs ==
    ASSUME NEW r \in Requests
    PROVE  /\ r.format \in Formats /\ r.stream \in BOOLEAN /\ r.mode \in {"off", "summarized", "omitted"}
           /\ r.stream /\ r.format = "chat" => \A i \in Items : r.plan[i] \in {"message", "tool"}
           /\ r.stream /\ r.format = "anthropic" =>
                 \A i \in Items : r.plan[i] \in {"message", "tool", "reasoning"}
           /\ r.stream /\ r.format = "responses" => \A i \in Items : r.plan[i] \in {"tool", "patch"}
           /\ ~r.stream => \A i \in Items : r.plan[i] = "message"
<1> DEFINE F == UNION {{Route(path, kind) : kind \in Formats} : path \in Formats}
           Modes(f) == IF f = "anthropic" THEN {"off", "summarized", "omitted"} ELSE {"off"}
           R(f) == [format : {f}, stream : {TRUE}, plan : [Items -> Kinds[f]], mode : Modes(f)]
           N == [format : Formats, stream : {FALSE}, plan : [Items -> {"message"}], mode : {"off"}]
           U == UNION {R(f) : f \in F}
<1>1. Requests = U \cup N
  BY DEF Requests
<1>2. F \subseteq Formats
  BY DEF Route, Formats
<1> HIDE DEF F
<1>3. CASE r \in N
  BY <1>3
<1>4. ASSUME NEW f \in F, r \in R(f)
      PROVE  /\ r.format = f /\ r.stream = TRUE /\ r.plan \in [Items -> Kinds[f]] /\ r.mode \in Modes(f)
             /\ f \in Formats
  <2> DEFINE K == Kinds[f]
             M == Modes(f)
  <2>1. r \in [format : {f}, stream : {TRUE}, plan : [Items -> K], mode : M]
    BY <1>4
  <2> HIDE DEF K, M
  <2>2. r.format = f /\ r.stream = TRUE /\ r.plan \in [Items -> K] /\ r.mode \in M
    BY <2>1
  <2> QED
    BY <1>2, <2>2 DEF K, M
<1>5. CASE \E f \in F : r \in R(f)
  <2>1. PICK f \in F : r \in R(f)
    BY <1>5
  <2>2. r.format = f /\ r.stream = TRUE /\ r.plan \in [Items -> Kinds[f]] /\ r.mode \in Modes(f) /\ f \in Formats
    BY <2>1, <1>4
  <2>3. /\ f = "chat" => Kinds[f] = {"message", "tool"}
        /\ f = "anthropic" => Kinds[f] = {"message", "tool", "reasoning"}
        /\ f = "responses" => Kinds[f] = {"tool", "patch"}
    BY DEF Kinds
  <2> QED
    BY <2>2, <2>3
<1>6. r \in N \/ \E f \in F : r \in R(f)
  <2>1. r \in U => \E f \in F : r \in R(f)
    <3> HIDE DEF R
    <3> QED
      OBVIOUS
  <2> HIDE DEF R, N, U
  <2> QED
    BY <1>1, <2>1
<1> QED
  BY <1>3, <1>5, <1>6

\* Before anything was read.
LEMMA NoViewIs ==
    NoView \in View /\ Numbered(NoView, 1) /\ NoUp \in UpType
<1>1. NoView \in View
  <2>1. [i \in Items |-> <<>>] \in [Items -> Seq(Content)]
    OBVIOUS
  <2>2. [i \in Items |-> {}] \in [Items -> SUBSET Nat]
    OBVIOUS
  <2> QED
    BY <2>1, <2>2 DEF NoView, View
<1>2. \A i \in Items : NoView.home[i] = {}
  BY DEF NoView
<1>3. {i \in Items : NoView.home[i] # {}} = {}
  BY <1>2
<1>4. NoView.started = 0
  BY DEF NoView
<1>5. Numbered(NoView, 1)
  BY <1>2, <1>3, <1>4, FS_EmptySet DEF Numbered
<1>6. NoUp \in UpType
  BY DEF NoUp, UpType
<1> QED
  BY <1>1, <1>5, <1>6

\* Nothing was sent, so nothing is shown.
LEMMA NoneShaped ==
    ASSUME NEW u \in UpType
    PROVE  Shaped(NoView, u)
<1>1. \A i \in Items : NoView.home[i] = {} /\ NoView.parts[i] = <<>>
  BY DEF NoView
<1>2. \A i \in Items : u.sent[i] \in Nat /\ <<>> = Pieces(0)
  BY PiecesMore DEF UpType
<1>3. \A i \in Items : NoView.parts[i] \in {Pieces(n) : n \in 0 .. u.sent[i]} \cup {<<"whole">>}
  BY <1>1, <1>2
<1> QED
  BY <1>1, <1>3 DEF Shaped

\* newAnthropicStreamTranslator, NewResponsesToChatStream and RewriteResponseStream.
LEMMA NewLed ==
    ASSUME req \in Requests, req.stream
    PROVE  Led(NoView, NoView, NewConv, NoUp, req)
<1> DEFINE c == NewConv
<1>1. Leads(NoView, <<>>, NoView, TRUE) /\ Leads(NoView, <<>>, NoView, FALSE)
  BY NoViewIs, LeadsNone
<1>2. Shaped(NoView, NoUp) /\ NoUp.end = "open" /\ "open" \notin Finals
  BY NoViewIs, NoneShaped DEF NoUp, Finals
<1>3. \A i \in Items : /\ NoView.home[i] = {} /\ NoView.parts[i] = <<>>
                       /\ NoUp.at[i] = 0 /\ NoUp.sent[i] = 0 /\ NoUp.full[i] = FALSE
  BY DEF NoView, NoUp
<1>4. NoView.end = "none" /\ NoView.open = {} /\ NoView.begun = FALSE /\ NoUp.created = FALSE
  BY DEF NoView, NoUp
<1>5. 1 \in 1 .. NItems + 1 /\ 0 \in 0 .. NItems
  BY ItemsFinite
<1>6. CASE req.format = "anthropic"
  <2>1. c = Anthropic!newAnthropicStreamTranslator(req.mode)
    BY <1>6 DEF NewConv
  <2>2. req.mode \in {"off", "summarized", "omitted"}
    BY RequestIs
  <2> DEFINE B == [i \in Items |-> Anthropic!NewBlock]
  <2>3. B \in [Items -> BlockType] /\ \A i \in Items : B[i].index = 0 /\ B[i].emitted = FALSE /\ B[i].stopped = FALSE
    BY DEF Anthropic!NewBlock, BlockType
  <2>4. c.blocks = B
    BY <2>1, SameItems DEF Anthropic!newAnthropicStreamTranslator
  <2>5. /\ c.mode = req.mode /\ c.started = FALSE /\ c.finished = FALSE /\ c.failed = FALSE /\ c.next = 1
        /\ c.thinking = 0 /\ c.current = 0 /\ c.completed = {} /\ c.out = <<>>
    BY <2>1 DEF Anthropic!newAnthropicStreamTranslator, Anthropic!NoItem
  <2>6. c = [mode |-> req.mode, started |-> FALSE, finished |-> FALSE, failed |-> FALSE,
             hasToolUse |-> FALSE, next |-> 1, blocks |-> B, thinking |-> 0, stopPend |-> FALSE,
             signature |-> FALSE, current |-> 0, completed |-> {}, out |-> <<>>]
    BY <2>1, SameItems DEF Anthropic!newAnthropicStreamTranslator, Anthropic!NoItem
  <2> HIDE DEF B, c
  <2>7. c \in Translator
    BY <1>5, <2>2, <2>3, <2>6 DEF Translator
  <2>8. Sync(NoView, c)
    <3>1. \A n \in Nat : n \in NoView.open <=>
             /\ n # 0
             /\ n = c.thinking \/ \E i \in Items : n = c.blocks[i].index /\ ~c.blocks[i].stopped
      BY <1>4, <2>3, <2>4, <2>5
    <3>2. \A i \in Items :
             /\ NoView.home[i] = {} <=> ~Opened(c, i)
             /\ c.blocks[i].index # 0 => NoView.home[i] = {c.blocks[i].index}
             /\ c.blocks[i].emitted \/ c.blocks[i].stopped => c.blocks[i].index # 0
      BY <1>3, <2>3, <2>4, <2>5 DEF Opened, Thinks
    <3>3. Numbered(NoView, c.next)
      BY <2>5, NoViewIs
    <3>4. NoView.end = "none" /\ NoView.begun = c.started /\ ~c.finished /\ ~c.failed
      BY <1>4, <2>5
    <3>5. c.thinking = 0 /\ ~(c.next > 1)
      BY <2>5
    <3> QED
      BY <3>1, <3>2, <3>3, <3>4, <3>5 DEF Sync
  <2>9. Phase(NoView, c, NoUp, req.plan)
    BY <1>3, <1>4, <2>3, <2>4, <2>5 DEF Phase, ThinkPhase, ItemSync, ThoughtSync, ContentSync
  <2>10. AnthropicOK(NoView, c, NoUp, req)
    BY <1>2, <1>5, <2>5, <2>8, <2>9 DEF AnthropicOK
  <2> QED
    BY <1>1, <1>6, <2>5, <2>7, <2>10 DEF Led, AnthropicLed, c
<1>7. CASE req.format = "chat"
  <2>1. c = Chat!NewResponsesToChatStream
    BY <1>7 DEF NewConv
  <2> DEFINE C == [k \in Chat!CallKeys |-> 0]
             O == [i \in Items |-> 0]
  <2>2. c = [started |-> FALSE, done |-> FALSE, next |-> 1, sawTools |-> FALSE, byCall |-> C,
             byOut |-> O, argsEmitted |-> {}, out |-> <<>>]
    BY <2>1 DEF Chat!NewResponsesToChatStream
  <2>3. C \in [Chat!CallKeys -> Nat] /\ O \in [Items -> Nat] /\ (\A i \in Items : O[i] = 0)
        /\ \A k \in {"call", "item"} : \A i \in Items : C[<<k, i>>] = 0
    BY DEF Chat!CallKeys
  <2> HIDE DEF C, O, c
  <2>4. c \in ChatType /\ c.byOut = O /\ c.byCall = C /\ c.next = 1 /\ c.argsEmitted = {} /\ c.out = <<>>
    BY <2>2, <2>3 DEF ChatType
  <2>5. c.started = FALSE /\ c.done = FALSE
    BY <2>2
  <2>6. ChatSync(NoView, c)
    <3>1. \A n \in Nat : n \in NoView.open <=> n # 0 /\ \E i \in Items : n = c.byOut[i]
      BY <1>4, <2>3, <2>4
    <3>2. \A i \in Items : /\ NoView.home[i] = {c.byOut[i]} \ {0}
                           /\ \A k \in {"call", "item"} : c.byCall[<<k, i>>] \in {0, c.byOut[i]}
      BY <1>3, <2>3, <2>4
    <3> QED
      BY <1>4, <2>4, <2>5, <3>1, <3>2, NoViewIs DEF ChatSync
  <2>7. ChatPhase(NoView, c, NoUp, req.plan)
    BY <1>3, <1>4, <2>3, <2>4, <2>5 DEF ChatPhase, ChatItem
  <2>8. ChatOK(NoView, c, NoUp, req)
    <3>1. NoUp.end \notin ChatFinals
      BY DEF NoUp, Finals, ChatFinals
    <3> QED
      BY <1>2, <1>5, <2>4, <2>5, <2>6, <2>7, <3>1 DEF ChatOK
  <2> QED
    BY <1>1, <1>7, <2>4, <2>8 DEF Led, ChatLed, c
<1>8. CASE req.format = "responses"
  <2>1. c = Tools!RewriteResponseStream
    BY <1>8 DEF NewConv
  <2>2. c \in RestorerType /\ c.out = <<>>
    BY <2>1 DEF Tools!RewriteResponseStream, RestorerType
  <2> HIDE DEF c
  <2>3. RestorerOK(NoView, c, NoUp, req)
    BY <1>2, <1>3, <1>4 DEF RestorerOK
  <2> QED
    BY <1>1, <1>8, <2>2, <2>3 DEF Led, RestorerLed, c
<1>9. req.format \in {"chat", "anthropic", "responses"}
  BY RequestIs DEF Formats
<1> QED
  BY <1>6, <1>7, <1>8, <1>9

\* Only the frames that are pending differ.
LEMMA AnthropicLater ==
    ASSUME NEW v, NEW x, NEW c, NEW u, NEW r, AnthropicLed(v, x, c, u, r), NEW q \in Seq(FrameType),
           NEW z, Leads(z, q, x, TRUE), NEW s, s = [c EXCEPT !.out = q]
    PROVE  AnthropicLed(z, x, s, u, r)
<1>1. c \in Translator /\ AnthropicOK(x, c, u, r)
  BY DEF AnthropicLed
<1>2. s \in Translator /\ s.out = q /\ Kept(c, s) /\ s.next = c.next
  BY <1>1 DEF Translator, Kept
<1>3. s.started = c.started /\ s.finished = c.finished /\ s.failed = c.failed
  BY <1>1 DEF Translator
<1>4. /\ s.blocks = c.blocks /\ s.completed = c.completed /\ s.thinking = c.thinking
      /\ s.current = c.current /\ s.mode = c.mode
  BY <1>2 DEF Kept
<1>5. \A i \in Items : (Opened(s, i) <=> Opened(c, i)) /\ (Thinks(s, i) <=> Thinks(c, i))
  BY <1>4 DEF Opened, Thinks
<1>6. Sync(x, c) => Sync(x, s)
  BY <1>2, <1>3, <1>4, <1>5 DEF Sync
<1>7. Phase(x, c, u, r.plan) => Phase(x, s, u, r.plan)
  <2>1. \A i \in Items : ItemSync(x, c, u, r.plan, i) => ItemSync(x, s, u, r.plan, i)
    BY <1>4, <1>5 DEF ItemSync, ThoughtSync, ContentSync
  <2>2. ThinkPhase(c, u, r.plan) => ThinkPhase(s, u, r.plan)
    BY <1>4 DEF ThinkPhase
  <2> QED
    BY <1>3, <2>1, <2>2 DEF Phase
<1>8. AnthropicOK(x, s, u, r)
  BY <1>1, <1>2, <1>3, <1>4, <1>6, <1>7 DEF AnthropicOK
<1> QED
  BY <1>2, <1>8 DEF AnthropicLed

\* The same, for Chat clients.
LEMMA ChatLater ==
    ASSUME NEW v, NEW x, NEW c, NEW u, NEW r, ChatLed(v, x, c, u, r), NEW q \in Seq(FrameType),
           NEW z, Leads(z, q, x, TRUE), NEW s, s = [c EXCEPT !.out = q]
    PROVE  ChatLed(z, x, s, u, r)
<1>1. c \in ChatType /\ ChatOK(x, c, u, r)
  BY DEF ChatLed
<1>2. s \in ChatType /\ s.out = q /\ ChatKept(c, s)
  BY <1>1 DEF ChatType, ChatKept
<1>3. s.started = c.started /\ s.done = c.done
  BY <1>1 DEF ChatType
<1>4. ChatSync(x, c) => ChatSync(x, s)
  BY <1>2, <1>3 DEF ChatSync, ChatKept
<1>5. ChatPhase(x, c, u, r.plan) => ChatPhase(x, s, u, r.plan)
  BY <1>2, <1>3 DEF ChatPhase, ChatItem, ChatKept
<1>6. ChatOK(x, s, u, r)
  BY <1>1, <1>2, <1>3, <1>4, <1>5 DEF ChatOK, ChatKept
<1> QED
  BY <1>2, <1>6 DEF ChatLed

\* And for Responses clients, whether the body is over or not.
LEMMA RestorerLater ==
    ASSUME NEW v, NEW x, NEW c, NEW u, NEW r, RestorerLed(v, x, c, u, r), NEW q \in Seq(FrameType),
           NEW z, Leads(z, q, x, FALSE), NEW done \in BOOLEAN,
           NEW s, s = [c EXCEPT !.out = q, !.done = done]
    PROVE  RestorerLed(z, x, s, u, r)
<1>1. c \in RestorerType /\ RestorerOK(x, c, u, r)
  BY DEF RestorerLed
<1>2. s \in RestorerType /\ s.out = q /\ s.streamCalls = c.streamCalls
  BY <1>1 DEF RestorerType
<1>3. RestorerOK(x, s, u, r)
  BY <1>1, <1>2 DEF RestorerOK
<1> QED
  BY <1>2, <1>3 DEF RestorerLed

\* What is known of the pending frames in every format.
LEMMA LedFrames ==
    ASSUME NEW r \in Requests, NEW v, NEW x, NEW c, NEW u, Led(v, x, c, u, r)
    PROVE  /\ c.out \in Seq(FrameType) /\ Leads(v, c.out, x, r.format # "responses")
           /\ v \in View /\ x \in View /\ Below(v, x)
<1>1. r.format \in {"chat", "anthropic", "responses"}
  BY RequestIs DEF Formats
<1>2. CASE r.format = "anthropic"
  <2>1. c \in Translator /\ Leads(v, c.out, x, TRUE)
    BY <1>2 DEF Led, AnthropicLed
  <2>2. c.out \in Seq(FrameType)
    BY <2>1 DEF Translator
  <2>3. (r.format # "responses") = TRUE
    BY <1>2
  <2> QED
    BY <2>1, <2>2, <2>3, LeadsBelow
<1>3. CASE r.format = "chat"
  <2>1. c \in ChatType /\ Leads(v, c.out, x, TRUE)
    BY <1>3 DEF Led, ChatLed
  <2>2. c.out \in Seq(FrameType)
    BY <2>1 DEF ChatType
  <2>3. (r.format # "responses") = TRUE
    BY <1>3
  <2> QED
    BY <2>1, <2>2, <2>3, LeadsBelow
<1>4. CASE r.format = "responses"
  <2>1. c \in RestorerType /\ Leads(v, c.out, x, FALSE)
    BY <1>4 DEF Led, RestorerLed
  <2>2. c.out \in Seq(FrameType)
    BY <2>1 DEF RestorerType
  <2>3. (r.format # "responses") = FALSE
    BY <1>4
  <2> QED
    BY <2>1, <2>2, <2>3, LeadsBelow
<1> QED
  BY <1>1, <1>2, <1>3, <1>4

\* The pending frames are other ones, that lead from z to where they led.
LEMMA LedLater ==
    ASSUME NEW r \in Requests, NEW v, NEW x, NEW c, NEW u, Led(v, x, c, u, r), NEW q \in Seq(FrameType),
           NEW z, Leads(z, q, x, r.format # "responses"), NEW s, s = [c EXCEPT !.out = q]
    PROVE  Led(z, x, s, u, r) /\ (r.format = "anthropic" => s.finished = c.finished)
<1>1. r.format \in {"chat", "anthropic", "responses"}
  BY RequestIs DEF Formats
<1>2. CASE r.format = "anthropic"
  <2>1. AnthropicLed(v, x, c, u, r) /\ Leads(z, q, x, TRUE)
    <3>1. (r.format # "responses") = TRUE
      BY <1>2
    <3> QED
      BY <1>2, <3>1 DEF Led
  <2>2. AnthropicLed(z, x, s, u, r)
    BY <2>1, AnthropicLater
  <2>3. s.finished = c.finished
    BY <2>1 DEF AnthropicLed, Translator
  <2> QED
    BY <1>2, <2>2, <2>3 DEF Led
<1>3. CASE r.format = "chat"
  <2>1. ChatLed(v, x, c, u, r) /\ Leads(z, q, x, TRUE)
    <3>1. (r.format # "responses") = TRUE
      BY <1>3
    <3> QED
      BY <1>3, <3>1 DEF Led
  <2>2. ChatLed(z, x, s, u, r)
    BY <2>1, ChatLater
  <2> QED
    BY <1>3, <2>2 DEF Led
<1>4. CASE r.format = "responses"
  <2>1. RestorerLed(v, x, c, u, r) /\ Leads(z, q, x, FALSE)
    <3>1. (r.format # "responses") = FALSE
      BY <1>4
    <3> QED
      BY <1>4, <3>1 DEF Led
  <2>2. c.done \in BOOLEAN /\ s = [c EXCEPT !.out = q, !.done = c.done]
    BY <2>1 DEF RestorerLed, RestorerType
  <2>3. RestorerLed(z, x, s, u, r)
    BY <2>1, <2>2, RestorerLater
  <2> QED
    BY <1>4, <2>3 DEF Led
<1> QED
  BY <1>1, <1>2, <1>3, <1>4

-----------------------------------------------------------------------------
(* The inductive invariant holds at first, and every action keeps it.      *)

\* What the invariant says after a step, in terms of the primed variables.
LEMMA FollowingNext ==
    ASSUME req' = req, Streaming',
           \E v, x : (client' = "here" => v = view') /\ Led(v, x, conv', up', req)
    PROVE  Following'
  BY DEF Following

\* Nothing has been sent or shown at the start.
LEMMA InvInit == Init => DeliveryInv
<1> SUFFICES ASSUME Init PROVE DeliveryInv
  OBVIOUS
<1>1. Types
  BY NoViewIs DEF Init, Types, Replies
<1> QED
  BY <1>1 DEF Init, DeliveryInv, Nothing, Aggregating, Copying, Following, Streaming

\* Prepare.
LEMMA InvPrepare ==
    ASSUME DeliveryInv, Prepare
    PROVE  DeliveryInv'
<1>1. Types /\ Nothing /\ (client = "gone" => view = NoView)
  BY DEF DeliveryInv
<1>2. pc = "prepare" /\ pc' \in {"gateway", "done"} /\ reply' \in {reply, "bad_request"}
      /\ UNCHANGED <<req, up, conv, worker, lease, client, view>>
  BY DEF Prepare, Finish
<1>3. lease = "none"
  BY <1>2 DEF DeliveryInv, Types, Aggregating, Copying, Streaming
<1>4. Types'
  BY <1>1, <1>2 DEF Types, Translated, Replies
<1>5. Nothing'
  BY <1>1, <1>2 DEF Nothing
<1>6. Aggregating' /\ Copying' /\ Following'
  BY <1>2, <1>3 DEF Aggregating, Copying, Following, Streaming
<1> QED
  BY <1>1, <1>2, <1>4, <1>5, <1>6 DEF DeliveryInv

\* GatewayRefuses.
LEMMA InvGatewayRefuses ==
    ASSUME DeliveryInv, GatewayRefuses
    PROVE  DeliveryInv'
<1>1. Types /\ Nothing /\ (client = "gone" => view = NoView)
  BY DEF DeliveryInv
<1>2. pc = "gateway" /\ pc' = "done" /\ reply' \in {"unavailable", "bad_gateway", "upstream_error"}
      /\ UNCHANGED <<req, up, conv, worker, lease, client, view>>
  BY DEF GatewayRefuses, Finish
<1>3. lease = "none"
  BY <1>2 DEF DeliveryInv, Types, Aggregating, Copying, Streaming
<1>4. Types'
  BY <1>1, <1>2 DEF Types, Translated, Replies
<1>5. Nothing'
  BY <1>1, <1>2 DEF Nothing
<1>6. Aggregating' /\ Copying' /\ Following'
  BY <1>2, <1>3 DEF Aggregating, Copying, Following, Streaming
<1> QED
  BY <1>1, <1>2, <1>4, <1>5, <1>6 DEF DeliveryInv

\* GatewayStreams: the converter is new, and the client has seen nothing.
LEMMA InvGatewayStreams ==
    ASSUME DeliveryInv, GatewayStreams
    PROVE  DeliveryInv'
<1>1. Types /\ Nothing
  BY DEF DeliveryInv
<1>2. pc = "gateway" /\ lease' = "held" /\ conv' = NewConv /\ UNCHANGED <<req, up, client, view>>
      /\ worker' = (IF Translated THEN "running" ELSE "none")
      /\ pc' = (IF req.stream THEN "copy" ELSE "aggregate")
      /\ reply' = (IF req.stream THEN "stream" ELSE reply)
  BY DEF GatewayStreams
<1>3. lease = "none"
  BY <1>2 DEF DeliveryInv, Types, Aggregating, Copying, Streaming
<1>4. up = NoUp /\ view = NoView
  BY <1>1, <1>3 DEF Nothing
<1>5. Types'
  BY <1>1, <1>2 DEF Types, Translated, Replies
<1>6. Nothing'
  BY <1>2 DEF Nothing
<1>7. Aggregating'
  <2>1. ASSUME ~req.stream PROVE conv' \in [final : BOOLEAN, out : {<<>>}]
    <3>1. conv' = [final |-> FALSE, out |-> <<>>]
      BY <1>2, <2>1 DEF NewConv
    <3> QED
      BY <3>1
  <2> QED
    BY <1>2, <1>4, <2>1 DEF Aggregating
<1>8. Copying'
  <2>1. req.stream => pc' = "copy"
    BY <1>2
  <2>2. Translated /\ conv'.finished => FALSE
    <3>1. ASSUME Translated PROVE conv'.finished = FALSE
      BY <1>2, <3>1 DEF Translated, NewConv, Anthropic!newAnthropicStreamTranslator
    <3> QED
      BY <3>1
  <2> QED
    BY <1>2, <2>1, <2>2 DEF Copying, Streaming, Translated
<1>9. Following'
  <2>1. ASSUME req.stream PROVE Led(view', view', conv', up', req')
    BY <1>1, <1>2, <1>4, <2>1, NewLed DEF Types
  <2> QED
    BY <1>2, <2>1 DEF Following, Streaming
<1> QED
  BY <1>2, <1>4, <1>5, <1>6, <1>7, <1>8, <1>9 DEF DeliveryInv

\* What the provider has sent stays of its type.
LEMMA SentType ==
    ASSUME up \in UpType, NEW ev \in Events
    PROVE  Sent(ev) \in UpType
<1>1. ASSUME NEW i \in Items, ev \in ItemEvents(i)
      PROVE  Sent(ev) \in UpType
  <2>1. ASSUME NEW at, NEW full, NEW n, Advances(up, Sent(ev), i, at, full, n)
        PROVE  Sent(ev) \in UpType
    BY <2>1 DEF Advances
  <2> QED
    BY <1>1, <2>1, ItemCases, SentAdded, SentPlain
<1>2. ASSUME NEW type \in General, NEW output \in BOOLEAN, ev = Ev(type, 0, FALSE, output)
      PROVE  Sent(ev) \in UpType
  BY <1>2, SentOther
<1>3. {"created", "json"} \subseteq General /\ {"failed"} \cup Broken \subseteq General /\ Finals \subseteq General
  BY DEF General
<1> QED
  BY <1>1, <1>2, <1>3, EventCases

\* When the converter is read, the client has, or will have, all that was written.
LEMMA ReadingView ==
    ASSUME DeliveryInv, Streaming, conv.out = <<>>
    PROVE  \E x : (client = "here" => x = view) /\ Led(x, x, conv, up, req) /\ x \in View
<1>1. PICK v, x : (client = "here" => v = view) /\ Led(v, x, conv, up, req)
  BY DEF DeliveryInv, Following
<1>2. Leads(v, <<>>, x, req.format # "responses") /\ x \in View
  BY <1>1, LedFrames DEF DeliveryInv, Types
<1>3. v = x
  BY <1>2, LeadsEnd
<1> QED
  BY <1>1, <1>2, <1>3

\* An event that is read while the client is there.
LEMMA LedEvent ==
    ASSUME DeliveryInv, Streaming, Reading, client = "here", NEW ev \in Events
    PROVE  /\ \E y : Led(view, y, Convert(ev), Sent(ev), req)
           /\ Translated /\ Convert(ev).finished => ev.type \in Broken \/ Sent(ev).end # "open"
<1>0. req \in Requests /\ up \in UpType /\ up.end = "open" /\ req.stream /\ conv.out = <<>>
  BY EventCases DEF DeliveryInv, Types, Streaming, Reading
<1>1. Led(view, view, conv, up, req) /\ view \in View
  BY <1>0, ReadingView
<1>2. req.format \in {"chat", "anthropic", "responses"}
  BY <1>0, RequestIs DEF Formats
<1>3. CASE req.format = "anthropic"
  <2>1. worker = "running" /\ Translated
    BY <1>0, <1>3 DEF Reading, Translated
  <2>2. ~conv.finished
    BY <1>0, <2>1 DEF DeliveryInv, Copying
  <2>3. AnthropicLed(view, view, conv, up, req)
    BY <1>1, <1>3 DEF Led
  <2>4. conv \in Translator /\ Leads(view, conv.out, view, TRUE) /\ Sync(view, conv)
        /\ Phase(view, conv, up, req.plan) /\ conv.mode = req.mode
    BY <1>0, <2>2, <2>3 DEF AnthropicLed, AnthropicOK
  <2>5. \A i \in Items : req.plan[i] \in {"message", "tool", "reasoning"}
    BY <1>0, <1>3, RequestIs
  <2>6. Live(view, view, conv, up, req)
    BY <1>0, <1>1, <2>4, <2>5 DEF Live, InStep
  <2> DEFINE s == Anthropic!processData(conv, ev, req.plan)
  <2>7. Convert(ev) = s
    BY <1>0, <1>3 DEF Convert
  <2>8. /\ s.finished => ev.type \in Broken \/ Sent(ev).end # "open"
        /\ \E y : AnthropicLed(view, y, s, Sent(ev), req)
    BY <2>6, AnthropicEvent
  <2> HIDE DEF s
  <2> QED
    BY <1>3, <2>7, <2>8 DEF Led
<1>4. CASE req.format = "chat"
  <2>1. ~conv.done
    BY <1>0, <1>4 DEF Reading, Translated, DeliveryInv, Copying
  <2>2. ChatLed(view, view, conv, up, req)
    BY <1>1, <1>4 DEF Led
  <2>3. conv \in ChatType /\ Leads(view, conv.out, view, TRUE) /\ ChatSync(view, conv)
        /\ ChatPhase(view, conv, up, req.plan)
    BY <1>0, <2>1, <2>2 DEF ChatLed, ChatOK
  <2>4. \A i \in Items : req.plan[i] \in {"message", "tool"}
    BY <1>0, <1>4, RequestIs
  <2>5. ChatLive(view, view, conv, up, req)
    BY <1>0, <1>1, <2>1, <2>3, <2>4 DEF ChatLive, ChatIn
  <2> DEFINE s == Chat!pull(conv, ev, req.plan)
  <2>6. Convert(ev) = s
    BY <1>0, <1>4 DEF Convert
  <2>7. \E y : ChatLed(view, y, s, Sent(ev), req)
    BY <1>4, <2>5, ChatEvent
  <2> HIDE DEF s
  <2> QED
    BY <1>4, <2>6, <2>7 DEF Led, Translated
<1>5. CASE req.format = "responses"
  <2>1. RestorerLed(view, view, conv, up, req)
    BY <1>1, <1>5 DEF Led
  <2>2. \A i \in Items : req.plan[i] \in {"tool", "patch"}
    BY <1>0, <1>5, RequestIs
  <2> DEFINE s == Tools!rewriteSSEPayload(conv, ev, req.plan)
  <2>3. Convert(ev) = s
    BY <1>0, <1>5 DEF Convert
  <2>4. \E y : RestorerLed(view, y, s, Sent(ev), req)
    BY <1>0, <2>1, <2>2, RestorerEvent
  <2> HIDE DEF s
  <2> QED
    BY <1>5, <2>3, <2>4 DEF Led, Translated
<1> QED
  BY <1>2, <1>3, <1>4, <1>5

\* ReadEvent.
LEMMA InvReadEvent ==
    ASSUME DeliveryInv, ReadEvent
    PROVE  DeliveryInv'
<1>1. Types /\ Aggregating /\ Copying
  BY DEF DeliveryInv
<1>2. PICK ev \in Events : /\ up' = Sent(ev) /\ conv' = Convert(ev)
                           /\ worker' = IF Translated /\ ev.type \in Broken THEN "ending" ELSE worker
  BY DEF ReadEvent
<1>3. Reading /\ lease = "held" /\ client = "here" /\ UNCHANGED <<req, pc, lease, client, reply, view>>
  BY DEF ReadEvent
<1>4. up' \in UpType
  BY <1>1, <1>2, SentType DEF Types
<1>5. Translated => worker = "running"
  BY <1>3 DEF Reading
<1>6. Types'
  <2>1. worker' \in {"none", "running", "ending", "ended"} /\ (worker' # "none" <=> worker # "none")
    BY <1>1, <1>2, <1>5 DEF Types
  <2> QED
    BY <1>1, <1>3, <1>4, <2>1 DEF Types, Translated
<1>7. Nothing' /\ (client' = "gone" => view' = NoView)
  BY <1>3 DEF Nothing
<1>8. Aggregating'
  <2>1. ASSUME ~req.stream
        PROVE  conv' \in [final : BOOLEAN, out : {<<>>}] /\ pc \in {"aggregate", "done"} /\ view = NoView
    <3> DEFINE b == conv.final \/ ev.type \in {"completed", "json"}
    <3>1. conv \in [final : BOOLEAN, out : {<<>>}] /\ pc \in {"aggregate", "done"} /\ view = NoView
      BY <1>1, <1>3, <2>1 DEF Aggregating
    <3>2. conv' = [conv EXCEPT !.final = b]
      BY <1>2, <2>1 DEF Convert
    <3>3. b \in BOOLEAN
      OBVIOUS
    <3> HIDE DEF b
    <3> QED
      BY <3>1, <3>2, <3>3
  <2> QED
    BY <1>3, <2>1 DEF Aggregating
<1>9. ASSUME req.stream PROVE Copying' /\ Following'
  <2>1. Streaming
    BY <1>3, <1>9 DEF Streaming
  <2>2. /\ \E y : Led(view, y, Convert(ev), Sent(ev), req)
        /\ Translated /\ Convert(ev).finished => ev.type \in Broken \/ Sent(ev).end # "open"
    BY <1>3, <2>1, LedEvent
  <2>3. pc = "copy"
    <3>1. pc \in {"copy", "close", "done"} /\ (pc \in {"close", "done"} /\ Translated => worker = "ended")
      BY <1>1, <1>3, <2>1 DEF Copying
    <3>2. ~Translated => pc = "copy"
      BY <1>3, <3>1 DEF Reading
    <3> QED
      BY <1>5, <3>1, <3>2
  <2>4. Copying'
    <3>1. Translated /\ conv'.finished => worker' # "running" \/ up'.end # "open"
      BY <1>2, <2>2
    <3> QED
      BY <1>3, <2>3, <3>1 DEF Copying, Streaming, Translated
  <2>5. Following'
    BY <1>2, <1>3, <2>2 DEF Following
  <2> QED
    BY <2>4, <2>5
<1>10. ~req.stream => Copying' /\ Following'
  BY <1>3 DEF Copying, Following, Streaming
<1> QED
  BY <1>6, <1>7, <1>8, <1>9, <1>10 DEF DeliveryInv

\* A step that only moves the handler or the worker, and what they answer.
LEMMA InvMove ==
    ASSUME DeliveryInv, lease # "none", lease' \in {"held", "released"},
           UNCHANGED <<req, up, client, view>>,
           pc' \in IF req.stream THEN {"copy", "close", "done"} ELSE {"aggregate", "done"},
           worker' \in {"none", "running", "ending", "ended"}, worker' # "none" <=> worker # "none",
           reply' \in Replies,
           ~req.stream => conv' = conv,
           req.stream => /\ Copying'
                         /\ \E v, x : (client = "here" => v = view) /\ Led(v, x, conv', up, req)
    PROVE  DeliveryInv'
<1>1. Types' /\ Nothing' /\ (client' = "gone" => view' = NoView)
  BY DEF DeliveryInv, Types, Nothing, Translated
<1>2. Aggregating'
  BY DEF DeliveryInv, Aggregating
<1>3. Copying'
  <2>1. ~req.stream => Copying'
    BY DEF Copying, Streaming
  <2> QED
    BY <2>1
<1>4. Following'
  BY DEF Following, Streaming
<1> QED
  BY <1>1, <1>2, <1>3, <1>4 DEF DeliveryInv

\* While the upstream is read, the handler copies or aggregates, or it has ended
\* without the worker.
LEMMA ReadingPlace ==
    ASSUME DeliveryInv, Reading
    PROVE  /\ lease # "none" /\ conv.out = <<>> /\ (Translated => worker = "running")
           /\ Translated /\ client = "here" => pc = "copy"
           /\ req.stream /\ ~Translated => pc = "copy"
           /\ ~req.stream => pc = "aggregate"
           /\ req.stream => Streaming /\ pc \in {"copy", "close", "done"}
<1>1. Types /\ Nothing /\ Aggregating /\ Copying
  BY DEF DeliveryInv
<1>2. conv.out = <<>> /\ (Translated => worker = "running")
      /\ (~Translated => pc = "aggregate" \/ pc = "copy")
  BY DEF Reading
<1>3. lease # "none"
  BY <1>1, <1>2 DEF Types, Nothing
<1>4. req.stream => Streaming /\ pc \in {"copy", "close", "done"}
  BY <1>1, <1>3 DEF Streaming, Copying
<1>5. ~req.stream => ~Translated /\ pc = "aggregate"
  BY <1>1, <1>2, <1>3 DEF Translated, Aggregating
<1>6. Translated /\ client = "here" => pc = "copy"
  BY <1>1, <1>2, <1>4 DEF Copying, Translated
<1> QED
  BY <1>2, <1>3, <1>4, <1>5, <1>6

\* A bare [DONE] that is passed on says nothing to the client.
LEMMA MarkStep ==
    ASSUME NEW v, NEW x, NEW s, NEW u, NEW r, RestorerLed(v, x, s, u, r)
    PROVE  \E y : RestorerLed(v, y, Tools!passMark(s), u, r)
<1> DEFINE f == [type |-> "mark", block |-> 0, item |-> 0, part |-> "none"]
           q == Append(s.out, f)
           y == Shown(x, f)
           z == Tools!passMark(s)
<1>1. s \in RestorerType /\ Leads(v, s.out, x, FALSE) /\ RestorerOK(x, s, u, r)
  BY DEF RestorerLed
<1>2. f \in FrameType /\ f.type = "mark" /\ f.item = 0 /\ f.part = "none"
  BY ItemsFinite DEF FrameType, FrameNames, PartNames
<1>3. z = [s EXCEPT !.out = q, !.done = TRUE]
  BY DEF Tools!passMark
<1> HIDE DEF f
<1>4. s.out \in Seq(FrameType) /\ q \in Seq(FrameType)
  BY <1>1, <1>2 DEF RestorerType
<1>5. x \in View
  BY <1>1, <1>4, LeadsBelow
<1>6. y.end = x.end
  BY <1>2 DEF Shown, Finals
<1>7. \A j \in Items : y.parts[j] = x.parts[j]
  BY <1>2 DEF Shown, Content, Items
<1>8. Leads(v, q, y, FALSE)
  <2>1. x.end \in {"none", Shown(x, f).end}
    BY <1>6
  <2> QED
    BY <1>1, <1>2, <1>4, <2>1, LeadsMore
<1> HIDE DEF q, y
<1>9. z \in RestorerType /\ z.streamCalls = s.streamCalls /\ z.out = q
  BY <1>1, <1>3, <1>4 DEF RestorerType
<1> HIDE DEF z
<1>10. RestorerOK(y, z, u, r)
  BY <1>1, <1>6, <1>7, <1>9 DEF RestorerOK
<1>11. RestorerLed(v, y, z, u, r)
  BY <1>8, <1>9, <1>10 DEF RestorerLed
<1> QED
  BY <1>11 DEF z

\* ReadMark.
LEMMA InvReadMark ==
    ASSUME DeliveryInv, ReadMark
    PROVE  DeliveryInv'
<1>1. /\ Reading /\ lease = "held" /\ req.stream /\ req.format = "responses"
      /\ conv' = Tools!passMark(conv)
      /\ UNCHANGED <<req, pc, up, worker, lease, client, reply, view>>
  BY DEF ReadMark
<1>2. ~Translated /\ pc = "copy" /\ Streaming
  <2>1. ~Translated
    BY <1>1 DEF Translated
  <2> QED
    BY <1>1, <2>1, ReadingPlace
<1>3. Types /\ req \in Requests /\ up \in UpType
  BY DEF DeliveryInv, Types
<1>4. PICK x : (client = "here" => x = view) /\ RestorerLed(x, x, conv, up, req)
  BY <1>1, <1>2, ReadingView DEF Led, Reading
<1>5. \E v, y : (client = "here" => v = view) /\ Led(v, y, conv', up, req)
  <2>1. \E y : RestorerLed(x, y, Tools!passMark(conv), up, req)
    BY <1>4, MarkStep
  <2> QED
    BY <1>1, <1>4, <2>1 DEF Led
<1>6. Copying'
  BY <1>1, <1>2 DEF Copying, Streaming, Translated
<1> QED
  BY <1>1, <1>2, <1>3, <1>5, <1>6, InvMove DEF Types

\* ReadEOF.
LEMMA InvReadEOF ==
    ASSUME DeliveryInv, ReadEOF
    PROVE  DeliveryInv'
<1>1. Reading /\ lease' = "released" /\ UNCHANGED <<req, up, client, view>>
  BY DEF ReadEOF
<1>2. /\ lease # "none" /\ conv.out = <<>> /\ (Translated => worker = "running")
      /\ Translated /\ client = "here" => pc = "copy"
      /\ req.stream /\ ~Translated => pc = "copy"
      /\ ~req.stream => pc = "aggregate"
      /\ req.stream => Streaming /\ pc \in {"copy", "close", "done"}
  BY <1>1, ReadingPlace
<1>3. Types /\ req \in Requests /\ up \in UpType
  BY DEF DeliveryInv, Types
<1>4. req.stream => \E x : (client = "here" => x = view) /\ Led(x, x, conv, up, req)
  BY <1>2, ReadingView
<1>5. req.format \in {"chat", "anthropic", "responses"}
  BY <1>3, RequestIs DEF Formats
<1>6. CASE Translated
  <2>2. req.stream /\ req.format = "anthropic"
    BY <1>6 DEF Translated
  <2>1. conv' = Anthropic!atEnd(conv, FALSE) /\ worker' = "ending" /\ UNCHANGED <<pc, reply>>
    BY <1>6, <2>2 DEF ReadEOF
  <2>3. PICK x : (client = "here" => x = view) /\ AnthropicLed(x, x, conv, up, req)
    BY <1>4, <2>2 DEF Led
  <2>4. \E y : AnthropicLed(x, y, Anthropic!atEnd(conv, FALSE), up, req)
    BY <1>3, <2>3, AnthropicEnd
  <2>5. \E v, y : (client = "here" => v = view) /\ Led(v, y, conv', up, req)
    BY <2>1, <2>2, <2>3, <2>4 DEF Led
  <2>6. Copying'
    BY <1>1, <1>2, <1>6, <2>1, <2>2 DEF Copying, Streaming, Translated
  <2> QED
    BY <1>1, <1>2, <1>3, <1>6, <2>1, <2>2, <2>5, <2>6, InvMove DEF Types
<1>7. CASE ~req.stream
  <2>1. pc' = "done" /\ reply' = aggregated /\ UNCHANGED <<conv, worker>>
    BY <1>7 DEF ReadEOF, Translated, Finish
  <2>2. reply' \in Replies
    BY <2>1 DEF aggregated, Replies
  <2> QED
    BY <1>1, <1>2, <1>3, <1>7, <2>1, <2>2, InvMove DEF Types
<1>8. CASE req.stream /\ req.format = "chat"
  <2>1. conv' = Chat!pullEnd(conv, FALSE) /\ UNCHANGED <<pc, worker, reply>> /\ ~Translated
    BY <1>8 DEF ReadEOF, Translated
  <2>2. PICK x : (client = "here" => x = view) /\ ChatLed(x, x, conv, up, req)
    BY <1>4, <1>8 DEF Led
  <2>3. \E y : ChatLed(x, y, Chat!pullEnd(conv, FALSE), up, req)
    BY <2>2, ChatEnd
  <2>4. \E v, y : (client = "here" => v = view) /\ Led(v, y, conv', up, req)
    BY <1>8, <2>1, <2>2, <2>3 DEF Led
  <2>5. Copying'
    BY <1>1, <1>2, <1>8, <2>1 DEF Copying, Streaming, Translated
  <2> QED
    BY <1>1, <1>2, <1>3, <1>8, <2>1, <2>4, <2>5, InvMove DEF Types
<1>9. CASE req.stream /\ req.format = "responses"
  <2>1. conv' = [conv EXCEPT !.done = TRUE] /\ UNCHANGED <<pc, worker, reply>> /\ ~Translated
    BY <1>9 DEF ReadEOF, Translated
  <2>2. PICK x : (client = "here" => x = view) /\ RestorerLed(x, x, conv, up, req)
    BY <1>4, <1>9 DEF Led
  <2>5. RestorerLed(x, x, conv', up, req)
    <3>1. /\ conv' \in RestorerType /\ conv'.out = conv.out /\ conv'.streamCalls = conv.streamCalls
      BY <2>1, <2>2 DEF RestorerLed, RestorerType
    <3> QED
      BY <2>2, <3>1 DEF RestorerLed, RestorerOK
  <2>6. \E v, y : (client = "here" => v = view) /\ Led(v, y, conv', up, req)
    BY <1>9, <2>2, <2>5 DEF Led
  <2>7. Copying'
    BY <1>1, <1>2, <1>9, <2>1 DEF Copying, Streaming, Translated
  <2> QED
    BY <1>1, <1>2, <1>3, <1>9, <2>1, <2>6, <2>7, InvMove DEF Types
<1>10. Translated \/ ~req.stream \/ (req.stream /\ req.format = "chat") \/ (req.stream /\ req.format = "responses")
  BY <1>5 DEF Translated
<1> QED
  BY <1>6, <1>7, <1>8, <1>9, <1>10

\* ReadError.
LEMMA InvReadError ==
    ASSUME DeliveryInv, ReadError
    PROVE  DeliveryInv'
<1>1. Reading /\ UNCHANGED <<req, up, client, view>>
  BY DEF ReadError
<1>2. /\ lease # "none" /\ conv.out = <<>> /\ (Translated => worker = "running")
      /\ Translated /\ client = "here" => pc = "copy"
      /\ req.stream /\ ~Translated => pc = "copy"
      /\ ~req.stream => pc = "aggregate"
      /\ req.stream => Streaming /\ pc \in {"copy", "close", "done"}
  BY <1>1, ReadingPlace
<1>3. Types /\ req \in Requests /\ up \in UpType /\ lease \in {"held", "released"}
  BY <1>2 DEF DeliveryInv, Types
<1>4. req.stream => \E x : (client = "here" => x = view) /\ Led(x, x, conv, up, req)
  BY <1>2, ReadingView
<1>5. CASE Translated
  <2>2. req.stream /\ req.format = "anthropic"
    BY <1>5 DEF Translated
  <2>1. conv' = Anthropic!atEnd(conv, TRUE) /\ worker' = "ending" /\ UNCHANGED <<pc, lease, reply>>
    BY <1>5, <2>2 DEF ReadError
  <2>3. PICK x : (client = "here" => x = view) /\ AnthropicLed(x, x, conv, up, req)
    BY <1>4, <2>2 DEF Led
  <2>4. \E y : AnthropicLed(x, y, Anthropic!atEnd(conv, TRUE), up, req)
    BY <1>3, <2>3, AnthropicEnd
  <2>5. \E v, y : (client = "here" => v = view) /\ Led(v, y, conv', up, req)
    BY <2>1, <2>2, <2>3, <2>4 DEF Led
  <2>6. Copying'
    BY <1>1, <1>2, <1>5, <2>1, <2>2 DEF Copying, Streaming, Translated
  <2> QED
    BY <1>1, <1>2, <1>3, <1>5, <2>1, <2>2, <2>5, <2>6, InvMove DEF Types
<1>6. CASE ~req.stream
  <2>1. pc' = "done" /\ reply' = "bad_gateway" /\ lease' = "released" /\ UNCHANGED <<conv, worker>>
    BY <1>6 DEF ReadError, Translated, Finish
  <2>2. reply' \in Replies
    BY <2>1 DEF Replies
  <2> QED
    BY <1>1, <1>2, <1>3, <1>6, <2>1, <2>2, InvMove DEF Types
<1>7. CASE req.stream /\ ~Translated
  <2>1. pc' = "close" /\ UNCHANGED <<conv, worker, lease, reply>>
    BY <1>7 DEF ReadError
  <2>2. \E v, y : (client = "here" => v = view) /\ Led(v, y, conv', up, req)
    BY <1>4, <1>7, <2>1
  <2>3. Copying'
    BY <1>1, <1>2, <1>7, <2>1 DEF Copying, Streaming, Translated
  <2> QED
    BY <1>1, <1>2, <1>3, <1>7, <2>1, <2>2, <2>3, InvMove DEF Types
<1> QED
  BY <1>5, <1>6, <1>7

\* CopyEnds: a client that stays has read every frame.
LEMMA InvCopyEnds ==
    ASSUME DeliveryInv, CopyEnds
    PROVE  DeliveryInv'
<1>1. /\ pc = "copy" /\ pc' = "close" /\ UNCHANGED <<req, up, conv, worker, lease, client, reply, view>>
      /\ client = "here" => conv.out = <<>> /\ (Translated => worker = "ended")
  BY DEF CopyEnds
<1>2. Types /\ Nothing /\ Aggregating /\ Copying /\ Following
  BY DEF DeliveryInv
<1>3. Streaming /\ lease \in {"held", "released"}
  BY <1>1, <1>2 DEF Types, Nothing, Aggregating, Streaming
<1>4. Copying'
  BY <1>1, <1>2, <1>3 DEF Copying, Streaming, Translated
<1> QED
  BY <1>1, <1>2, <1>3, <1>4, InvMove DEF Types, Following, Streaming

\* Close.
LEMMA InvClose ==
    ASSUME DeliveryInv, Close
    PROVE  DeliveryInv'
<1>1. /\ pc = "close" /\ pc' = "done" /\ lease' = "released"
      /\ UNCHANGED <<req, up, conv, worker, client, reply, view>>
  BY DEF Close
<1>2. Types /\ Nothing /\ Aggregating /\ Copying /\ Following
  BY DEF DeliveryInv
<1>3. Streaming
  BY <1>1, <1>2 DEF Types, Nothing, Aggregating, Streaming
<1>4. Copying'
  BY <1>1, <1>2, <1>3 DEF Copying, Streaming, Translated
<1> QED
  BY <1>1, <1>2, <1>3, <1>4, InvMove DEF Types, Following, Streaming

\* ClientLeaves: what it would be shown is followed further.
LEMMA InvClientLeaves ==
    ASSUME DeliveryInv, ClientLeaves
    PROVE  DeliveryInv'
<1>1. client' = "gone" /\ view' = NoView /\ UNCHANGED <<req, pc, up, conv, worker, lease, reply>>
  BY DEF ClientLeaves
<1>2. Types /\ Nothing /\ Aggregating /\ Copying /\ Following
  BY DEF DeliveryInv
<1>3. Types' /\ Nothing' /\ Aggregating'
  BY <1>1, <1>2 DEF Types, Translated, Nothing, Aggregating
<1>4. Copying'
  BY <1>1, <1>2 DEF Copying, Streaming, Translated
<1>5. Following'
  BY <1>1, <1>2 DEF Following, Streaming
<1> QED
  BY <1>1, <1>3, <1>4, <1>5 DEF DeliveryInv

\* WriteFrame: the client is one frame further, and the order allowed it.
LEMMA WriteFrameStep ==
    ASSUME DeliveryInv, WriteFrame
    PROVE  DeliveryInv' /\ (client = "here" /\ req.format # "responses" => Allowed(Head(conv.out), view))
<1>1. /\ pc = "copy" /\ conv.out # <<>> /\ conv' = [conv EXCEPT !.out = Tail(conv.out)]
      /\ view' = (IF client = "here" THEN Shown(view, Head(conv.out)) ELSE view)
      /\ UNCHANGED <<req, pc, up, worker, lease, client, reply>>
  BY DEF WriteFrame
<1>2. Types /\ Nothing /\ Aggregating /\ Copying /\ Following
  BY DEF DeliveryInv
<1>3. Streaming /\ req \in Requests
  BY <1>1, <1>2 DEF Types, Nothing, Aggregating, Streaming
<1>4. PICK v, x : (client = "here" => v = view) /\ Led(v, x, conv, up, req)
  BY <1>2, <1>3 DEF Following
<1> DEFINE strict == req.format # "responses"
           z == Shown(v, Head(conv.out))
           q == Tail(conv.out)
<1>5. conv.out \in Seq(FrameType) /\ Leads(v, conv.out, x, strict)
  BY <1>3, <1>4, LedFrames
<1>6. Leads(z, q, x, strict) /\ (strict => Allowed(Head(conv.out), v))
  <2> HIDE DEF strict
  <2> QED
    BY <1>1, <1>5, LeadsHead
<1>7. q \in Seq(FrameType) /\ conv' = [conv EXCEPT !.out = q]
  BY <1>1, <1>5
<1> HIDE DEF q, z
<1>8. Led(z, x, conv', up, req) /\ (req.format = "anthropic" => conv'.finished = conv.finished)
  BY <1>3, <1>4, <1>6, <1>7, LedLater
<1>9. Types' /\ Nothing' /\ Aggregating'
  BY <1>1, <1>2, <1>3 DEF Types, Translated, Nothing, Aggregating, Streaming
<1>10. Copying'
  BY <1>1, <1>2, <1>3, <1>8 DEF Copying, Streaming, Translated
<1>11. Following'
  <2>1. client' = "here" => z = view'
    BY <1>1, <1>4 DEF z
  <2> QED
    BY <1>1, <1>8, <2>1 DEF Following
<1>12. client' = "gone" => view' = NoView
  BY <1>1, <1>2 DEF DeliveryInv, Types
<1> QED
  BY <1>4, <1>6, <1>9, <1>10, <1>11, <1>12 DEF DeliveryInv

\* WorkerEnds: frames are dropped only for a client that has left.
LEMMA InvWorkerEnds ==
    ASSUME DeliveryInv, WorkerEnds
    PROVE  DeliveryInv'
<1>1. /\ \/ worker = "ending" /\ conv.out = <<>>
         \/ worker \in {"running", "ending"} /\ conv.out # <<>> /\ pc = "done"
      /\ worker' = "ended" /\ lease' = "released" /\ conv' = [conv EXCEPT !.out = <<>>]
      /\ UNCHANGED <<req, pc, up, client, reply, view>>
  BY DEF WorkerEnds
<1>2. Types /\ Nothing /\ Aggregating /\ Copying /\ Following
  BY DEF DeliveryInv
<1>3. Translated /\ lease # "none" /\ Streaming /\ req \in Requests /\ req.stream
  BY <1>1, <1>2 DEF Types, Streaming, Translated
<1>4. PICK v, x : (client = "here" => v = view) /\ Led(v, x, conv, up, req)
  BY <1>2, <1>3 DEF Following
<1>5. Leads(v, conv.out, x, req.format # "responses") /\ v \in View /\ x \in View
  BY <1>3, <1>4, LedFrames
<1>6. client = "here" => x = view
  <2>1. client = "here" => conv.out = <<>>
    BY <1>1, <1>2, <1>3 DEF Copying
  <2> QED
    BY <1>4, <1>5, <2>1, LeadsEnd
<1>7. <<>> \in Seq(FrameType) /\ Leads(x, <<>>, x, req.format # "responses")
  BY <1>5, LeadsNone
<1>8. Led(x, x, conv', up, req)
  BY <1>1, <1>3, <1>4, <1>7, LedLater
<1>9. conv'.out = <<>>
  <2>1. conv \in Translator
    BY <1>3, <1>4 DEF Led, AnthropicLed, Translated
  <2> QED
    BY <1>1, <2>1 DEF Translator
<1>10. Copying'
  BY <1>1, <1>2, <1>3, <1>9 DEF Copying, Streaming, Translated
<1>11. \E y, z : (client = "here" => y = view) /\ Led(y, z, conv', up, req)
  BY <1>6, <1>8
<1>12. pc \in {"copy", "close", "done"}
  BY <1>2, <1>3 DEF Copying
<1> QED
  BY <1>1, <1>2, <1>3, <1>10, <1>11, <1>12, InvMove DEF Types

-----------------------------------------------------------------------------
(* The theorems.                                                           *)

\* Every step of the handler, the worker and the client keeps the invariant.
LEMMA InvNext == DeliveryInv /\ [Next]_vars => DeliveryInv'
<1> SUFFICES ASSUME DeliveryInv, [Next]_vars PROVE DeliveryInv'
  OBVIOUS
<1>1. ASSUME Prepare PROVE DeliveryInv'
  BY <1>1, InvPrepare
<1>2. ASSUME GatewayRefuses PROVE DeliveryInv'
  BY <1>2, InvGatewayRefuses
<1>3. ASSUME GatewayStreams PROVE DeliveryInv'
  BY <1>3, InvGatewayStreams
<1>4. ASSUME ReadEvent PROVE DeliveryInv'
  BY <1>4, InvReadEvent
<1>5. ASSUME ReadEOF PROVE DeliveryInv'
  BY <1>5, InvReadEOF
<1>6. ASSUME ReadError PROVE DeliveryInv'
  BY <1>6, InvReadError
<1>7. ASSUME WriteFrame PROVE DeliveryInv'
  BY <1>7, WriteFrameStep
<1>8. ASSUME CopyEnds PROVE DeliveryInv'
  BY <1>8, InvCopyEnds
<1>9. ASSUME Close PROVE DeliveryInv'
  BY <1>9, InvClose
<1>10. ASSUME WorkerEnds PROVE DeliveryInv'
  BY <1>10, InvWorkerEnds
<1>11. ASSUME ClientLeaves PROVE DeliveryInv'
  BY <1>11, InvClientLeaves
<1>13. ASSUME ReadMark PROVE DeliveryInv'
  BY <1>13, InvReadMark
<1>12. ASSUME UNCHANGED vars PROVE DeliveryInv'
  <2>1. UNCHANGED <<req, pc, up, conv, worker, lease, client, reply, view>>
    BY <1>12 DEF vars
  <2>2. Types' /\ Nothing' /\ Aggregating' /\ (client' = "gone" => view' = NoView)
    BY <2>1 DEF DeliveryInv, Types, Translated, Nothing, Aggregating
  <2>3. Copying'
    BY <2>1 DEF DeliveryInv, Copying, Streaming, Translated
  <2>4. Following'
    BY <2>1 DEF DeliveryInv, Following, Streaming
  <2> QED
    BY <2>2, <2>3, <2>4 DEF DeliveryInv
<1> QED
  BY <1>1, <1>2, <1>3, <1>4, <1>5, <1>6, <1>7, <1>8, <1>9, <1>10, <1>11, <1>12, <1>13 DEF Next

\* What the client is shown always follows what the provider has sent: a view
\* that the pending frames lead to fits the converter and the provider.
THEOREM DeliveryInvariant == Spec => []DeliveryInv
  BY InvInit, InvNext, PTL DEF Spec

\* A Chat or an Anthropic client gets its opening frame first, indexes in order,
\* deltas and stops only of open blocks, no open block at the end of the message
\* and nothing after it (ensureStart, stopAllBlocks, queueTerminal).
THEOREM FramesInOrder == Spec => FrameOrder
<1>1. DeliveryInv /\ [Next]_vars =>
        [WriteFrame /\ client = "here" /\ req.format # "responses"
            => Allowed(Head(conv.out), view)]_vars
  BY WriteFrameStep
<1> QED
  BY <1>1, DeliveryInvariant, PTL DEF Spec, FrameOrder

\* What the view x says of the provider, whatever the format.
LEMMA LedSays ==
    ASSUME NEW r \in Requests, r.stream, NEW v, NEW x, NEW c, NEW u, Led(v, x, c, u, r)
    PROVE  /\ x.end = "success" <=>
                 u.end \in Finals \/ (r.format = "chat" /\ u.end = "broken_final")
           /\ r.format # "responses" => Shaped(x, u) /\ (x.end = "success" => Complete(x, u, r))
           /\ r.format = "responses" =>
                 \A i \in Items : r.plan[i] = "patch" => x.parts[i] \in {<<>>, <<"whole">>}
           /\ "next" \in DOMAIN c => c.next \in 1 .. NItems + 1
<1>1. r.format \in {"chat", "anthropic", "responses"}
  BY RequestIs DEF Formats
<1>2. CASE r.format = "anthropic"
  <2>1. AnthropicOK(x, c, u, r)
    BY <1>2 DEF Led, AnthropicLed
  <2> QED
    BY <1>2, <2>1 DEF AnthropicOK, Sync
<1>3. CASE r.format = "chat"
  <2>1. ChatOK(x, c, u, r)
    BY <1>3 DEF Led, ChatLed
  <2> QED
    BY <1>3, <2>1 DEF ChatOK, ChatSync, ChatFinals
<1>4. CASE r.format = "responses"
  <2>1. RestorerOK(x, c, u, r) /\ c \in RestorerType
    BY <1>4 DEF Led, RestorerLed
  <2>2. DOMAIN c = {"streamCalls", "done", "out"}
    BY <2>1 DEF RestorerType
  <2> QED
    BY <1>4, <2>1, <2>2 DEF RestorerOK
<1> QED
  BY <1>1, <1>2, <1>3, <1>4

\* While the client of a stream is there, its view is the one that is followed.
LEMMA ClientView ==
    ASSUME DeliveryInv, Streaming, client = "here"
    PROVE  \E x : /\ Led(view, x, conv, up, req) /\ view \in View /\ x \in View
                  /\ conv.out \in Seq(FrameType)
                  /\ Leads(view, conv.out, x, req.format # "responses") /\ Below(view, x)
<1>1. req \in Requests
  BY DEF DeliveryInv, Types
<1>2. PICK x : Led(view, x, conv, up, req)
  BY DEF DeliveryInv, Following
<1> QED
  BY <1>1, <1>2, LedFrames

\* The view of a client that has been shown nothing.
LEMMA NoViewShows ==
    NoView.end = "none" /\ \A i \in Items : NoView.parts[i] = <<>> /\ NoView.home[i] = {}
  BY DEF NoView

\* Where the invariant leaves no stream that is followed, nothing is shown.
LEMMA NothingShown ==
    ASSUME DeliveryInv, ~Streaming \/ client = "gone"
    PROVE  view = NoView
  BY DEF DeliveryInv, Streaming, Nothing, Aggregating

\* A stream succeeds for the client exactly when the provider said so, for a Chat
\* client at least by the name of its last event: no success is made up after a
\* failure, at the end of a body or at a bare [DONE], and none is lost (pull,
\* pullEnd, pipeResponsesToAnthropic).  What the name alone lets through is shown
\* by the counterexample to NoForgedSuccess.
THEOREM SuccessIsTold == Spec => []ToldAsSent
<1>1. DeliveryInv => ToldAsSent
  <2> SUFFICES ASSUME DeliveryInv PROVE ToldAsSent
    OBVIOUS
  <2>1. Types /\ Nothing /\ Aggregating /\ Copying /\ Following /\ req \in Requests
    BY DEF DeliveryInv, Types
  <2>2. "next" \in DOMAIN conv => conv.next \in 1 .. NItems + 1
    <3>1. CASE lease = "none"
      BY <2>1, <3>1 DEF Nothing
    <3>2. CASE lease # "none" /\ ~req.stream
      <4>1. DOMAIN conv = {"final", "out"}
        BY <2>1, <3>2 DEF Aggregating
      <4> QED
        BY <4>1
    <3>3. CASE lease # "none" /\ req.stream
      BY <2>1, <3>3, LedSays DEF Following, Streaming
    <3> QED
      BY <3>1, <3>2, <3>3
  <2>3. TypeOK
    BY <2>1, <2>2 DEF Types, TypeOK
  <2>4. ASSUME req.stream, Succeeded PROVE SaidComplete
    <3>1. view.end = "success" /\ Streaming /\ client = "here"
      BY <2>1, <2>4, NothingShown, NoViewShows DEF Succeeded, Types
    <3>2. PICK x : Led(view, x, conv, up, req) /\ Below(view, x)
      BY <3>1, ClientView
    <3>3. x.end = "success"
      BY <3>1, <3>2 DEF Below
    <3> QED
      BY <2>1, <2>4, <3>2, <3>3, LedSays DEF SaidComplete
  <2>5. ASSUME req.stream, pc = "done", client = "here", SaidComplete PROVE Succeeded
    <3>1. lease # "none"
      BY <2>1, <2>5 DEF Nothing, NoUp, Finals, SaidComplete
    <3>2. Streaming /\ conv.out = <<>>
      BY <2>1, <2>5, <3>1 DEF Streaming, Copying
    <3>3. PICK x : /\ Led(view, x, conv, up, req)
                   /\ Leads(view, conv.out, x, req.format # "responses")
      BY <2>5, <3>2, ClientView
    <3>4. view = x
      BY <3>2, <3>3, LeadsEnd
    <3> QED
      BY <2>1, <2>5, <3>3, <3>4, LedSays DEF Succeeded, SaidComplete
  <2> QED
    BY <2>3, <2>4, <2>5 DEF ToldAsSent
<1> QED
  BY <1>1, DeliveryInvariant, PTL

\* What begins like nothing, or like one whole, is one of these.
LEMMA WholePrefix ==
    ASSUME NEW p \in Seq(Content), NEW q, q \in {<<>>, <<"whole">>}, Prefix(p, q)
    PROVE  p \in {<<>>, <<"whole">>}
<1>1. Len(p) \in Nat /\ Len(p) <= Len(q) /\ \A k \in 1 .. Len(p) : p[k] = q[k]
  BY DEF Prefix
<1>2. CASE q = <<>>
  BY <1>1, <1>2
<1>3. CASE q = <<"whole">>
  <2>1. Len(q) = 1 /\ q[1] = "whole"
    BY <1>3
  <2>2. CASE Len(p) = 0
    BY <2>2
  <2>3. CASE Len(p) = 1
    BY <1>1, <2>1, <2>3
  <2> QED
    BY <1>1, <2>1, <2>2, <2>3
<1> QED
  BY <1>2, <1>3

\* What begins like the pieces of a content, or like its whole, is one of these.
LEMMA PiecesPrefix ==
    ASSUME NEW n \in Nat, NEW p \in Seq(Content), NEW q,
           q \in {Pieces(m) : m \in 0 .. n} \cup {<<"whole">>}, Prefix(p, q)
    PROVE  p \in {Pieces(m) : m \in 0 .. n} \cup {<<"whole">>}
<1>1. Len(p) \in Nat /\ Len(p) <= Len(q) /\ \A k \in 1 .. Len(p) : p[k] = q[k]
  BY DEF Prefix
<1>2. ASSUME NEW m \in 0 .. n, q = Pieces(m) PROVE p \in {Pieces(k) : k \in 0 .. n}
  <2>1. Len(q) = m /\ \A k \in 1 .. m : q[k] = "piece"
    BY <1>2 DEF Pieces
  <2>2. Len(p) \in 0 .. n /\ \A k \in 1 .. Len(p) : p[k] = "piece"
    BY <1>1, <2>1
  <2>3. p = [k \in 1 .. Len(p) |-> p[k]]
    OBVIOUS
  <2>4. p = Pieces(Len(p))
    BY <2>2, <2>3 DEF Pieces
  <2> QED
    BY <2>2, <2>4
<1>3. ASSUME q = <<"whole">> PROVE p \in {<<>>, <<"whole">>}
  BY <1>3, WholePrefix
<1>4. <<>> \in {Pieces(k) : k \in 0 .. n}
  BY PiecesMore
<1> QED
  BY <1>2, <1>3, <1>4

\* The client never has anything that is not in order in what it will have.
LEMMA ShapedBelow ==
    ASSUME NEW v \in View, NEW x \in View, NEW u \in UpType, Below(v, x), Shaped(x, u)
    PROVE  Shaped(v, u)
<1> SUFFICES ASSUME NEW i \in Items
             PROVE  /\ v.parts[i] \in {Pieces(n) : n \in 0 .. u.sent[i]} \cup {<<"whole">>}
                    /\ \A a, b \in v.home[i] : a = b
                    /\ \A j \in Items \ {i} : v.home[i] \cap v.home[j] = {}
  BY DEF Shaped
<1>1. v.home[i] \subseteq x.home[i] /\ Prefix(v.parts[i], x.parts[i])
      /\ \A j \in Items : v.home[j] \subseteq x.home[j]
  BY DEF Below
<1>2. /\ x.parts[i] \in {Pieces(n) : n \in 0 .. u.sent[i]} \cup {<<"whole">>}
      /\ \A a, b \in x.home[i] : a = b
      /\ \A j \in Items \ {i} : x.home[i] \cap x.home[j] = {}
  BY DEF Shaped
<1>3. v.parts[i] \in Seq(Content) /\ u.sent[i] \in Nat
  BY DEF View, UpType
<1>4. v.parts[i] \in {Pieces(n) : n \in 0 .. u.sent[i]} \cup {<<"whole">>}
  BY <1>1, <1>2, <1>3, PiecesPrefix
<1> QED
  BY <1>1, <1>2, <1>4

\* At most one index.
LEMMA OneHome ==
    ASSUME NEW S, \A a, b \in S : a = b
    PROVE  Cardinality(S) <= 1
<1>1. CASE S = {}
  BY <1>1, FS_EmptySet
<1>2. CASE S # {}
  <2>1. PICK a \in S : TRUE
    BY <1>2
  <2>2. S = {a}
    BY <2>1
  <2> QED
    BY <2>2, FS_Singleton
<1> QED
  BY <1>1, <1>2

\* What is shown of the items, whatever the stream has come to.
LEMMA ShownOnce ==
    ASSUME DeliveryInv
    PROVE  req.format # "responses" => Shaped(view, up)
<1> SUFFICES ASSUME req.format # "responses" PROVE Shaped(view, up)
  OBVIOUS
<1>1. req \in Requests /\ up \in UpType /\ client \in {"here", "gone"}
  BY DEF DeliveryInv, Types
<1>2. CASE ~Streaming \/ client = "gone"
  BY <1>1, <1>2, NothingShown, NoneShaped
<1>3. CASE Streaming /\ client = "here"
  <2>1. PICK x : Led(view, x, conv, up, req) /\ view \in View /\ x \in View /\ Below(view, x)
    BY <1>3, ClientView
  <2>2. Shaped(x, up)
    BY <1>1, <1>3, <2>1, LedSays DEF Streaming
  <2> QED
    BY <1>1, <2>1, <2>2, ShapedBelow
<1> QED
  BY <1>1, <1>2, <1>3

\* A stream that has succeeded has shown everything.
LEMMA ShownAll ==
    ASSUME DeliveryInv, Succeeded, req.format # "responses"
    PROVE  Complete(view, up, req)
<1>1. req \in Requests /\ client \in {"here", "gone"}
  BY DEF DeliveryInv, Types
<1>2. Streaming /\ client = "here" /\ view.end = "success"
  BY <1>1, NothingShown, NoViewShows DEF Succeeded
<1>3. PICK x : /\ Led(view, x, conv, up, req) /\ conv.out \in Seq(FrameType)
               /\ Leads(view, conv.out, x, req.format # "responses")
  BY <1>2, ClientView
<1>4. (req.format # "responses") = TRUE
  OBVIOUS
<1>5. Leads(view, conv.out, x, TRUE)
  BY <1>3, <1>4
<1>6. view = x
  BY <1>2, <1>3, <1>5, LeadsOver
<1> QED
  BY <1>1, <1>2, <1>3, <1>6, LedSays DEF Streaming

\* Every text, argument string and summary reaches a streaming client exactly
\* once, under one index, nothing that was given is missing when the stream
\* succeeds, and a patch is only shown whole (emitToolCallDone, completedReason,
\* Emitted, streamCalls).
THEOREM EveryContentOnce == Spec => []ContentOnce
<1>1. DeliveryInv => ContentOnce
  <2> SUFFICES ASSUME DeliveryInv PROVE ContentOnce
    OBVIOUS
  <2>1. req \in Requests /\ client \in {"here", "gone"}
    BY DEF DeliveryInv, Types
  <2>2. ASSUME req.format # "responses", NEW i \in Items
        PROVE  /\ view.parts[i] \in {Pieces(n) : n \in 0 .. up.sent[i]} \cup {<<"whole">>}
               /\ Cardinality(view.home[i]) <= 1
               /\ \A j \in Items \ {i} : view.home[i] \cap view.home[j] = {}
    <3>1. Shaped(view, up)
      BY <2>2, ShownOnce
    <3>2. \A a, b \in view.home[i] : a = b
      BY <3>1 DEF Shaped
    <3>3. Cardinality(view.home[i]) <= 1
      BY <3>2, OneHome
    <3> QED
      BY <3>1, <3>3 DEF Shaped
  <2>3. ASSUME req.format # "responses", NEW i \in Items,
               Succeeded, Visible(i), up.sent[i] > 0 \/ Given(i)
        PROVE  view.parts[i] = IF up.sent[i] > 0 THEN Pieces(up.sent[i]) ELSE <<"whole">>
    <3>1. Complete(view, up, req)
      BY <2>3, ShownAll
    <3>2. Told(up, req, i)
      BY <2>3 DEF Told, Visible
    <3>3. OtherText(i) <=> Elsewhere(view, req.plan, i)
      BY DEF OtherText, Elsewhere
    <3>4. up.sent[i] > 0 \/ Owed(view, up, req, i)
      BY <2>3, <3>3 DEF Given, Owed
    <3> QED
      BY <3>1, <3>2, <3>4 DEF Complete
  <2>4. ASSUME NEW i \in Items, req.plan[i] = "patch" PROVE view.parts[i] \in {<<>>, <<"whole">>}
    <3>1. CASE ~Streaming \/ client = "gone"
      BY <3>1, NothingShown, NoViewShows
    <3>2. CASE Streaming /\ client = "here"
      <4>1. PICK x : Led(view, x, conv, up, req) /\ view \in View /\ x \in View /\ Below(view, x)
        BY <3>2, ClientView
      <4>2. req.format = "responses"
        BY <2>1, <2>4, <3>2, RequestIs DEF Streaming, Formats
      <4>3. x.parts[i] \in {<<>>, <<"whole">>}
        BY <2>1, <2>4, <3>2, <4>1, <4>2, LedSays DEF Streaming
      <4>4. Prefix(view.parts[i], x.parts[i]) /\ view.parts[i] \in Seq(Content)
        BY <4>1 DEF Below, View
      <4> QED
        BY <4>3, <4>4, WholePrefix
    <3> QED
      BY <2>1, <3>1, <3>2
  <2> QED
    BY <2>2, <2>3, <2>4 DEF ContentOnce
<1> QED
  BY <1>1, DeliveryInvariant, PTL
=============================================================================
