--------------------------- MODULE StreamConverters ---------------------------
(***************************************************************************)
(* What the gateway does to one chunk of an upstream's stream: two         *)
(* converters that turn chat-completion chunks into another dialect's      *)
(* events (src/src/otel_agent/converter.py and responses_compat.py), and   *)
(* the accumulator that keeps the answer for telemetry                     *)
(* (stream_capture.py).  Each is a record its operators map to the next    *)
(* one; `sent` is what a converter has produced so far.                    *)
(*                                                                         *)
(* A chunk carries so many characters of text and of reasoning, pieces of  *)
(* tool calls by their index, perhaps a finish reason, a usage object or   *)
(* an error in the place of choices.                                       *)
(***************************************************************************)
EXTENDS Naturals, FiniteSets, SequencesExt

CONSTANT TextLimit    \* characters the accumulator keeps

ASSUME TextLimitAssumption == TextLimit \in Nat

FinishReasons == {"none", "stop", "length", "tool_calls"}

Chunk == [text: Nat, thinking: Nat, tools: SUBSET Nat,
          finish: FinishReasons, usage: BOOLEAN, error: BOOLEAN]

Emit(m, event) == [m EXCEPT !.sent = Append(@, event)]

-----------------------------------------------------------------------------
(* OpenAIToAnthropicStreamConverter *)

NewMessage == [started |-> FALSE, closed |-> FALSE, block |-> "none", index |-> 0,
               next |-> 0, sent |-> <<>>]

BlockEvent(type, index, kind) == [type |-> type, index |-> index, kind |-> kind]

StartMessage(m) ==
    IF m.started THEN m ELSE [Emit(m, [type |-> "message_start"]) EXCEPT !.started = TRUE]

(* Mutant: a block that is followed by another is not closed. *)
LeaveBlock(m) == [m EXCEPT !.block = "none"]

CloseBlock(m) ==
    IF m.block = "none" THEN m
    ELSE [Emit(m, BlockEvent("content_block_stop", m.index, m.block)) EXCEPT !.block = "none"]

EnsureBlock(m, kind) ==
    IF m.block = kind THEN m
    ELSE [Emit(CloseBlock(m), BlockEvent("content_block_start", m.next, kind))
             EXCEPT !.block = kind, !.index = m.next, !.next = @ + 1]

BlockDelta(m, kind) ==
    LET n == EnsureBlock(m, kind) IN Emit(n, BlockEvent("content_block_delta", n.index, kind))

StopReason(finish) ==
    CASE finish = "stop" -> "end_turn" [] finish = "tool_calls" -> "tool_use" [] OTHER -> "max_tokens"

FinishMessage(m, finish) ==
    LET n == Emit(CloseBlock(m), [type |-> "message_delta", reason |-> StopReason(finish)])
    IN  [Emit(n, [type |-> "message_stop"]) EXCEPT !.closed = TRUE]

(* Nothing is made of tool calls, nor of what follows the finish reason. *)
FeedMessage(m, c) ==
    LET thought == IF c.thinking > 0 THEN BlockDelta(StartMessage(m), "thinking") ELSE StartMessage(m)
        spoken  == IF c.text > 0 THEN BlockDelta(thought, "text") ELSE thought
    IN  IF m.closed THEN m
        ELSE IF c.finish = "none" THEN spoken
        ELSE FinishMessage(spoken, c.finish)

FlushMessage(m) == IF m.closed \/ ~m.started THEN m ELSE FinishMessage(m, "stop")

-----------------------------------------------------------------------------
(* ChatToResponsesStreamConverter *)

NewResponse == [started |-> FALSE, textOpen |-> FALSE, closed |-> FALSE, text |-> 0,
                tools |-> {}, usage |-> FALSE, finish |-> "none", sent |-> <<>>]

Created(m) ==
    IF m.started THEN m ELSE [Emit(m, [type |-> "response.created"]) EXCEPT !.started = TRUE]

OpenText(m) ==
    IF m.textOpen THEN m
    ELSE [Emit(Emit(Created(m), [type |-> "response.output_item.added"]),
               [type |-> "response.content_part.added"]) EXCEPT !.textOpen = TRUE]

TextDelta(m, n) ==
    [Emit(OpenText(m), [type |-> "response.output_text.delta", text |-> n]) EXCEPT !.text = @ + n]

(* Pieces of tool calls are kept by index until the end. *)
AccumulateTools(m, pieces) == [m EXCEPT !.tools = @ \cup pieces]

(* An error comes without choices and leaves no trace. *)
FeedResponse(m, c) ==
    LET spoken == IF c.text > 0 THEN TextDelta(m, c.text) ELSE m IN
    IF m.closed THEN m
    ELSE [AccumulateTools(spoken, c.tools) EXCEPT
              !.usage = @ \/ c.usage,
              !.finish = IF c.finish = "none" THEN @ ELSE c.finish]

(* chat_completion_to_response: what the stream amounts to. *)
ResponseBody(m) ==
    [status |-> IF m.finish = "length" THEN "incomplete" ELSE "completed",
     text   |-> m.text,
     tools  |-> m.tools,
     usage  |-> m.usage]

CloseText(m) ==
    IF ~m.textOpen THEN m
    ELSE Emit(Emit(Emit(m, [type |-> "response.output_text.done"]),
                   [type |-> "response.content_part.done"]),
              [type |-> "response.output_item.done", call |-> {}])

InOrder(S) == CHOOSE f \in [1..Cardinality(S) -> S] : \A i, j \in DOMAIN f : i < j => f[i] < f[j]

(* One item per tool call, in the order of the indices. *)
EmitTools(m) ==
    LET order == InOrder(m.tools) IN
    [m EXCEPT !.sent = @ \o [n \in DOMAIN order |->
                                [type |-> "response.output_item.done", call |-> {order[n]}]]]

(* Mutant: the text item of an answer that ends in tool calls is left open. *)
FinishWithTools(m) ==
    IF m.closed THEN m
    ELSE [Emit(EmitTools(IF m.tools = {} THEN CloseText(Created(m)) ELSE Created(m)),
               [type |-> "response.completed", response |-> ResponseBody(m)]) EXCEPT !.closed = TRUE]

FinishResponse(m) ==
    IF m.closed THEN m
    ELSE [Emit(EmitTools(CloseText(Created(m))),
               [type |-> "response.completed", response |-> ResponseBody(m)]) EXCEPT !.closed = TRUE]

-----------------------------------------------------------------------------
(* convert_anthropic_chunk_to_openai: text, or a finish reason, or nothing.  A *)
(* tool_use stop is told as a length.                                          *)

FeedChat(m, c) ==
    IF c.text > 0 THEN Emit(m, [type |-> "chunk", text |-> c.text])
    ELSE IF c.finish = "none" THEN m
    ELSE Emit(m, [type |-> "chunk", finish |-> IF c.finish = "stop" THEN "stop" ELSE "length"])

-----------------------------------------------------------------------------
(* StreamCapture *)

NewCapture == [length |-> 0, truncated |-> FALSE, usage |-> 0, finish |-> "none", tools |-> {}]

(* Mutant: a piece that does not fit is dropped, and later ones are still kept. *)
KeepWhatFits(k, n) ==
    IF k.length + n <= TextLimit THEN [k EXCEPT !.length = @ + n] ELSE [k EXCEPT !.truncated = TRUE]

(* Mutant: there is no limit. *)
KeepEverything(k, n) == [k EXCEPT !.length = @ + n]

(* _append: cut at the limit, and nothing after the cut. *)
KeepText(k, n) ==
    IF k.truncated THEN k
    ELSE IF k.length + n <= TextLimit THEN [k EXCEPT !.length = @ + n]
    ELSE [k EXCEPT !.length = TextLimit, !.truncated = TRUE]

(* Content, reasoning and tool arguments share the limit.  Usage objects are merged *)
(* with the later one on top: the one of chunk i is known by i.                     *)
FeedCapture(k, c, i) ==
    LET kept == KeepText(KeepText(KeepText(k, c.text), c.thinking), Cardinality(c.tools)) IN
    [kept EXCEPT !.usage = IF c.usage THEN i ELSE @,
                 !.finish = IF c.finish = "none" THEN @ ELSE c.finish,
                 !.tools = @ \cup c.tools]
=============================================================================
