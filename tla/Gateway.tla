------------------------------- MODULE Gateway -------------------------------
(***************************************************************************)
(* One request through the gateway, from its route to its telemetry row    *)
(* (src/src/otel_agent/server.py).  A request is handled by one of five    *)
(* handlers, which ask the upstream and answer in the dialect of the       *)
(* client.  The upstream answers, refuses, sends chunks, stops in the      *)
(* middle, or cannot be reached; a streaming client may leave at any time, *)
(* which ends the generator at the await or yield it has reached.          *)
(***************************************************************************)
EXTENDS StreamConverters

CONSTANTS Requests,
          Chunks,      \* what an upstream may send
          MaxChunks    \* bound: chunks of one stream

ASSUME GatewayAssumption ==
    /\ Chunks \subseteq Chunk /\ MaxChunks \in Nat
    /\ \A c \in Chunks : IsFiniteSet(c.tools)

VARIABLES
    route,     \* route[r]: surface, stream and the provider's format
    pc,        \* where the handler of a request stands
    asked,     \* requests the handler has tried to send to an upstream
    status,    \* status[r]: stream_status, as telemetry will have it
    client,    \* client[r]: the converter, with the frames sent so far
    seen,      \* seen[r]: the chunks that have come from the upstream
    capture,   \* capture[r]: the StreamCapture of a stream
    rows       \* rows[r]: the rows written for a request

vars == <<route, pc, asked, status, client, seen, capture, rows>>

Formats  == {"openai", "anthropic", "responses"}   \* the last: serves_only_responses
Surfaces == {"chat", "messages", "responses", "images"}
Routes   == [surface: Surfaces, stream: BOOLEAN, format: Formats]
Final    == {"answered", "left", "broken", "crashed"}

(* Providers that do not have the surface. *)
Refused(rt) ==
    \/ rt.surface \in {"images", "responses"} /\ rt.format = "anthropic"
    \/ rt.surface \in {"chat", "messages"} /\ rt.format = "responses"

(* The handler a route leads to. *)
Handler(rt) ==
    IF Refused(rt) THEN "refusal"
    ELSE IF rt.surface = "responses"
    THEN CASE rt.format = "responses" /\ rt.stream  -> "Streaming"
           [] rt.format = "responses" /\ ~rt.stream -> "ResponsesNonStreaming"
           [] rt.format = "openai" /\ rt.stream     -> "ResponsesChatStream"
           [] rt.format = "openai" /\ ~rt.stream    -> "ResponsesChatOnce"
    ELSE IF rt.stream /\ rt.surface # "images" THEN "Streaming" ELSE "NonStreaming"

By(r, handlers) == Handler(route[r]) \in handlers
Streams(r) == By(r, {"Streaming", "ResponsesChatStream"})
Posts(r)   == By(r, {"NonStreaming", "ResponsesChatOnce"})

ToAnthropic(r) == route[r].surface = "messages" /\ route[r].format = "openai"
ToOpenAI(r)    == route[r].surface = "chat" /\ route[r].format = "anthropic"

TypeOK ==
    /\ route \in [Requests -> Routes]
    /\ pc \in [Requests -> {"idle", "route", "credential", "begin", "asked", "rejected",
                            "reading", "capture"} \cup Final]
    /\ asked \subseteq Requests
    /\ status \in [Requests -> {200, 400, 502, 504}]
    /\ \A r \in Requests :
          /\ seen[r] \in Seq(Chunks) /\ Len(seen[r]) <= MaxChunks
          /\ capture[r].length \in 0..TextLimit
          /\ capture[r].truncated => capture[r].length = TextLimit

NewClient(r) ==
    CASE By(r, {"ResponsesChatStream"}) -> NewResponse
      [] ToAnthropic(r)                 -> NewMessage
      [] OTHER                          -> [sent |-> <<>>]

Init ==
    /\ route \in [Requests -> Routes]
    /\ pc = [r \in Requests |-> "idle"]
    /\ asked = {}
    /\ status = [r \in Requests |-> 200]
    /\ client = [r \in Requests |-> NewClient(r)]
    /\ seen = [r \in Requests |-> <<>>]
    /\ capture = [r \in Requests |-> NewCapture]
    /\ rows = [r \in Requests |-> <<>>]

Goto(r, place) == pc' = [pc EXCEPT ![r] = place]

-----------------------------------------------------------------------------
(* Answers and rows *)

Json(code) == [type |-> "json", status |-> code]

(* A failure as the client of a handler can read it. *)
ErrorFrame(r) ==
    IF By(r, {"ResponsesChatStream"}) THEN [type |-> "response.failed"] ELSE [type |-> "error"]

(* What is logged of a stream that did not fail: the capture, or the Responses *)
(* object the frames amount to.                                                *)
Snapshot(r) ==
    IF By(r, {"ResponsesChatStream"})
    THEN [kind |-> "response", body |-> ResponseBody(client'[r])]
    ELSE [kind |-> "snapshot", body |-> capture'[r]]

Row(code, what) == [status |-> code, body |-> what]
Log(r, code, what) == rows' = [rows EXCEPT ![r] = Append(@, Row(code, what))]

Error == [kind |-> "error"]

(* A handler that answers in one piece does so with what it has logged. *)
AnswerJson(r, code, what) ==
    /\ client' = [client EXCEPT ![r] = Emit(@, Json(code))]
    /\ Log(r, code, what)
    /\ Goto(r, "answered")

-----------------------------------------------------------------------------
(* The route *)

Arrive(r) ==
    /\ pc[r] = "idle"
    /\ Goto(r, "route")
    /\ UNCHANGED <<route, asked, status, client, seen, capture, rows>>

(* No such provider, a provider without this surface, a feature that cannot be *)
(* translated: 400, and no row.                                                *)
Refuse(r) ==
    /\ pc[r] = "route"
    /\ client' = [client EXCEPT ![r] = Emit(@, Json(400))]
    /\ Goto(r, "answered")
    /\ UNCHANGED <<route, asked, status, seen, capture, rows>>

Accept(r) ==
    /\ pc[r] = "route" /\ ~By(r, {"refusal"})
    /\ Goto(r, "credential")
    /\ UNCHANGED <<route, asked, status, client, seen, capture, rows>>

(* credential_error: 503, and the upstream was never asked. *)
CredentialFails(r) ==
    /\ pc[r] = "credential"
    /\ client' = [client EXCEPT ![r] = Emit(@, Json(503))]
    /\ Goto(r, "answered")
    /\ UNCHANGED <<route, asked, status, seen, capture, rows>>

Credential(r) ==
    /\ pc[r] = "credential"
    /\ Goto(r, "begin")
    /\ UNCHANGED <<route, asked, status, client, seen, capture, rows>>

Ask(r) ==
    /\ pc[r] = "begin"
    /\ asked' = asked \cup {r}
    /\ Goto(r, "asked")
    /\ UNCHANGED <<route, status, client, seen, capture, rows>>

-----------------------------------------------------------------------------
(* Failures on the way *)

(* Mutant: the failure is told but the row keeps the status of the stream. *)
FailQuietly(r, code) ==
    /\ UNCHANGED <<route, asked, status, seen, capture>>
    /\ client' = [client EXCEPT ![r] = Emit(@, IF Streams(r) THEN ErrorFrame(r) ELSE Json(code))]
    /\ Log(r, status[r], Error)
    /\ Goto(r, "answered")

(* A failure the handlers know: a row with its status, and the client is told. *)
Fail(r, code) ==
    /\ UNCHANGED <<route, asked, seen, capture>>
    /\ status' = [status EXCEPT ![r] = code]
    /\ IF Streams(r)
       THEN /\ client' = [client EXCEPT ![r] = Emit(@, ErrorFrame(r))]
            /\ Log(r, code, IF By(r, {"Streaming"}) THEN Snapshot(r) ELSE Error)
            /\ Goto(r, "answered")
       ELSE AnswerJson(r, code, Error)

NoConnection(r) == pc[r] = "asked" /\ Fail(r, 502)

TimesOut(r) == pc[r] \in {"asked", "rejected", "reading"} /\ Fail(r, 504)

(* Mutant: a stream that is cut short is not logged. *)
CutUnlogged(r, place) ==
    /\ Goto(r, place)
    /\ UNCHANGED <<route, asked, status, client, seen, capture, rows>>

(* A generator that is cut short still runs its `finally`. *)
Cut(r, place) ==
    /\ Goto(r, place)
    /\ UNCHANGED <<route, asked, status, client, seen, capture>>
    /\ Log(r, status[r], Snapshot(r))

(* Any other transport error, or an answer the conversion trips over: a stream is *)
(* broken off, the rest is a 500.                                                 *)
Breaks(r) ==
    /\ pc[r] \in {"asked", "rejected", "reading"}
    /\ IF Streams(r) THEN Cut(r, "broken")
       ELSE /\ Goto(r, "crashed")
            /\ UNCHANGED <<route, asked, status, client, seen, capture, rows>>

(* Before the generator is entered there is nothing to run or to log. *)
Leave(r) ==
    /\ Streams(r)
    /\ \/ /\ pc[r] = "begin"
          /\ Goto(r, "left")
          /\ UNCHANGED <<route, asked, status, client, seen, capture, rows>>
       \/ pc[r] \in {"asked", "rejected", "reading", "capture"} /\ Cut(r, "left")

-----------------------------------------------------------------------------
(* Answers in one piece: _handle_non_streaming and _handle_responses_chat_once *)

(* An answer without choices cannot be translated. *)
Post(r, code, choices) ==
    /\ pc[r] = "asked" /\ Posts(r)
    /\ IF By(r, {"NonStreaming"}) \/ (code < 400 /\ choices)
       THEN AnswerJson(r, code, [kind |-> "answer"])
       ELSE AnswerJson(r, IF code < 400 THEN 502 ELSE code, Error)
    /\ UNCHANGED <<route, asked, status, seen, capture>>

-----------------------------------------------------------------------------
(* Streams *)

(* A refusal that is no stream is read as a whole, except that one asked to be *)
(* folded always is.                                                           *)
Headers(r, code, sse) ==
    /\ pc[r] = "asked" /\ ~Posts(r)
    /\ status' = [status EXCEPT ![r] = code]
    /\ Goto(r, IF code >= 400 /\ (~sse \/ By(r, {"ResponsesNonStreaming"})) THEN "rejected" ELSE "reading")
    /\ UNCHANGED <<route, asked, client, seen, capture, rows>>

ErrorBody(r) ==
    /\ pc[r] = "rejected"
    /\ UNCHANGED <<route, asked, status, seen, capture>>
    /\ IF Streams(r)
       THEN LET told == Emit(client[r], ErrorFrame(r)) IN
            /\ client' = [client EXCEPT ![r] = IF route[r].surface = "chat"
                                               THEN Emit(told, [type |-> "[DONE]"]) ELSE told]
            /\ Log(r, status[r], IF By(r, {"Streaming"}) THEN Snapshot(r) ELSE Error)
            /\ Goto(r, "answered")
       ELSE AnswerJson(r, status[r], Error)

(* What a chunk becomes for the client of a stream. *)
Translated(r, c) ==
    CASE By(r, {"ResponsesChatStream"})   -> FeedResponse(client[r], c)
      [] ToAnthropic(r)                   -> FeedMessage(client[r], c)
      [] ToOpenAI(r)                      -> FeedChat(client[r], c)
      [] By(r, {"ResponsesNonStreaming"}) -> client[r]
      [] OTHER                            -> Emit(client[r], [type |-> "data", chunk |-> c])

(* An Anthropic or a Responses event carries one thing. *)
Possible(r, c) ==
    route[r].format # "openai" =>
        /\ c.text > 0 => c.thinking = 0 /\ c.finish = "none"
        /\ c.thinking > 0 => c.finish = "none"

(* The frames go out first; the chunk is captured when the last of them was taken. *)
Feed(r, c) ==
    /\ pc[r] = "reading" /\ Len(seen[r]) < MaxChunks /\ Possible(r, c)
    /\ ~(By(r, {"ResponsesNonStreaming"}) /\ c.error)
    /\ client' = [client EXCEPT ![r] = Translated(r, c)]
    /\ seen' = [seen EXCEPT ![r] = Append(@, c)]
    /\ Goto(r, IF By(r, {"Streaming"}) THEN "capture" ELSE "reading")
    /\ UNCHANGED <<route, asked, status, capture, rows>>

Capture(r) ==
    /\ pc[r] = "capture"
    /\ capture' = [capture EXCEPT ![r] = FeedCapture(@, Last(seen[r]), Len(seen[r]))]
    /\ Goto(r, "reading")
    /\ UNCHANGED <<route, asked, status, client, seen, rows>>

(* An error event ends the folding of a stream. *)
ErrorEvent(r, c) ==
    /\ pc[r] = "reading" /\ Len(seen[r]) < MaxChunks
    /\ By(r, {"ResponsesNonStreaming"}) /\ c.error
    /\ seen' = [seen EXCEPT ![r] = Append(@, c)]
    /\ status' = [status EXCEPT ![r] = 502]
    /\ AnswerJson(r, 502, Error)
    /\ UNCHANGED <<route, asked, capture>>

(* The upstream says [DONE] or closes; the client is told that this was all. *)
Closed(r) ==
    CASE By(r, {"ResponsesChatStream"}) -> FinishResponse(client[r])
      [] ToAnthropic(r)                 -> FlushMessage(client[r])
      [] route[r].surface = "chat"      -> Emit(client[r], [type |-> "[DONE]"])
      [] OTHER                          -> client[r]

(* Mutant: whatever came is folded into an answer. *)
FoldAnyhow(r) == AnswerJson(r, 200, [kind |-> "answer"]) /\ UNCHANGED status

(* response.completed finishes with "stop"; without it the answer is not whole. *)
Fold(r) ==
    IF \E i \in DOMAIN seen[r] : seen[r][i].finish = "stop"
    THEN AnswerJson(r, 200, [kind |-> "answer"]) /\ UNCHANGED status
    ELSE AnswerJson(r, 502, Error) /\ status' = [status EXCEPT ![r] = 502]

UpstreamEnds(r) ==
    /\ pc[r] = "reading"
    /\ UNCHANGED <<route, asked, seen, capture>>
    /\ IF By(r, {"ResponsesNonStreaming"}) THEN Fold(r)
       ELSE /\ client' = [client EXCEPT ![r] = Closed(r)]
            /\ Log(r, status[r], Snapshot(r))
            /\ Goto(r, "answered")
            /\ UNCHANGED status

-----------------------------------------------------------------------------
Next == \E r \in Requests :
    \/ Arrive(r) \/ Refuse(r) \/ Accept(r) \/ CredentialFails(r) \/ Credential(r) \/ Ask(r)
    \/ NoConnection(r) \/ TimesOut(r) \/ Breaks(r) \/ Leave(r)
    \/ \E code \in {200, 400}, choices \in BOOLEAN : Post(r, code, choices)
    \/ \E code \in {200, 400}, sse \in BOOLEAN : Headers(r, code, sse)
    \/ ErrorBody(r) \/ Capture(r) \/ UpstreamEnds(r)
    \/ \E c \in Chunks : Feed(r, c) \/ ErrorEvent(r, c)

Spec == Init /\ [][Next]_vars

-----------------------------------------------------------------------------
(* Properties *)

Ended(r) == pc[r] \in Final
Sent(r)  == client[r].sent
Types(r) == {Sent(r)[i].type : i \in DOMAIN Sent(r)}

(* A request that was sent to an upstream leaves one row however it ends, also when *)
(* the client leaves or the stream breaks off; only an answer in one piece whose    *)
(* connection breaks is lost.  One that never reached an upstream leaves none.      *)
AskedIsLogged ==
    \A r \in Requests :
        Ended(r) => Len(rows[r]) = IF r \in asked /\ pc[r] # "crashed" THEN 1 ELSE 0

(* The row and the client agree: an answer in one piece has the status of its row, a *)
(* failure frame goes with a failure status, and a stream logged as a success that   *)
(* neither broke off nor was left has told its client that it is complete.           *)
RowTellsOutcome ==
    \A r \in Requests : pc[r] = "answered" /\ rows[r] # <<>> =>
        LET code == rows[r][1].status IN
        /\ ~Streams(r) => Last(Sent(r)) = Json(code)
        /\ Types(r) \cap {"error", "response.failed"} # {} => code >= 400
        /\ code < 400 /\ route[r].surface = "chat" /\ Streams(r) => Last(Sent(r)).type = "[DONE]"
        /\ code < 400 /\ By(r, {"ResponsesChatStream"}) => Last(Sent(r)).type = "response.completed"
        /\ code < 400 /\ ToAnthropic(r) /\ Streams(r) /\ Sent(r) # <<>> => Last(Sent(r)).type = "message_stop"

(* The events an Anthropic client gets: the message starts once and first; blocks are *)
(* numbered in order, one is open at a time, a delta belongs to the open one and has  *)
(* its kind; when the message stops, none is open, and nothing of it follows.         *)
MessageEventsNest ==
    \A r \in asked : ToAnthropic(r) /\ Streams(r) =>
        LET s == Sent(r)
            at(type) == {i \in DOMAIN s : s[i].type = type}
            opened(i) == {j \in at("content_block_start") : j < i}
            closed(i) == {j \in at("content_block_stop") : j < i}
        IN  /\ at("message_start") \subseteq {1}
            /\ \A i \in DOMAIN s : i > 1 /\ s[i].type # "error" => s[1].type = "message_start"
            /\ \A i \in at("content_block_start") :
                  s[i].index = Cardinality(opened(i)) /\ Cardinality(closed(i)) = s[i].index
            /\ \A i \in at("content_block_delta") \cup at("content_block_stop") :
                  /\ Cardinality(opened(i)) = Cardinality(closed(i)) + 1
                  /\ \E j \in opened(i) : s[j].index = s[i].index /\ s[j].kind = s[i].kind
                  /\ s[i].index = Cardinality(closed(i))
            /\ \A i \in at("message_stop") :
                  /\ Cardinality(opened(i)) = Cardinality(closed(i))
                  /\ \A j \in DOMAIN s : j > i => s[j].type = "error"

(* The events a Responses client gets of a chat stream: created first; text goes into  *)
(* an item that is open and is closed before the end; the end is one frame, the last; *)
(* the object it carries has the text of the deltas and one item for each tool call.  *)
ResponseEventsNest ==
    \A r \in asked : By(r, {"ResponsesChatStream"}) =>
        LET s == Sent(r)
            at(type) == {i \in DOMAIN s : s[i].type = type}
            ends == at("response.completed") \cup at("response.failed")
            total == FoldSeq(LAMBDA f, n : n + (IF f.type = "response.output_text.delta" THEN f.text ELSE 0), 0, s)
        IN  /\ at("response.created") \subseteq {1}
            /\ \A i \in DOMAIN s : i \notin ends => s[1].type = "response.created"
            /\ ends \subseteq {Len(s)}
            /\ \A i \in at("response.output_text.delta") :
                  /\ \E j \in at("response.content_part.added") : j < i
                  /\ \A j \in at("response.output_text.done") : i < j
            /\ \A i \in at("response.completed") :
                  /\ Cardinality(at("response.output_text.done")) = Cardinality(at("response.content_part.added"))
                  /\ s[i].response.text = total
                  /\ \A k \in s[i].response.tools :
                        Cardinality({j \in at("response.output_item.done") : s[j].call = {k}}) = 1

(* What the row of a stream holds is what came, cut at the limit, with the last usage; *)
(* of a stream that was cut short, the chunk on its way to the client may be missing.  *)
CaptureIsWhole ==
    \A r \in Requests : rows[r] # <<>> /\ By(r, {"Streaming"}) =>
        LET held(s) == FoldSeq(LAMBDA c, n : n + c.text + c.thinking + Cardinality(c.tools), 0, s)
            used(s) == {i \in DOMAIN s : s[i].usage}
            is(s) == LET body == rows[r][1].body.body IN
                     /\ body.length = IF held(s) > TextLimit THEN TextLimit ELSE held(s)
                     /\ body.truncated = (held(s) > TextLimit)
                     /\ body.usage = IF used(s) = {} THEN 0 ELSE CHOOSE i \in used(s) : \A j \in used(s) : j <= i
        IN  is(seen[r]) \/ (pc[r] = "left" /\ seen[r] # <<>> /\ is(Front(seen[r])))

(* "It must not be reported as a complete one": an answer folded from a stream is a *)
(* success only if the upstream has said that the response is complete and has not  *)
(* reported an error.                                                               *)
FoldedIsComplete ==
    \A r \in asked : By(r, {"ResponsesNonStreaming"}) =>
        \A i \in DOMAIN Sent(r) : Sent(r)[i].status = 200 =>
            /\ \E k \in DOMAIN seen[r] : seen[r][k].finish = "stop"
            /\ \A k \in DOMAIN seen[r] : ~seen[r][k].error

(* Upstream HTTP errors on the translated stream "are `event: response.failed`, then *)
(* the stream ends.  Do not also emit `response.completed`" (KTD5).                  *)
RejectedIsNotCompleted ==
    \A r \in asked : By(r, {"ResponsesChatStream"}) /\ status[r] >= 400 =>
        "response.completed" \notin Types(r)
=============================================================================
