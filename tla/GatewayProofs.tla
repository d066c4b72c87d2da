----------------------------- MODULE GatewayProofs -----------------------------
(***************************************************************************)
(* Proofs about Gateway, for any requests, chunks and limits.              *)
(*                                                                         *)
(* However a request ends, it leaves the rows it should (IInv); one that   *)
(* is folded from a stream succeeds only with a complete answer (FInv).    *)
(* The rest is in three invariants, each over the one before:              *)
(*   Settled     where a request stands fits what it was routed to, and    *)
(*               what it holds of the stream fits the limit;               *)
(*   TellInv     the converter of a stream that goes on is in the state    *)
(*               StreamConverterProofs shows it keeps, and what was told   *)
(*               of a stream that ended is what its row says;              *)
(*   CaptureInv  the accumulator holds what the chunks seen so far add up  *)
(*               to, and a row what the accumulator held.                  *)
(***************************************************************************)
EXTENDS Gateway, StreamConverterProofs, SequenceTheorems, TLAPS

Before == {"idle", "route", "credential", "begin"}        \* nothing was sent
Open   == {"asked", "rejected", "reading", "capture"}     \* nothing is logged yet

(* What a request has been through, by the place where it stands. *)
IInv ==
    /\ pc \in [Requests -> Before \cup Open \cup Final]
    /\ rows = [r \in Requests |-> rows[r]]
    /\ \A r \in Requests : pc[r] \in Before => r \notin asked /\ rows[r] = <<>>
    /\ \A r \in Requests : pc[r] \in Open => r \in asked /\ rows[r] = <<>>
    /\ AskedIsLogged

LEMMA OneRow == ASSUME NEW x PROVE Len(Append(<<>>, x)) = 1 /\ Len(<<>>) = 0
<1>1. x \in {x} /\ <<>> \in Seq({x})
    OBVIOUS
<1> QED
    BY <1>1, AppendProperties, EmptySeq

(* A step that logs nothing stays on its side of the upstream or ends there. *)
LEMMA QuietStep ==
    ASSUME IInv, NEW r \in Requests, NEW place, Goto(r, place), UNCHANGED <<asked, rows>>,
           \/ pc[r] \in Before /\ place \in Before \cup {"answered", "left"}
           \/ pc[r] \in Open /\ place \in Open \cup {"crashed"}
    PROVE  IInv'
<1>1. place \in Before \cup Open \cup Final
    BY DEF Before, Open, Final
<1>2. /\ pc' \in [Requests -> Before \cup Open \cup Final]
      /\ pc'[r] = place
      /\ \A q \in Requests : q # r => pc'[q] = pc[q]
    BY <1>1 DEF IInv, Goto
<1>3. AskedIsLogged'
    <2> SUFFICES ASSUME NEW q \in Requests, Ended(q)'
                 PROVE  Len(rows[q]) = IF q \in asked /\ pc'[q] # "crashed" THEN 1 ELSE 0
        BY DEF AskedIsLogged
    <2>1. CASE q # r
        BY <2>1, <1>2 DEF IInv, AskedIsLogged, Ended
    <2>2. CASE q = r
        <3>1. rows[r] = <<>> /\ (r \in asked => place = "crashed")
            BY <2>2, <1>2 DEF IInv, Ended, Before, Open, Final
        <3> QED
            BY <3>1, <2>2, <1>2, OneRow
    <2> QED
        BY <2>1, <2>2
<1> QED
    BY <1>2, <1>3 DEF IInv, Before, Open

(* A step that logs ends a request that was sent. *)
LEMMA LogStep ==
    ASSUME IInv, NEW r \in Requests, NEW place \in Final \ {"crashed"}, Goto(r, place),
           pc[r] \in Open, UNCHANGED asked, NEW code, NEW what, Log(r, code, what)
    PROVE  IInv'
<1>1. /\ pc' \in [Requests -> Before \cup Open \cup Final]
      /\ pc'[r] = place
      /\ \A q \in Requests : q # r => pc'[q] = pc[q]
    BY DEF IInv, Goto
<1>2. /\ rows' = [q \in Requests |-> rows'[q]]
      /\ rows'[r] = Append(<<>>, Row(code, what))
      /\ \A q \in Requests : q # r => rows'[q] = rows[q]
    BY DEF IInv, Log
<1>3. r \in asked /\ Len(rows'[r]) = 1
    BY <1>2, OneRow DEF IInv
<1>4. AskedIsLogged'
    BY <1>1, <1>2, <1>3 DEF IInv, AskedIsLogged, Ended
<1>5. place \notin Before \cup Open
    BY DEF Before, Open, Final
<1> QED
    BY <1>1, <1>2, <1>4, <1>5 DEF IInv

LEMMA InitInv == Init => IInv
    BY OneRow DEF Init, IInv, AskedIsLogged, Ended, Before, Open, Final

(* A failure the handlers know is logged, whichever way it is told. *)
LEMMA FailStep ==
    ASSUME IInv, NEW r \in Requests, pc[r] \in Open, NEW code, Fail(r, code)
    PROVE  IInv'
<1>1. UNCHANGED asked /\ Goto(r, "answered")
    BY DEF Fail, AnswerJson
<1>2. Log(r, code, Error) \/ Log(r, code, Snapshot(r))
    BY DEF Fail, AnswerJson
<1> QED
    BY <1>1, <1>2, LogStep DEF Final

LEMMA CutStep ==
    ASSUME IInv, NEW r \in Requests, pc[r] \in Open, NEW place \in {"broken", "left"}, Cut(r, place)
    PROVE  IInv'
    BY LogStep DEF Cut, Final

LEMMA NextInv == IInv /\ [Next]_vars => IInv'
<1> SUFFICES ASSUME IInv, [Next]_vars PROVE IInv'
    OBVIOUS
<1>1. CASE UNCHANGED vars
    BY <1>1 DEF vars, IInv, AskedIsLogged, Ended
<1>2. CASE Next
    <2> SUFFICES ASSUME NEW r \in Requests,
                        \/ Arrive(r) \/ Refuse(r) \/ Accept(r) \/ CredentialFails(r) \/ Credential(r) \/ Ask(r)
                        \/ NoConnection(r) \/ TimesOut(r) \/ Breaks(r) \/ Leave(r)
                        \/ \E code \in {200, 400}, choices \in BOOLEAN : Post(r, code, choices)
                        \/ \E code \in {200, 400}, sse \in BOOLEAN : Headers(r, code, sse)
                        \/ ErrorBody(r) \/ Capture(r) \/ UpstreamEnds(r)
                        \/ \E c \in Chunks : Feed(r, c) \/ ErrorEvent(r, c)
                 PROVE  IInv'
        BY <1>2 DEF Next
    <2>1. ASSUME Arrive(r) \/ Accept(r) \/ Credential(r) PROVE IInv'
        BY <2>1, QuietStep DEF Arrive, Accept, Credential, Before
    <2>2. ASSUME Refuse(r) \/ CredentialFails(r) PROVE IInv'
        BY <2>2, QuietStep DEF Refuse, CredentialFails, Before
    <2>3. ASSUME Ask(r) PROVE IInv'
        <3>1. r \notin asked /\ rows[r] = <<>> /\ asked' = asked \cup {r} /\ rows' = rows
            BY <2>3 DEF Ask, IInv, Before
        <3>2. /\ pc' \in [Requests -> Before \cup Open \cup Final]
              /\ pc'[r] = "asked"
              /\ \A q \in Requests : q # r => pc'[q] = pc[q]
            BY <2>3 DEF Ask, Goto, IInv, Open
        <3>3. AskedIsLogged'
            BY <3>1, <3>2 DEF IInv, AskedIsLogged, Ended, Final
        <3> QED
            BY <3>1, <3>2, <3>3 DEF IInv, Before, Open
    <2>4. ASSUME NoConnection(r) \/ TimesOut(r) PROVE IInv'
        BY <2>4, FailStep DEF NoConnection, TimesOut, Open
    <2>5. ASSUME Breaks(r) PROVE IInv'
        <3>1. pc[r] \in Open
            BY <2>5 DEF Breaks, Open
        <3>2. CASE Streams(r)
            BY <2>5, <3>1, <3>2, CutStep DEF Breaks
        <3>3. CASE ~Streams(r)
            BY <2>5, <3>1, <3>3, QuietStep DEF Breaks
        <3> QED
            BY <3>2, <3>3
    <2>6. ASSUME Leave(r) PROVE IInv'
        <3>1. CASE pc[r] = "begin"
            BY <2>6, <3>1, QuietStep DEF Leave, Before
        <3>2. CASE pc[r] # "begin"
            BY <2>6, <3>2, CutStep DEF Leave, Open
        <3> QED
            BY <3>1, <3>2
    <2>7. ASSUME NEW code \in {200, 400}, NEW choices \in BOOLEAN, Post(r, code, choices) PROVE IInv'
        <3>1. /\ pc[r] \in Open /\ UNCHANGED asked /\ Goto(r, "answered")
              /\ \/ Log(r, code, [kind |-> "answer"])
                 \/ Log(r, IF code < 400 THEN 502 ELSE code, Error)
            BY <2>7 DEF Post, AnswerJson, Open
        <3> QED
            BY <3>1, LogStep DEF Final
    <2>8. ASSUME NEW code \in {200, 400}, NEW sse \in BOOLEAN, Headers(r, code, sse) PROVE IInv'
        BY <2>8, QuietStep DEF Headers, Open
    <2>9. ASSUME ErrorBody(r) PROVE IInv'
        <3>1. /\ pc[r] \in Open /\ UNCHANGED asked /\ Goto(r, "answered")
              /\ Log(r, status[r], Error) \/ Log(r, status[r], Snapshot(r))
            BY <2>9 DEF ErrorBody, AnswerJson, Open
        <3> QED
            BY <3>1, LogStep DEF Final
    <2>10. ASSUME Capture(r) PROVE IInv'
        BY <2>10, QuietStep DEF Capture, Open
    <2>11. ASSUME UpstreamEnds(r) PROVE IInv'
        <3>1. /\ pc[r] \in Open /\ UNCHANGED asked /\ Goto(r, "answered")
              /\ \/ Log(r, status[r], Snapshot(r))
                 \/ Log(r, 200, [kind |-> "answer"])
                 \/ Log(r, 502, Error)
            BY <2>11 DEF UpstreamEnds, Fold, AnswerJson, Open
        <3> QED
            BY <3>1, LogStep DEF Final
    <2>12. ASSUME NEW c \in Chunks, Feed(r, c) PROVE IInv'
        BY <2>12, QuietStep DEF Feed, Open
    <2>13. ASSUME NEW c \in Chunks, ErrorEvent(r, c) PROVE IInv'
        BY <2>13, LogStep DEF ErrorEvent, AnswerJson, Open, Final
    <2> QED
        BY <2>1, <2>2, <2>3, <2>4, <2>5, <2>6, <2>7, <2>8, <2>9, <2>10, <2>11, <2>12, <2>13
<1> QED
    BY <1>1, <1>2

(* The `finally` of the generators and the failure paths of the other handlers: *)
(* a request that was sent leaves one row, whatever ends it.                    *)
THEOREM Logged == Spec => []AskedIsLogged
<1>1. IInv => AskedIsLogged
    BY DEF IInv
<1> QED
    BY <1>1, InitInv, NextInv, PTL DEF Spec

-----------------------------------------------------------------------------
(* Folding a stream into one answer *)

Folding(r) == By(r, {"ResponsesNonStreaming"})

Whole(s)     == \E k \in DOMAIN s : s[k].finish = "stop"
ErrorFree(s) == \A k \in DOMAIN s : ~s[k].error

(* Until it answers, a handler that folds has sent nothing and seen no error. *)
FoldOk(r) ==
    Folding(r) =>
        /\ pc[r] # "answered" => client[r] = [sent |-> <<>>] /\ ErrorFree(seen[r])
        /\ pc[r] = "rejected" => status[r] # 200
        /\ \A i \in DOMAIN Sent(r) : Sent(r)[i].status = 200 => Whole(seen[r]) /\ ErrorFree(seen[r])

FInv ==
    /\ asked \subseteq Requests
    /\ pc = [r \in Requests |-> pc[r]]
    /\ client = [r \in Requests |-> client[r]]
    /\ status = [r \in Requests |-> status[r]]
    /\ seen \in [Requests -> Seq(Chunks)]
    /\ \A r \in Requests : FoldOk(r)

(* What a step of r leaves alone: the route, and the other requests. *)
Local(r) ==
    /\ route' = route
    /\ asked' \subseteq Requests
    /\ pc' = [pc EXCEPT ![r] = pc'[r]]
    /\ client' = [client EXCEPT ![r] = client'[r]]
    /\ status' = [status EXCEPT ![r] = status'[r]]
    /\ seen' = [seen EXCEPT ![r] = seen'[r]]
    /\ seen'[r] \in Seq(Chunks)

LEMMA LocalStep ==
    ASSUME FInv, NEW r \in Requests, Local(r), FoldOk(r)'
    PROVE  FInv'
<1>1. ASSUME NEW q \in Requests, q # r
      PROVE  FoldOk(q)'
    <2>1. /\ pc'[q] = pc[q] /\ client'[q] = client[q] /\ status'[q] = status[q]
          /\ seen'[q] = seen[q] /\ route'[q] = route[q]
        BY <1>1 DEF FInv, Local
    <2>2. FoldOk(q)
        BY DEF FInv
    <2> QED
        BY <2>1, <2>2 DEF FoldOk, Folding, By, Sent
<1>2. /\ pc' = [q \in Requests |-> pc'[q]]
      /\ client' = [q \in Requests |-> client'[q]]
      /\ status' = [q \in Requests |-> status'[q]]
      /\ seen' \in [Requests -> Seq(Chunks)]
    BY DEF FInv, Local
<1>3. \A q \in Requests : FoldOk(q)'
    BY <1>1
<1> QED
    BY <1>2, <1>3 DEF FInv, Local

LEMMA FoldingRoute ==
    ASSUME NEW r \in Requests, Folding(r)
    PROVE  /\ route[r].surface = "responses"
           /\ ~Streams(r) /\ ~Posts(r)
           /\ ~By(r, {"ResponsesChatStream"}) /\ ~By(r, {"Streaming"}) /\ ~ToAnthropic(r) /\ ~ToOpenAI(r)
    BY DEF Folding, By, Streams, Posts, ToAnthropic, ToOpenAI, Handler

(* The one frame of an answer in one piece. *)
LEMMA AnswerStep ==
    ASSUME FInv, NEW r \in Requests, Folding(r), pc[r] # "answered", NEW code,
           client' = [client EXCEPT ![r] = Emit(client[r], Json(code))], route' = route,
           pc'[r] = "answered", code = 200 => Whole(seen'[r]) /\ ErrorFree(seen'[r])
    PROVE  FoldOk(r)'
<1>1. client[r] = [sent |-> <<>>]
    BY DEF FInv, FoldOk
<1>2. client'[r].sent = Append(<<>>, Json(code))
    BY <1>1 DEF FInv, Emit
<1>3. Append(<<>>, Json(code)) = <<Json(code)>>
    OBVIOUS
<1>4. \A i \in DOMAIN Sent(r)' : Sent(r)'[i].status = code
    BY <1>2, <1>3 DEF Sent, Json
<1> QED
    BY <1>4 DEF FoldOk

LEMMA FoldInit == Init => FInv
<1> SUFFICES ASSUME Init PROVE FInv
    OBVIOUS
<1>1. ASSUME NEW r \in Requests, Folding(r)
      PROVE  client[r] = [sent |-> <<>>]
    BY <1>1, FoldingRoute DEF Init, NewClient
<1>2. \A r \in Requests : seen[r] = <<>> /\ pc[r] = "idle"
    BY DEF Init
<1>3. ASSUME NEW r \in Requests PROVE FoldOk(r)
    BY <1>1, <1>2 DEF FoldOk, Sent, ErrorFree
<1> QED
    BY <1>3 DEF FInv, Init

(* A step that neither answers nor reads. *)
LEMMA WaitStep ==
    ASSUME FInv, NEW r \in Requests, pc[r] # "answered", NEW place, place # "answered", Goto(r, place),
           UNCHANGED <<route, client, seen>>, asked' \subseteq Requests,
           status' = [status EXCEPT ![r] = status'[r]], place = "rejected" => status'[r] # 200
    PROVE  FInv'
<1>1. Local(r) /\ pc'[r] = place
    BY DEF FInv, Local, Goto
<1>2. FoldOk(r)'
    BY <1>1 DEF FInv, FoldOk, Folding, By, Sent
<1> QED
    BY <1>1, <1>2, LocalStep

(* The client is answered in one frame. *)
Answers(r, code) == client' = [client EXCEPT ![r] = Emit(client[r], Json(code))]

(* The frame of a folded answer, which is a success only if it is a whole one. *)
Tells(r) ==
    \E code \in {200, 400, 502, 503, 504} \cup {status[r]} :
        /\ Answers(r, code)
        /\ code = 200 => Whole(seen'[r]) /\ ErrorFree(seen'[r])

LEMMA TellsFailure ==
    ASSUME NEW r, NEW code \in {400, 502, 503, 504} \cup {status[r]}, code # 200,
           Answers(r, code)
    PROVE  Tells(r)
<1>1. code \in {200, 400, 502, 503, 504} \cup {status[r]}
    OBVIOUS
<1> QED
    BY <1>1 DEF Tells

(* A step that answers: the handlers that do not fold may send what they like. *)
LEMMA EndStep ==
    ASSUME FInv, NEW r \in Requests, pc[r] # "answered", Goto(r, "answered"), UNCHANGED <<route, asked>>,
           status' = [status EXCEPT ![r] = status'[r]],
           seen' = [seen EXCEPT ![r] = seen'[r]], seen'[r] \in Seq(Chunks),
           client' = [client EXCEPT ![r] = client'[r]],
           Folding(r) => Tells(r)
    PROVE  FInv'
<1>1. Local(r) /\ pc'[r] = "answered"
    BY DEF FInv, Local, Goto
<1>2. CASE Folding(r)
    <2>1. PICK code \in {200, 400, 502, 503, 504} \cup {status[r]} :
                            /\ Answers(r, code)
                            /\ code = 200 => Whole(seen'[r]) /\ ErrorFree(seen'[r])
        BY <1>2 DEF Tells
    <2>2. FoldOk(r)'
        BY <2>1, <1>1, <1>2, AnswerStep DEF Answers, Local
    <2> QED
        BY <1>1, <2>2, LocalStep
<1>3. CASE ~Folding(r)
    <2>1. ~Folding(r)'
        BY <1>3 DEF Folding, By
    <2> QED
        BY <1>1, <2>1, LocalStep DEF FoldOk
<1> QED
    BY <1>2, <1>3

LEMMA FoldNext == FInv /\ [Next]_vars => FInv'
<1> SUFFICES ASSUME FInv, [Next]_vars PROVE FInv'
    OBVIOUS
<1>1. CASE UNCHANGED vars
    BY <1>1 DEF vars, FInv, FoldOk, Folding, By, Sent
<1>2. CASE Next
    <2> SUFFICES ASSUME NEW r \in Requests,
                        \/ Arrive(r) \/ Refuse(r) \/ Accept(r) \/ CredentialFails(r) \/ Credential(r) \/ Ask(r)
                        \/ NoConnection(r) \/ TimesOut(r) \/ Breaks(r) \/ Leave(r)
                        \/ \E code \in {200, 400}, choices \in BOOLEAN : Post(r, code, choices)
                        \/ \E code \in {200, 400}, sse \in BOOLEAN : Headers(r, code, sse)
                        \/ ErrorBody(r) \/ Capture(r) \/ UpstreamEnds(r)
                        \/ \E c \in Chunks : Feed(r, c) \/ ErrorEvent(r, c)
                 PROVE  FInv'
        BY <1>2 DEF Next
    <2>a. /\ asked \subseteq Requests
          /\ seen \in [Requests -> Seq(Chunks)] /\ seen[r] \in Seq(Chunks)
        BY DEF FInv
    <2>b. /\ pc = [q \in Requests |-> pc[q]]
          /\ status = [q \in Requests |-> status[q]]
          /\ client = [q \in Requests |-> client[q]]
        BY DEF FInv
    <2>c. /\ status = [status EXCEPT ![r] = status[r]]
          /\ client = [client EXCEPT ![r] = client[r]]
          /\ seen = [seen EXCEPT ![r] = seen[r]]
        BY DEF FInv
    <2>1. ASSUME Arrive(r) \/ Accept(r) \/ Credential(r) \/ Ask(r) \/ Capture(r) PROVE FInv'
        BY <2>1, <2>a, <2>c, WaitStep DEF Arrive, Accept, Credential, Ask, Capture
    <2>2. ASSUME NEW code \in {400, 503},
                 Answers(r, code),
                 pc[r] # "answered", Goto(r, "answered"), UNCHANGED <<route, asked, status, seen>>
          PROVE  FInv'
        <3>1. Tells(r)
            <4>1. code \in {400, 502, 503, 504} \cup {status[r]} /\ code # 200
                OBVIOUS
            <4> QED
                BY <2>2, <4>1, TellsFailure
        <3>2. client' = [client EXCEPT ![r] = client'[r]]
            BY <2>2, <2>b DEF Answers
        <3>3. /\ status' = [status EXCEPT ![r] = status'[r]]
              /\ seen' = [seen EXCEPT ![r] = seen'[r]] /\ seen'[r] \in Seq(Chunks)
            BY <2>2, <2>a, <2>c
        <3> QED
            BY <2>2, <3>1, <3>2, <3>3, EndStep
    <2>3. ASSUME Refuse(r) \/ CredentialFails(r) PROVE FInv'
        BY <2>2, <2>3 DEF Refuse, CredentialFails, Answers
    <2>4. ASSUME NEW code \in {502, 504}, pc[r] # "answered", Fail(r, code) PROVE FInv'
        <3>1. Folding(r) => Tells(r)
            <4>1. Folding(r) => Answers(r, code)
                BY <2>4, FoldingRoute DEF Fail, AnswerJson, Answers
            <4> QED
                BY <4>1, TellsFailure
        <3>2. /\ Goto(r, "answered") /\ UNCHANGED <<route, asked, seen>>
              /\ status' = [status EXCEPT ![r] = status'[r]]
              /\ client' = [client EXCEPT ![r] = client'[r]]
            BY <2>4, <2>b DEF Fail, AnswerJson, Answers
        <3> QED
            BY <2>4, <2>a, <2>c, <3>1, <3>2, EndStep
    <2>5. ASSUME NoConnection(r) \/ TimesOut(r) PROVE FInv'
        BY <2>5, <2>4 DEF NoConnection, TimesOut
    <2>6. ASSUME Breaks(r) \/ Leave(r) PROVE FInv'
        BY <2>6, <2>a, <2>c, WaitStep DEF Breaks, Leave, Cut
    <2>7. ASSUME NEW code \in {200, 400}, NEW choices \in BOOLEAN, Post(r, code, choices) PROVE FInv'
        <3>1. ~Folding(r)
            BY <2>7, FoldingRoute DEF Post
        <3>2. /\ pc[r] # "answered" /\ Goto(r, "answered") /\ UNCHANGED <<route, asked, status, seen>>
              /\ client' = [client EXCEPT ![r] = client'[r]]
            BY <2>7, <2>b DEF Post, AnswerJson, Answers
        <3> QED
            BY <3>1, <3>2, <2>a, <2>c, EndStep
    <2>8. ASSUME NEW code \in {200, 400}, NEW sse \in BOOLEAN, Headers(r, code, sse) PROVE FInv'
        <3> DEFINE place == IF code >= 400 /\ (~sse \/ By(r, {"ResponsesNonStreaming"}))
                            THEN "rejected" ELSE "reading"
        <3>1. place # "answered" /\ (place = "rejected" => code # 200)
            OBVIOUS
        <3>2. /\ Goto(r, place) /\ status' = [status EXCEPT ![r] = code]
              /\ pc[r] # "answered" /\ UNCHANGED <<route, client, seen, asked>>
            BY <2>8 DEF Headers
        <3>3. status'[r] = code
            BY <3>2, <2>b
        <3>4. status' = [status EXCEPT ![r] = status'[r]] /\ (place = "rejected" => status'[r] # 200)
            BY <3>1, <3>2, <3>3
        <3>5. UNCHANGED <<route, client, seen>> /\ asked' \subseteq Requests
            BY <3>2, <2>a
        <3>6. place # "answered" /\ pc[r] # "answered" /\ Goto(r, place)
            BY <3>1, <3>2
        <3> HIDE DEF place
        <3> QED
            BY <3>4, <3>5, <3>6, WaitStep
    <2>9. ASSUME ErrorBody(r) PROVE FInv'
        <3>1. Folding(r) => Tells(r)
            <4>1. Folding(r) => /\ Answers(r, status[r])
                                /\ status[r] # 200
                BY <2>9, FoldingRoute DEF ErrorBody, AnswerJson, Answers, FInv, FoldOk
            <4> QED
                BY <4>1, TellsFailure
        <3>2. /\ pc[r] # "answered" /\ Goto(r, "answered") /\ UNCHANGED <<route, asked, status, seen>>
              /\ client' = [client EXCEPT ![r] = client'[r]]
            BY <2>9, <2>b DEF ErrorBody, AnswerJson, Answers
        <3> QED
            BY <3>1, <3>2, <2>a, <2>c, EndStep
    <2>10. ASSUME UpstreamEnds(r) PROVE FInv'
        <3>1. ASSUME Folding(r)
              PROVE  Tells(r)
            <4>1. ErrorFree(seen[r]) /\ seen' = seen
                BY <2>10, <3>1 DEF UpstreamEnds, FInv, FoldOk
            <4>2. Fold(r)
                BY <2>10, <3>1 DEF UpstreamEnds, Folding
            <4>3. CASE Whole(seen[r])
                BY <4>1, <4>2, <4>3 DEF Fold, Whole, AnswerJson, Answers, Tells
            <4>4. CASE ~Whole(seen[r])
                BY <4>2, <4>4, TellsFailure DEF Fold, Whole, AnswerJson, Answers
            <4> QED
                BY <4>3, <4>4
        <3>2. /\ pc[r] # "answered" /\ Goto(r, "answered") /\ UNCHANGED <<route, asked, seen>>
              /\ client' = [client EXCEPT ![r] = client'[r]]
              /\ status' = [status EXCEPT ![r] = status'[r]]
            BY <2>10, <2>b, <2>c DEF UpstreamEnds, Fold, AnswerJson, Answers
        <3> QED
            BY <3>1, <3>2, <2>a, <2>c, EndStep
    <2>11. ASSUME NEW c \in Chunks, Feed(r, c) PROVE FInv'
        <3>1. /\ pc[r] # "answered" /\ pc[r] # "rejected" /\ route' = route /\ asked' = asked /\ status' = status
              /\ pc' = [pc EXCEPT ![r] = pc'[r]] /\ pc'[r] \in {"capture", "reading"}
              /\ seen' = [seen EXCEPT ![r] = Append(seen[r], c)]
              /\ client' = [client EXCEPT ![r] = Translated(r, c)]
            BY <2>11 DEF Feed, Goto, FInv
        <3>2. Local(r)
            <4>1. /\ status' = [status EXCEPT ![r] = status'[r]]
                  /\ client' = [client EXCEPT ![r] = client'[r]]
                BY <3>1, <2>b, <2>c
            <4>2. seen' = [seen EXCEPT ![r] = seen'[r]] /\ seen'[r] \in Seq(Chunks)
                BY <3>1, <2>a
            <4> QED
                BY <3>1, <4>1, <4>2, <2>a DEF Local
        <3>3. ASSUME Folding(r)
              PROVE  FoldOk(r)'
            <4>1. client'[r] = client[r]
                BY <3>1, <3>3, <2>b, FoldingRoute DEF Translated, Folding
            <4>2. client[r] = [sent |-> <<>>] /\ ErrorFree(seen[r])
                BY <3>1, <3>3 DEF FInv, FoldOk
            <4>3. ~c.error
                BY <2>11, <3>3 DEF Feed, Folding
            <4>4. ErrorFree(seen'[r])
                <5>1. seen'[r] = Append(seen[r], c)
                    BY <3>1, <2>a
                <5> QED
                    BY <5>1, <4>2, <4>3, <2>a DEF ErrorFree
            <4> QED
                BY <4>1, <4>2, <4>4, <3>1 DEF FoldOk, Sent
        <3>4. ASSUME ~Folding(r)
              PROVE  FoldOk(r)'
            <4>1. ~Folding(r)'
                BY <3>1, <3>4 DEF Folding, By
            <4> QED
                BY <4>1 DEF FoldOk
        <3> QED
            BY <3>2, <3>3, <3>4, LocalStep
    <2>12. ASSUME NEW c \in Chunks, ErrorEvent(r, c) PROVE FInv'
        <3>1. /\ pc[r] # "answered" /\ Goto(r, "answered") /\ UNCHANGED <<route, asked>>
              /\ status' = [status EXCEPT ![r] = status'[r]]
              /\ seen' = [seen EXCEPT ![r] = Append(seen[r], c)]
              /\ Answers(r, 502)
            BY <2>12, <2>b DEF ErrorEvent, AnswerJson, Answers
        <3>2. seen' = [seen EXCEPT ![r] = seen'[r]] /\ seen'[r] \in Seq(Chunks)
            BY <3>1, <2>a
        <3>3. client' = [client EXCEPT ![r] = client'[r]]
            BY <3>1, <2>b DEF Answers
        <3>4. Tells(r)
            <4>1. 502 \in {400, 502, 503, 504} \cup {status[r]} /\ 502 # 200
                OBVIOUS
            <4>2. Answers(r, 502)
                BY <3>1
            <4> QED
                BY <4>1, <4>2, TellsFailure
        <3> QED
            BY <3>1, <3>2, <3>3, <3>4, EndStep
    <2> QED
        BY <2>1, <2>3, <2>5, <2>6, <2>7, <2>8, <2>9, <2>10, <2>11, <2>12
<1> QED
    BY <1>1, <1>2

(* _handle_responses_non_streaming: what a client gets as a success is an answer *)
(* the upstream has called complete, and no error event came before it.          *)
THEOREM FoldedComplete == Spec => []FoldedIsComplete
<1>1. FInv => FoldedIsComplete
    BY DEF FInv, FoldOk, FoldedIsComplete, Folding, Whole, ErrorFree
<1> QED
    BY <1>1, FoldInit, FoldNext, PTL DEF Spec

-----------------------------------------------------------------------------
(* What a step is to the request that takes it, and to the others *)

Shape == IInv /\ FInv /\ capture = [r \in Requests |-> capture[r]]

StepOf(r) ==
    \/ Arrive(r) \/ Refuse(r) \/ Accept(r) \/ CredentialFails(r) \/ Credential(r) \/ Ask(r)
    \/ NoConnection(r) \/ TimesOut(r) \/ Breaks(r) \/ Leave(r)
    \/ \E code \in {200, 400}, choices \in BOOLEAN : Post(r, code, choices)
    \/ \E code \in {200, 400}, sse \in BOOLEAN : Headers(r, code, sse)
    \/ ErrorBody(r) \/ Capture(r) \/ UpstreamEnds(r)
    \/ \E c \in Chunks : Feed(r, c) \/ ErrorEvent(r, c)

Kept(q) ==
    /\ pc'[q] = pc[q] /\ status'[q] = status[q] /\ client'[q] = client[q]
    /\ seen'[q] = seen[q] /\ capture'[q] = capture[q] /\ rows'[q] = rows[q]
    /\ q \in asked' <=> q \in asked

Frame(r) ==
    /\ route' = route
    /\ \A q \in Requests \ {r} : Kept(q)
    /\ capture' = [q \in Requests |-> capture'[q]]

SameData(r) == seen'[r] = seen[r] /\ capture'[r] = capture[r]
SameTold(r) == client'[r] = client[r] /\ rows'[r] = rows[r]

(* On the way to the upstream. *)
Early(r) ==
    /\ SameData(r) /\ SameTold(r) /\ status'[r] = status[r]
    /\ \/ pc[r] = "idle" /\ pc'[r] = "route"
       \/ pc[r] = "route" /\ pc'[r] = "credential" /\ ~By(r, {"refusal"})
       \/ pc[r] = "credential" /\ pc'[r] = "begin"
       \/ pc[r] = "begin" /\ pc'[r] \in {"asked", "left"}
    /\ pc'[r] = "left" => r \notin asked'

TurnedAway(r) ==
    /\ SameData(r) /\ status'[r] = status[r] /\ rows'[r] = rows[r]
    /\ pc[r] \in Before /\ pc'[r] = "answered"
    /\ \E code \in {400, 503} : client'[r] = Emit(client[r], Json(code))
    /\ r \notin asked'

HeadersCome(r) ==
    /\ SameData(r) /\ SameTold(r)
    /\ pc[r] = "asked" /\ ~Posts(r)
    /\ \/ status'[r] \in {200, 400} /\ pc'[r] = "reading"
       \/ status'[r] = 400 /\ pc'[r] = "rejected"

ChunkComes(r, c) ==
    /\ pc[r] = "reading" /\ Len(seen[r]) < MaxChunks
    /\ pc'[r] = IF By(r, {"Streaming"}) THEN "capture" ELSE "reading"
    /\ client'[r] = Translated(r, c)
    /\ seen'[r] = Append(seen[r], c)
    /\ status'[r] = status[r] /\ capture'[r] = capture[r] /\ rows'[r] = rows[r]

Captures(r) ==
    /\ SameTold(r) /\ seen'[r] = seen[r] /\ status'[r] = status[r]
    /\ pc[r] = "capture" /\ pc'[r] = "reading"
    /\ capture'[r] = FeedCapture(capture[r], Last(seen[r]), Len(seen[r]))

CrashesAway(r) ==
    /\ SameData(r) /\ SameTold(r) /\ status'[r] = status[r]
    /\ pc[r] \in Open /\ ~Streams(r) /\ pc'[r] = "crashed"

Logged1(r, code, what) == pc[r] \in Open /\ rows'[r] = <<Row(code, what)>>

CutShort(r) ==
    /\ SameData(r) /\ client'[r] = client[r] /\ status'[r] = status[r]
    /\ Streams(r)
    /\ pc'[r] = "left" \/ (pc'[r] = "broken" /\ pc[r] # "capture")
    /\ Logged1(r, status[r], Snapshot(r))

OnePiece(r) ==
    /\ ~Streams(r) /\ pc'[r] = "answered"
    /\ status'[r] \in {status[r], 502, 504}
    /\ capture'[r] = capture[r]
    /\ seen'[r] = seen[r] \/ (Len(seen[r]) < MaxChunks /\ \E c \in Chunks : seen'[r] = Append(seen[r], c))
    /\ \E code, what : Logged1(r, code, what) /\ client'[r] = Emit(client[r], Json(code))

FailsInStream(r) ==
    /\ Streams(r) /\ SameData(r) /\ pc'[r] = "answered" /\ pc[r] # "capture"
    /\ status'[r] \in {502, 504} \/ (pc[r] = "rejected" /\ status'[r] = status[r])
    /\ Logged1(r, status'[r], IF By(r, {"Streaming"}) THEN Snapshot(r) ELSE Error)
    /\ \/ client'[r] = Emit(client[r], ErrorFrame(r))
       \/ /\ route[r].surface = "chat"
          /\ client'[r] = Emit(Emit(client[r], ErrorFrame(r)), [type |-> "[DONE]"])

Closes(r) ==
    /\ SameData(r) /\ status'[r] = status[r] /\ pc'[r] = "answered"
    /\ pc[r] = "reading" /\ ~Folding(r)
    /\ client'[r] = Closed(r)
    /\ Logged1(r, status[r], Snapshot(r))

Kinds(r) ==
    \/ Early(r) \/ TurnedAway(r) \/ HeadersCome(r) \/ \E c \in Chunks : ChunkComes(r, c)
    \/ Captures(r) \/ CrashesAway(r) \/ CutShort(r) \/ OnePiece(r) \/ FailsInStream(r) \/ Closes(r)

LEMMA FirstRow == ASSUME NEW x PROVE Append(<<>>, x) = <<x>>
    OBVIOUS

LEMMA LogsOne ==
    ASSUME Shape, NEW r \in Requests, pc[r] \in Open, NEW code, NEW what, Log(r, code, what)
    PROVE  Logged1(r, code, what) /\ \A q \in Requests \ {r} : rows'[q] = rows[q]
<1>1. rows[r] = <<>>
    BY DEF Shape, IInv
<1>2. rows'[r] = Append(<<>>, Row(code, what)) /\ \A q \in Requests \ {r} : rows'[q] = rows[q]
    BY <1>1 DEF Shape, IInv, Log
<1> QED
    BY <1>2, FirstRow DEF Logged1

LEMMA FailIs ==
    ASSUME Shape, NEW r \in Requests, pc[r] \in Open \ {"capture"}, NEW code \in {502, 504}, Fail(r, code)
    PROVE  Frame(r) /\ (OnePiece(r) \/ FailsInStream(r))
<1>1. /\ UNCHANGED <<route, asked, seen, capture>> /\ Goto(r, "answered")
      /\ status' = [status EXCEPT ![r] = code]
      /\ client' = [client EXCEPT ![r] = client'[r]]
    BY DEF Fail, AnswerJson, Shape, FInv
<1>2. PICK what : Log(r, code, what)
    BY DEF Fail, AnswerJson
<1>3. Frame(r)
    BY <1>1, <1>2, LogsOne DEF Frame, Kept, Shape, FInv, Goto
<1>4. pc'[r] = "answered" /\ status'[r] = code
    BY <1>1 DEF Shape, FInv, Goto
<1>5. CASE Streams(r)
    <2>1. Log(r, code, IF By(r, {"Streaming"}) THEN Snapshot(r) ELSE Error) /\ client'[r] = Emit(client[r], ErrorFrame(r))
        BY <1>5 DEF Fail, Shape, FInv
    <2>2. Logged1(r, code, IF By(r, {"Streaming"}) THEN Snapshot(r) ELSE Error)
        BY <2>1, LogsOne
    <2> QED
        BY <1>1, <1>3, <1>4, <1>5, <2>1, <2>2 DEF FailsInStream, SameData
<1>6. CASE ~Streams(r)
    <2>1. Log(r, code, Error) /\ client'[r] = Emit(client[r], Json(code))
        BY <1>6 DEF Fail, AnswerJson, Shape, FInv
    <2>2. Logged1(r, code, Error)
        BY <2>1, LogsOne
    <2> QED
        BY <1>1, <1>3, <1>4, <1>6, <2>1, <2>2 DEF OnePiece
<1> QED
    BY <1>5, <1>6

LEMMA CutIs ==
    ASSUME Shape, NEW r \in Requests, pc[r] \in Open, NEW place, Cut(r, place), Streams(r),
           place = "left" \/ (place = "broken" /\ pc[r] # "capture")
    PROVE  Frame(r) /\ CutShort(r)
<1>1. /\ UNCHANGED <<route, asked, status, client, seen, capture>> /\ Goto(r, place)
      /\ Log(r, status[r], Snapshot(r))
    BY DEF Cut
<1>2. Logged1(r, status[r], Snapshot(r)) /\ \A q \in Requests \ {r} : rows'[q] = rows[q]
    BY <1>1, LogsOne
<1>3. pc'[r] = place /\ \A q \in Requests \ {r} : pc'[q] = pc[q]
    BY <1>1 DEF Shape, FInv, Goto
<1> QED
    BY <1>1, <1>2, <1>3 DEF Frame, Kept, CutShort, SameData, Shape

(* A handler that answers in one piece, whatever it has made of its status. *)
LEMMA AnswerIs ==
    ASSUME Shape, NEW r \in Requests, pc[r] \in Open, ~Streams(r), NEW code, NEW what,
           AnswerJson(r, code, what), UNCHANGED <<route, asked, capture>>,
           \/ UNCHANGED seen
           \/ Len(seen[r]) < MaxChunks /\ \E c \in Chunks : seen' = [seen EXCEPT ![r] = Append(@, c)],
           UNCHANGED status \/ status' = [status EXCEPT ![r] = 502]
    PROVE  Frame(r) /\ OnePiece(r)
<1>1. /\ Goto(r, "answered") /\ Log(r, code, what)
      /\ client' = [client EXCEPT ![r] = Emit(client[r], Json(code))]
    BY DEF AnswerJson
<1>2. Logged1(r, code, what) /\ \A q \in Requests \ {r} : rows'[q] = rows[q]
    BY <1>1, LogsOne
<1>3. /\ pc'[r] = "answered" /\ \A q \in Requests \ {r} : pc'[q] = pc[q]
      /\ client'[r] = Emit(client[r], Json(code)) /\ \A q \in Requests \ {r} : client'[q] = client[q]
      /\ status'[r] \in {status[r], 502, 504} /\ \A q \in Requests \ {r} : status'[q] = status[q]
    BY <1>1 DEF Shape, FInv, Goto
<1>4. /\ \A q \in Requests \ {r} : seen'[q] = seen[q]
      /\ seen'[r] = seen[r] \/ (Len(seen[r]) < MaxChunks /\ \E c \in Chunks : seen'[r] = Append(seen[r], c))
    BY DEF Shape, FInv
<1> QED
    BY <1>2, <1>3, <1>4 DEF Frame, Kept, OnePiece, Shape

LEMMA StepKinds ==
    ASSUME Shape, NEW r \in Requests, StepOf(r)
    PROVE  Frame(r) /\ Kinds(r)
<1> USE DEF Shape
<1>1. CASE Arrive(r) \/ Accept(r) \/ Credential(r)
    BY <1>1 DEF Arrive, Accept, Credential, Goto, FInv, Frame, Kept, Kinds, Early, SameData, SameTold
<1>2. CASE Ask(r)
    BY <1>2 DEF Ask, Goto, FInv, Frame, Kept, Kinds, Early, SameData, SameTold
<1>3. CASE Refuse(r) \/ CredentialFails(r)
    <2>1. pc[r] \in Before /\ r \notin asked
        BY <1>3 DEF Refuse, CredentialFails, IInv, Before
    <2>2. Frame(r)
        BY <1>3 DEF Refuse, CredentialFails, Goto, FInv, Frame, Kept
    <2> QED
        BY <1>3, <2>1, <2>2 DEF Refuse, CredentialFails, Goto, FInv, Kinds, TurnedAway, SameData
<1>4. CASE NoConnection(r) \/ TimesOut(r)
    BY <1>4, FailIs DEF NoConnection, TimesOut, Open, Kinds
<1>5. CASE Breaks(r)
    <2>1. CASE Streams(r)
        BY <1>5, <2>1, CutIs DEF Breaks, Kinds, Open
    <2>2. CASE ~Streams(r)
        BY <1>5, <2>2 DEF Breaks, Kinds, Open, CrashesAway, Goto, FInv, Frame, Kept, SameData, SameTold
    <2> QED
        BY <2>1, <2>2
<1>6. CASE Leave(r)
    <2>1. CASE pc[r] = "begin"
        <3>1. r \notin asked
            BY <2>1 DEF IInv, Before
        <3> QED
            BY <1>6, <2>1, <3>1 DEF Leave, Goto, FInv, Frame, Kept, Kinds, Early, SameData, SameTold
    <2>2. CASE pc[r] # "begin"
        BY <1>6, <2>2, CutIs DEF Leave, Kinds, Open
    <2> QED
        BY <2>1, <2>2
<1>7. ASSUME NEW code \in {200, 400}, NEW choices \in BOOLEAN, Post(r, code, choices)
      PROVE  Frame(r) /\ Kinds(r)
    <2>1. ~Streams(r) /\ pc[r] \in Open /\ UNCHANGED <<route, asked, status, seen, capture>>
        BY <1>7 DEF Post, Posts, Streams, By, Open
    <2>2. \E k, what : AnswerJson(r, k, what)
        BY <1>7 DEF Post
    <2> QED
        BY <2>1, <2>2, AnswerIs DEF Kinds
<1>8. ASSUME NEW code \in {200, 400}, NEW sse \in BOOLEAN, Headers(r, code, sse)
      PROVE  Frame(r) /\ Kinds(r)
    BY <1>8 DEF Headers, Goto, FInv, Frame, Kept, Kinds, HeadersCome, SameData, SameTold
<1>9. CASE ErrorBody(r)
    <2>1. UNCHANGED <<route, asked, status, seen, capture>> /\ pc[r] = "rejected" /\ pc[r] \in Open
        BY <1>9 DEF ErrorBody, Open
    <2>2. CASE Streams(r)
        <3> DEFINE what == IF By(r, {"Streaming"}) THEN Snapshot(r) ELSE Error
                   told == Emit(client[r], ErrorFrame(r))
        <3>1. /\ Log(r, status[r], what) /\ Goto(r, "answered")
              /\ client' = [client EXCEPT ![r] = IF route[r].surface = "chat"
                                                 THEN Emit(told, [type |-> "[DONE]"]) ELSE told]
            BY <1>9, <2>2 DEF ErrorBody
        <3>2. Logged1(r, status[r], what) /\ \A q \in Requests \ {r} : rows'[q] = rows[q]
            BY <2>1, <3>1, LogsOne
        <3> HIDE DEF what, told
        <3>3. /\ pc'[r] = "answered" /\ \A q \in Requests \ {r} : pc'[q] = pc[q] /\ client'[q] = client[q]
              /\ \/ client'[r] = told
                 \/ route[r].surface = "chat" /\ client'[r] = Emit(told, [type |-> "[DONE]"])
            BY <3>1 DEF Goto, FInv
        <3>4. Frame(r)
            BY <2>1, <3>2, <3>3 DEF Frame, Kept
        <3>5. FailsInStream(r)
            BY <2>1, <2>2, <3>2, <3>3 DEF FailsInStream, SameData, what, told
        <3> QED
            BY <3>4, <3>5 DEF Kinds
    <2>3. CASE ~Streams(r)
        BY <1>9, <2>1, <2>3, AnswerIs DEF ErrorBody, Kinds
    <2> QED
        BY <2>2, <2>3
<1>10. CASE Capture(r)
    BY <1>10 DEF Capture, Goto, FInv, Frame, Kept, Kinds, Captures, SameTold
<1>11. CASE UpstreamEnds(r)
    <2>1. UNCHANGED <<route, asked, seen, capture>> /\ pc[r] = "reading" /\ pc[r] \in Open
        BY <1>11 DEF UpstreamEnds, Open
    <2>2. CASE Folding(r)
        <3>1. ~Streams(r) /\ Fold(r)
            BY <1>11, <2>2, FoldingRoute DEF UpstreamEnds, Folding
        <3>2. \E code, what : AnswerJson(r, code, what)
            BY <3>1 DEF Fold
        <3>3. UNCHANGED status \/ status' = [status EXCEPT ![r] = 502]
            BY <3>1 DEF Fold
        <3> QED
            BY <2>1, <3>1, <3>2, <3>3, AnswerIs DEF Kinds
    <2>3. CASE ~Folding(r)
        <3>1. /\ client' = [client EXCEPT ![r] = Closed(r)] /\ Log(r, status[r], Snapshot(r))
              /\ Goto(r, "answered") /\ UNCHANGED status
            BY <1>11, <2>3 DEF UpstreamEnds, Folding
        <3>2. Logged1(r, status[r], Snapshot(r)) /\ \A q \in Requests \ {r} : rows'[q] = rows[q]
            BY <2>1, <3>1, LogsOne
        <3>3. /\ pc'[r] = "answered" /\ client'[r] = Closed(r)
              /\ \A q \in Requests \ {r} : pc'[q] = pc[q] /\ client'[q] = client[q]
            BY <3>1 DEF Goto, FInv
        <3>4. Frame(r)
            BY <2>1, <3>1, <3>2, <3>3 DEF Frame, Kept
        <3>5. Closes(r)
            BY <2>1, <2>3, <3>1, <3>2, <3>3 DEF Closes, SameData
        <3> QED
            BY <3>4, <3>5 DEF Kinds
    <2> QED
        BY <2>2, <2>3
<1>12. ASSUME NEW c \in Chunks, Feed(r, c)
       PROVE  Frame(r) /\ Kinds(r)
    <2>1. /\ pc[r] = "reading" /\ Len(seen[r]) < MaxChunks
          /\ client' = [client EXCEPT ![r] = Translated(r, c)]
          /\ seen' = [seen EXCEPT ![r] = Append(seen[r], c)]
          /\ Goto(r, IF By(r, {"Streaming"}) THEN "capture" ELSE "reading")
          /\ UNCHANGED <<route, asked, status, capture, rows>>
        BY <1>12 DEF Feed
    <2>2. Frame(r)
        BY <2>1 DEF Goto, FInv, Frame, Kept
    <2>3. ChunkComes(r, c)
        BY <2>1 DEF Goto, FInv, ChunkComes
    <2> QED
        BY <2>2, <2>3 DEF Kinds
<1>13. ASSUME NEW c \in Chunks, ErrorEvent(r, c)
       PROVE  Frame(r) /\ Kinds(r)
    <2>1. ~Streams(r) /\ pc[r] \in Open
        BY <1>13, FoldingRoute DEF ErrorEvent, Folding, Open
    <2>2. /\ AnswerJson(r, 502, Error) /\ UNCHANGED <<route, asked, capture>>
          /\ Len(seen[r]) < MaxChunks /\ seen' = [seen EXCEPT ![r] = Append(@, c)]
          /\ status' = [status EXCEPT ![r] = 502]
        BY <1>13 DEF ErrorEvent
    <2> QED
        BY <2>1, <2>2, AnswerIs DEF Kinds
<1> QED
    BY <1>1, <1>2, <1>3, <1>4, <1>5, <1>6, <1>7, <1>8, <1>9, <1>10, <1>11, <1>12, <1>13 DEF StepOf

-----------------------------------------------------------------------------

(* Where a request stands and what it has come to. *)
Placed(r) ==
    /\ pc[r] \in {"credential", "begin"} \cup Open => ~By(r, {"refusal"})
    /\ pc[r] \in {"rejected", "reading", "capture"} => ~Posts(r)
    /\ pc[r] = "capture" => By(r, {"Streaming"}) /\ seen[r] # <<>>
    /\ pc[r] \in Before \cup {"asked"} => status[r] = 200
    /\ pc[r] = "rejected" => status[r] = 400
    /\ pc[r] \in {"reading", "capture"} => status[r] \in {200, 400}
    /\ status[r] \in {200, 400, 502, 504}
    /\ pc[r] \in Before \cup {"asked", "rejected"} =>
          seen[r] = <<>> /\ capture[r] = NewCapture /\ client[r] = NewClient(r)
    /\ ~Streams(r) /\ pc[r] \notin Final => client[r] = NewClient(r)
    /\ Len(seen[r]) <= MaxChunks

(* What the accumulator may hold. *)
CaptureFields == {"length", "truncated", "usage", "finish", "tools"}
Fits(k) ==
    /\ k = [f \in CaptureFields |-> k[f]]
    /\ k.length \in Nat /\ k.length <= TextLimit
    /\ k.truncated = TRUE \/ k.truncated = FALSE
    /\ k.truncated = TRUE => k.length = TextLimit

Settled ==
    /\ Shape /\ route \in [Requests -> Routes]
    /\ \A r \in Requests : Placed(r) /\ Fits(capture[r])

LEMMA RouteFacts ==
    ASSUME route \in [Requests -> Routes], NEW r \in Requests
    PROVE  /\ By(r, {"refusal"}) \/ Posts(r) \/ Folding(r) \/ Streams(r)
           /\ ~(By(r, {"refusal"}) /\ Streams(r))
           /\ ~(By(r, {"refusal"}) /\ Posts(r))
           /\ ~(By(r, {"refusal"}) /\ Folding(r))
           /\ ~(Streams(r) /\ (Posts(r) \/ Folding(r)))
           /\ Streams(r) <=> By(r, {"Streaming"}) \/ By(r, {"ResponsesChatStream"})
           /\ ~(By(r, {"Streaming"}) /\ By(r, {"ResponsesChatStream"}))
           /\ By(r, {"ResponsesChatStream"}) => ~ToAnthropic(r) /\ ~ToOpenAI(r) /\ route[r].surface = "responses"
           /\ Folding(r) <=> By(r, {"ResponsesNonStreaming"})
           /\ ~(ToAnthropic(r) /\ route[r].surface = "chat")
<1>1. route[r] \in Routes
    OBVIOUS
<1>2. Handler(route[r]) \in {"refusal", "Streaming", "ResponsesNonStreaming", "ResponsesChatStream",
                             "ResponsesChatOnce", "NonStreaming"}
    <2>1. /\ route[r].surface \in {"chat", "messages", "responses", "images"}
          /\ route[r].format \in {"openai", "anthropic", "responses"}
          /\ route[r].stream \in BOOLEAN
        BY <1>1 DEF Routes, Formats, Surfaces
    <2>2. CASE Refused(route[r])
        BY <2>2 DEF Handler
    <2>3. CASE ~Refused(route[r]) /\ route[r].surface # "responses"
        BY <2>3 DEF Handler
    <2>4. CASE ~Refused(route[r]) /\ route[r].surface = "responses"
        BY <2>1, <2>4 DEF Handler, Refused
    <2> QED
        BY <2>2, <2>3, <2>4
<1>3. Handler(route[r]) = "ResponsesChatStream" => route[r].surface = "responses"
    BY DEF Handler
<1> QED
    BY <1>2, <1>3 DEF By, Streams, Posts, Folding, ToAnthropic, ToOpenAI

LEMMA FirstClient ==
    ASSUME route \in [Requests -> Routes], NEW r \in Requests
    PROVE  /\ NewClient(r).sent = <<>>
           /\ \A x : Emit(NewClient(r), x).sent = Append(<<>>, x)
           /\ By(r, {"ResponsesChatStream"}) => NewClient(r) = NewResponse
           /\ ToAnthropic(r) => NewClient(r) = NewMessage
           /\ ~By(r, {"ResponsesChatStream"}) /\ ~ToAnthropic(r) => NewClient(r) = [sent |-> <<>>]
    BY RouteFacts DEF NewClient, NewResponse, NewMessage, Emit

LEMMA SettledInit == Init => Settled
<1> SUFFICES ASSUME Init PROVE Settled
    OBVIOUS
<1>1. Shape
    BY InitInv, FoldInit DEF Shape, Init
<1>2. ASSUME NEW r \in Requests
      PROVE  Placed(r)
    <2>1. pc[r] = "idle" /\ status[r] = 200 /\ seen[r] = <<>> /\ capture[r] = NewCapture /\ client[r] = NewClient(r)
        BY DEF Init
    <2>2. Len(seen[r]) <= MaxChunks
        BY <2>1, EmptyList, GatewayAssumption
    <2> QED
        BY <2>1, <2>2 DEF Placed, Open, Final
<1>3. ASSUME NEW r \in Requests PROVE Fits(capture[r])
    <2>1. /\ NewCapture.length = 0 /\ NewCapture.truncated = FALSE
          /\ NewCapture = [f \in CaptureFields |-> NewCapture[f]]
        BY DEF NewCapture, CaptureFields
    <2>2. capture[r] = NewCapture
        BY DEF Init
    <2> QED
        BY <2>1, <2>2, TextLimitAssumption DEF Fits
<1> QED
    BY <1>1, <1>2, <1>3 DEF Settled, Init

LEMMA KeptText ==
    ASSUME NEW k, Fits(k), NEW n \in Nat
    PROVE  /\ Fits(KeepText(k, n))
           /\ \A f \in CaptureFields \ {"length", "truncated"} : KeepText(k, n)[f] = k[f]
<1>1. TextLimit \in Nat /\ k.length \in Nat /\ k.length + n \in Nat
    BY TextLimitAssumption DEF Fits
<1>2. CASE k.truncated = TRUE
    BY <1>2 DEF KeepText
<1>3. CASE k.truncated = FALSE /\ k.length + n <= TextLimit
    <2> DEFINE j == [k EXCEPT !.length = k.length + n]
    <2>1. j.length = k.length + n /\ \A f \in CaptureFields \ {"length"} : j[f] = k[f]
        BY DEF Fits, CaptureFields
    <2>2. j = [f \in CaptureFields |-> j[f]]
        BY DEF Fits, CaptureFields
    <2>3. KeepText(k, n) = j
        BY <1>3 DEF KeepText
    <2> HIDE DEF j
    <2>4. j.truncated = FALSE
        BY <1>3, <2>1 DEF CaptureFields
    <2>5. Fits(j)
        BY <1>1, <1>3, <2>1, <2>2, <2>4 DEF Fits
    <2> QED
        BY <2>1, <2>3, <2>5
<1>4. CASE k.truncated = FALSE /\ ~(k.length + n <= TextLimit)
    <2> DEFINE j == [k EXCEPT !.length = TextLimit, !.truncated = TRUE]
    <2>1. /\ j.length = TextLimit /\ j.truncated = TRUE
          /\ \A f \in CaptureFields \ {"length", "truncated"} : j[f] = k[f]
        BY DEF Fits, CaptureFields
    <2>2. j = [f \in CaptureFields |-> j[f]]
        BY DEF Fits, CaptureFields
    <2>3. KeepText(k, n) = j
        BY <1>4 DEF KeepText
    <2> HIDE DEF j
    <2>5. Fits(j)
        BY <1>1, <2>1, <2>2 DEF Fits
    <2> QED
        BY <2>1, <2>3, <2>5
<1> QED
    BY <1>2, <1>3, <1>4 DEF Fits

LEMMA ChunkData ==
    ASSUME NEW c \in Chunks
    PROVE  /\ c.text \in Nat /\ c.thinking \in Nat /\ c.tools \in SUBSET Nat /\ c.usage \in BOOLEAN
           /\ IsFiniteSet(c.tools) /\ Cardinality(c.tools) \in Nat
<1>1. c \in Chunk /\ IsFiniteSet(c.tools)
    BY GatewayAssumption
<1>2. Cardinality(c.tools) \in Nat
    BY <1>1, FS_CardinalityType
<1> QED
    BY <1>1, <1>2 DEF Chunk

LEMMA CaptureStep ==
    ASSUME NEW k, Fits(k), NEW c \in Chunks, NEW i
    PROVE  LET kept == KeepText(KeepText(KeepText(k, c.text), c.thinking), Cardinality(c.tools)) IN
           /\ Fits(kept) /\ Fits(FeedCapture(k, c, i)) /\ kept.usage = k.usage
           /\ FeedCapture(k, c, i).length = kept.length /\ FeedCapture(k, c, i).truncated = kept.truncated
           /\ FeedCapture(k, c, i).usage = IF c.usage THEN i ELSE k.usage
<1> DEFINE said == KeepText(k, c.text)
           thought == KeepText(said, c.thinking)
           kept == KeepText(thought, Cardinality(c.tools))
           fed == FeedCapture(k, c, i)
<1>1. Fits(said) /\ said.usage = k.usage
    BY ChunkData, KeptText DEF CaptureFields
<1>4. fed = [kept EXCEPT !.usage = IF c.usage THEN i ELSE @,
                         !.finish = IF c.finish = "none" THEN @ ELSE c.finish,
                         !.tools = @ \cup c.tools]
    BY DEF FeedCapture
<1> HIDE DEF said, fed
<1>2. Fits(thought) /\ thought.usage = said.usage
    BY <1>1, ChunkData, KeptText DEF CaptureFields
<1> HIDE DEF thought
<1>3. Fits(kept) /\ kept.usage = thought.usage
    BY <1>2, ChunkData, KeptText DEF CaptureFields
<1> HIDE DEF kept
<1>5. /\ fed.length = kept.length /\ fed.truncated = kept.truncated
      /\ fed.usage = (IF c.usage THEN i ELSE kept.usage)
      /\ fed = [f \in CaptureFields |-> fed[f]]
    BY <1>3, <1>4 DEF Fits, CaptureFields
<1>6. Fits(fed)
    BY <1>3, <1>5 DEF Fits
<1> QED
    BY <1>1, <1>2, <1>3, <1>5, <1>6 DEF said, thought, kept, fed

(* What the requests that do not take the step can tell of it. *)
LEMMA OthersStay ==
    ASSUME Settled, NEW r \in Requests, Frame(r), NEW q \in Requests, q # r
    PROVE  Placed(q)' /\ Fits(capture[q])'
<1>1. Kept(q) /\ route'[q] = route[q] /\ Placed(q) /\ Fits(capture[q])
    BY DEF Frame, Settled
<1>2. NewClient(q)' = NewClient(q) /\ (Streams(q)' <=> Streams(q)) /\ (Posts(q)' <=> Posts(q))
      /\ \A h : By(q, h)' <=> By(q, h)
    BY <1>1 DEF NewClient, Streams, Posts, By, ToAnthropic
<1>3. Placed(q)'
    BY <1>1, <1>2 DEF Kept, Placed
<1>4. Fits(capture[q])'
    BY <1>1 DEF Kept
<1> QED
    BY <1>3, <1>4

SamePlace(r) ==
    /\ NewClient(r)' = NewClient(r)
    /\ Streams(r)' <=> Streams(r)
    /\ Posts(r)' <=> Posts(r)
    /\ ToAnthropic(r)' <=> ToAnthropic(r)
    /\ \A h : By(r, h)' <=> By(r, h)

LEMMA RouteStays == ASSUME NEW r, route' = route PROVE SamePlace(r)
    BY DEF SamePlace, NewClient, Streams, Posts, By, ToAnthropic

LEMMA PlacedStep ==
    ASSUME Settled, NEW r \in Requests, Frame(r), Kinds(r)
    PROVE  Placed(r)'
<1>1. SamePlace(r) /\ Placed(r) /\ seen[r] \in Seq(Chunks) /\ Len(seen[r]) \in Nat
    BY RouteStays DEF Frame, Settled, Shape, FInv
<1>2. CASE Early(r)
    BY <1>1, <1>2 DEF Early, SameData, SameTold, Placed, SamePlace, Before, Open, Final
<1>3. CASE TurnedAway(r)
    BY <1>1, <1>3 DEF TurnedAway, SameData, SameTold, Placed, SamePlace, Before, Open, Final
<1>4. CASE HeadersCome(r)
    BY <1>1, <1>4 DEF HeadersCome, SameData, SameTold, Placed, SamePlace, Before, Open, Final
<1>5. ASSUME NEW c \in Chunks, ChunkComes(r, c)
      PROVE  Placed(r)'
    <2>1. Len(seen'[r]) = Len(seen[r]) + 1 /\ Len(seen[r]) + 1 <= MaxChunks /\ seen'[r] # <<>>
        BY <1>1, <1>5, GatewayAssumption DEF ChunkComes
    <2>2. pc'[r] = "capture" => By(r, {"Streaming"})
        BY <1>5 DEF ChunkComes
    <2>3. ~Streams(r) => Translated(r, c) = client[r]
        BY <1>1, <1>5, RouteFacts DEF Translated, ChunkComes, Placed, Open, Settled
    <2> QED
        BY <1>1, <1>5, <2>1, <2>2, <2>3 DEF ChunkComes, Placed, SamePlace, Before, Open, Final
<1>6. CASE Captures(r)
    BY <1>1, <1>6 DEF Captures, SameTold, Placed, SamePlace, Before, Open, Final
<1>7. CASE CrashesAway(r) \/ CutShort(r)
    BY <1>1, <1>7 DEF CrashesAway, CutShort, SameData, SameTold, Placed, SamePlace, Before, Open, Final
<1>8. CASE OnePiece(r)
    <2>1. Len(seen'[r]) <= MaxChunks
        BY <1>1, <1>8, GatewayAssumption DEF OnePiece, Placed
    <2> QED
        BY <1>1, <1>8, <2>1 DEF OnePiece, Placed, SamePlace, Before, Open, Final
<1>9. CASE FailsInStream(r) \/ Closes(r)
    BY <1>1, <1>9 DEF FailsInStream, Closes, SameData, Placed, SamePlace, Before, Open, Final
<1> QED
    BY <1>2, <1>3, <1>4, <1>5, <1>6, <1>7, <1>8, <1>9 DEF Kinds

LEMMA FitsStep ==
    ASSUME Settled, NEW r \in Requests, Frame(r), Kinds(r)
    PROVE  Fits(capture[r])'
<1>1. Fits(capture[r]) /\ seen[r] \in Seq(Chunks) /\ Placed(r)
    BY DEF Settled, Shape, FInv
<1>2. CASE Captures(r)
    <2>1. seen[r] # <<>>
        BY <1>1, <1>2 DEF Captures, Placed
    <2>2. Last(seen[r]) \in Chunks
        BY <1>1, <2>1 DEF Last
    <2> QED
        BY <1>1, <1>2, <2>2, CaptureStep DEF Captures
<1>3. CASE ~Captures(r)
    BY <1>1, <1>3 DEF Kinds, Early, TurnedAway, HeadersCome, ChunkComes, CrashesAway, CutShort,
                      OnePiece, FailsInStream, Closes, SameData
<1> QED
    BY <1>2, <1>3

LEMMA ShapeStep ==
    ASSUME Shape, NEW r \in Requests, StepOf(r)
    PROVE  Shape' /\ Frame(r) /\ Kinds(r)
<1>1. Next
    BY DEF Next, StepOf
<1>2. IInv' /\ FInv'
    BY <1>1, NextInv, FoldNext DEF Shape
<1>3. Frame(r) /\ Kinds(r)
    BY StepKinds
<1> QED
    BY <1>2, <1>3 DEF Shape, Frame

LEMMA SettledNext == Settled /\ [Next]_vars => Settled'
<1> SUFFICES ASSUME Settled, [Next]_vars
             PROVE  Settled'
    OBVIOUS
<1>1. CASE UNCHANGED vars
    <2>1. Shape'
        BY <1>1, NextInv, FoldNext DEF Settled, Shape, vars
    <2>2. ASSUME NEW r \in Requests PROVE Placed(r)' /\ Fits(capture[r])'
        <3>1. SamePlace(r) /\ Placed(r) /\ Fits(capture[r])
            BY <1>1, RouteStays DEF vars, Settled
        <3> QED
            BY <1>1, <3>1 DEF vars, Placed, SamePlace
    <2> QED
        BY <1>1, <2>1, <2>2 DEF Settled, vars
<1>2. ASSUME NEW r \in Requests, StepOf(r) PROVE Settled'
    <2>1. Shape' /\ Frame(r) /\ Kinds(r)
        BY <1>2, ShapeStep DEF Settled
    <2>2. \A q \in Requests : Placed(q)' /\ Fits(capture[q])'
        BY <2>1, OthersStay, PlacedStep, FitsStep
    <2> QED
        BY <2>1, <2>2 DEF Settled, Frame
<1> QED
    BY <1>1, <1>2 DEF Next, StepOf

(* A request in flight has a route the gateway can take and a status an upstream    *)
(* may give, has seen no more chunks than there are, and keeps of their text no     *)
(* more than the limit: of a text that was cut, exactly the limit                   *)
(* (StreamAccumulator in stream_capture.py).                                        *)
THEOREM TypeInvariance == Spec => []TypeOK
<1>1. ASSUME Settled PROVE TypeOK
    <2>1. /\ pc \in [Requests -> Before \cup Open \cup Final] /\ route \in [Requests -> Routes]
          /\ asked \subseteq Requests /\ status = [r \in Requests |-> status[r]]
          /\ seen \in [Requests -> Seq(Chunks)]
        BY <1>1 DEF Settled, Shape, IInv, FInv
    <2>2. status \in [Requests -> {200, 400, 502, 504}]
        BY <1>1, <2>1 DEF Settled, Placed
    <2>3. \A r \in Requests : Len(seen[r]) <= MaxChunks
        BY <1>1 DEF Settled, Placed
    <2>4. \A r \in Requests : /\ capture[r].length \in 0 .. TextLimit
                              /\ capture[r].truncated => capture[r].length = TextLimit
        <3> TAKE r \in Requests
        <3>1. Fits(capture[r]) /\ TextLimit \in Nat
            BY <1>1, TextLimitAssumption DEF Settled
        <3>2. capture[r].length \in 0 .. TextLimit
            BY <3>1 DEF Fits
        <3>3. capture[r].truncated => capture[r].length = TextLimit
            BY <3>1, Zenon DEF Fits
        <3> QED
            BY <3>2, <3>3
    <2> QED
        BY <2>1, <2>2, <2>3, <2>4 DEF TypeOK, Before, Open, Final
<1> QED
    BY <1>1, SettledInit, SettledNext, PTL DEF Spec

-----------------------------------------------------------------------------

(* What was told, while the handler goes on and after it. *)
Telling(r) ==
    pc[r] \notin Final /\ Streams(r) =>
        /\ By(r, {"ResponsesChatStream"}) => ResponseInv(client[r])
        /\ ToAnthropic(r) => MessageInv(client[r])
        /\ ~By(r, {"ResponsesChatStream"}) /\ ~ToAnthropic(r) =>
              client[r] = [sent |-> Sent(r)] /\ IsList(Sent(r)) /\ Sound(Sent(r))

Told(r) ==
    r \in asked /\ Streams(r) =>
        /\ By(r, {"ResponsesChatStream"}) => ResponseNests(Sent(r))
        /\ ToAnthropic(r) => EventsNest(Sent(r))

Outcome(r) ==
    pc[r] = "answered" /\ rows[r] # <<>> =>
        LET code == rows[r][1].status IN
        /\ ~Streams(r) => Last(Sent(r)) = Json(code)
        /\ Types(r) \cap {"error", "response.failed"} # {} => code >= 400
        /\ code < 400 /\ route[r].surface = "chat" /\ Streams(r) => Last(Sent(r)).type = "[DONE]"
        /\ code < 400 /\ By(r, {"ResponsesChatStream"}) => Last(Sent(r)).type = "response.completed"
        /\ code < 400 /\ ToAnthropic(r) /\ Streams(r) /\ Sent(r) # <<>> => Last(Sent(r)).type = "message_stop"


TellInv ==
    /\ Settled
    /\ \A r \in Requests : Telling(r) /\ Told(r) /\ Outcome(r)

LEMMA TellingInit == Init => TellInv
<1> SUFFICES ASSUME Init PROVE TellInv
    OBVIOUS
<1>1. Settled
    BY SettledInit
<1>2. ASSUME NEW r \in Requests PROVE Telling(r) /\ Told(r) /\ Outcome(r)
    <2>1. client[r] = NewClient(r) /\ pc[r] = "idle" /\ r \notin asked
        BY DEF Init
    <2>2. Sound(<<>>) /\ IsList(<<>>)
        BY EmptyList DEF Sound
    <2>3. Telling(r)
        BY <1>1, <2>1, <2>2, FirstClient, MessageStarts, ResponseStarts DEF Telling, Settled, Sent
    <2> QED
        BY <2>1, <2>3 DEF Told, Outcome
<1> QED
    BY <1>1, <1>2 DEF TellInv

(* A stream that goes on: its client has a list of events, none of them a failure. *)
LEMMA StreamClient ==
    ASSUME TellInv, NEW r \in Requests, Streams(r), pc[r] \notin Final
    PROVE  /\ IsList(Sent(r)) /\ Sound(Sent(r))
           /\ \A x : Emit(client[r], x).sent = Append(Sent(r), x)
           /\ route[r].surface = "chat" => client[r] = [sent |-> Sent(r)]
           /\ ToAnthropic(r) => EventsNest(Sent(r))
           /\ By(r, {"ResponsesChatStream"}) => ResponseNests(Sent(r))
<1>1. Telling(r) /\ route \in [Requests -> Routes]
    BY DEF TellInv, Settled
<1>2. CASE By(r, {"ResponsesChatStream"})
    <2>1. ResponseInv(client[r]) /\ ~ToAnthropic(r) /\ route[r].surface # "chat"
        BY <1>1, <1>2, RouteFacts DEF Telling
    <2>2. IsList(Sent(r)) /\ Sound(Sent(r)) /\ IsResponse(client[r])
        BY <2>1 DEF ResponseInv, Begun, Sent
    <2> QED
        BY <2>1, <2>2, EmittedResponse, BegunNests DEF Sent
<1>3. CASE ToAnthropic(r)
    <2>1. MessageInv(client[r]) /\ ~By(r, {"ResponsesChatStream"}) /\ route[r].surface # "chat"
        BY <1>1, <1>3, RouteFacts DEF Telling
    <2>2. IsList(Sent(r)) /\ Sound(Sent(r)) /\ IsMessage(client[r]) /\ EventsNest(Sent(r))
        BY <2>1 DEF MessageInv, Sent
    <2> QED
        BY <2>1, <2>2, Emitted DEF Sent
<1>4. CASE ~By(r, {"ResponsesChatStream"}) /\ ~ToAnthropic(r)
    <2>1. client[r] = [sent |-> Sent(r)] /\ IsList(Sent(r)) /\ Sound(Sent(r))
        BY <1>1, <1>4 DEF Telling
    <2>2. \A x : Emit(client[r], x).sent = Append(Sent(r), x)
        BY <2>1 DEF Emit
    <2> QED
        BY <1>4, <2>1, <2>2
<1> QED
    BY <1>2, <1>3, <1>4

LEMMA PlainEmit ==
    ASSUME NEW m, NEW s, m = [sent |-> s], IsList(s), NEW x
    PROVE  /\ Emit(m, x) = [sent |-> Append(s, x)] /\ IsList(Append(s, x))
           /\ Sound(s) /\ x.type \notin Failures => Sound(Append(s, x))
    BY Appended, SoundOn DEF Emit

LEMMA TellingStep ==
    ASSUME TellInv, NEW r \in Requests, Frame(r), Kinds(r)
    PROVE  Telling(r)'
<1>1. SamePlace(r) /\ Telling(r) /\ route \in [Requests -> Routes]
    BY RouteStays DEF Frame, TellInv, Settled
<1>2. CASE client'[r] = client[r] /\ (pc'[r] \notin Final => pc[r] \notin Final)
    BY <1>1, <1>2 DEF Telling, SamePlace, Sent
<1>3. ASSUME NEW c \in Chunks, ChunkComes(r, c)
      PROVE  Telling(r)'
    <2>1. client'[r] = Translated(r, c) /\ pc[r] \notin Final
        BY <1>3 DEF ChunkComes, Final
    <2>2. SUFFICES ASSUME Streams(r)
                   PROVE  /\ By(r, {"ResponsesChatStream"}) => ResponseInv(client'[r])
                          /\ ToAnthropic(r) => MessageInv(client'[r])
                          /\ ~By(r, {"ResponsesChatStream"}) /\ ~ToAnthropic(r) =>
                                /\ client'[r] = [sent |-> client'[r].sent]
                                /\ IsList(client'[r].sent) /\ Sound(client'[r].sent)
        BY <1>1 DEF Telling, SamePlace, Sent
    <2>3. CASE By(r, {"ResponsesChatStream"})
        <3>1. ResponseInv(client[r]) /\ client'[r] = FeedResponse(client[r], c) /\ ~ToAnthropic(r)
            BY <1>1, <2>1, <2>2, <2>3, RouteFacts DEF Translated, Telling
        <3> QED
            BY <2>3, <3>1, ChunkData, FeedResponseKeeps
    <2>4. CASE ToAnthropic(r)
        <3>1. MessageInv(client[r]) /\ client'[r] = FeedMessage(client[r], c) /\ ~By(r, {"ResponsesChatStream"})
            <4>1. ~By(r, {"ResponsesChatStream"})
                BY <1>1, <2>4, RouteFacts
            <4>2. MessageInv(client[r])
                BY <1>1, <2>1, <2>2, <2>4 DEF Telling
            <4>3. ~ToOpenAI(r)
                BY <2>4 DEF ToOpenAI, ToAnthropic
            <4>4. ~By(r, {"ResponsesNonStreaming"})
                BY <1>1, <2>2, RouteFacts
            <4>5. Translated(r, c) = FeedMessage(client[r], c)
                BY <2>4, <4>1, <4>3, <4>4 DEF Translated
            <4> QED
                BY <2>1, <4>1, <4>2, <4>5
        <3> QED
            BY <2>4, <3>1, FeedMessageKeeps
    <2>5. CASE ~By(r, {"ResponsesChatStream"}) /\ ~ToAnthropic(r)
        <3>1. client[r] = [sent |-> Sent(r)] /\ IsList(Sent(r)) /\ Sound(Sent(r))
            BY <1>1, <2>1, <2>2, <2>5 DEF Telling
        <3>2. client'[r] = IF ToOpenAI(r) THEN FeedChat(client[r], c)
                           ELSE Emit(client[r], [type |-> "data", chunk |-> c])
            BY <1>1, <2>1, <2>2, <2>5, RouteFacts DEF Translated
        <3>3. client'[r] = client[r] \/ \E x : x.type \notin Failures /\ client'[r] = Emit(client[r], x)
            BY <3>2 DEF FeedChat, Failures
        <3>4. /\ client'[r] = [sent |-> client'[r].sent]
              /\ IsList(client'[r].sent) /\ Sound(client'[r].sent)
            <4>1. CASE client'[r] = client[r]
                BY <3>1, <4>1 DEF Sent
            <4>2. ASSUME NEW x, x.type \notin Failures, client'[r] = Emit(client[r], x)
                  PROVE  /\ client'[r] = [sent |-> client'[r].sent]
                         /\ IsList(client'[r].sent) /\ Sound(client'[r].sent)
                <5>1. client'[r] = [sent |-> Append(Sent(r), x)] /\ IsList(Append(Sent(r), x)) /\ Sound(Append(Sent(r), x))
                    BY <3>1, <4>2, PlainEmit
                <5> QED
                    BY <5>1
            <4> QED
                BY <3>3, <4>1, <4>2
        <3> QED
            BY <2>5, <3>4
    <2> QED
        BY <2>3, <2>4, <2>5
<1>4. CASE pc'[r] \in Final
    BY <1>4 DEF Telling
<1> QED
    BY <1>2, <1>3, <1>4 DEF Kinds, Early, TurnedAway, HeadersCome, Captures, CrashesAway, CutShort, OnePiece,
                            FailsInStream, Closes, SameTold, Final

(* An event that tells of a failure fits behind any others. *)
LEMMA FailureFits ==
    ASSUME NEW s, IsList(s), EventsNest(s), NEW x, x.type = "error"
    PROVE  EventsNest(Append(s, x))
    BY NestsOn DEF FitsNext

LEMMA ToldStep ==
    ASSUME TellInv, NEW r \in Requests, Frame(r), Kinds(r)
    PROVE  Told(r)'
<1>1. SamePlace(r) /\ Telling(r) /\ Told(r) /\ route \in [Requests -> Routes] /\ Placed(r) /\ IInv
    BY RouteStays DEF Frame, TellInv, Settled, Shape
<1>2. Telling(r)'
    BY TellingStep
<1> SUFFICES ASSUME r \in asked', Streams(r)
             PROVE  /\ By(r, {"ResponsesChatStream"}) => ResponseNests(client'[r].sent)
                    /\ ToAnthropic(r) => EventsNest(client'[r].sent)
    BY <1>1 DEF Told, SamePlace, Sent
<1>3. CASE pc'[r] \notin Final
    <2>1. /\ By(r, {"ResponsesChatStream"}) => ResponseInv(client'[r])
          /\ ToAnthropic(r) => MessageInv(client'[r])
        BY <1>1, <1>2, <1>3 DEF Telling, SamePlace
    <2> QED
        BY <2>1, BegunNests DEF MessageInv
<1>4. CASE CutShort(r)
    <2>1. client'[r] = client[r] /\ pc[r] \notin Final
        BY <1>4 DEF CutShort, Logged1, Open, Final
    <2> QED
        BY <2>1, StreamClient DEF Sent
<1>5. CASE FailsInStream(r)
    <2>1. pc[r] \notin Final
        BY <1>5 DEF FailsInStream, Logged1, Open, Final
    <2>2. CASE By(r, {"ResponsesChatStream"})
        <3>1. route[r].surface # "chat" /\ ErrorFrame(r).type = "response.failed" /\ ~ToAnthropic(r)
            BY <1>1, <2>2, RouteFacts DEF ErrorFrame
        <3>2. client'[r].sent = Append(client[r].sent, ErrorFrame(r)) /\ ResponseInv(client[r])
            BY <1>1, <1>5, <2>1, <2>2, <3>1, StreamClient DEF FailsInStream, Telling, Sent
        <3> QED
            BY <3>1, <3>2, FailedNests
    <2>3. CASE ToAnthropic(r)
        <3>1. route[r].surface # "chat" /\ ~By(r, {"ResponsesChatStream"})
            BY <1>1, <2>3, RouteFacts DEF ToAnthropic
        <3>2. ErrorFrame(r).type = "error"
            BY <3>1 DEF ErrorFrame
        <3>3. client'[r].sent = Append(Sent(r), ErrorFrame(r)) /\ IsList(Sent(r)) /\ EventsNest(Sent(r))
            BY <1>5, <2>1, <2>3, <3>1, StreamClient DEF FailsInStream
        <3> QED
            BY <3>1, <3>2, <3>3, FailureFits
    <2> QED
        BY <2>2, <2>3
<1>6. CASE Closes(r)
    <2>1. pc[r] \notin Final /\ client'[r] = Closed(r)
        BY <1>6 DEF Closes, Final
    <2>2. CASE By(r, {"ResponsesChatStream"})
        <3>1. ResponseInv(client[r]) /\ ~ToAnthropic(r) /\ route[r].surface # "chat"
            BY <1>1, <2>1, <2>2, RouteFacts DEF Telling
        <3>2. Closed(r) = FinishResponse(client[r])
            BY <2>2, <3>1 DEF Closed
        <3> QED
            BY <2>1, <3>1, <3>2, FinishedNests
    <2>3. CASE ToAnthropic(r)
        <3>1. route[r].surface # "chat" /\ ~By(r, {"ResponsesChatStream"})
            BY <1>1, <2>3, RouteFacts DEF ToAnthropic
        <3>2. MessageInv(client[r])
            BY <1>1, <2>1, <2>3 DEF Telling
        <3>3. Closed(r) = FlushMessage(client[r])
            BY <2>3, <3>1 DEF Closed
        <3> QED
            BY <2>1, <3>1, <3>2, <3>3, FlushMessageKeeps DEF MessageInv
    <2> QED
        BY <2>2, <2>3
<1>7. ~TurnedAway(r) /\ ~OnePiece(r) /\ ~CrashesAway(r)
    BY DEF TurnedAway, OnePiece, CrashesAway
<1>8. Early(r) => pc'[r] \notin Final
    BY DEF Early, Final
<1> QED
    BY <1>3, <1>4, <1>5, <1>6, <1>7, <1>8 DEF Kinds, HeadersCome, ChunkComes, Captures, Final

LEMMA OneFrame ==
    ASSUME NEW s, s = <<>>, NEW x
    PROVE  Last(Append(s, x)) = x /\ \A i \in DOMAIN Append(s, x) : Append(s, x)[i] = x
<1>1. IsList(s) /\ DOMAIN s = {}
    BY EmptyList
<1>2. DOMAIN Append(s, x) = DOMAIN s \cup {Len(s) + 1} /\ Append(s, x)[Len(s) + 1] = x /\ Last(Append(s, x)) = x
    BY <1>1, Appended
<1> QED
    BY <1>1, <1>2

LEMMA OutcomeStep ==
    ASSUME TellInv, NEW r \in Requests, Frame(r), Kinds(r)
    PROVE  Outcome(r)'
<1>1. SamePlace(r) /\ Telling(r) /\ route \in [Requests -> Routes] /\ route' = route /\ Placed(r) /\ IInv
    BY RouteStays DEF Frame, TellInv, Settled, Shape
<1> DEFINE s == client'[r].sent
           code == rows'[r][1].status
<1> SUFFICES ASSUME pc'[r] = "answered", rows'[r] # <<>>
             PROVE  /\ ~Streams(r) => Last(s) = Json(code)
                    /\ {s[i].type : i \in DOMAIN s} \cap Failures # {} => code >= 400
                    /\ code < 400 /\ route[r].surface = "chat" /\ Streams(r) => Last(s).type = "[DONE]"
                    /\ code < 400 /\ By(r, {"ResponsesChatStream"}) => Last(s).type = "response.completed"
                    /\ code < 400 /\ ToAnthropic(r) /\ Streams(r) /\ s # <<>> => Last(s).type = "message_stop"
    BY <1>1 DEF Outcome, SamePlace, Sent, Types, Failures
<1>2. CASE OnePiece(r)
    <2>1. PICK k, what : Logged1(r, k, what) /\ client'[r] = Emit(client[r], Json(k))
        BY <1>2 DEF OnePiece
    <2>2. ~Streams(r) /\ pc[r] \notin Final
        BY <1>2, <2>1 DEF OnePiece, Logged1, Open, Final
    <2>3. client[r] = NewClient(r) /\ ~By(r, {"ResponsesChatStream"})
        BY <1>1, <2>2, RouteFacts DEF Placed
    <2>4. s = Append(<<>>, Json(k)) /\ code = k
        BY <1>1, <2>1, <2>3, FirstClient DEF Logged1, Row
    <2>5. Last(s) = Json(code) /\ \A i \in DOMAIN s : s[i].type = "json"
        <3>1. /\ Last(Append(<<>>, Json(k))) = Json(k)
              /\ \A i \in DOMAIN Append(<<>>, Json(k)) : Append(<<>>, Json(k))[i] = Json(k)
            BY OneFrame
        <3>2. Last(s) = Json(k) /\ \A i \in DOMAIN s : s[i] = Json(k)
            BY <2>4, <3>1
        <3>3. Json(k).type = "json"
            BY DEF Json
        <3> HIDE DEF s
        <3> QED
            BY <2>4, <3>2, <3>3
    <2> QED
        BY <2>2, <2>3, <2>5 DEF Failures
<1>3. CASE FailsInStream(r)
    <2>1. code = status'[r] /\ Streams(r)
        BY <1>3 DEF FailsInStream, Logged1, Row
    <2>2. code \in {400, 502, 504}
        BY <1>1, <1>3, <2>1 DEF FailsInStream, Placed
    <2> QED
        BY <2>1, <2>2
<1>4. CASE Closes(r)
    <2>1. /\ client'[r] = Closed(r) /\ code = status[r] /\ pc[r] = "reading" /\ pc[r] \notin Final
        BY <1>4 DEF Closes, Logged1, Row, Final
    <2>2. Streams(r)
        BY <1>1, <1>4, <2>1, RouteFacts DEF Closes, Placed, Open
    <2>3. CASE By(r, {"ResponsesChatStream"})
        <3>1. ResponseInv(client[r]) /\ ~ToAnthropic(r) /\ route[r].surface # "chat"
            BY <1>1, <2>1, <2>2, <2>3, RouteFacts DEF Telling
        <3>2. Closed(r) = FinishResponse(client[r])
            BY <2>3, <3>1 DEF Closed
        <3>3. Last(s).type = "response.completed" /\ Sound(s)
            BY <2>1, <3>1, <3>2, FinishedNests
        <3> QED
            BY <2>2, <3>1, <3>3 DEF Sound
    <2>4. CASE ToAnthropic(r)
        <3>1. route[r].surface # "chat" /\ ~By(r, {"ResponsesChatStream"})
            BY <1>1, <2>4, RouteFacts DEF ToAnthropic
        <3>2. MessageInv(client[r])
            BY <1>1, <2>1, <2>2, <2>4 DEF Telling
        <3>3. Closed(r) = FlushMessage(client[r])
            BY <2>4, <3>1 DEF Closed
        <3>4. Sound(s) /\ (s # <<>> => Last(s).type = "message_stop")
            <4> DEFINE f == FlushMessage(client[r])
            <4>1. MessageInv(f) /\ (f.sent # <<>> => Last(f.sent).type = "message_stop")
                BY <3>2, FlushMessageKeeps
            <4>2. s = f.sent
                BY <2>1, <3>3
            <4> HIDE DEF f
            <4>3. Sound(f.sent)
                BY <4>1 DEF MessageInv
            <4> QED
                BY <4>1, <4>2, <4>3
        <3> QED
            BY <2>2, <3>1, <3>4 DEF Sound
    <2>5. CASE ~By(r, {"ResponsesChatStream"}) /\ ~ToAnthropic(r)
        <3>1. client[r] = [sent |-> Sent(r)] /\ IsList(Sent(r)) /\ Sound(Sent(r))
            BY <1>1, <2>1, <2>2, <2>5 DEF Telling
        <3>2. CASE route[r].surface = "chat"
            <4> DEFINE x == [type |-> "[DONE]"]
            <4>1. Closed(r) = Emit(client[r], x)
                BY <2>5, <3>2 DEF Closed
            <4>2. x.type = "[DONE]" /\ x.type \notin Failures
                BY DEF Failures
            <4> HIDE DEF x
            <4>3. Closed(r) = [sent |-> Append(Sent(r), x)] /\ Sound(Append(Sent(r), x))
                BY <3>1, <4>1, <4>2, PlainEmit
            <4>4. s = Append(Sent(r), x)
                BY <2>1, <4>3
            <4>5. Last(s) = x /\ Sound(s)
                BY <3>1, <4>3, <4>4, Appended
            <4> QED
                BY <2>2, <2>5, <4>2, <4>5 DEF Sound
        <3>3. CASE route[r].surface # "chat"
            <4>1. client'[r] = client[r]
                BY <2>1, <2>5, <3>3 DEF Closed
            <4>2. s = Sent(r) /\ Sound(s)
                BY <3>1, <4>1 DEF Sent
            <4> QED
                BY <2>2, <2>5, <3>3, <4>2 DEF Sound
        <3> QED
            BY <3>2, <3>3
    <2> QED
        BY <2>3, <2>4, <2>5
<1>5. ~TurnedAway(r)
    BY <1>1 DEF TurnedAway, IInv
<1> QED
    BY <1>2, <1>3, <1>4, <1>5 DEF Kinds, Early, HeadersCome, ChunkComes, Captures, CrashesAway, CutShort

LEMMA OthersTold ==
    ASSUME TellInv, NEW r \in Requests, Frame(r), NEW q \in Requests, q # r
    PROVE  Telling(q)' /\ Told(q)' /\ Outcome(q)'
<1>1. Kept(q) /\ route' = route /\ SamePlace(q) /\ Telling(q) /\ Told(q) /\ Outcome(q)
    BY RouteStays DEF Frame, TellInv
<1>2. Telling(q)' /\ Told(q)'
    BY <1>1 DEF Kept, Telling, Told, Sent, SamePlace
<1>3. Outcome(q)'
    BY <1>1 DEF Kept, Outcome, Sent, SamePlace, Types
<1> QED
    BY <1>2, <1>3

LEMMA TellingNext == TellInv /\ [Next]_vars => TellInv'
<1> SUFFICES ASSUME TellInv, [Next]_vars PROVE TellInv'
    OBVIOUS
<1>1. Settled'
    BY SettledNext DEF TellInv
<1>2. CASE UNCHANGED vars
    <2>1. ASSUME NEW q \in Requests PROVE Telling(q)' /\ Told(q)' /\ Outcome(q)'
        <3>1. SamePlace(q) /\ Telling(q) /\ Told(q) /\ Outcome(q)
            BY <1>2, RouteStays DEF vars, TellInv
        <3> QED
            BY <1>2, <3>1 DEF vars, Telling, Told, Outcome, Sent, Types, SamePlace
    <2> QED
        BY <1>1, <2>1 DEF TellInv
<1>3. ASSUME NEW r \in Requests, StepOf(r) PROVE TellInv'
    <2>1. Frame(r) /\ Kinds(r)
        BY <1>3, ShapeStep DEF TellInv, Settled
    <2>2. \A q \in Requests : Telling(q)' /\ Told(q)' /\ Outcome(q)'
        BY <2>1, OthersTold, TellingStep, ToldStep, OutcomeStep
    <2> QED
        BY <1>1, <2>2 DEF TellInv
<1> QED
    BY <1>2, <1>3 DEF Next, StepOf

(* The row of a request says of it what its client was told: the status of the      *)
(* answer, or a success for a stream that was brought to its end and a failure for  *)
(* one that ended with an error, in each of the protocols (the handlers of          *)
(* server.py and what they log).                                                    *)
THEOREM RowsTell == Spec => []RowTellsOutcome
<1>1. TellInv => RowTellsOutcome
    BY DEF TellInv, Outcome, RowTellsOutcome
<1> QED
    BY <1>1, TellingInit, TellingNext, PTL DEF Spec

(* However text and reasoning come and wherever the upstream stops, the blocks of a *)
(* stream translated for a Messages client are numbered in order, opened and closed *)
(* one after another, and inside the message.                                       *)
THEOREM MessagesNest == Spec => []MessageEventsNest
<1>1. ASSUME TellInv PROVE MessageEventsNest
    <2>1. \A r \in asked : ToAnthropic(r) /\ Streams(r) => EventsNest(Sent(r))
        BY <1>1 DEF TellInv, Told, Settled, Shape, FInv
    <2> QED
        <3> SUFFICES ASSUME NEW r \in asked, ToAnthropic(r), Streams(r)
                     PROVE  LET s == Sent(r)
                                opened(i) == Upto(s, "content_block_start", i)
                                closed(i) == Upto(s, "content_block_stop", i)
                            IN  /\ At(s, "message_start") \subseteq {1}
                                /\ \A i \in DOMAIN s : i > 1 /\ s[i].type # "error" => s[1].type = "message_start"
                                /\ \A i \in At(s, "content_block_start") :
                                      s[i].index = Cardinality(opened(i)) /\ Cardinality(closed(i)) = s[i].index
                                /\ \A i \in At(s, "content_block_delta") \cup At(s, "content_block_stop") :
                                      /\ Cardinality(opened(i)) = Cardinality(closed(i)) + 1
                                      /\ \E j \in opened(i) : s[j].index = s[i].index /\ s[j].kind = s[i].kind
                                      /\ s[i].index = Cardinality(closed(i))
                                /\ \A i \in At(s, "message_stop") :
                                      /\ Cardinality(opened(i)) = Cardinality(closed(i))
                                      /\ \A j \in DOMAIN s : j > i => s[j].type = "error"
            BY DEF MessageEventsNest, Upto, At
        <3> DEFINE s == Sent(r)
        <3>1. EventsNest(s)
            BY <2>1
        <3>2. \A i \in DOMAIN s : EventFits(s, i)
            BY <3>1 DEF EventsNest
        <3>3. \A type : At(s, type) \subseteq DOMAIN s /\ \A i \in At(s, type) : s[i].type = type
            BY DEF At
        <3>4. \A i \in At(s, "message_stop") : \A j \in DOMAIN s : j > i => s[j].type = "error"
            BY <3>1 DEF EventsNest
        <3> HIDE DEF s
        <3>5. At(s, "message_start") \subseteq {1}
            BY <3>2, <3>3 DEF EventFits
        <3>6. \A i \in DOMAIN s : i > 1 /\ s[i].type # "error" => s[1].type = "message_start"
            BY <3>2 DEF EventFits
        <3>7. \A i \in At(s, "content_block_start") :
                 /\ s[i].index = Cardinality(Upto(s, "content_block_start", i))
                 /\ Cardinality(Upto(s, "content_block_stop", i)) = s[i].index
            BY <3>2, <3>3 DEF EventFits
        <3>8. \A i \in At(s, "content_block_delta") \cup At(s, "content_block_stop") :
                 LET opened == Upto(s, "content_block_start", i)
                     closed == Upto(s, "content_block_stop", i)
                 IN  /\ Cardinality(opened) = Cardinality(closed) + 1
                     /\ \E j \in opened : s[j].index = s[i].index /\ s[j].kind = s[i].kind
                     /\ s[i].index = Cardinality(closed)
            BY <3>2, <3>3 DEF EventFits
        <3>9. \A i \in At(s, "message_stop") :
                 Cardinality(Upto(s, "content_block_start", i)) = Cardinality(Upto(s, "content_block_stop", i))
            BY <3>2, <3>3 DEF EventFits
        <3> QED
            BY <3>4, <3>5, <3>6, <3>7, <3>8, <3>9 DEF s
<1> QED
    BY <1>1, TellingInit, TellingNext, PTL DEF Spec

(* Whatever texts and tool calls come and wherever the upstream stops, the events   *)
(* of a translated Responses stream open and close every item once, tell the text   *)
(* that is in the closing object, and end with one frame.                           *)
THEOREM ResponsesNest == Spec => []ResponseEventsNest
<1>1. ASSUME TellInv PROVE ResponseEventsNest
    <2>1. \A r \in asked : By(r, {"ResponsesChatStream"}) => ResponseNests(Sent(r))
        BY <1>1 DEF TellInv, Told, Settled, Shape, FInv, Streams, By
    <2> QED
        BY <2>1 DEF ResponseEventsNest, ResponseNests, CreatedAt, Parts, Deltas, TextsDone, ItemsDone, Completed,
                    Failed, CallsDone, Spoken, At
<1> QED
    BY <1>1, TellingInit, TellingNext, PTL DEF Spec

-----------------------------------------------------------------------------
(* What the accumulator holds of the chunks it was given. *)

Used(s) == {i \in DOMAIN s : s[i].usage}
LastUsed(s) == IF Used(s) = {} THEN 0 ELSE CHOOSE i \in Used(s) : \A j \in Used(s) : j <= i

(* So much text has come. *)
Holds(k, n) ==
    /\ k.length = IF n > TextLimit THEN TextLimit ELSE n
    /\ k.truncated = TRUE \/ k.truncated = FALSE
    /\ k.truncated = TRUE <=> n > TextLimit

Captured(k, s) == Holds(k, Held(s)) /\ k.usage = LastUsed(s)

Given(r) == IF pc[r] = "capture" THEN Front(seen[r]) ELSE seen[r]

Holding(r) ==
    By(r, {"Streaming"}) =>
        /\ pc[r] \notin Final => Captured(capture[r], Given(r))
        /\ rows[r] # <<>> =>
              LET body == rows[r][1].body.body
              IN  \/ Captured(body, seen[r])
                  \/ pc[r] = "left" /\ seen[r] # <<>> /\ Captured(body, Front(seen[r]))

CaptureInv == Settled /\ \A r \in Requests : Holding(r)

LEMMA HoldsMore ==
    ASSUME NEW k, Fits(k), NEW n \in Nat, Holds(k, n), NEW d \in Nat
    PROVE  Fits(KeepText(k, d)) /\ Holds(KeepText(k, d), n + d)
<1>1. TextLimit \in Nat /\ k.length \in Nat /\ k = [f \in CaptureFields |-> k[f]]
    BY TextLimitAssumption DEF Fits
<1>2. CASE k.truncated = TRUE
    <2>1. KeepText(k, d) = k
        BY <1>2 DEF KeepText
    <2>2. n > TextLimit /\ n + d > TextLimit /\ k.length = TextLimit
        BY <1>1, <1>2 DEF Holds
    <2>3. Holds(k, n + d)
        BY <1>2, <2>2 DEF Holds
    <2> QED
        BY <2>1, <2>3
<1>3. CASE k.truncated = FALSE /\ k.length + d <= TextLimit
    <2> DEFINE j == KeepText(k, d)
    <2>1. j = [k EXCEPT !.length = k.length + d]
        BY <1>3 DEF KeepText
    <2>2. j.length = k.length + d /\ j.truncated = FALSE
        BY <1>1, <1>3, <2>1 DEF CaptureFields
    <2> HIDE DEF j
    <2>3. ~(n > TextLimit) /\ k.length = n
        BY <1>3 DEF Holds
    <2>4. ~(n + d > TextLimit)
        BY <1>1, <1>3, <2>3
    <2>5. Holds(j, n + d)
        BY <2>2, <2>3, <2>4 DEF Holds
    <2> QED
        BY <2>5, KeptText DEF j
<1>4. CASE k.truncated = FALSE /\ ~(k.length + d <= TextLimit)
    <2> DEFINE j == KeepText(k, d)
    <2>1. j = [k EXCEPT !.length = TextLimit, !.truncated = TRUE]
        BY <1>4 DEF KeepText
    <2>2. j.length = TextLimit /\ j.truncated = TRUE
        BY <1>1, <2>1 DEF CaptureFields
    <2> HIDE DEF j
    <2>3. ~(n > TextLimit) /\ k.length = n
        BY <1>4 DEF Holds
    <2>4. n + d > TextLimit
        BY <1>1, <1>4, <2>3
    <2>5. Holds(j, n + d)
        BY <2>2, <2>4 DEF Holds
    <2> QED
        BY <2>5, KeptText DEF j
<1> QED
    BY <1>2, <1>3, <1>4 DEF Fits

LEMMA UsedNext ==
    ASSUME NEW s, IsList(s), NEW c
    PROVE  LastUsed(Append(s, c)) = IF c.usage THEN Len(s) + 1 ELSE LastUsed(s)
<1> DEFINE t == Append(s, c)
           n == Len(s) + 1
<1>1. /\ DOMAIN t = DOMAIN s \cup {n} /\ n \notin DOMAIN s /\ t[n] = c
      /\ \A i \in DOMAIN s : t[i] = s[i]
      /\ DOMAIN s = 1 .. Len(s) /\ Len(s) \in Nat
    BY Appended, ListDomain
<1> HIDE DEF t
<1>2. CASE c.usage
    <2>1. n \in Used(t) /\ \A j \in Used(t) : j \in Nat /\ j <= n
        BY <1>1, <1>2 DEF Used
    <2> DEFINE m == CHOOSE i \in Used(t) : \A j \in Used(t) : j <= i
    <2>2. m \in Used(t) /\ \A j \in Used(t) : j <= m
        BY <2>1
    <2>3. m = n
        BY <1>1, <2>1, <2>2
    <2> QED
        BY <1>2, <2>1, <2>3 DEF LastUsed, t
<1>3. CASE ~c.usage
    <2>1. Used(t) = Used(s)
        BY <1>1, <1>3 DEF Used
    <2> QED
        BY <1>3, <2>1 DEF LastUsed, t
<1> QED
    BY <1>2, <1>3

LEMMA ChunksWeigh == ASSUME NEW s \in Seq(Chunks) PROVE IsList(s) /\ Weighed(s) /\ Held(s) \in Nat
<1>1. IsList(s) /\ \A i \in DOMAIN s : s[i] \in Chunks
    BY DEF IsList
<1>2. Weighed(s)
    BY <1>1, ChunkData DEF Weighed
<1>3. Held(s) \in Nat
    <2>1. 0 \in Nat /\ IsFiniteSet({}) /\ Cardinality({}) = 0
        BY FS_EmptySet
    <2> DEFINE c == [text |-> 0, thinking |-> 0, tools |-> {}]
    <2>2. c.text \in Nat /\ c.thinking \in Nat /\ Cardinality(c.tools) \in Nat
        BY <2>1
    <2> HIDE DEF c
    <2> QED
        BY <1>1, <1>2, <2>2, HeldWithNext
<1> QED
    BY <1>1, <1>2, <1>3

LEMMA CapturedNext ==
    ASSUME NEW s \in Seq(Chunks), NEW k, Fits(k), Captured(k, s), NEW c \in Chunks
    PROVE  Captured(FeedCapture(k, c, Len(s) + 1), Append(s, c))
<1> DEFINE said == KeepText(k, c.text)
           thought == KeepText(said, c.thinking)
           kept == KeepText(thought, Cardinality(c.tools))
           fed == FeedCapture(k, c, Len(s) + 1)
           n == Held(s)
<1>1. /\ fed.length = kept.length /\ fed.truncated = kept.truncated
      /\ fed.usage = IF c.usage THEN Len(s) + 1 ELSE k.usage
    BY CaptureStep
<1>2. n \in Nat /\ c.text \in Nat /\ c.thinking \in Nat /\ Cardinality(c.tools) \in Nat
    BY ChunksWeigh, ChunkData
<1> HIDE DEF n, fed
<1>3. Fits(said) /\ Holds(said, n + c.text)
    BY <1>2, HoldsMore DEF Captured, n
<1> HIDE DEF said
<1>4. Fits(thought) /\ Holds(thought, (n + c.text) + c.thinking)
    <2>1. n + c.text \in Nat
        BY <1>2
    <2> QED
        BY <1>2, <1>3, <2>1, HoldsMore
<1> HIDE DEF thought
<1>5. Holds(kept, ((n + c.text) + c.thinking) + Cardinality(c.tools))
    <2>1. (n + c.text) + c.thinking \in Nat
        BY <1>2
    <2> QED
        BY <1>2, <1>4, <2>1, HoldsMore
<1> HIDE DEF kept
<1>6. Held(Append(s, c)) = ((n + c.text) + c.thinking) + Cardinality(c.tools)
    <2>1. Held(Append(s, c)) = n + Weight(c)
        BY <1>2, ChunksWeigh, HeldWithNext DEF n
    <2> QED
        BY <1>2, <2>1 DEF Weight
<1>7. Holds(fed, Held(Append(s, c)))
    BY <1>1, <1>5, <1>6 DEF Holds
<1>8. fed.usage = LastUsed(Append(s, c))
    BY <1>1, ChunksWeigh, UsedNext DEF Captured
<1> QED
    BY <1>7, <1>8 DEF Captured, fed
LEMMA FrontOfNext ==
    ASSUME NEW S, NEW s \in Seq(S), NEW x \in S
    PROVE  Front(Append(s, x)) = s
<1> DEFINE t == Append(s, x)
<1>1. t \in Seq(S) /\ Len(t) = Len(s) + 1 /\ Len(s) \in Nat /\ \A i \in 1 .. Len(s) : t[i] = s[i]
    OBVIOUS
<1> HIDE DEF t
<1>2. /\ SubSeq(t, 1, Len(s)) \in Seq(S) /\ Len(SubSeq(t, 1, Len(s))) = Len(s)
      /\ \A i \in 1 .. Len(s) : SubSeq(t, 1, Len(s))[i] = t[i]
    BY <1>1
<1>3. Front(t) = SubSeq(t, 1, Len(s))
    BY <1>1 DEF Front
<1>4. Front(t) = s
    BY <1>1, <1>2, <1>3, SeqEqual
<1> QED
    BY <1>4 DEF t

LEMMA FrontAndLast ==
    ASSUME NEW S, NEW s \in Seq(S), s # <<>>
    PROVE  /\ Front(s) \in Seq(S) /\ Last(s) \in S
           /\ Append(Front(s), Last(s)) = s /\ Len(Front(s)) + 1 = Len(s)
<1> DEFINE n == Len(s) - 1
           f == Front(s)
<1>1. n \in Nat /\ Len(s) = n + 1 /\ s[n + 1] \in S
    OBVIOUS
<1> HIDE DEF n
<1>2. f = SubSeq(s, 1, n) /\ Last(s) = s[n + 1]
    BY <1>1 DEF Front, Last, n
<1> HIDE DEF f
<1>3. f \in Seq(S) /\ Len(f) = n /\ \A i \in 1 .. n : f[i] = s[i]
    BY <1>1, <1>2
<1>4. /\ Append(f, s[n + 1]) \in Seq(S) /\ Len(Append(f, s[n + 1])) = n + 1
      /\ \A i \in 1 .. n + 1 : Append(f, s[n + 1])[i] = s[i]
    BY <1>1, <1>3
<1>5. Append(f, s[n + 1]) = s
    BY <1>1, <1>4, SeqEqual
<1> QED
    BY <1>1, <1>2, <1>3, <1>5 DEF f

LEMMA NothingCaptured == Captured(NewCapture, <<>>)
<1>1. NewCapture.length = 0 /\ NewCapture.truncated = FALSE /\ NewCapture.usage = 0
    BY DEF NewCapture
<1>2. LastUsed(<<>>) = 0
    BY EmptyList DEF LastUsed, Used
<1>3. ~(0 > TextLimit)
    BY TextLimitAssumption
<1> QED
    BY <1>1, <1>2, <1>3, HeldOfNone DEF Captured, Holds

LEMMA CaptureInit == Init => CaptureInv
<1> SUFFICES ASSUME Init PROVE CaptureInv
    OBVIOUS
<1>1. ASSUME NEW r \in Requests PROVE Holding(r)
    <2>1. pc[r] = "idle" /\ seen[r] = <<>> /\ capture[r] = NewCapture /\ rows[r] = <<>>
        BY DEF Init
    <2> QED
        BY <2>1, NothingCaptured DEF Holding, Given
<1> QED
    BY <1>1, SettledInit DEF CaptureInv

(* The row of a stream that ends is what the accumulator holds. *)
LEMMA RowHolds ==
    ASSUME NEW r \in Requests, By(r, {"Streaming"}), NEW code, Logged1(r, code, Snapshot(r)), capture'[r] = capture[r],
           ~By(r, {"ResponsesChatStream"})
    PROVE  rows'[r][1].body.body = capture[r]
<1>1. rows'[r][1] = Row(code, Snapshot(r))
    BY DEF Logged1
<1>2. Snapshot(r).body = capture[r]
    BY DEF Snapshot
<1> QED
    BY <1>1, <1>2 DEF Row

LEMMA HoldingStep ==
    ASSUME CaptureInv, NEW r \in Requests, Frame(r), Kinds(r)
    PROVE  Holding(r)'
<1>1. /\ SamePlace(r) /\ Holding(r) /\ route \in [Requests -> Routes] /\ Placed(r) /\ IInv
      /\ seen[r] \in Seq(Chunks) /\ Fits(capture[r])
    BY RouteStays DEF Frame, CaptureInv, Settled, Shape, FInv
<1> SUFFICES ASSUME By(r, {"Streaming"})
             PROVE  /\ pc'[r] \notin Final => Captured(capture'[r], IF pc'[r] = "capture" THEN Front(seen'[r]) ELSE seen'[r])
                    /\ rows'[r] # <<>> =>
                          LET body == rows'[r][1].body.body
                          IN  \/ Captured(body, seen'[r])
                              \/ pc'[r] = "left" /\ seen'[r] # <<>> /\ Captured(body, Front(seen'[r]))
    BY <1>1 DEF Holding, SamePlace, Given
<1>2. Streams(r) /\ ~By(r, {"ResponsesChatStream"})
    BY <1>1, RouteFacts
<1>3. pc[r] \in Before \cup Open => pc[r] \notin Final /\ rows[r] = <<>> /\ Captured(capture[r], Given(r))
    BY <1>1 DEF Holding, IInv, Before, Open, Final
<1>4. CASE Early(r)
    BY <1>3, <1>4 DEF Early, SameData, SameTold, Given, Before, Final
<1>5. CASE TurnedAway(r)
    BY <1>3, <1>5 DEF TurnedAway, Final
<1>6. CASE HeadersCome(r)
    BY <1>3, <1>6 DEF HeadersCome, SameData, SameTold, Given, Open, Final
<1>7. ASSUME NEW c \in Chunks, ChunkComes(r, c)
      PROVE  /\ pc'[r] \notin Final /\ rows'[r] = <<>>
             /\ Captured(capture'[r], IF pc'[r] = "capture" THEN Front(seen'[r]) ELSE seen'[r])
    <2>1. Front(seen'[r]) = seen[r] /\ pc'[r] = "capture" /\ pc[r] = "reading"
        BY <1>1, <1>7, FrontOfNext DEF ChunkComes
    <2> QED
        BY <1>3, <1>7, <2>1 DEF ChunkComes, Given, Open, Final
<1>8. CASE Captures(r)
    <2>1. pc[r] = "capture" /\ seen[r] # <<>> /\ Captured(capture[r], Front(seen[r])) /\ rows[r] = <<>>
        BY <1>1, <1>3, <1>8 DEF Captures, Placed, Given, Open
    <2>2. /\ Front(seen[r]) \in Seq(Chunks) /\ Last(seen[r]) \in Chunks
          /\ Append(Front(seen[r]), Last(seen[r])) = seen[r] /\ Len(Front(seen[r])) + 1 = Len(seen[r])
        BY <1>1, <2>1, FrontAndLast
    <2>3. Captured(FeedCapture(capture[r], Last(seen[r]), Len(Front(seen[r])) + 1), Append(Front(seen[r]), Last(seen[r])))
        BY <1>1, <2>1, <2>2, CapturedNext
    <2>4. Captured(capture'[r], seen'[r])
        BY <1>8, <2>2, <2>3 DEF Captures
    <2> QED
        BY <1>8, <2>1, <2>4 DEF Captures, SameTold, Final
<1>9. CASE CutShort(r)
    <2>1. /\ pc[r] \in Open /\ pc'[r] \in Final /\ seen'[r] = seen[r]
          /\ pc[r] = "capture" => pc'[r] = "left" /\ seen[r] # <<>>
        BY <1>1, <1>9 DEF CutShort, Logged1, SameData, Placed, Final
    <2>2. rows'[r][1].body.body = capture[r]
        BY <1>2, <1>9, RowHolds DEF CutShort, SameData
    <2> QED
        BY <1>3, <2>1, <2>2 DEF Given
<1>10. CASE FailsInStream(r) \/ Closes(r)
    <2>1. /\ pc[r] \in Open /\ pc'[r] \in Final /\ pc[r] # "capture" /\ seen'[r] = seen[r]
          /\ \E code : Logged1(r, code, Snapshot(r))
        BY <1>10 DEF FailsInStream, Closes, Logged1, SameData, Final
    <2>2. rows'[r][1].body.body = capture[r]
        BY <1>2, <1>10, <2>1, RowHolds DEF FailsInStream, Closes, SameData
    <2> QED
        BY <1>3, <2>1, <2>2 DEF Given
<1>11. ~CrashesAway(r) /\ ~OnePiece(r)
    BY <1>2 DEF CrashesAway, OnePiece
<1> QED
    BY <1>4, <1>5, <1>6, <1>7, <1>8, <1>9, <1>10, <1>11 DEF Kinds

LEMMA CaptureNext == CaptureInv /\ [Next]_vars => CaptureInv'
<1> SUFFICES ASSUME CaptureInv, [Next]_vars PROVE CaptureInv'
    OBVIOUS
<1>1. Settled'
    BY SettledNext DEF CaptureInv
<1>2. CASE UNCHANGED vars
    <2>1. ASSUME NEW q \in Requests PROVE Holding(q)'
        <3>1. SamePlace(q) /\ Holding(q)
            BY <1>2, RouteStays DEF vars, CaptureInv
        <3> QED
            BY <1>2, <3>1 DEF vars, Holding, Given, SamePlace
    <2> QED
        BY <1>1, <2>1 DEF CaptureInv
<1>3. ASSUME NEW r \in Requests, StepOf(r) PROVE CaptureInv'
    <2>1. Frame(r) /\ Kinds(r)
        BY <1>3, ShapeStep DEF CaptureInv, Settled
    <2>2. ASSUME NEW q \in Requests, q # r PROVE Holding(q)'
        <3>1. Kept(q) /\ SamePlace(q) /\ Holding(q)
            BY <2>1, <2>2, RouteStays DEF Frame, CaptureInv
        <3> QED
            BY <3>1 DEF Kept, Holding, Given, SamePlace
    <2> QED
        BY <1>1, <2>1, <2>2, HoldingStep DEF CaptureInv
<1> QED
    BY <1>2, <1>3 DEF Next, StepOf

(* What the row of a stream keeps is the text of every chunk that came, cut at the  *)
(* limit, and the last usage among them; the chunk at which the client left may be  *)
(* missing.                                                                         *)
THEOREM CapturesWhole == Spec => []CaptureIsWhole
<1>1. ASSUME CaptureInv PROVE CaptureIsWhole
    <2> DEFINE is(r, s) ==
            LET body == rows[r][1].body.body IN
            /\ body.length = IF Held(s) > TextLimit THEN TextLimit ELSE Held(s)
            /\ body.truncated = (Held(s) > TextLimit)
            /\ body.usage = IF Used(s) = {} THEN 0 ELSE CHOOSE i \in Used(s) : \A j \in Used(s) : j <= i
    <2>1. ASSUME NEW r \in Requests, NEW s, Captured(rows[r][1].body.body, s) PROVE is(r, s)
        <3> DEFINE k == rows[r][1].body.body
        <3>1. Holds(k, Held(s)) /\ k.usage = LastUsed(s)
            BY <2>1 DEF Captured
        <3> HIDE DEF k
        <3>2. k.truncated = (Held(s) > TextLimit)
            <4> DEFINE p == k.truncated
                       o == Held(s) > TextLimit
            <4>1. (p = TRUE \/ p = FALSE) /\ (p = TRUE <=> o)
                BY <3>1 DEF Holds
            <4>2. o \in BOOLEAN
                OBVIOUS
            <4> HIDE DEF p, o
            <4>3. p = o
                BY <4>1, <4>2
            <4> QED
                BY <4>3 DEF p, o
        <3> QED
            BY <3>1, <3>2 DEF Holds, LastUsed, k
    <2>2. ASSUME NEW r \in Requests, rows[r] # <<>>, By(r, {"Streaming"})
          PROVE  is(r, seen[r]) \/ (pc[r] = "left" /\ seen[r] # <<>> /\ is(r, Front(seen[r])))
        <3>1. Holding(r)
            BY <1>1 DEF CaptureInv
        <3> HIDE DEF is
        <3> QED
            BY <2>1, <2>2, <3>1 DEF Holding
    <2> QED
        BY <2>2 DEF CaptureIsWhole, Held, Used
<1> QED
    BY <1>1, CaptureInit, CaptureNext, PTL DEF Spec
=============================================================================
