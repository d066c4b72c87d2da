------------------------- MODULE StreamConverterProofs -------------------------
(***************************************************************************)
(* What the converters of StreamConverters keep between two of their       *)
(* operations, whatever chunks they are fed: the events of a translated    *)
(* message nest, and the object a Responses stream ends with is what its   *)
(* deltas and items have told.                                             *)
(***************************************************************************)
EXTENDS StreamConverters, ListLemmas

-----------------------------------------------------------------------------
(* The events of a translated message: the converter's own invariant *)

At(s, type)      == {i \in DOMAIN s : s[i].type = type}
Upto(s, type, i) == {j \in At(s, type) : j < i}

Starts(s) == At(s, "content_block_start")
Stops(s)  == At(s, "content_block_stop")

(* What an event has to be, after the ones before it. *)
EventFits(s, i) ==
    LET opened == Upto(s, "content_block_start", i)
        closed == Upto(s, "content_block_stop", i)
    IN  /\ s[i].type = "message_start" => i = 1
        /\ i > 1 /\ s[i].type # "error" => s[1].type = "message_start"
        /\ s[i].type = "content_block_start" =>
              s[i].index = Cardinality(opened) /\ Cardinality(closed) = s[i].index
        /\ s[i].type \in {"content_block_delta", "content_block_stop"} =>
              /\ Cardinality(opened) = Cardinality(closed) + 1
              /\ \E j \in opened : s[j].index = s[i].index /\ s[j].kind = s[i].kind
              /\ s[i].index = Cardinality(closed)
        /\ s[i].type = "message_stop" => Cardinality(opened) = Cardinality(closed)

EventsNest(s) ==
    /\ \A i \in DOMAIN s : EventFits(s, i)
    /\ \A i \in At(s, "message_stop") : \A j \in DOMAIN s : j > i => s[j].type = "error"

LEMMA AppendedAt ==
    ASSUME NEW s, IsList(s), NEW x, NEW type
    PROVE  /\ x.type = type => At(Append(s, x), type) = At(s, type) \cup {Len(s) + 1}
           /\ x.type # type => At(Append(s, x), type) = At(s, type)
           /\ Len(s) + 1 \notin At(s, type)
    BY Appended DEF At

LEMMA AppendedUpto ==
    ASSUME NEW s, IsList(s), NEW x, NEW type
    PROVE  /\ \A i \in DOMAIN s : Upto(Append(s, x), type, i) = Upto(s, type, i)
           /\ Upto(Append(s, x), type, Len(s) + 1) = At(s, type)
<1>1. DOMAIN s = 1 .. Len(s) /\ Len(s) \in Nat
    BY ListDomain
<1> QED
    BY <1>1, Appended DEF At, Upto

LEMMA AppendedFits ==
    ASSUME NEW s, IsList(s), NEW x, NEW i \in DOMAIN s, EventFits(s, i)
    PROVE  EventFits(Append(s, x), i)
<1> DEFINE t == Append(s, x)
<1>1. DOMAIN s = 1 .. Len(s) /\ Len(s) \in Nat
    BY ListDomain
<1>2. 1 \in DOMAIN s
    BY <1>1
<1>3. t[i] = s[i] /\ t[1] = s[1]
    BY <1>2, Appended
<1>4. /\ Upto(t, "content_block_start", i) = Upto(s, "content_block_start", i)
      /\ Upto(t, "content_block_stop", i) = Upto(s, "content_block_stop", i)
    BY AppendedUpto
<1>5. \A j \in Upto(s, "content_block_start", i) : t[j] = s[j]
    BY Appended DEF Upto, At
<1> QED
    BY <1>3, <1>4, <1>5 DEF EventFits

(* An event that fits behind the ones there are. *)
FitsNext(s, x) ==
    /\ x.type = "message_start" => s = <<>>
    /\ s # <<>> /\ x.type # "error" => s[1].type = "message_start"
    /\ x.type = "content_block_start" =>
          x.index = Cardinality(Starts(s)) /\ Cardinality(Stops(s)) = x.index
    /\ x.type \in {"content_block_delta", "content_block_stop"} =>
          /\ Cardinality(Starts(s)) = Cardinality(Stops(s)) + 1
          /\ \E j \in Starts(s) : s[j].index = x.index /\ s[j].kind = x.kind
          /\ x.index = Cardinality(Stops(s))
    /\ x.type = "message_stop" => Cardinality(Starts(s)) = Cardinality(Stops(s))
    /\ At(s, "message_stop") = {} \/ x.type = "error"

LEMMA NestsOn ==
    ASSUME NEW s, IsList(s), EventsNest(s), NEW x, FitsNext(s, x)
    PROVE  EventsNest(Append(s, x))
<1> DEFINE t == Append(s, x)
<1>1. DOMAIN s = 1 .. Len(s) /\ Len(s) \in Nat
    BY ListDomain
<1>2. /\ DOMAIN t = DOMAIN s \cup {Len(s) + 1}
      /\ t[Len(s) + 1] = x
      /\ \A i \in DOMAIN s : t[i] = s[i]
    BY Appended
<1>3. \A i \in DOMAIN s : EventFits(t, i)
    BY AppendedFits DEF EventsNest
<1>4. EventFits(t, Len(s) + 1)
    <2>1. /\ Upto(t, "content_block_start", Len(s) + 1) = Starts(s)
          /\ Upto(t, "content_block_stop", Len(s) + 1) = Stops(s)
        BY AppendedUpto DEF Starts, Stops
    <2>2. \A j \in Starts(s) : t[j] = s[j]
        BY <1>2 DEF Starts, At
    <2>3. x.type = "message_start" => Len(s) + 1 = 1
        BY EmptyList DEF FitsNext
    <2>4. Len(s) + 1 > 1 /\ x.type # "error" => t[1].type = "message_start"
        <3>1. Len(s) + 1 > 1 => 1 \in DOMAIN s /\ s # <<>>
            BY <1>1, EmptyList
        <3> QED
            BY <3>1, <1>2 DEF FitsNext
    <2> QED
        BY <1>2, <2>1, <2>2, <2>3, <2>4 DEF EventFits, FitsNext
<1>5. ASSUME NEW i \in At(t, "message_stop"), NEW j \in DOMAIN t, j > i
      PROVE  t[j].type = "error"
    <2>1. i \in DOMAIN s
        BY <1>1, <1>2, <1>5 DEF At
    <2>2. i \in At(s, "message_stop")
        BY <1>2, <1>5, <2>1 DEF At
    <2> QED
        BY <1>2, <1>5, <2>2 DEF EventsNest, FitsNext
<1> QED
    BY <1>2, <1>3, <1>4, <1>5 DEF EventsNest

LEMMA FiniteAt == ASSUME NEW s, IsList(s), NEW type PROVE IsFiniteSet(At(s, type))
<1>1. IsFiniteSet(1 .. Len(s))
    BY ListDomain, FS_Interval
<1>2. At(s, type) \in SUBSET (1 .. Len(s))
    BY ListDomain DEF At
<1> QED
    BY <1>1, <1>2, FS_Subset

(* How many events of a type there are with one more. *)
LEMMA CountNext ==
    ASSUME NEW s, IsList(s), NEW x, NEW type
    PROVE  /\ Cardinality(At(s, type)) \in Nat
           /\ Cardinality(At(Append(s, x), type)) = Cardinality(At(s, type)) + (IF x.type = type THEN 1 ELSE 0)
<1>1. IsFiniteSet(At(s, type))
    BY FiniteAt
<1>2. Len(s) + 1 \notin At(s, type)
    BY AppendedAt
<1>3. Cardinality(At(s, type) \cup {Len(s) + 1}) = Cardinality(At(s, type)) + 1
    BY <1>1, <1>2, FS_AddElement
<1>4. Cardinality(At(s, type)) \in Nat
    BY <1>1, FS_CardinalityType
<1>5. CASE x.type = type
    <2>1. At(Append(s, x), type) = At(s, type) \cup {Len(s) + 1}
        BY <1>5, AppendedAt
    <2> QED
        BY <1>3, <1>4, <1>5, <2>1
<1>6. CASE x.type # type
    <2>1. At(Append(s, x), type) = At(s, type)
        BY <1>6, AppendedAt
    <2> QED
        BY <1>4, <1>6, <2>1
<1> QED
    BY <1>5, <1>6

(* The record of the converter, and what holds of it between two of its operations. *)
MessageFields == {"started", "closed", "block", "index", "next", "sent"}
IsMessage(m)  == m = [f \in MessageFields |-> m[f]]

Failures == {"error", "response.failed"}
Sound(s) == \A i \in DOMAIN s : s[i].type \notin Failures

BlockOpen(m) ==
    /\ m.next = m.index + 1
    /\ Cardinality(Stops(m.sent)) = m.index
    /\ \E j \in Starts(m.sent) : m.sent[j].index = m.index /\ m.sent[j].kind = m.block

MessageInv(m) ==
    /\ IsMessage(m)
    /\ m.index \in Nat /\ m.next \in Nat
    /\ IsList(m.sent) /\ Sound(m.sent) /\ EventsNest(m.sent)
    /\ Cardinality(Starts(m.sent)) = m.next
    /\ m.block = "none" => Cardinality(Stops(m.sent)) = m.next
    /\ m.block # "none" => BlockOpen(m)
    /\ m.started = TRUE  => m.sent # <<>> /\ m.sent[1].type = "message_start"
    /\ m.started = FALSE => m.sent = <<>> /\ m.block = "none"
    /\ m.closed = TRUE  => m.block = "none" /\ Last(m.sent).type = "message_stop"
    /\ m.closed = FALSE => At(m.sent, "message_stop") = {}
    /\ m.started \in BOOLEAN /\ m.closed \in BOOLEAN

(* Under way: started, and not at its end. *)
Running(m) == MessageInv(m) /\ m.started = TRUE /\ m.closed = FALSE

LEMMA Emitted ==
    ASSUME NEW m, IsMessage(m), NEW x
    PROVE  /\ IsMessage(Emit(m, x))
           /\ Emit(m, x).sent = Append(m.sent, x)
           /\ \A f \in MessageFields \ {"sent"} : Emit(m, x)[f] = m[f]
    BY DEF Emit, IsMessage, MessageFields

LEMMA NotEmpty == ASSUME NEW s, IsList(s), NEW x PROVE Append(s, x) # <<>>
    BY EmptyList, ListDomain, Appended

LEMMA FirstStays ==
    ASSUME NEW s, IsList(s), NEW x
    PROVE  /\ s # <<>> => Append(s, x)[1] = s[1]
           /\ s = <<>> => Append(s, x)[1] = x
<1>1. CASE s # <<>>
    <2>1. PICK T : s \in Seq(T)
        BY DEF IsList
    <2>2. Len(s) # 0 /\ Len(s) \in Nat /\ DOMAIN s = 1 .. Len(s)
        BY <1>1, <2>1
    <2> QED
        BY <2>2, <1>1, Appended
<1>2. CASE s = <<>>
    BY <1>2, Appended, EmptyList
<1> QED
    BY <1>1, <1>2

LEMMA SoundOn ==
    ASSUME NEW s, IsList(s), Sound(s), NEW x, x.type \notin Failures
    PROVE  Sound(Append(s, x))
    BY Appended DEF Sound

(* An event that is none of a block, in a message under way. *)
LEMMA PlainEvent ==
    ASSUME NEW m, Running(m), NEW x,
           x.type = "content_block_delta" \/ x.type = "message_delta",
           x.type = "content_block_delta" => m.block # "none" /\ x.index = m.index /\ x.kind = m.block
    PROVE  Running(Emit(m, x))
<1> DEFINE n == Emit(m, x)
<1>1. /\ IsMessage(n) /\ n.sent = Append(m.sent, x)
      /\ n.started = m.started /\ n.closed = m.closed /\ n.block = m.block
      /\ n.index = m.index /\ n.next = m.next
    BY Emitted DEF Running, MessageInv, MessageFields
<1>2. IsList(m.sent) /\ IsList(n.sent)
    BY <1>1, Appended DEF Running, MessageInv
<1>3. Starts(n.sent) = Starts(m.sent) /\ Stops(n.sent) = Stops(m.sent)
    BY <1>1, <1>2, AppendedAt DEF Starts, Stops
<1>4. At(n.sent, "message_stop") = {}
    BY <1>1, <1>2, AppendedAt DEF Running, MessageInv
<1>5. FitsNext(m.sent, x)
    BY DEF FitsNext, Running, MessageInv, BlockOpen
<1>6. EventsNest(n.sent)
    BY <1>1, <1>5, NestsOn DEF Running, MessageInv
<1>7. Sound(n.sent)
    BY <1>1, SoundOn DEF Running, MessageInv, Failures
<1>8. n.sent # <<>> /\ n.sent[1].type = "message_start"
    BY <1>1, <1>2, NotEmpty, FirstStays DEF Running, MessageInv
<1>9. m.block # "none" => BlockOpen(n)
    <2>1. \A j \in Starts(m.sent) : n.sent[j] = m.sent[j]
        BY <1>1, <1>2, Appended DEF Starts, At
    <2> QED
        BY <1>1, <1>3, <2>1 DEF BlockOpen, Running, MessageInv
<1> QED
    BY <1>1, <1>2, <1>3, <1>4, <1>6, <1>7, <1>8, <1>9 DEF Running, MessageInv

LEMMA MessageStarts == MessageInv(NewMessage)
<1>1. NewMessage.sent = <<>> /\ IsMessage(NewMessage)
    BY DEF NewMessage, IsMessage, MessageFields
<1>2. \A type : At(<<>>, type) = {}
    BY EmptyList DEF At
<1>3. EventsNest(<<>>) /\ Sound(<<>>)
    BY <1>2, EmptyList DEF EventsNest, Sound
<1>4. Cardinality({}) = 0
    BY FS_EmptySet
<1> QED
    BY <1>1, <1>2, <1>3, <1>4, EmptyList DEF NewMessage, MessageInv, Starts, Stops

LEMMA StartMessageRuns ==
    ASSUME NEW m, MessageInv(m), m.closed = FALSE
    PROVE  Running(StartMessage(m))
<1>1. CASE m.started
    BY <1>1 DEF StartMessage, Running, MessageInv
<1>2. CASE ~m.started
    <2> DEFINE x == [type |-> "message_start"]
               n == StartMessage(m)
    <2>1. m.started = FALSE
        BY <1>2 DEF MessageInv
    <2>2. /\ IsMessage(n) /\ n.sent = Append(m.sent, x)
          /\ n.started = TRUE /\ n.closed = FALSE /\ n.block = m.block
          /\ n.index = m.index /\ n.next = m.next
        BY <1>2, Emitted DEF StartMessage, MessageInv, IsMessage, MessageFields, Emit
    <2>4. x.type = "message_start"
        OBVIOUS
    <2> HIDE DEF x, n
    <2>a. IsList(m.sent)
        BY DEF MessageInv
    <2>3. m.sent = <<>> /\ IsList(m.sent) /\ IsList(n.sent) /\ m.block = "none"
        BY <2>1, <2>2, Appended DEF MessageInv
    <2>5. Starts(n.sent) = Starts(m.sent) /\ Stops(n.sent) = Stops(m.sent) /\ At(n.sent, "message_stop") = {}
        <3>1. At(m.sent, "message_stop") = {}
            BY DEF MessageInv
        <3>2. \A type : type # "message_start" => At(Append(m.sent, x), type) = At(m.sent, type)
            BY <2>a, <2>4, AppendedAt
        <3> QED
            BY <2>2, <3>1, <3>2 DEF Starts, Stops
    <2>6. FitsNext(m.sent, x)
        BY <2>1, <2>3, <2>4 DEF FitsNext, MessageInv
    <2>7. EventsNest(n.sent) /\ Sound(n.sent)
        BY <2>2, <2>3, <2>4, <2>6, NestsOn, SoundOn DEF MessageInv, Failures
    <2>8. n.sent # <<>> /\ n.sent[1].type = "message_start"
        BY <2>2, <2>3, <2>4, NotEmpty, FirstStays
    <2> QED
        BY <2>2, <2>3, <2>5, <2>7, <2>8 DEF Running, MessageInv, n
<1> QED
    BY <1>1, <1>2 DEF MessageInv
LEMMA CloseBlockRuns ==
    ASSUME NEW m, Running(m)
    PROVE  Running(CloseBlock(m)) /\ CloseBlock(m).block = "none"
<1>1. CASE m.block = "none"
    BY <1>1 DEF CloseBlock
<1>2. CASE m.block # "none"
    <2> DEFINE x == BlockEvent("content_block_stop", m.index, m.block)
               n == CloseBlock(m)
    <2>1. x.type = "content_block_stop" /\ x.index = m.index /\ x.kind = m.block
        BY DEF BlockEvent
    <2>2. /\ IsMessage(n) /\ n.sent = Append(m.sent, x)
          /\ n.started = TRUE /\ n.closed = FALSE /\ n.block = "none"
          /\ n.index = m.index /\ n.next = m.next
        BY <1>2, Emitted DEF CloseBlock, Running, MessageInv, IsMessage, MessageFields, Emit
    <2> HIDE DEF x, n
    <2>3. m.index \in Nat /\ m.next \in Nat /\ IsList(m.sent) /\ Sound(m.sent) /\ EventsNest(m.sent)
        BY DEF Running, MessageInv
    <2>4. /\ BlockOpen(m)
          /\ Cardinality(Starts(m.sent)) = m.next
          /\ At(m.sent, "message_stop") = {}
          /\ m.sent # <<>> /\ m.sent[1].type = "message_start"
        BY <1>2 DEF Running, MessageInv
    <2>5. IsList(n.sent)
        BY <2>2, <2>3, Appended
    <2>6. /\ Starts(n.sent) = Starts(m.sent)
          /\ At(n.sent, "message_stop") = {}
        BY <2>1, <2>2, <2>3, <2>4, AppendedAt DEF Starts
    <2>7. Cardinality(Stops(n.sent)) = m.next
        BY <2>1, <2>2, <2>3, <2>4, CountNext DEF Stops, BlockOpen
    <2>8. FitsNext(m.sent, x)
        BY <2>1, <2>3, <2>4 DEF FitsNext, BlockOpen
    <2>9. EventsNest(n.sent) /\ Sound(n.sent)
        BY <2>1, <2>2, <2>3, <2>8, NestsOn, SoundOn DEF Failures
    <2>10. n.sent # <<>> /\ n.sent[1].type = "message_start"
        BY <2>2, <2>3, <2>4, NotEmpty, FirstStays
    <2> QED
        BY <2>2, <2>3, <2>4, <2>5, <2>6, <2>7, <2>9, <2>10 DEF Running, MessageInv, n
<1> QED
    BY <1>1, <1>2

LEMMA EnsureBlockRuns ==
    ASSUME NEW m, Running(m), NEW kind, kind # "none"
    PROVE  Running(EnsureBlock(m, kind)) /\ EnsureBlock(m, kind).block = kind
<1>1. CASE m.block = kind
    BY <1>1 DEF EnsureBlock
<1>2. CASE m.block # kind
    <2> DEFINE c == CloseBlock(m)
               x == BlockEvent("content_block_start", m.next, kind)
               n == EnsureBlock(m, kind)
    <2>1. x.type = "content_block_start" /\ x.index = m.next /\ x.kind = kind
        BY DEF BlockEvent
    <2>2. Running(c) /\ c.block = "none" /\ c.next = m.next
        BY CloseBlockRuns DEF CloseBlock, Running, MessageInv, IsMessage, MessageFields, Emit
    <2>3. n = [Emit(c, x) EXCEPT !.block = kind, !.index = m.next, !.next = @ + 1]
        BY <1>2 DEF EnsureBlock
    <2> HIDE DEF x, n, c
    <2>4. /\ IsMessage(n) /\ n.sent = Append(c.sent, x)
          /\ n.started = TRUE /\ n.closed = FALSE /\ n.block = kind
          /\ n.index = m.next /\ n.next = m.next + 1
        BY <2>2, <2>3 DEF Running, MessageInv, IsMessage, MessageFields, Emit
    <2>5. c.next \in Nat /\ IsList(c.sent) /\ Sound(c.sent) /\ EventsNest(c.sent)
        BY <2>2 DEF Running, MessageInv
    <2>6. /\ Cardinality(Starts(c.sent)) = c.next
          /\ Cardinality(Stops(c.sent)) = c.next
          /\ At(c.sent, "message_stop") = {}
          /\ c.sent # <<>> /\ c.sent[1].type = "message_start"
        BY <2>2 DEF Running, MessageInv
    <2>7. IsList(n.sent)
        BY <2>4, <2>5, Appended
    <2>8. /\ Stops(n.sent) = Stops(c.sent)
          /\ At(n.sent, "message_stop") = {}
          /\ Len(c.sent) + 1 \in Starts(n.sent)
        <3>1. Starts(n.sent) = Starts(c.sent) \cup {Len(c.sent) + 1}
            BY <2>1, <2>4, <2>5, AppendedAt DEF Starts
        <3>2. Stops(n.sent) = Stops(c.sent) /\ At(n.sent, "message_stop") = At(c.sent, "message_stop")
            BY <2>1, <2>4, <2>5, AppendedAt DEF Stops
        <3> QED
            BY <2>6, <3>1, <3>2
    <2>9. Cardinality(Starts(n.sent)) = c.next + 1
        BY <2>1, <2>4, <2>5, <2>6, CountNext DEF Starts
    <2>10. BlockOpen(n)
        <3>1. n.sent[Len(c.sent) + 1] = x
            BY <2>4, <2>5, Appended
        <3> QED
            BY <2>1, <2>2, <2>4, <2>6, <2>8, <3>1 DEF BlockOpen
    <2>11. FitsNext(c.sent, x)
        BY <2>1, <2>2, <2>5, <2>6 DEF FitsNext
    <2>12. EventsNest(n.sent) /\ Sound(n.sent)
        BY <2>1, <2>4, <2>5, <2>11, NestsOn, SoundOn DEF Failures
    <2>13. n.sent # <<>> /\ n.sent[1].type = "message_start"
        BY <2>4, <2>5, <2>6, NotEmpty, FirstStays
    <2>15. n.next \in Nat /\ n.index \in Nat /\ Cardinality(Starts(n.sent)) = n.next
        BY <2>2, <2>4, <2>5, <2>9
    <2>14. Running(n)
        BY <2>4, <2>7, <2>8, <2>10, <2>12, <2>13, <2>15 DEF Running, MessageInv
    <2> QED
        BY <2>4, <2>14 DEF n
<1> QED
    BY <1>1, <1>2

LEMMA BlockDeltaRuns ==
    ASSUME NEW m, Running(m), NEW kind, kind # "none"
    PROVE  Running(BlockDelta(m, kind))
<1> DEFINE n == EnsureBlock(m, kind)
           x == BlockEvent("content_block_delta", n.index, kind)
<1>1. Running(n) /\ n.block = kind
    BY EnsureBlockRuns
<1>2. x.type = "content_block_delta" /\ x.index = n.index /\ x.kind = kind
    BY DEF BlockEvent
<1>3. BlockDelta(m, kind) = Emit(n, x)
    BY DEF BlockDelta
<1> HIDE DEF n, x
<1> QED
    BY <1>1, <1>2, <1>3, PlainEvent

LEMMA FinishMessageCloses ==
    ASSUME NEW m, Running(m), NEW finish
    PROVE  MessageInv(FinishMessage(m, finish)) /\ FinishMessage(m, finish).closed = TRUE
<1> DEFINE x == [type |-> "message_delta", reason |-> StopReason(finish)]
           c == CloseBlock(m)
           o == Emit(c, x)
           y == [type |-> "message_stop"]
           n == FinishMessage(m, finish)
<1>1. Running(c) /\ c.block = "none" /\ x.type = "message_delta" /\ y.type = "message_stop"
    BY CloseBlockRuns
<1>2. n = [Emit(o, y) EXCEPT !.closed = TRUE]
    BY DEF FinishMessage
<1> HIDE DEF x, c, y, n
<1>3. Running(o) /\ o.block = "none"
    <2>1. Running(o)
        BY <1>1, PlainEvent
    <2>2. IsMessage(c)
        BY <1>1 DEF Running, MessageInv
    <2> QED
        BY <1>1, <2>1, <2>2, Emitted DEF MessageFields
<1> HIDE DEF o
<1>4. /\ IsMessage(n) /\ n.sent = Append(o.sent, y)
      /\ n.started = TRUE /\ n.closed = TRUE /\ n.block = "none"
      /\ n.index = o.index /\ n.next = o.next
    BY <1>2, <1>3 DEF Running, MessageInv, IsMessage, MessageFields, Emit
<1>5. o.index \in Nat /\ o.next \in Nat /\ IsList(o.sent) /\ Sound(o.sent) /\ EventsNest(o.sent)
    BY <1>3 DEF Running, MessageInv
<1>6. /\ Cardinality(Starts(o.sent)) = o.next
      /\ Cardinality(Stops(o.sent)) = o.next
      /\ At(o.sent, "message_stop") = {}
      /\ o.sent # <<>> /\ o.sent[1].type = "message_start"
    BY <1>3 DEF Running, MessageInv
<1>7. IsList(n.sent) /\ Last(n.sent) = y
    BY <1>4, <1>5, Appended
<1>8. Stops(n.sent) = Stops(o.sent) /\ Starts(n.sent) = Starts(o.sent)
    BY <1>1, <1>4, <1>5, AppendedAt DEF Stops, Starts
<1>9. FitsNext(o.sent, y)
    BY <1>1, <1>5, <1>6 DEF FitsNext
<1>10. EventsNest(n.sent) /\ Sound(n.sent)
    BY <1>1, <1>4, <1>5, <1>9, NestsOn, SoundOn DEF Failures
<1>11. n.sent # <<>> /\ n.sent[1].type = "message_start"
    BY <1>4, <1>5, <1>6, NotEmpty, FirstStays
<1> QED
    BY <1>1, <1>4, <1>5, <1>6, <1>7, <1>8, <1>10, <1>11 DEF MessageInv, n

LEMMA FeedMessageKeeps == ASSUME NEW m, MessageInv(m), NEW c PROVE MessageInv(FeedMessage(m, c))
<1> DEFINE thought == IF c.thinking > 0 THEN BlockDelta(StartMessage(m), "thinking") ELSE StartMessage(m)
           spoken  == IF c.text > 0 THEN BlockDelta(thought, "text") ELSE thought
<1>1. CASE m.closed
    BY <1>1 DEF FeedMessage
<1>2. CASE ~m.closed
    <2>1. Running(StartMessage(m))
        BY <1>2, StartMessageRuns DEF MessageInv
    <2>2. Running(thought)
        BY <2>1, BlockDeltaRuns
    <2> HIDE DEF thought
    <2>3. Running(spoken)
        BY <2>2, BlockDeltaRuns
    <2>4. FeedMessage(m, c) = IF c.finish = "none" THEN spoken ELSE FinishMessage(spoken, c.finish)
        BY <1>2 DEF FeedMessage, thought
    <2> HIDE DEF spoken
    <2> QED
        BY <2>3, <2>4, FinishMessageCloses DEF Running
<1> QED
    BY <1>1, <1>2

LEMMA FlushMessageKeeps ==
    ASSUME NEW m, MessageInv(m)
    PROVE  /\ MessageInv(FlushMessage(m))
           /\ FlushMessage(m).sent # <<>> => Last(FlushMessage(m).sent).type = "message_stop"
<1>1. CASE m.closed
    BY <1>1 DEF FlushMessage, MessageInv
<1>2. CASE ~m.closed /\ ~m.started
    BY <1>2 DEF FlushMessage, MessageInv
<1>3. CASE ~m.closed /\ m.started
    <2>1. Running(m)
        BY <1>3 DEF Running, MessageInv
    <2>2. FlushMessage(m) = FinishMessage(m, "stop")
        BY <1>3 DEF FlushMessage
    <2> QED
        BY <2>1, <2>2, FinishMessageCloses DEF MessageInv
<1> QED
    BY <1>1, <1>2, <1>3

(* The order InOrder chooses is of every number, each once. *)
LEMMA InOrderLists ==
    ASSUME NEW S \in SUBSET Nat, IsFiniteSet(S)
    PROVE  /\ Cardinality(S) \in Nat
           /\ InOrder(S) \in [1 .. Cardinality(S) -> S]
           /\ \A i, j \in 1 .. Cardinality(S) : i < j => InOrder(S)[i] < InOrder(S)[j]
           /\ \A x \in S : \E i \in 1 .. Cardinality(S) : InOrder(S)[i] = x
<1> DEFINE n == Cardinality(S)
<1>0. \A x \in S : x \in Nat
    OBVIOUS
<1>1. n \in Nat /\ \E g \in [1 .. n -> S] : \A i, j \in DOMAIN g : i < j => g[i] < g[j]
    BY AscendingList
<1>6. IsFiniteSet(1 .. n) /\ Cardinality(1 .. n) = n
    BY <1>1, FS_Interval
<1> DEFINE f == InOrder(S)
<1>13. f \in [1 .. n -> S] /\ DOMAIN f = 1 .. n /\ \A i, j \in DOMAIN f : i < j => f[i] < f[j]
    BY <1>1 DEF InOrder
<1> HIDE DEF f
<1>14. ASSUME NEW i \in 1 .. n, NEW j \in 1 .. n, f[i] = f[j]
       PROVE  i = j
    <2>1. f[i] \in Nat /\ (i < j => f[i] < f[j]) /\ (j < i => f[j] < f[i])
        BY <1>0, <1>13
    <2> QED
        BY <1>1, <1>14, <2>1
<1>15. f \in Injection(1 .. n, S)
    BY <1>13, <1>14 DEF Injection, IsInjective
<1>16. f \in Surjection(1 .. n, S)
    BY <1>6, <1>15, FS_Injection
<1> QED
    BY <1>1, <1>13, <1>16 DEF Surjection, f

Held(s) == FoldSeq(LAMBDA c, n : n + c.text + c.thinking + Cardinality(c.tools), 0, s)
Weight(c) == c.text + c.thinking + Cardinality(c.tools)

LEMMA HeldIsSum ==
    ASSUME NEW s, IsList(s),
           \A i \in DOMAIN s : s[i].text \in Nat /\ s[i].thinking \in Nat /\ Cardinality(s[i].tools) \in Nat
    PROVE  Held(s) = Sum([i \in 1 .. Len(s) |-> Weight(s[i])], Len(s), 1 .. Len(s))
<1> DEFINE n == Len(s)
           v == [i \in 1 .. n |-> Weight(s[i])]
           next(T, g) == IF T = {} THEN 0
                         ELSE g[T \ {Taken(T)}] + s[Taken(T)].text + s[Taken(T)].thinking
                              + Cardinality(s[Taken(T)].tools)
           it == CHOOSE g : g = [T \in SUBSET DOMAIN s |-> next(T, g)]
           f == SumsOf(v, n)
<1>0. n \in Nat /\ DOMAIN s = 1 .. n
    BY ListDomain
<1>1. Held(s) = it[DOMAIN s]
    BY DEF Held, FoldSeq, FoldFunction, FoldFunctionOnSet, MapThenFoldSet, Taken
<1>2. v \in [1 .. n -> Nat] /\ \A i \in 1 .. n : v[i] = s[i].text + s[i].thinking + Cardinality(s[i].tools)
    BY <1>0 DEF Weight
<1>a. \A i \in 1 .. n : s[i].text \in Nat /\ s[i].thinking \in Nat /\ Cardinality(s[i].tools) \in Nat
    BY <1>0
<1>b. ASSUME NEW x \in 1 .. n, NEW k \in Nat
      PROVE  k + v[x] = k + s[x].text + s[x].thinking + Cardinality(s[x].tools)
    <2>1. v[x] = s[x].text + s[x].thinking + Cardinality(s[x].tools)
        BY <1>2
    <2>2. s[x].text \in Nat /\ s[x].thinking \in Nat /\ Cardinality(s[x].tools) \in Nat
        BY <1>a
    <2> HIDE DEF v
    <2> QED
        BY <2>1, <2>2
<1> HIDE DEF v
<1>3. f = [T \in SUBSET DOMAIN s |-> next(T, f)]
    <2>1. ASSUME NEW T \in SUBSET (1 .. n)
          PROVE  f[T] = next(T, f)
        <3>1. CASE T = {}
            BY <1>0, <1>2, <3>1, SumsFold
        <3>2. CASE T # {}
            <4>1. /\ f[T] = f[T \ {Taken(T)}] + v[Taken(T)]
                  /\ f[T \ {Taken(T)}] \in Nat /\ Taken(T) \in 1 .. n
                BY <1>0, <1>2, <3>2, SumsFold
            <4> HIDE DEF f
            <4>2. f[T] = f[T \ {Taken(T)}] + s[Taken(T)].text + s[Taken(T)].thinking
                         + Cardinality(s[Taken(T)].tools)
                BY <1>b, <4>1
            <4> QED
                BY <3>2, <4>2
        <3> QED
            BY <3>1, <3>2
    <2>2. f = [T \in SUBSET (1 .. n) |-> f[T]]
        BY DEF SumsOf
    <2> HIDE DEF f, next
    <2> QED
        BY <1>0, <2>1, <2>2
<1>4. it = [T \in SUBSET DOMAIN s |-> next(T, it)]
    <2> HIDE DEF f, next
    <2> QED
        BY <1>3
<1> HIDE DEF it, f
<1>5. it[{}] = 0
    BY <1>4
<1>6. ASSUME NEW T \in SUBSET (1 .. n), T # {}, it[T \ {Taken(T)}] \in Nat
      PROVE  it[T] = it[T \ {Taken(T)}] + v[Taken(T)]
    <2>1. it[T] = next(T, it)
        BY <1>0, <1>4
    <2>2. Taken(T) \in 1 .. n
        BY <1>6 DEF Taken
    <2> QED
        BY <1>b, <1>6, <2>1, <2>2
<1>7. it[1 .. n] = Sum(v, n, 1 .. n)
    BY <1>0, <1>2, <1>5, <1>6, FoldsAreSums
<1> QED
    BY <1>0, <1>1, <1>7 DEF v
Weighed(s) == \A i \in DOMAIN s : s[i].text \in Nat /\ s[i].thinking \in Nat /\ Cardinality(s[i].tools) \in Nat

LEMMA HeldOfNone == Held(<<>>) = 0
<1>1. \A i \in DOMAIN <<>> : <<>>[i].text \in Nat /\ <<>>[i].thinking \in Nat /\ Cardinality(<<>>[i].tools) \in Nat
    BY EmptyList
<1>2. Held(<<>>) = Sum([i \in 1 .. Len(<<>>) |-> Weight(<<>>[i])], Len(<<>>), 1 .. Len(<<>>))
    BY <1>1, EmptyList, HeldIsSum
<1>3. 1 .. Len(<<>>) = {} /\ Len(<<>>) = 0
    BY EmptyList
<1>4. [i \in 1 .. 0 |-> Weight(<<>>[i])] \in [1 .. 0 -> Nat]
    OBVIOUS
<1> QED
    BY <1>2, <1>3, <1>4, SumOfNone

LEMMA HeldWithNext ==
    ASSUME NEW s, IsList(s), Weighed(s),
           NEW c, c.text \in Nat, c.thinking \in Nat, Cardinality(c.tools) \in Nat
    PROVE  /\ Held(Append(s, c)) = Held(s) + Weight(c)
           /\ Held(s) \in Nat
           /\ Weighed(Append(s, c))
<1> DEFINE t == Append(s, c)
           n == Len(s)
           v == [i \in 1 .. n |-> Weight(s[i])]
           w == [i \in 1 .. n + 1 |-> Weight(t[i])]
<1>1. n \in Nat /\ DOMAIN s = 1 .. n
    BY ListDomain
<1>2. /\ IsList(t) /\ Len(t) = n + 1 /\ DOMAIN t = 1 .. n + 1
      /\ t[n + 1] = c /\ \A i \in 1 .. n : t[i] = s[i]
    BY <1>1, Appended, ListDomain
<1> HIDE DEF t
<1>3. Weighed(t)
    BY <1>1, <1>2 DEF Weighed
<1>4. v \in [1 .. n -> Nat] /\ w \in [1 .. n + 1 -> Nat]
    <2>1. \A i \in 1 .. n : Weight(s[i]) \in Nat
        BY <1>1 DEF Weighed, Weight
    <2>2. \A i \in 1 .. n + 1 : Weight(t[i]) \in Nat
        BY <1>2, <1>3 DEF Weighed, Weight
    <2> QED
        BY <2>1, <2>2
<1>5. w[n + 1] = Weight(c) /\ \A i \in 1 .. n : w[i] = v[i]
    BY <1>1, <1>2
<1>6. Held(s) = Sum(v, n, 1 .. n)
    BY HeldIsSum DEF Weighed
<1>7. Held(t) = Sum(w, n + 1, 1 .. n + 1)
    BY <1>2, <1>3, HeldIsSum DEF Weighed
<1> HIDE DEF v, w
<1>8. Held(t) = Held(s) + Weight(c) /\ Held(s) \in Nat
    BY <1>1, <1>4, <1>5, <1>6, <1>7, SumWithNext, SumIsNat
<1> QED
    BY <1>3, <1>8 DEF t

-----------------------------------------------------------------------------
(* The text of the deltas of a Responses stream *)

Spoken(s) == FoldSeq(LAMBDA f, n : n + (IF f.type = "response.output_text.delta" THEN f.text ELSE 0), 0, s)
Said(f)   == IF f.type = "response.output_text.delta" THEN f.text ELSE 0

Texts(s) == \A i \in DOMAIN s : s[i].type = "response.output_text.delta" => s[i].text \in Nat

LEMMA SpokenIsSum ==
    ASSUME NEW s, IsList(s), Texts(s)
    PROVE  /\ Spoken(s) = Sum([i \in 1 .. Len(s) |-> Said(s[i])], Len(s), 1 .. Len(s))
           /\ [i \in 1 .. Len(s) |-> Said(s[i])] \in [1 .. Len(s) -> Nat]
<1> DEFINE n == Len(s)
           v == [i \in 1 .. n |-> Said(s[i])]
           next(T, g) ==
               IF T = {} THEN 0
               ELSE g[T \ {Taken(T)}] + (IF s[Taken(T)].type = "response.output_text.delta" THEN s[Taken(T)].text ELSE 0)
           it == CHOOSE g : g = [T \in SUBSET DOMAIN s |-> next(T, g)]
           f == SumsOf(v, n)
<1>0. n \in Nat /\ DOMAIN s = 1 .. n
    BY ListDomain
<1>1. Spoken(s) = it[DOMAIN s]
    BY DEF Spoken, FoldSeq, FoldFunction, FoldFunctionOnSet, MapThenFoldSet, Taken
<1>2. v \in [1 .. n -> Nat]
    BY <1>0 DEF Said, Texts
<1>b. ASSUME NEW x \in 1 .. n
      PROVE  v[x] = IF s[x].type = "response.output_text.delta" THEN s[x].text ELSE 0
    BY <1>0 DEF Said
<1> HIDE DEF v
<1>3. f = [T \in SUBSET DOMAIN s |-> next(T, f)]
    <2>1. ASSUME NEW T \in SUBSET (1 .. n)
          PROVE  f[T] = next(T, f)
        <3>1. CASE T = {}
            BY <1>0, <1>2, <3>1, SumsFold
        <3>2. CASE T # {}
            <4>1. f[T] = f[T \ {Taken(T)}] + v[Taken(T)] /\ Taken(T) \in 1 .. n
                BY <1>0, <1>2, <3>2, SumsFold
            <4> HIDE DEF f
            <4> QED
                BY <1>b, <3>2, <4>1
        <3> QED
            BY <3>1, <3>2
    <2>2. f = [T \in SUBSET (1 .. n) |-> f[T]]
        BY DEF SumsOf
    <2> HIDE DEF f, next
    <2> QED
        BY <1>0, <2>1, <2>2
<1>4. it = [T \in SUBSET DOMAIN s |-> next(T, it)]
    <2> HIDE DEF f, next
    <2> QED
        BY <1>3
<1> HIDE DEF it, f
<1>5. it[{}] = 0
    BY <1>4
<1>6. ASSUME NEW T \in SUBSET (1 .. n), T # {}, it[T \ {Taken(T)}] \in Nat
      PROVE  it[T] = it[T \ {Taken(T)}] + v[Taken(T)]
    <2>1. it[T] = next(T, it)
        BY <1>0, <1>4
    <2>2. Taken(T) \in 1 .. n
        BY <1>6 DEF Taken
    <2> QED
        BY <1>b, <1>6, <2>1, <2>2
<1>7. it[1 .. n] = Sum(v, n, 1 .. n)
    BY <1>0, <1>2, <1>5, <1>6, FoldsAreSums
<1> QED
    BY <1>0, <1>1, <1>2, <1>7 DEF v

LEMMA SpokenOfNone == Spoken(<<>>) = 0 /\ Texts(<<>>)
<1>1. Texts(<<>>)
    BY EmptyList DEF Texts
<1>2. Spoken(<<>>) = Sum([i \in 1 .. Len(<<>>) |-> Said(<<>>[i])], Len(<<>>), 1 .. Len(<<>>))
    BY <1>1, EmptyList, SpokenIsSum
<1>3. 1 .. Len(<<>>) = {} /\ Len(<<>>) = 0
    BY EmptyList
<1>4. [i \in 1 .. 0 |-> Said(<<>>[i])] \in [1 .. 0 -> Nat]
    OBVIOUS
<1> QED
    BY <1>1, <1>2, <1>3, <1>4, SumOfNone

LEMMA SpokenWithNext ==
    ASSUME NEW s, IsList(s), Texts(s), NEW x, x.type = "response.output_text.delta" => x.text \in Nat
    PROVE  Texts(Append(s, x)) /\ Spoken(Append(s, x)) = Spoken(s) + Said(x) /\ Spoken(s) \in Nat
<1> DEFINE t == Append(s, x)
           n == Len(s)
           v == [i \in 1 .. n |-> Said(s[i])]
           w == [i \in 1 .. n + 1 |-> Said(t[i])]
<1>1. n \in Nat /\ DOMAIN s = 1 .. n
    BY ListDomain
<1>2. /\ IsList(t) /\ Len(t) = n + 1 /\ DOMAIN t = 1 .. n + 1
      /\ t[n + 1] = x /\ \A i \in 1 .. n : t[i] = s[i]
    BY <1>1, Appended, ListDomain
<1> HIDE DEF t
<1>3. Texts(t)
    BY <1>1, <1>2 DEF Texts
<1>4. /\ Spoken(s) = Sum(v, n, 1 .. n) /\ v \in [1 .. n -> Nat]
      /\ Spoken(t) = Sum(w, n + 1, 1 .. n + 1) /\ w \in [1 .. n + 1 -> Nat]
    BY <1>2, <1>3, SpokenIsSum
<1>5. w[n + 1] = Said(x) /\ \A i \in 1 .. n : w[i] = v[i]
    BY <1>1, <1>2
<1> HIDE DEF v, w
<1>8. Spoken(t) = Spoken(s) + Said(x) /\ Spoken(s) \in Nat
    BY <1>1, <1>4, <1>5, SumWithNext, SumIsNat
<1> QED
    BY <1>3, <1>8 DEF t

LEMMA SpokenWithSilence ==
    ASSUME NEW s, IsList(s), Texts(s), NEW t, IsList(t),
           \A i \in DOMAIN t : t[i].type # "response.output_text.delta"
    PROVE  Texts(s \o t) /\ Spoken(s \o t) = Spoken(s)
<1> DEFINE u == s \o t
           n == Len(s)
           m == Len(u)
           v == [i \in 1 .. n |-> Said(s[i])]
           w == [i \in 1 .. m |-> Said(u[i])]
<1>1. /\ n \in Nat /\ DOMAIN s = 1 .. n
      /\ IsList(u) /\ m \in Nat /\ DOMAIN u = 1 .. m /\ n <= m
    <2>1. IsList(u) /\ Len(u) = Len(s) + Len(t)
        BY Joined
    <2>2. Len(s) \in Nat /\ Len(t) \in Nat /\ DOMAIN s = 1 .. Len(s)
        BY ListDomain
    <2>3. DOMAIN u = 1 .. Len(u)
        BY <2>1, ListDomain
    <2> HIDE DEF u
    <2> QED
        BY <2>1, <2>2, <2>3
<1>a. /\ \A i \in DOMAIN s : u[i] = s[i]
      /\ \A i \in DOMAIN t : u[n + i] = t[i]
      /\ \A i \in DOMAIN u : i \in DOMAIN s \/ i - n \in DOMAIN t
    <2>1. \A i \in DOMAIN s : u[i] = s[i]
        BY Joined
    <2>2. \A i \in DOMAIN t : u[n + i] = t[i]
        BY Joined
    <2>3. \A i \in DOMAIN u : i \in DOMAIN s \/ i - n \in DOMAIN t
        BY Joined
    <2> QED
        BY <2>1, <2>2, <2>3
<1> HIDE DEF u
<1>2. ASSUME NEW i \in 1 .. m
      PROVE  /\ i <= n => i \in DOMAIN s /\ u[i] = s[i]
             /\ ~(i <= n) => u[i].type # "response.output_text.delta"
    <2>1. CASE i <= n
        BY <1>1, <1>a, <2>1
    <2>2. CASE ~(i <= n)
        <3>1. i - n \in DOMAIN t
            BY <1>1, <1>a, <2>2
        <3>2. u[n + (i - n)] = t[i - n] /\ n + (i - n) = i
            BY <1>1, <1>a, <3>1
        <3> QED
            BY <2>2, <3>1, <3>2
    <2> QED
        BY <2>1, <2>2
<1> HIDE DEF u
<1>3. Texts(u)
    BY <1>1, <1>2 DEF Texts
<1>4. /\ Spoken(s) = Sum(v, n, 1 .. n) /\ v \in [1 .. n -> Nat]
      /\ Spoken(u) = Sum(w, m, 1 .. m) /\ w \in [1 .. m -> Nat]
    BY <1>1, <1>3, SpokenIsSum
<1>5. \A i \in 1 .. m : w[i] = IF i <= n THEN v[i] ELSE 0
    BY <1>1, <1>2 DEF Said
<1> HIDE DEF v, w
<1>6. Spoken(u) = Spoken(s)
    BY <1>1, <1>4, <1>5, SumPadded
<1> QED
    BY <1>3, <1>6 DEF u

-----------------------------------------------------------------------------
(* The events of a Responses stream: the converter's own invariant *)

CreatedAt(s)  == At(s, "response.created")
Parts(s)     == At(s, "response.content_part.added")
Deltas(s)    == At(s, "response.output_text.delta")
TextsDone(s) == At(s, "response.output_text.done")
ItemsDone(s) == At(s, "response.output_item.done")
Completed(s) == At(s, "response.completed")
Failed(s)    == At(s, "response.failed")

(* Events sent before the end, with an item of text in it or not. *)
Begun(s, textOpen) ==
    /\ IsList(s) /\ Sound(s) /\ Texts(s)
    /\ CreatedAt(s) \subseteq {1}
    /\ s # <<>> => s[1].type = "response.created"
    /\ textOpen = FALSE => Parts(s) = {} /\ Deltas(s) = {}
    /\ textOpen = TRUE => \E j : Parts(s) = {j} /\ \A i \in Deltas(s) : j < i
    /\ TextsDone(s) = {} /\ ItemsDone(s) = {} /\ Completed(s) = {}

ResponseFields == {"started", "textOpen", "closed", "text", "tools", "usage", "finish", "sent"}
IsResponse(m)  == m = [f \in ResponseFields |-> m[f]]

ResponseInv(m) ==
    /\ IsResponse(m) /\ m.started \in BOOLEAN /\ m.textOpen \in BOOLEAN /\ m.closed = FALSE
    /\ Begun(m.sent, m.textOpen)
    /\ m.started = FALSE => m.sent = <<>> /\ m.textOpen = FALSE
    /\ m.started = TRUE => m.sent # <<>>
    /\ m.text = Spoken(m.sent)
    /\ m.tools \in SUBSET Nat /\ IsFiniteSet(m.tools)

LEMMA ResponseStarts == ResponseInv(NewResponse)
<1>1. /\ NewResponse.sent = <<>> /\ IsResponse(NewResponse) /\ NewResponse.text = 0
      /\ NewResponse.tools = {} /\ NewResponse.started = FALSE
      /\ NewResponse.textOpen = FALSE /\ NewResponse.closed = FALSE
    BY DEF NewResponse, IsResponse, ResponseFields
<1>2. \A type : At(<<>>, type) = {}
    BY EmptyList DEF At
<1>3. Sound(<<>>)
    BY EmptyList DEF Sound
<1>4. Begun(<<>>, FALSE)
    BY <1>2, <1>3, EmptyList, SpokenOfNone
       DEF Begun, CreatedAt, Parts, Deltas, TextsDone, ItemsDone, Completed
<1> QED
    BY <1>1, <1>4, SpokenOfNone, FS_EmptySet DEF ResponseInv

(* An event before the end: what it may be, and what it leaves open. *)
LEMMA BegunOn ==
    ASSUME NEW s, NEW open \in BOOLEAN, Begun(s, open), NEW x, NEW after,
           \/ x.type = "response.created" /\ s = <<>> /\ after = open
           \/ x.type = "response.output_item.added" /\ s # <<>> /\ after = open
           \/ x.type = "response.content_part.added" /\ s # <<>> /\ open = FALSE /\ after = TRUE
           \/ x.type = "response.output_text.delta" /\ x.text \in Nat /\ s # <<>> /\ open = TRUE /\ after = open
    PROVE  /\ Begun(Append(s, x), after) /\ Append(s, x) # <<>>
           /\ Spoken(Append(s, x)) = Spoken(s) + Said(x) /\ Spoken(s) \in Nat
<1> DEFINE t == Append(s, x)
<1>0. IsList(s) /\ Sound(s) /\ Texts(s)
    BY DEF Begun
<1>1. IsList(t) /\ t # <<>>
    BY <1>0, Appended, NotEmpty
<1>2. Texts(t) /\ Spoken(t) = Spoken(s) + Said(x) /\ Spoken(s) \in Nat
    BY <1>0, SpokenWithNext
<1>3. Sound(t)
    BY <1>0, SoundOn DEF Failures
<1>4. \A type : type # x.type => At(t, type) = At(s, type)
    BY <1>0, AppendedAt
<1>5. At(t, x.type) = At(s, x.type) \cup {Len(s) + 1}
    BY <1>0, AppendedAt
<1>6. t[1].type = "response.created"
    BY <1>0, FirstStays DEF Begun
<1> HIDE DEF t
<1>7. TextsDone(t) = {} /\ ItemsDone(t) = {} /\ Completed(t) = {}
    BY <1>4 DEF TextsDone, ItemsDone, Completed, Begun
<1>8. CASE x.type = "response.created" /\ s = <<>> /\ after = open
    <2>1. CreatedAt(t) = CreatedAt(s) \cup {Len(s) + 1} /\ Parts(t) = Parts(s) /\ Deltas(t) = Deltas(s)
        BY <1>4, <1>5, <1>8 DEF CreatedAt, Parts, Deltas
    <2>2. CreatedAt(s) \subseteq {1} /\ Len(s) + 1 = 1
        BY <1>8, EmptyList DEF Begun
    <2>3. CreatedAt(t) \subseteq {1}
        BY <2>1, <2>2
    <2> QED
        BY <1>1, <1>2, <1>3, <1>6, <1>7, <1>8, <2>1, <2>3 DEF Begun, t
<1>9. CASE x.type = "response.output_item.added" /\ s # <<>> /\ after = open
    <2>1. CreatedAt(t) = CreatedAt(s) /\ Parts(t) = Parts(s) /\ Deltas(t) = Deltas(s)
        BY <1>4, <1>9 DEF CreatedAt, Parts, Deltas
    <2> QED
        BY <1>1, <1>2, <1>3, <1>6, <1>7, <1>9, <2>1 DEF Begun, t
<1>10. CASE x.type = "response.content_part.added" /\ s # <<>> /\ open = FALSE /\ after = TRUE
    <2>1. CreatedAt(t) = CreatedAt(s) /\ Parts(t) = Parts(s) \cup {Len(s) + 1} /\ Deltas(t) = Deltas(s)
        BY <1>4, <1>5, <1>10 DEF CreatedAt, Parts, Deltas
    <2>2. Parts(t) = {Len(s) + 1} /\ Deltas(t) = {}
        BY <1>10, <2>1 DEF Begun
    <2> QED
        BY <1>1, <1>2, <1>3, <1>6, <1>7, <1>10, <2>1, <2>2 DEF Begun, t
<1>11. CASE x.type = "response.output_text.delta" /\ x.text \in Nat /\ s # <<>> /\ open = TRUE /\ after = open
    <2>1. CreatedAt(t) = CreatedAt(s) /\ Parts(t) = Parts(s) /\ Deltas(t) = Deltas(s) \cup {Len(s) + 1}
        BY <1>4, <1>5, <1>11 DEF CreatedAt, Parts, Deltas
    <2>2. PICK j : Parts(s) = {j} /\ \A i \in Deltas(s) : j < i
        BY <1>11 DEF Begun
    <2>3. j \in DOMAIN s
        BY <2>2 DEF Parts, At
    <2>4. j < Len(s) + 1
        BY <1>0, <2>3, ListDomain
    <2>5. \E k : Parts(t) = {k} /\ \A i \in Deltas(t) : k < i
        BY <2>1, <2>2, <2>4
    <2> QED
        BY <1>1, <1>2, <1>3, <1>6, <1>7, <1>11, <2>1, <2>5 DEF Begun, t
<1> QED
    BY <1>8, <1>9, <1>10, <1>11

(* Its data apart, what a converter is that has sent s. *)
LEMMA CreatedKeeps ==
    ASSUME NEW m, ResponseInv(m)
    PROVE  /\ ResponseInv(Created(m)) /\ Created(m).started = TRUE
           /\ \A f \in ResponseFields \ {"started", "sent"} : Created(m)[f] = m[f]
<1>1. CASE m.started
    BY <1>1 DEF Created, ResponseInv
<1>2. CASE ~m.started
    <2> DEFINE x == [type |-> "response.created"]
               n == Created(m)
    <2>1. m.sent = <<>> /\ m.textOpen = FALSE /\ Begun(m.sent, m.textOpen) /\ x.type = "response.created"
        BY <1>2 DEF ResponseInv
    <2>2. /\ IsResponse(n) /\ n.sent = Append(m.sent, x) /\ n.started = TRUE
          /\ \A f \in ResponseFields \ {"started", "sent"} : n[f] = m[f]
        BY <1>2 DEF Created, Emit, ResponseInv, IsResponse, ResponseFields
    <2> HIDE DEF x, n
    <2>3. Begun(n.sent, m.textOpen) /\ n.sent # <<>> /\ Spoken(n.sent) = Spoken(m.sent) + Said(x) /\ Spoken(m.sent) \in Nat
        BY <2>1, <2>2, BegunOn
    <2>4. Said(x) = 0
        BY <2>1 DEF Said
    <2>5. Spoken(n.sent) = Spoken(m.sent)
        BY <2>3, <2>4
    <2>6. n.textOpen = m.textOpen /\ n.closed = m.closed /\ n.text = m.text /\ n.tools = m.tools
        BY <2>2 DEF ResponseFields
    <2>7. ResponseInv(n)
        BY <2>1, <2>2, <2>3, <2>5, <2>6 DEF ResponseInv
    <2> QED
        BY <2>2, <2>7 DEF n
<1> QED
    BY <1>1, <1>2

LEMMA OpenTextKeeps ==
    ASSUME NEW m, ResponseInv(m)
    PROVE  /\ ResponseInv(OpenText(m)) /\ OpenText(m).started = TRUE /\ OpenText(m).textOpen = TRUE
           /\ OpenText(m).text = m.text
<1>1. CASE m.textOpen
    BY <1>1 DEF OpenText, ResponseInv
<1>2. CASE ~m.textOpen
    <2> DEFINE c == Created(m)
               x == [type |-> "response.output_item.added"]
               y == [type |-> "response.content_part.added"]
               n == OpenText(m)
    <2>1. /\ ResponseInv(c) /\ c.started = TRUE /\ c.textOpen = FALSE /\ c.text = m.text
          /\ x.type = "response.output_item.added" /\ y.type = "response.content_part.added"
        BY <1>2, CreatedKeeps DEF ResponseInv, ResponseFields
    <2>2. n = [Emit(Emit(c, x), y) EXCEPT !.textOpen = TRUE]
        BY <1>2 DEF OpenText
    <2> HIDE DEF c, x, y, n
    <2>3. /\ IsResponse(n) /\ n.sent = Append(Append(c.sent, x), y) /\ n.textOpen = TRUE
          /\ n.started = c.started /\ n.closed = c.closed /\ n.text = c.text /\ n.tools = c.tools
        BY <2>1, <2>2 DEF Emit, ResponseInv, IsResponse, ResponseFields
    <2>4. c.sent # <<>> /\ Begun(c.sent, FALSE)
        BY <2>1 DEF ResponseInv
    <2>5. /\ Begun(Append(c.sent, x), FALSE) /\ Append(c.sent, x) # <<>>
          /\ Spoken(Append(c.sent, x)) = Spoken(c.sent) + Said(x) /\ Spoken(c.sent) \in Nat
        BY <2>1, <2>4, BegunOn
    <2> DEFINE s == Append(c.sent, x)
    <2> HIDE DEF s
    <2>6. Begun(s, FALSE) /\ s # <<>> /\ Spoken(s) = Spoken(c.sent) + Said(x) /\ Spoken(c.sent) \in Nat
        BY <2>5 DEF s
    <2>7. /\ Begun(Append(s, y), TRUE) /\ Append(s, y) # <<>>
          /\ Spoken(Append(s, y)) = Spoken(s) + Said(y) /\ Spoken(s) \in Nat
        BY <2>1, <2>6, BegunOn
    <2>8. Said(x) = 0 /\ Said(y) = 0
        BY <2>1 DEF Said
    <2>9. n.sent = Append(s, y) /\ Spoken(n.sent) = Spoken(c.sent)
        BY <2>3, <2>6, <2>7, <2>8 DEF s
    <2>10. ResponseInv(n)
        BY <2>1, <2>3, <2>7, <2>9 DEF ResponseInv
    <2> QED
        BY <2>1, <2>3, <2>10 DEF n
<1> QED
    BY <1>1, <1>2

LEMMA TextDeltaKeeps ==
    ASSUME NEW m, ResponseInv(m), NEW k \in Nat
    PROVE  ResponseInv(TextDelta(m, k))
<1> DEFINE o == OpenText(m)
           x == [type |-> "response.output_text.delta", text |-> k]
           n == TextDelta(m, k)
<1>1. ResponseInv(o) /\ o.started = TRUE /\ o.textOpen = TRUE
    BY OpenTextKeeps
<1>2. x.type = "response.output_text.delta" /\ x.text = k
    OBVIOUS
<1>3. n = [Emit(o, x) EXCEPT !.text = @ + k]
    BY DEF TextDelta
<1> HIDE DEF o, x, n
<1>4. /\ IsResponse(n) /\ n.sent = Append(o.sent, x) /\ n.text = o.text + k
      /\ n.started = o.started /\ n.closed = o.closed /\ n.textOpen = o.textOpen /\ n.tools = o.tools
    BY <1>1, <1>3 DEF Emit, ResponseInv, IsResponse, ResponseFields
<1>5. o.sent # <<>> /\ Begun(o.sent, TRUE) /\ o.text = Spoken(o.sent)
    BY <1>1 DEF ResponseInv
<1>6. Begun(n.sent, TRUE) /\ n.sent # <<>> /\ Spoken(n.sent) = Spoken(o.sent) + Said(x)
    BY <1>2, <1>4, <1>5, BegunOn
<1>7. Said(x) = k
    BY <1>2 DEF Said
<1>8. ResponseInv(n)
    BY <1>1, <1>4, <1>5, <1>6, <1>7 DEF ResponseInv
<1> QED
    BY <1>8 DEF n

LEMMA FeedResponseKeeps ==
    ASSUME NEW m, ResponseInv(m), NEW c, c.text \in Nat, c.tools \in SUBSET Nat, IsFiniteSet(c.tools)
    PROVE  ResponseInv(FeedResponse(m, c))
<1> DEFINE s == IF c.text > 0 THEN TextDelta(m, c.text) ELSE m
           n == FeedResponse(m, c)
<1>1. ResponseInv(s)
    BY TextDeltaKeeps
<1>2. n = [AccumulateTools(s, c.tools) EXCEPT
              !.usage = @ \/ c.usage, !.finish = IF c.finish = "none" THEN @ ELSE c.finish]
    BY DEF FeedResponse, ResponseInv
<1> HIDE DEF s, n
<1>3. /\ IsResponse(n) /\ n.sent = s.sent /\ n.text = s.text /\ n.tools = s.tools \cup c.tools
      /\ n.started = s.started /\ n.closed = s.closed /\ n.textOpen = s.textOpen
    BY <1>1, <1>2 DEF AccumulateTools, ResponseInv, IsResponse, ResponseFields
<1>4. n.tools \in SUBSET Nat /\ IsFiniteSet(n.tools)
    <2>1. IsFiniteSet(s.tools \cup c.tools) /\ s.tools \in SUBSET Nat
        BY <1>1, FS_Union DEF ResponseInv
    <2> QED
        BY <1>3, <2>1
<1>5. ResponseInv(n)
    BY <1>1, <1>3, <1>4 DEF ResponseInv
<1> QED
    BY <1>5 DEF n

(* All that was opened is closed. *)
Shut(s) ==
    /\ IsList(s) /\ Sound(s) /\ Texts(s)
    /\ CreatedAt(s) \subseteq {1}
    /\ s # <<>> /\ s[1].type = "response.created"
    /\ \A i \in Deltas(s) : (\E j \in Parts(s) : j < i) /\ \A j \in TextsDone(s) : i < j
    /\ Cardinality(TextsDone(s)) = Cardinality(Parts(s))
    /\ Completed(s) = {}

LEMMA CloseTextShuts ==
    ASSUME NEW m, ResponseInv(m), m.started = TRUE
    PROVE  /\ Shut(CloseText(m).sent) /\ Spoken(CloseText(m).sent) = Spoken(m.sent)
           /\ \A i \in ItemsDone(CloseText(m).sent) : CloseText(m).sent[i].call = {}
           /\ IsResponse(CloseText(m)) /\ CloseText(m).tools = m.tools
<1>0. m.sent # <<>> /\ Begun(m.sent, m.textOpen) /\ IsResponse(m)
    BY DEF ResponseInv
<1>1. CASE ~m.textOpen
    <2>1. m.textOpen = FALSE /\ CloseText(m) = m
        BY <1>1 DEF ResponseInv, CloseText
    <2>2. Parts(m.sent) = {} /\ Deltas(m.sent) = {} /\ TextsDone(m.sent) = {} /\ ItemsDone(m.sent) = {}
        BY <1>0, <2>1 DEF Begun
    <2>3. Shut(m.sent)
        BY <1>0, <2>2 DEF Shut, Begun
    <2> QED
        BY <1>0, <2>1, <2>2, <2>3
<1>2. CASE m.textOpen
    <2> DEFINE s == m.sent
               x == [type |-> "response.output_text.done"]
               y == [type |-> "response.content_part.done"]
               z == [type |-> "response.output_item.done", call |-> {}]
               a == Append(s, x)
               b == Append(a, y)
               t == Append(b, z)
               n == CloseText(m)
    <2>1. /\ x.type = "response.output_text.done" /\ y.type = "response.content_part.done"
          /\ z.type = "response.output_item.done" /\ z.call = {}
        OBVIOUS
    <2>2. /\ IsResponse(n) /\ n.sent = t /\ n.tools = m.tools
        BY <1>0, <1>2 DEF CloseText, Emit, IsResponse, ResponseFields
    <2>3. /\ Begun(s, TRUE) /\ s # <<>> /\ IsList(s) /\ Sound(s) /\ Texts(s)
        BY <1>0, <1>2 DEF ResponseInv, Begun
    <2> HIDE DEF s, x, y, z, n
    <2>4. IsList(a) /\ Sound(a) /\ Texts(a) /\ Spoken(a) = Spoken(s)
        <3>1. Spoken(a) = Spoken(s) + Said(x) /\ Spoken(s) \in Nat /\ Said(x) = 0 /\ Texts(a)
            BY <2>1, <2>3, SpokenWithNext DEF Said
        <3>2. IsList(a)
            BY <2>3, Appended
        <3>3. Sound(a)
            BY <2>1, <2>3, SoundOn DEF Failures
        <3> QED
            BY <3>1, <3>2, <3>3
    <2>5. Len(s) + 1 \in Nat /\ Len(a) = Len(s) + 1 /\ a[1] = s[1]
        BY <2>3, ListDomain, Appended, FirstStays
    <2>6. /\ TextsDone(a) = TextsDone(s) \cup {Len(s) + 1} /\ Parts(a) = Parts(s) /\ Deltas(a) = Deltas(s)
          /\ ItemsDone(a) = ItemsDone(s) /\ Completed(a) = Completed(s) /\ CreatedAt(a) = CreatedAt(s)
        BY <2>1, <2>3, AppendedAt DEF TextsDone, Parts, Deltas, ItemsDone, Completed, CreatedAt
    <2>7. a # <<>>
        BY <2>3, NotEmpty
    <2> HIDE DEF a
    <2>8. IsList(b) /\ Sound(b) /\ Texts(b) /\ Spoken(b) = Spoken(s)
        <3>1. Spoken(b) = Spoken(a) + Said(y) /\ Spoken(a) \in Nat /\ Said(y) = 0 /\ Texts(b)
            BY <2>1, <2>4, SpokenWithNext DEF Said
        <3>2. IsList(b)
            BY <2>4, Appended
        <3>3. Sound(b)
            BY <2>1, <2>4, SoundOn DEF Failures
        <3> QED
            BY <2>4, <3>1, <3>2, <3>3
    <2>9. b[1] = a[1] /\ b # <<>>
        BY <2>4, <2>7, FirstStays, NotEmpty
    <2>10. /\ TextsDone(b) = TextsDone(a) /\ Parts(b) = Parts(a) /\ Deltas(b) = Deltas(a)
           /\ ItemsDone(b) = ItemsDone(a) /\ Completed(b) = Completed(a) /\ CreatedAt(b) = CreatedAt(a)
        BY <2>1, <2>4, AppendedAt DEF TextsDone, Parts, Deltas, ItemsDone, Completed, CreatedAt
    <2> HIDE DEF b
    <2>11. IsList(t) /\ Sound(t) /\ Texts(t) /\ Spoken(t) = Spoken(s)
        <3>1. Spoken(t) = Spoken(b) + Said(z) /\ Spoken(b) \in Nat /\ Said(z) = 0 /\ Texts(t)
            BY <2>1, <2>8, SpokenWithNext DEF Said
        <3>2. IsList(t)
            BY <2>8, Appended
        <3>3. Sound(t)
            BY <2>1, <2>8, SoundOn DEF Failures
        <3> QED
            BY <2>8, <3>1, <3>2, <3>3
    <2>12. t[1] = b[1] /\ t # <<>> /\ t[Len(b) + 1] = z
        BY <2>8, <2>9, FirstStays, NotEmpty, Appended
    <2>13. /\ TextsDone(t) = TextsDone(b) /\ Parts(t) = Parts(b) /\ Deltas(t) = Deltas(b)
           /\ ItemsDone(t) = ItemsDone(b) \cup {Len(b) + 1} /\ Completed(t) = Completed(b) /\ CreatedAt(t) = CreatedAt(b)
        BY <2>1, <2>8, AppendedAt DEF TextsDone, Parts, Deltas, ItemsDone, Completed, CreatedAt
    <2> HIDE DEF t
    <2>14. /\ TextsDone(s) = {} /\ ItemsDone(s) = {} /\ Completed(s) = {} /\ CreatedAt(s) \subseteq {1}
           /\ s[1].type = "response.created"
        BY <2>3 DEF Begun
    <2>15. PICK j : Parts(s) = {j} /\ \A i \in Deltas(s) : j < i
        BY <2>3 DEF Begun
    <2>16. TextsDone(t) = {Len(s) + 1} /\ Parts(t) = {j} /\ Deltas(t) = Deltas(s) /\ ItemsDone(t) = {Len(b) + 1}
        BY <2>6, <2>10, <2>13, <2>14, <2>15
    <2>17. \A i \in Deltas(s) : i < Len(s) + 1
        BY <2>3, ListDomain DEF Deltas, At
    <2>18. Cardinality({j}) = 1 /\ Cardinality({Len(s) + 1}) = 1
        BY FS_Singleton
    <2>19. Completed(t) = {} /\ CreatedAt(t) \subseteq {1} /\ t[1].type = "response.created"
        BY <2>5, <2>6, <2>9, <2>10, <2>12, <2>13, <2>14
    <2>20. Shut(t)
        BY <2>11, <2>12, <2>15, <2>16, <2>17, <2>18, <2>19 DEF Shut
    <2>21. \A i \in ItemsDone(t) : t[i].call = {}
        BY <2>1, <2>12, <2>16
    <2> QED
        BY <2>2, <2>11, <2>20, <2>21 DEF s, n
<1> QED
    BY <1>1, <1>2

LEMMA EmittedResponse == ASSUME NEW m, IsResponse(m), NEW x PROVE Emit(m, x).sent = Append(m.sent, x)
    BY DEF Emit, IsResponse, ResponseFields

(* An item is told done for each tool call, and once. *)
CallsDone(s, k) == {j \in ItemsDone(s) : s[j].call = {k}}

LEMMA EmitToolsTells ==
    ASSUME NEW m, IsResponse(m), Shut(m.sent), m.tools \in SUBSET Nat, IsFiniteSet(m.tools),
           \A i \in ItemsDone(m.sent) : m.sent[i].call = {}
    PROVE  /\ Shut(EmitTools(m).sent) /\ Spoken(EmitTools(m).sent) = Spoken(m.sent)
           /\ \A k \in m.tools : Cardinality(CallsDone(EmitTools(m).sent, k)) = 1
           /\ IsResponse(EmitTools(m)) /\ EmitTools(m).tools = m.tools
<1> DEFINE s == m.sent
           order == InOrder(m.tools)
           c == Cardinality(m.tools)
           t == [n \in DOMAIN order |-> [type |-> "response.output_item.done", call |-> {order[n]}]]
           u == s \o t
<1>1. /\ c \in Nat /\ order \in [1 .. c -> m.tools]
      /\ \A i, j \in 1 .. c : i < j => order[i] < order[j]
      /\ \A x \in m.tools : \E i \in 1 .. c : order[i] = x
    BY InOrderLists
<1>2. EmitTools(m).sent = u /\ IsResponse(EmitTools(m)) /\ EmitTools(m).tools = m.tools
    BY DEF EmitTools, IsResponse, ResponseFields
<1> HIDE DEF order, c
<1>3. \A i, j \in 1 .. c : order[i] = order[j] => i = j
    <2> SUFFICES ASSUME NEW i \in 1 .. c, NEW j \in 1 .. c, order[i] = order[j] PROVE i = j
        OBVIOUS
    <2>1. order[i] \in Nat
        BY <1>1
    <2> QED
        BY <1>1, <2>1
<1>4. /\ IsList(t) /\ Len(t) = c /\ DOMAIN t = 1 .. c
      /\ \A i \in 1 .. c : t[i].type = "response.output_item.done" /\ t[i].call = {order[i]}
    <2>1. DOMAIN t = 1 .. c
        BY <1>1
    <2>2. \A i \in 1 .. c : t[i].type = "response.output_item.done" /\ t[i].call = {order[i]}
        BY <2>1
    <2>3. t = [i \in 1 .. c |-> t[i]]
        BY <2>1
    <2> HIDE DEF t
    <2> DEFINE T == {t[i] : i \in 1 .. c}
    <2>4. t \in [1 .. c -> T]
        BY <2>3
    <2> HIDE DEF T
    <2>5. t \in Seq(T) /\ Len(t) = c
        BY <1>1, <2>4
    <2>6. IsList(t)
        BY <2>5 DEF IsList
    <2> QED
        BY <2>1, <2>2, <2>5, <2>6
<1> HIDE DEF t
<1>5. /\ IsList(s) /\ Sound(s) /\ Texts(s) /\ s # <<>> /\ Len(s) \in Nat /\ DOMAIN s = 1 .. Len(s)
    BY ListDomain DEF Shut
<1>6. /\ IsList(u) /\ Len(u) = Len(s) + c
      /\ \A i \in DOMAIN s : u[i] = s[i]
      /\ \A i \in 1 .. c : u[Len(s) + i] = t[i]
    <2>0. IsList(t) /\ IsList(s)
        BY <1>4, <1>5
    <2> HIDE DEF s
    <2>1. IsList(u)
        BY <2>0, Joined
    <2>2. Len(u) = Len(s) + Len(t)
        BY <2>0, Joined
    <2>3. \A i \in DOMAIN s : u[i] = s[i]
        BY <2>0, Joined
    <2>4. \A i \in DOMAIN t : u[Len(s) + i] = t[i]
        BY <2>0, Joined
    <2> QED
        BY <1>4, <2>1, <2>2, <2>3, <2>4
<1>7. Texts(u) /\ Spoken(u) = Spoken(s)
    BY <1>4, <1>5, SpokenWithSilence
<1> HIDE DEF u
<1>8. DOMAIN u = 1 .. Len(s) + c
    BY <1>6, ListDomain
<1>9. ASSUME NEW i \in DOMAIN u
      PROVE  \/ i \in DOMAIN s /\ u[i] = s[i]
             \/ /\ i \notin DOMAIN s /\ i - Len(s) \in 1 .. c
                /\ u[i].type = "response.output_item.done" /\ u[i].call = {order[i - Len(s)]}
    <2>1. CASE i <= Len(s)
        BY <1>1, <1>5, <1>6, <1>8, <2>1
    <2>2. CASE ~(i <= Len(s))
        <3>1. i - Len(s) \in 1 .. c /\ Len(s) + (i - Len(s)) = i /\ i \notin DOMAIN s
            BY <1>1, <1>5, <1>8, <2>2
        <3> QED
            BY <1>4, <1>6, <3>1
    <2> QED
        BY <2>1, <2>2
<1>10. \A i \in DOMAIN s : i \in DOMAIN u
    BY <1>1, <1>5, <1>8
<1>11. \A type : type # "response.output_item.done" => At(u, type) = At(s, type)
    BY <1>6, <1>9, <1>10 DEF At
<1>12. Shut(u)
    <2>1. /\ TextsDone(u) = TextsDone(s) /\ Parts(u) = Parts(s) /\ Deltas(u) = Deltas(s)
          /\ Completed(u) = Completed(s) /\ CreatedAt(u) = CreatedAt(s)
        BY <1>11 DEF TextsDone, Parts, Deltas, Completed, CreatedAt
    <2>2. 1 \in DOMAIN s
        BY <1>5, EmptyList
    <2>3. u[1] = s[1] /\ u # <<>>
        BY <1>6, <1>10, <2>2, EmptyList
    <2>4. Sound(u)
        BY <1>5, <1>9 DEF Sound, Failures
    <2>5. Shut(s)
        OBVIOUS
    <2> HIDE DEF s
    <2> QED
        BY <1>6, <1>7, <2>1, <2>3, <2>4, <2>5 DEF Shut
<1>13. ASSUME NEW k \in m.tools
       PROVE  Cardinality(CallsDone(u, k)) = 1
    <2>1. PICK i \in 1 .. c : order[i] = k
        BY <1>1
    <2>2. Len(s) + i \in DOMAIN u /\ u[Len(s) + i].type = "response.output_item.done" /\ u[Len(s) + i].call = {k}
        BY <1>1, <1>4, <1>5, <1>6, <1>8, <2>1
    <2>3. Len(s) + i \in CallsDone(u, k)
        BY <2>2 DEF CallsDone, ItemsDone, At
    <2>4. ASSUME NEW j \in CallsDone(u, k)
          PROVE  j = Len(s) + i
        <3>1. j \in DOMAIN u /\ u[j].type = "response.output_item.done" /\ u[j].call = {k}
            BY <2>4 DEF CallsDone, ItemsDone, At
        <3>2. CASE j \in DOMAIN s /\ u[j] = s[j]
            <4>1. j \in ItemsDone(s)
                BY <3>1, <3>2 DEF ItemsDone, At
            <4>2. s[j].call = {} /\ s[j].call = {k}
                BY <3>1, <3>2, <4>1
            <4> QED
                BY <4>2
        <3>3. CASE j - Len(s) \in 1 .. c /\ u[j].call = {order[j - Len(s)]}
            <4>1. order[j - Len(s)] = k
                BY <3>1, <3>3
            <4>2. j - Len(s) = i
                BY <1>3, <2>1, <3>3, <4>1
            <4> QED
                BY <1>5, <1>8, <3>1, <4>2
        <3> QED
            BY <1>9, <3>1, <3>2, <3>3
    <2>5. CallsDone(u, k) = {Len(s) + i}
        BY <2>3, <2>4
    <2> QED
        BY <2>5, FS_Singleton
<1> QED
    BY <1>2, <1>7, <1>12, <1>13 DEF s

(* What ResponseEventsNest says of the events of one stream. *)
ResponseNests(s) ==
    LET ends == Completed(s) \cup Failed(s) IN
    /\ CreatedAt(s) \subseteq {1}
    /\ \A i \in DOMAIN s : i \notin ends => s[1].type = "response.created"
    /\ ends \subseteq {Len(s)}
    /\ \A i \in Deltas(s) : (\E j \in Parts(s) : j < i) /\ (\A j \in TextsDone(s) : i < j)
    /\ \A i \in Completed(s) :
          /\ Cardinality(TextsDone(s)) = Cardinality(Parts(s))
          /\ s[i].response.text = Spoken(s)
          /\ \A k \in s[i].response.tools : Cardinality(CallsDone(s, k)) = 1

LEMMA NothingFailed == ASSUME NEW s, Sound(s) PROVE Failed(s) = {}
    BY DEF Sound, Failed, Failures, At

LEMMA BegunNests == ASSUME NEW m, ResponseInv(m) PROVE ResponseNests(m.sent)
<1>1. PICK open : Begun(m.sent, open) /\ open \in BOOLEAN
    BY DEF ResponseInv
<1>2. Failed(m.sent) = {} /\ Completed(m.sent) = {}
    BY <1>1, NothingFailed DEF Begun
<1>3. \A i \in DOMAIN m.sent : m.sent # <<>>
    BY EmptyList
<1>4. \A i \in Deltas(m.sent) : (\E j \in Parts(m.sent) : j < i) /\ (\A j \in TextsDone(m.sent) : i < j)
    <2>1. CASE open = FALSE
        BY <1>1, <2>1 DEF Begun
    <2>2. CASE open = TRUE
        BY <1>1, <2>2 DEF Begun
    <2> QED
        BY <1>1, <2>1, <2>2
<1> QED
    BY <1>1, <1>2, <1>3, <1>4 DEF ResponseNests, Begun

LEMMA FailedNests ==
    ASSUME NEW m, ResponseInv(m), NEW x, x.type = "response.failed"
    PROVE  ResponseNests(Append(m.sent, x))
<1> DEFINE s == m.sent
           t == Append(s, x)
<1>1. PICK open : Begun(s, open) /\ open \in BOOLEAN
    BY DEF ResponseInv
<1> HIDE DEF s
<1>2. /\ IsList(s) /\ Failed(s) = {} /\ Completed(s) = {} /\ TextsDone(s) = {} /\ CreatedAt(s) \subseteq {1}
      /\ s # <<>> => s[1].type = "response.created"
    BY <1>1, NothingFailed DEF Begun
<1>3. /\ Failed(t) = Failed(s) \cup {Len(s) + 1}
      /\ TextsDone(t) = TextsDone(s) /\ Parts(t) = Parts(s) /\ Deltas(t) = Deltas(s)
      /\ Completed(t) = Completed(s) /\ CreatedAt(t) = CreatedAt(s)
    <2>1. At(t, "response.failed") = At(s, "response.failed") \cup {Len(s) + 1}
        BY <1>2, AppendedAt
    <2>2. \A type : type # "response.failed" => At(t, type) = At(s, type)
        BY <1>2, AppendedAt
    <2> HIDE DEF t
    <2> QED
        BY <2>1, <2>2 DEF TextsDone, Parts, Deltas, Completed, CreatedAt, Failed
<1>4. /\ Len(t) = Len(s) + 1 /\ DOMAIN t = DOMAIN s \cup {Len(s) + 1}
      /\ s # <<>> => t[1] = s[1]
    BY <1>2, Appended, FirstStays
<1>5. \A i \in DOMAIN s : s # <<>>
    BY EmptyList
<1>6. \A i \in Deltas(s) : \E j \in Parts(s) : j < i
    <2>1. CASE open = FALSE
        BY <1>1, <2>1 DEF Begun
    <2>2. CASE open = TRUE
        BY <1>1, <2>2 DEF Begun
    <2> QED
        BY <1>1, <2>1, <2>2
<1> HIDE DEF t
<1>7. ResponseNests(t)
    BY <1>2, <1>3, <1>4, <1>5, <1>6 DEF ResponseNests
<1> QED
    BY <1>7 DEF t, s

LEMMA FinishedNests ==
    ASSUME NEW m, ResponseInv(m)
    PROVE  /\ ResponseNests(FinishResponse(m).sent)
           /\ Last(FinishResponse(m).sent).type = "response.completed"
           /\ IsList(FinishResponse(m).sent) /\ Sound(FinishResponse(m).sent)
<1> DEFINE c == Created(m)
           d == CloseText(c)
           e == EmitTools(d)
           x == [type |-> "response.completed", response |-> ResponseBody(m)]
           s == e.sent
           t == Append(s, x)
<1>1. ResponseInv(c) /\ c.started = TRUE /\ c.tools = m.tools /\ c.text = m.text
    BY CreatedKeeps DEF ResponseFields
<1>2. /\ x.type = "response.completed" /\ x.response.text = m.text /\ x.response.tools = m.tools
    BY DEF ResponseBody
<1>3. FinishResponse(m).sent = (Emit(e, x)).sent /\ IsResponse(m)
    <2>1. m.closed = FALSE /\ IsResponse(m)
        BY DEF ResponseInv
    <2>2. FinishResponse(m) = [Emit(e, x) EXCEPT !.closed = TRUE]
        BY <2>1 DEF FinishResponse
    <2> HIDE DEF e, x
    <2> QED
        BY <2>1, <2>2 DEF Emit
<1> HIDE DEF c, x
<1>4. /\ Shut(d.sent) /\ Spoken(d.sent) = Spoken(c.sent) /\ IsResponse(d) /\ d.tools = c.tools
      /\ \A i \in ItemsDone(d.sent) : d.sent[i].call = {}
    BY <1>1, CloseTextShuts
<1> HIDE DEF d
<1>5. d.tools \in SUBSET Nat /\ IsFiniteSet(d.tools)
    BY <1>1, <1>4 DEF ResponseInv
<1>6. /\ Shut(s) /\ Spoken(s) = Spoken(d.sent) /\ IsResponse(e)
      /\ \A k \in d.tools : Cardinality(CallsDone(s, k)) = 1
    BY <1>4, <1>5, EmitToolsTells
<1>7. FinishResponse(m).sent = t
    BY <1>3, <1>6, EmittedResponse
<1> HIDE DEF e, s
<1>8. Spoken(s) = m.text
    BY <1>1, <1>4, <1>6 DEF ResponseInv
<1>9. IsList(s) /\ Sound(s) /\ Texts(s) /\ Completed(s) = {} /\ Failed(s) = {} /\ s # <<>>
    BY <1>6, NothingFailed DEF Shut
<1>10. /\ Completed(t) = {Len(s) + 1} /\ Failed(t) = {}
       /\ TextsDone(t) = TextsDone(s) /\ Parts(t) = Parts(s) /\ Deltas(t) = Deltas(s)
       /\ ItemsDone(t) = ItemsDone(s) /\ CreatedAt(t) = CreatedAt(s)
    <2>1. Completed(t) = Completed(s) \cup {Len(s) + 1}
        BY <1>2, <1>9, AppendedAt DEF Completed
    <2>2. /\ Failed(t) = Failed(s)
          /\ TextsDone(t) = TextsDone(s) /\ Parts(t) = Parts(s) /\ Deltas(t) = Deltas(s)
          /\ ItemsDone(t) = ItemsDone(s) /\ CreatedAt(t) = CreatedAt(s)
        BY <1>2, <1>9, AppendedAt DEF Failed, TextsDone, Parts, Deltas, ItemsDone, CreatedAt
    <2> QED
        BY <1>9, <2>1, <2>2
<1>11. /\ IsList(t) /\ Len(t) = Len(s) + 1 /\ t[1] = s[1] /\ t[Len(s) + 1] = x /\ Last(t) = x
       /\ \A i \in DOMAIN s : t[i] = s[i]
    BY <1>9, Appended, FirstStays
<1>12. Spoken(t) = Spoken(s)
    <2>1. Spoken(t) = Spoken(s) + Said(x) /\ Spoken(s) \in Nat /\ Said(x) = 0
        BY <1>2, <1>9, SpokenWithNext DEF Said
    <2> QED
        BY <2>1
<1>13. Sound(t)
    BY <1>2, <1>9, SoundOn DEF Failures
<1> HIDE DEF t
<1>14. \A k : CallsDone(t, k) = CallsDone(s, k)
    BY <1>10, <1>11 DEF CallsDone, ItemsDone, At
<1>15. ResponseNests(t)
    <2>1. \A k \in x.response.tools : Cardinality(CallsDone(t, k)) = 1
        BY <1>1, <1>2, <1>4, <1>6, <1>14
    <2>2. \A i \in Completed(t) : t[i] = x
        BY <1>10, <1>11
    <2>3. x.response.text = Spoken(t)
        BY <1>2, <1>8, <1>12
    <2>4. /\ CreatedAt(t) \subseteq {1} /\ t[1].type = "response.created"
          /\ \A i \in Deltas(t) : (\E j \in Parts(t) : j < i) /\ (\A j \in TextsDone(t) : i < j)
          /\ Cardinality(TextsDone(t)) = Cardinality(Parts(t))
        BY <1>6, <1>10, <1>11 DEF Shut
    <2> QED
        BY <1>10, <1>11, <2>1, <2>2, <2>3, <2>4 DEF ResponseNests
<1> QED
    BY <1>2, <1>7, <1>11, <1>13, <1>15
=============================================================================
