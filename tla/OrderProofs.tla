----------------------------- MODULE OrderProofs -----------------------------
(***************************************************************************)
(* Proofs about Session and FileTransfer on a network without faults, with *)
(* one receiver: the transfer keeps the promise of OrderedDelivery.        *)
(* Either process may be stopped at any point; what lies on the heap       *)
(* behind the sender's segments announces no payload, unless the data have *)
(* more segments than a window, so that nothing there is read.             *)
(*                                                                         *)
(* FlowInv of DeliveryProofs follows the pieces up to the last one.        *)
(* Behind that one the window of the sender holds copies of it and cells   *)
(* of the heap, and it is sent again until its acknowledgment is handled.  *)
(* OrderInv says what may come to the receiver behind the last piece, and  *)
(* what the receiver stores and answers.  AccountInv counts the answers    *)
(* that the sender waits for.                                              *)
(***************************************************************************)
EXTENDS DeliveryProofs, FiniteSetTheorems

\* No cell of the heap claims to have a payload.
NoHeapPayload == \A s \in HeapSegments : s.payloadSize = 0

\* Or no cell of it is read: with more segments than a window, all that
\* advanceWindow copies was written once (segment_handler.cpp:118-152).
HarmlessHeap ==
    \/ NoHeapPayload
    \/ \A size \in Sizes : \/ NumSegments(size % U32) = 0
                           \/ NumSegments(size % U32) > WindowSize

-----------------------------------------------------------------------------
(***************************************************************************)
(* What comes to a receiver that has read the header h, if any, and has    *)
(* the packets of queue q before it: the header counts as number 0.        *)
(***************************************************************************)
Under(q, h, i) == IF i = 0 THEN [kind |-> "header", segment |-> h] ELSE q[i].body

Announces(d) == d.kind = "header" /\ d.segment.payloadSize > 0

Names(size, d, x) ==
    d.segment.seqNum = Offset(x) /\ d.segment.payloadSize = PieceSize(size, x)

IsLast(size, d) == Announces(d) /\ d.segment.seqNum = Offset(NumSegments(size))

\* What comes behind datagram d.
Follows(d, e) ==
    IF Announces(d)
    THEN e = [kind |-> "payload", size |-> d.segment.payloadSize, data |-> d.segment.seqNum]
    ELSE e.kind = "header"

\* Every header with a payload names a piece and has this piece behind it, and
\* nothing but the last piece comes behind the last piece.
Stream(size, q, h) ==
    /\ \A i \in 0 .. Len(q) : Announces(Under(q, h, i)) =>
            \E x \in 1 .. NumSegments(size) : Names(size, Under(q, h, i), x)
    /\ \A i \in 1 .. Len(q) : Follows(Under(q, h, i - 1), Under(q, h, i))
    /\ \A i \in 0 .. Len(q), j \in 0 .. Len(q) :
            i < j /\ IsLast(size, Under(q, h, i)) /\ Announces(Under(q, h, j)) =>
                IsLast(size, Under(q, h, j))
    /\ h = NoSegment \/ h.payloadSize > 0

\* No payload is missing at the end.
Complete(q, h) == ~Announces(Under(q, h, Len(q)))

AllLast(size, q, h) ==
    \A i \in 0 .. Len(q) : Announces(Under(q, h, i)) => IsLast(size, Under(q, h, i))

SomeLast(size, q, h) == \E i \in 0 .. Len(q) : IsLast(size, Under(q, h, i))

-----------------------------------------------------------------------------
(***************************************************************************)
(* The invariant.                                                          *)
(***************************************************************************)
InSend == pc[Sender] \in {"advance", "sendWindow", "awaitAcks"}

\* A cell of the window has the last piece, or nothing.
IsLastCell(i) == window[i].payloadSize > 0 => window[i].seqNum = Offset(Pieces)

\* A cell of the window has a piece or nothing, and behind the last piece there
\* is no other.
WindowInv ==
    pc[Sender] = "sendWindow" =>
        /\ \A i \in 1 .. WindowSize : window[i].payloadSize > 0 =>
              \E x \in 1 .. Pieces : IsPiece(window[i], x)
        /\ \A i \in 1 .. WindowSize, j \in 1 .. WindowSize :
              i < j /\ window[i].payloadSize > 0 /\ window[i].seqNum = Offset(Pieces) =>
                  IsLastCell(j)

\* Each payload comes behind its header, and each header has its payload behind it
\* unless the sender was stopped between the two.  A receiver that has all the
\* pieces will only read the last one again.
StreamInv ==
    pc[Receiver] = "recv" =>
        /\ Stream(dataSize, inbox[Receiver], pending[Receiver])
        /\ pc[Sender] # "stopped" => Complete(inbox[Receiver], pending[Receiver])
        /\ HasAll => AllLast(dataSize, inbox[Receiver], pending[Receiver])

\* Nor will the rest of the window bring another one.
RestInv ==
    /\ pc[Receiver] = "recv" /\ pc[Sender] = "sendWindow"
    /\ HasAll \/ SomeLast(dataSize, inbox[Receiver], pending[Receiver])
    => \A i \in turn .. WindowSize : IsLastCell(i)

\* The pieces are stored in order, and then the last one again.
StoredInOrder ==
    \A i \in 1 .. Len(Received(Receiver)) :
       Received(Receiver)[i].data = Offset(MinOf(i, Pieces))

IsFinPacket(p) == "fin" \in p.body.segment.flags

\* There is a FIN in queue q.
HasFin(q) == \E i \in 1 .. Len(q) : IsFinPacket(q[i])

\* The receiver answers pieces that it has stored, until it sends a FIN.
AnswersIn(n, q, len) ==
    \A i \in 1 .. Len(q) :
        \/ \E f \in 1 .. i : IsFinPacket(q[f])
        \/ \E x \in 1 .. n : x <= len /\ IsAckOf(q[i], x)

AnswersInv ==
    InSend =>
      /\ AnswersIn(Pieces, inbox[Sender], Len(Received(Receiver)))
      /\ pc[Receiver] = "finWait" => HasFin(inbox[Sender])
      /\ \E y \in 0 .. Pieces : y <= Len(Received(Receiver)) /\ Acked(y)

\* The answers to the window's segments that the sender has taken.
Replied == IF pc[Sender] = "awaitAcks" THEN turn - 1 ELSE 0

\* The acknowledgment of the last piece is at place i of queue q.
LastAckAt(n, q, i) ==
    /\ i <= Len(q) /\ IsAckOf(q[i], n)
    /\ \A f \in 1 .. i : ~IsFinPacket(q[f])

\* When the receiver has all the pieces, the sender has handled the
\* acknowledgment of the last one, or will with the answers to this window.
LastAcked ==
    InSend /\ HasAll =>
        \/ LAR = Offset(Pieces)
        \/ /\ pc[Sender] # "advance"
           /\ \E i \in 1 .. WindowSize - Replied : LastAckAt(Pieces, inbox[Sender], i)

\* The last piece is no further ahead than a window (socket.cpp:219-224).
InReach == HasAll => Pieces <= Dropped + 1 + WindowSize

Ordered ==
    StreamInv /\ RestInv /\ WindowInv /\ StoredInOrder /\ AnswersInv /\ LastAcked /\ InReach

OrderInv == Pieces # 0 => Ordered

\* What a window may take from the heap is no data.
HeapInv == Pieces # 0 => NoHeapPayload \/ Pieces > WindowSize

QuietPacket == [from : Node, body : ReplyBody]

\* Without data, or with a size that wraps around, nothing but headers comes.
QuietInv ==
    Pieces = 0 =>
        /\ Received(Receiver) = <<>>
        /\ pending[Receiver] = NoSegment
        /\ inbox[Receiver] \in Seq(QuietPacket)

\* A receiver that is not yet connected has nothing, and one that has saved a
\* file reads no more.
EndsInv ==
    /\ pc[Receiver] \in {"menu", "awaitSynAck"} =>
         Received(Receiver) = <<>> /\ ~saved[Receiver]
    /\ pc[Receiver] = "recv" => ~saved[Receiver]

-----------------------------------------------------------------------------
(***************************************************************************)
(* Offsets, and packets at the ends of a queue.                            *)
(***************************************************************************)

\* Later pieces start strictly later.
LEMMA OffsetStrict ==
    ASSUME NEW x \in Int, NEW y \in Int, x < y
    PROVE  Offset(x) < Offset(y)
  <1>1. Offset(x + 1) <= Offset(y)
    BY OffsetMonotonic
  <1> QED BY <1>1, OffsetNext, SegmentAssumption

\* A piece is known from where it starts.
LEMMA OffsetOne ==
    ASSUME NEW x \in Int, NEW y \in Int, Offset(x) = Offset(y)
    PROVE  x = y
  <1>1. Offset(x) \in Int /\ Offset(y) \in Int
    BY OffsetNext
  <1>2. ~(x < y) /\ ~(y < x)
    BY <1>1, OffsetStrict
  <1> QED BY <1>2

\* The number of a piece, from where it starts.
LEMMA OffsetNumber ==
    ASSUME NEW x \in Nat \ {0}
    PROVE  Offset(x) \div MSS + 1 = x
  <1>1. MSS \in Nat \ {0} /\ x - 1 \in Nat /\ Offset(x) = (x - 1) * MSS
    BY SegmentAssumption DEF Offset
  <1>2. ((x - 1) * MSS) \div MSS = x - 1
    BY <1>1
  <1> QED BY <1>1, <1>2

\* The packets behind the first.
LEMMA TailPackets ==
    ASSUME NEW S, NEW q \in Seq(S), q # <<>>
    PROVE  /\ Tail(q) \in Seq(S) /\ Len(Tail(q)) = Len(q) - 1 /\ Len(q) >= 1
           /\ \A i \in 1 .. Len(q) - 1 : Tail(q)[i] = q[i + 1]
           /\ Head(q) = q[1] /\ q[1] \in S
  OBVIOUS

\* What a sequence has in it.
LEMMA InSequence ==
    ASSUME NEW S, NEW q \in Seq(S), NEW i \in 1 .. Len(q)
    PROVE  q[i] \in S
  OBVIOUS

\* One packet more.
LEMMA OneMore ==
    ASSUME NEW S, NEW q \in Seq(S), NEW p \in S
    PROVE  /\ q \o <<p>> \in Seq(S) /\ Len(q \o <<p>>) = Len(q) + 1
           /\ \A i \in 1 .. Len(q) : (q \o <<p>>)[i] = q[i]
           /\ (q \o <<p>>)[Len(q) + 1] = p
  OBVIOUS

-----------------------------------------------------------------------------
(***************************************************************************)
(* The stream.                                                             *)
(***************************************************************************)

\* Reading what is first, as the header g or as nothing that announces a payload.
LEMMA StreamRead ==
    ASSUME NEW size, NEW q \in Seq(Packet), q # <<>>, NEW h, NEW g,
           Stream(size, q, h),
           g = NoSegment \/ g.payloadSize > 0,
           \/ Under(Tail(q), g, 0) = q[1].body
           \/ ~Announces(q[1].body) /\ ~Announces(Under(Tail(q), g, 0))
    PROVE  /\ Stream(size, Tail(q), g)
           /\ Complete(q, h) => Complete(Tail(q), g)
           /\ AllLast(size, q, h) => AllLast(size, Tail(q), g)
           /\ SomeLast(size, Tail(q), g) => SomeLast(size, q, h)
  <1> DEFINE t == Tail(q)
             D(i) == Under(t, g, i)
             E(i) == Under(q, h, i)
  <1>1. Len(t) \in Nat /\ Len(q) = Len(t) + 1 /\ \A i \in 1 .. Len(t) : t[i] = q[i + 1]
    BY TailPackets
  <1>2. \A i \in 1 .. Len(t) : D(i) = E(i + 1)
    BY <1>1 DEF Under
  <1>3. E(1) = q[1].body /\ (D(0) = E(1) \/ (~Announces(E(1)) /\ ~Announces(D(0))))
    <2>1. E(1) = q[1].body
      BY DEF Under
    <2> QED BY <2>1
  <1>4. /\ \A i \in 0 .. Len(q) : Announces(E(i)) =>
                \E x \in 1 .. NumSegments(size) : Names(size, E(i), x)
        /\ \A i \in 1 .. Len(q) : Follows(E(i - 1), E(i))
        /\ \A i \in 0 .. Len(q), j \in 0 .. Len(q) :
              i < j /\ IsLast(size, E(i)) /\ Announces(E(j)) => IsLast(size, E(j))
    BY DEF Stream
  <1>5. \A d : IsLast(size, d) => Announces(d)
    BY DEF IsLast
  <1>6. PICK n \in Nat : n = Len(t)
    BY <1>1
  <1>7. Len(q) = n + 1
    BY <1>1, <1>6
  <1>8. Complete(q, h) = ~Announces(E(n + 1)) /\ Complete(t, g) = ~Announces(D(n))
    BY <1>6, <1>7 DEF Complete
  <1>9. /\ AllLast(size, q, h) = \A i \in 0 .. n + 1 : Announces(E(i)) => IsLast(size, E(i))
        /\ AllLast(size, t, g) = \A i \in 0 .. n : Announces(D(i)) => IsLast(size, D(i))
        /\ SomeLast(size, q, h) = \E i \in 0 .. n + 1 : IsLast(size, E(i))
        /\ SomeLast(size, t, g) = \E i \in 0 .. n : IsLast(size, D(i))
    BY <1>6, <1>7 DEF AllLast, SomeLast
  <1>10. \A i \in 0 .. n : D(i) = E(i + 1) \/ (i = 0 /\ ~Announces(D(i)) /\ ~Announces(E(i + 1)))
    <2>1. \A i \in 0 .. n : i = 0 \/ i \in 1 .. n
      OBVIOUS
    <2> HIDE DEF D, E
    <2> QED BY <1>2, <1>3, <1>6, <2>1
  <1>11. \A i \in 0 .. n : i + 1 \in 0 .. n + 1 /\ i + 1 \in 1 .. n + 1
    OBVIOUS
  <1>12. \A i \in 0 .. n : Announces(D(i)) =>
           \E x \in 1 .. NumSegments(size) : Names(size, D(i), x)
    <2> HIDE DEF D, E
    <2> QED BY <1>4, <1>7, <1>10, <1>11
  <1>13. \A i \in 1 .. n : Follows(D(i - 1), D(i))
    <2> HIDE DEF D, E
    <2> SUFFICES ASSUME NEW i \in 1 .. n
                 PROVE  Follows(D(i - 1), D(i))
      OBVIOUS
    <2>1. i - 1 \in 0 .. n /\ (i - 1) + 1 = i /\ i + 1 \in 1 .. n + 1 /\ (i + 1) - 1 = i
      OBVIOUS
    <2>2. Follows(E(i), E(i + 1)) /\ D(i) = E(i + 1)
      BY <1>2, <1>4, <1>6, <1>7, <2>1
    <2>3. D(i - 1) = E(i) \/ (~Announces(D(i - 1)) /\ ~Announces(E(i)))
      BY <1>10, <2>1
    <2> QED BY <2>2, <2>3 DEF Follows
  <1>14. \A i \in 0 .. n, j \in 0 .. n :
              i < j /\ IsLast(size, D(i)) /\ Announces(D(j)) => IsLast(size, D(j))
    <2> HIDE DEF D, E
    <2> SUFFICES ASSUME NEW i \in 0 .. n, NEW j \in 0 .. n, i < j,
                        IsLast(size, D(i)), Announces(D(j))
                 PROVE  IsLast(size, D(j))
      OBVIOUS
    <2>1. D(i) = E(i + 1) /\ D(j) = E(j + 1)
      BY <1>5, <1>10
    <2>2. i + 1 \in 0 .. Len(q) /\ j + 1 \in 0 .. Len(q) /\ i + 1 < j + 1
      BY <1>7
    <2>3. IsLast(size, E(j + 1))
      BY <1>4, <2>1, <2>2
    <2> QED BY <2>1, <2>3
  <1>15. Stream(size, t, g)
    BY <1>6, <1>12, <1>13, <1>14 DEF Stream
  <1> HIDE DEF D, E
  <1>16. Complete(q, h) => Complete(t, g)
    <2>1. n \in 0 .. n
      OBVIOUS
    <2> QED BY <1>8, <1>10, <2>1
  <1>17. AllLast(size, q, h) => AllLast(size, t, g)
    BY <1>9, <1>10, <1>11
  <1>18. SomeLast(size, t, g) => SomeLast(size, q, h)
    BY <1>5, <1>9, <1>10, <1>11
  <1> QED BY <1>15, <1>16, <1>17, <1>18

\* One packet more, as it may follow.
LEMMA StreamGrows ==
    ASSUME NEW size, NEW q \in Seq(Packet), NEW h, NEW p \in Packet,
           Stream(size, q, h), Follows(Under(q, h, Len(q)), p.body),
           Announces(p.body) => /\ \E x \in 1 .. NumSegments(size) : Names(size, p.body, x)
                                /\ SomeLast(size, q, h) => IsLast(size, p.body)
    PROVE  /\ Stream(size, q \o <<p>>, h)
           /\ Complete(q \o <<p>>, h) <=> ~Announces(p.body)
           /\ AllLast(size, q, h) /\ (Announces(p.body) => IsLast(size, p.body)) =>
                AllLast(size, q \o <<p>>, h)
           /\ SomeLast(size, q \o <<p>>, h) => SomeLast(size, q, h) \/ IsLast(size, p.body)
           /\ Under(q \o <<p>>, h, Len(q \o <<p>>)) = p.body
  <1> DEFINE t == q \o <<p>>
             D(i) == Under(t, h, i)
             E(i) == Under(q, h, i)
  <1>1. PICK n \in Nat : n = Len(q)
    OBVIOUS
  <1>2. Len(t) = n + 1 /\ (\A i \in 1 .. n : t[i] = q[i]) /\ t[n + 1] = p
    BY <1>1, OneMore
  <1>3. \A i \in 0 .. n : D(i) = E(i)
    <2>1. \A i \in 0 .. n : i = 0 \/ i \in 1 .. n
      OBVIOUS
    <2> HIDE DEF t
    <2> QED BY <1>2, <2>1 DEF Under
  <1>4. D(n + 1) = p.body
    <2>1. n + 1 # 0
      OBVIOUS
    <2> HIDE DEF t
    <2> QED BY <1>2, <2>1 DEF Under
  <1>5. /\ \A i \in 0 .. n : Announces(E(i)) =>
                \E x \in 1 .. NumSegments(size) : Names(size, E(i), x)
        /\ \A i \in 1 .. n : Follows(E(i - 1), E(i))
        /\ \A i \in 0 .. n, j \in 0 .. n :
              i < j /\ IsLast(size, E(i)) /\ Announces(E(j)) => IsLast(size, E(j))
        /\ h = NoSegment \/ h.payloadSize > 0
    BY <1>1 DEF Stream
  <1>6. /\ Follows(E(n), p.body)
        /\ Announces(p.body) => /\ \E x \in 1 .. NumSegments(size) : Names(size, p.body, x)
                                /\ SomeLast(size, q, h) => IsLast(size, p.body)
    BY <1>1
  <1>7. /\ SomeLast(size, q, h) = \E i \in 0 .. n : IsLast(size, E(i))
        /\ SomeLast(size, t, h) = \E i \in 0 .. n + 1 : IsLast(size, D(i))
        /\ AllLast(size, q, h) = \A i \in 0 .. n : Announces(E(i)) => IsLast(size, E(i))
        /\ AllLast(size, t, h) = \A i \in 0 .. n + 1 : Announces(D(i)) => IsLast(size, D(i))
        /\ Complete(t, h) = ~Announces(D(n + 1))
        /\ Under(t, h, Len(t)) = D(n + 1)
    BY <1>1, <1>2 DEF SomeLast, AllLast, Complete
  <1> HIDE DEF D, E
  <1>8. \A i \in 0 .. n + 1 : i \in 0 .. n \/ i = n + 1
    OBVIOUS
  <1>9. \A i \in 0 .. n + 1 : Announces(D(i)) =>
            \E x \in 1 .. NumSegments(size) : Names(size, D(i), x)
    BY <1>3, <1>4, <1>5, <1>6, <1>8
  <1>10. \A i \in 1 .. n + 1 : Follows(D(i - 1), D(i))
    <2>1. \A i \in 1 .. n + 1 : i - 1 \in 0 .. n /\ ((i \in 1 .. n /\ i \in 0 .. n) \/ i = n + 1)
      OBVIOUS
    <2>2. n + 1 - 1 = n
      OBVIOUS
    <2> QED BY <1>3, <1>4, <1>5, <1>6, <2>1, <2>2
  <1>11. \A i \in 0 .. n + 1, j \in 0 .. n + 1 :
            i < j /\ IsLast(size, D(i)) /\ Announces(D(j)) => IsLast(size, D(j))
    <2> SUFFICES ASSUME NEW i \in 0 .. n + 1, NEW j \in 0 .. n + 1, i < j,
                        IsLast(size, D(i)), Announces(D(j))
                 PROVE  IsLast(size, D(j))
      OBVIOUS
    <2>1. i \in 0 .. n
      OBVIOUS
    <2>2. CASE j \in 0 .. n
      BY <1>3, <1>5, <2>1, <2>2
    <2>3. CASE j = n + 1
      BY <1>3, <1>4, <1>6, <1>7, <2>1, <2>3
    <2> QED BY <1>8, <2>2, <2>3
  <1>12. Stream(size, t, h)
    BY <1>2, <1>5, <1>9, <1>10, <1>11 DEF Stream, D
  <1>13. n + 1 \in 0 .. n + 1 /\ \A i \in 0 .. n : i \in 0 .. n + 1
    OBVIOUS
  <1>14. Complete(t, h) <=> ~Announces(p.body)
    BY <1>4, <1>7
  <1>15. AllLast(size, q, h) /\ (Announces(p.body) => IsLast(size, p.body)) => AllLast(size, t, h)
    BY <1>3, <1>4, <1>7, <1>8
  <1>16. SomeLast(size, t, h) => SomeLast(size, q, h) \/ IsLast(size, p.body)
    BY <1>3, <1>4, <1>7, <1>8
  <1> QED BY <1>4, <1>7, <1>12, <1>14, <1>15, <1>16

\* A queue without a header that was read.
LEMMA StreamEmpty ==
    ASSUME NEW size
    PROVE  /\ Stream(size, <<>>, NoSegment) /\ Complete(<<>>, NoSegment)
           /\ AllLast(size, <<>>, NoSegment) /\ ~SomeLast(size, <<>>, NoSegment)
  <1>1. ~Announces(Under(<<>>, NoSegment, 0)) /\ Len(<<>>) = 0
    BY DEF Announces, Under, NoSegment, ControlSegment
  <1>2. 0 .. 0 = {0} /\ 1 .. 0 = {}
    OBVIOUS
  <1> QED BY <1>1, <1>2 DEF Stream, Complete, AllLast, SomeLast, IsLast

-----------------------------------------------------------------------------
(***************************************************************************)
(* What the one sends to the other.                                        *)
(***************************************************************************)

\* The queue to other, with the header of c behind it, if other listens.
Reaches(other, queue, after, c) ==
    IF Deaf(other) THEN after = queue
    ELSE \E p \in Packet : p.body = Header(c) /\ after = queue \o <<p>>

\* The one packet of a segment without payload.
LEMMA HeaderReaches ==
    ASSUME NEW queues, QueuesOK(queues), NEW n \in Node, NEW other \in Node,
           NEW c \in Segment, c.payloadSize = 0
    PROVE  /\ Reaches(other, queues[other], Sent(queues, n, other, Wire(c))[other], c)
           /\ \A q \in Node \ {other} : Sent(queues, n, other, Wire(c))[q] = queues[q]
  <1>1. CASE Deaf(other)
    <2>1. Sent(queues, n, other, Wire(c)) = queues
      BY <1>1 DEF Sent
    <2> QED BY <1>1, <2>1 DEF Reaches
  <1>2. CASE ~Deaf(other)
    <2>1. Wire(c) = <<Header(c)>> /\ Wire(c) \in Seq(Datagram)
      BY ControlWire, WireTyped
    <2>2. PICK wire \in Seq(Datagram) : wire = Wire(c)
      BY <2>1
    <2>3. Len(wire) = 1 /\ wire[1] = Header(c)
      BY <2>1, <2>2
    <2>4. PICK more : more = PacketsOf(n, wire)
      OBVIOUS
    <2>5. more \in Seq(Packet) /\ Len(more) = 1 /\ more[1].body = Header(c)
      BY <2>2, <2>4, <2>3, PacketsTyped
    <2>6. more[1] \in Packet /\ more = <<more[1]>>
      <3>1. more \in Seq(Packet) /\ Len(more) = 1
        BY <2>5
      <3>2. more[1] \in Packet
        <4>1. 1 \in 1 .. Len(more)
          BY ONLY <3>1
        <4> QED BY ONLY <3>1, <4>1, InSequence
      <3>3. more = <<more[1]>>
        BY ONLY <3>1
      <3> QED BY ONLY <3>2, <3>3
    <2>7. PICK p \in Packet : p = more[1] /\ more = <<p>>
      BY <2>6
    <2>8. /\ Sent(queues, n, other, wire)[other] = queues[other] \o more
          /\ \A q \in Node \ {other} : Sent(queues, n, other, wire)[q] = queues[q]
      BY <1>2, <2>4, SentBehind
    <2> QED BY <1>2, <2>2, <2>5, <2>7, <2>8 DEF Reaches
  <1> QED BY <1>1, <1>2

\* An answer to what was received.
LEMMA AnswerReaches ==
    ASSUME Undisturbed, Channels, NEW n \in Node, NEW other \in Node, n # other,
           inbox[n] # <<>>, PeerAfterReceive(n) = other,
           NEW c \in Segment, c.payloadSize = 0,
           NEW result \in SendResults(c), Answer(n, result.wire)
    PROVE  /\ inbox'[n] = Tail(inbox[n]) /\ pending'[n] = NoSegment
           /\ pending'[other] = pending[other]
           /\ Reaches(other, inbox[other], inbox'[other], c)
  <1>1. QueuesOK(inbox)
    BY DEF Channels
  <1>2. PICK queues : queues = [inbox EXCEPT ![n] = Tail(@)]
    OBVIOUS
  <1>3. QueuesOK(queues)
    BY <1>1, <1>2, TailChannels
  <1>4. queues[n] = Tail(inbox[n]) /\ queues[other] = inbox[other]
    BY <1>1, <1>2 DEF QueuesOK
  <1>5. result.wire = Wire(c)
    <2>1. SendResults(c) = {[wire |-> Wire(c), ok |-> TRUE]}
      BY NothingFails
    <2> QED BY <2>1
  <1>6. /\ inbox' = Sent(queues, n, other, Wire(c))
        /\ pending' = [pending EXCEPT ![n] = NoSegment]
    BY <1>2, <1>5 DEF Answer, AnswerTo
  <1>7. /\ Reaches(other, queues[other], Sent(queues, n, other, Wire(c))[other], c)
        /\ \A q \in Node \ {other} : Sent(queues, n, other, Wire(c))[q] = queues[q]
    BY <1>3, HeaderReaches
  <1>8. pending'[n] = NoSegment /\ pending'[other] = pending[other]
    BY <1>6 DEF Channels
  <1> QED BY <1>4, <1>6, <1>7, <1>8

\* No answer.
LEMMA ConsumeReaches ==
    ASSUME Channels, NEW n \in Node, NEW other \in Node, n # other,
           inbox[n] # <<>>, Consume(n)
    PROVE  /\ inbox'[n] = Tail(inbox[n]) /\ pending'[n] = NoSegment
           /\ pending'[other] = pending[other] /\ inbox'[other] = inbox[other]
  <1>1. /\ inbox' = [inbox EXCEPT ![n] = Tail(@)]
        /\ pending' = [pending EXCEPT ![n] = NoSegment]
    BY DEF Consume, Answer, AnswerTo, Sent
  <1> QED BY <1>1 DEF Channels, QueuesOK

\* Something that is sent unasked.
LEMMA PostReaches ==
    ASSUME Undisturbed, Channels, NEW n \in Node, NEW other \in Node, n # other,
           peerAddr[n] = other, NEW c \in Segment, c.payloadSize = 0,
           NEW result \in SendResults(c), Post(n, result.wire)
    PROVE  /\ inbox'[n] = inbox[n] /\ pending' = pending
           /\ Reaches(other, inbox[other], inbox'[other], c)
  <1>1. QueuesOK(inbox)
    BY DEF Channels
  <1>2. result.wire = Wire(c)
    <2>1. SendResults(c) = {[wire |-> Wire(c), ok |-> TRUE]}
      BY NothingFails
    <2> QED BY <2>1
  <1>3. inbox' = Sent(inbox, n, other, Wire(c)) /\ pending' = pending
    BY <1>2 DEF Post
  <1>4. /\ Reaches(other, inbox[other], Sent(inbox, n, other, Wire(c))[other], c)
        /\ \A q \in Node \ {other} : Sent(inbox, n, other, Wire(c))[q] = inbox[q]
    BY <1>1, HeaderReaches
  <1> QED BY <1>3, <1>4

\* Either has the other for its peer.
LEMMA PeersAre ==
    ASSUME Undisturbed, Channels
    PROVE  /\ pc[Receiver] # "menu" => peerAddr[Receiver] = Sender
           /\ pc[Sender] \notin Unpaired => peerAddr[Sender] = Receiver
           /\ pc[Receiver] # "menu" /\ inbox[Receiver] # <<>> =>
                PeerAfterReceive(Receiver) = Sender
           /\ pc[Sender] \notin Unpaired /\ inbox[Sender] # <<>> =>
                PeerAfterReceive(Sender) = Receiver
  <1>1. /\ pc[Receiver] # "menu" => peerAddr[Receiver] = Sender
        /\ pc[Sender] \notin Unpaired => peerAddr[Sender] = Receiver
    BY TheReceiver DEF Channels
  <1>2. inbox[Receiver] # <<>> => Head(inbox[Receiver]).from = Sender
    <2> SUFFICES ASSUME inbox[Receiver] # <<>>
                 PROVE  Head(inbox[Receiver]).from = Sender
      OBVIOUS
    <2>1. Head(inbox[Receiver]) \in Expected(Receiver)
      BY TheReceiver, HeadTailSeq DEF Channels, QueuesOK
    <2> QED BY <2>1, TheReceiver DEF Expected
  <1>3. inbox[Sender] # <<>> => Head(inbox[Sender]).from = Receiver
    <2> SUFFICES ASSUME inbox[Sender] # <<>>
                 PROVE  Head(inbox[Sender]).from = Receiver
      OBVIOUS
    <2>1. Head(inbox[Sender]) \in Expected(Sender)
      BY TheReceiver, HeadTailSeq DEF Channels, QueuesOK
    <2> QED BY <2>1, TheReceiver DEF Expected
  <1> QED BY <1>1, <1>2, <1>3 DEF PeerAfterReceive

-----------------------------------------------------------------------------
(***************************************************************************)
(* What the handler does for a file that has pieces.                       *)
(***************************************************************************)

\* Where there are pieces there is data, and it is cut.
LEMMA PiecesAreCut ==
    ASSUME HandlerInv, Pieces # 0
    PROVE  /\ dataSize # 0 /\ Cut(dataSize) /\ ~spinning
           /\ Len(segmentCells) = Pieces /\ Pieces \in Nat \ {0}
           /\ NumSegments(dataSize) = Pieces
           /\ bufLen \in 0 .. Pieces /\ Dropped = Pieces - bufLen /\ Dropped \in Nat
           /\ segmentCells \in Seq(Segment)
  <1>1. dataSize # 0
    <2>1. MSS - 1 \in Nat /\ MSS - 1 < MSS /\ MSS - 1 < U32 /\ U32 \in Nat \ {0}
          /\ MSS \in Nat \ {0} /\ 0 + MSS - 1 = MSS - 1
      BY SegmentAssumption
    <2>2. (0 + MSS - 1) % U32 = MSS - 1 /\ (MSS - 1) \div MSS = 0
      BY ONLY <2>1, ModSmall, DivSmall
    <2> QED BY <2>2 DEF Pieces, NumSegments
  <1>2. /\ Cut(dataSize) /\ ~spinning
        /\ Len(segmentCells) = Pieces /\ Pieces \in Nat \ {0}
    BY <1>1, FileIsCut
  <1>3. bufLen \in 0 .. Len(segmentCells) /\ segmentCells \in Seq(Segment)
    BY DEF HandlerInv, HandlerTypeOK
  <1> QED BY <1>1, <1>2, <1>3 DEF Pieces, Dropped

\* Any acknowledgment of a piece, when those of pieces up to y have been handled.
LEMMA AnyAckHandled ==
    ASSUME HandlerInv, Pieces # 0, NEW y \in 0 .. Pieces, Acked(y),
           NEW x \in 1 .. Pieces, handleAck(Offset(x))
    PROVE  /\ dataSize' = dataSize /\ window' = window
           /\ Acked(x)' \/ Acked(y)'
           /\ Dropped' >= Dropped /\ LAR' >= LAR /\ LAR' >= Offset(x)
  <1>1. /\ dataSize # 0 /\ ~spinning /\ Len(segmentCells) = Pieces /\ Pieces \in Nat
        /\ Cut(dataSize) /\ NumSegments(dataSize) = Pieces
        /\ bufLen \in 0 .. Pieces /\ Dropped = Pieces - bufLen
        /\ segmentCells \in Seq(Segment)
    BY PiecesAreCut
  <1>2. Offset(x) \in UInt32 /\ Offset(x) \in Nat /\ Offset(x) = (x - 1) * MSS
    BY <1>1, PiecesFit, SegmentAssumption DEF UInt32
  <1>3. window' = window
    BY DEF handleAck
  <1>4. LAR \in Nat
    BY SegmentAssumption DEF HandlerInv, HandlerTypeOK, UInt32
  <1>5. CASE ~(Offset(x) > LAR)
    <2>1. UNCHANGED <<bufferVars, dataSize, LAR>>
      BY <1>5 DEF handleAck, IsNewAck
    <2>2. Acked(y)' /\ Dropped' = Dropped
      BY <2>1 DEF Acked, Dropped, Offset, bufferVars
    <2> QED BY <1>1, <1>2, <1>3, <1>4, <1>5, <2>1, <2>2
  <1>6. CASE Offset(x) > LAR
    <2>1. PICK m \in 0 .. bufLen :
            /\ m < bufLen => segmentCells[m + 1].seqNum >= Offset(x)
            /\ \A i \in 1 .. m : segmentCells[i].seqNum < Offset(x)
            /\ segmentCells' = EraseFront(segmentCells, bufLen, m)
            /\ bufLen' = bufLen - m
            /\ LAR' = Offset(x)
            /\ UNCHANGED dataSize
      BY <1>1, <1>2, <1>6, HandleAckStep
    <2>2. Dropped <= x - 1
      <3>1. CASE y = 0
        BY <3>1 DEF Acked
      <3>2. CASE y > 0
        <4>1. LAR = Offset(y) /\ Dropped = y - 1
          BY <3>2 DEF Acked
        <4>2. ~(x <= y)
          <5>1. x <= y => Offset(x) <= Offset(y)
            BY OffsetMonotonic
          <5> QED BY <1>2, <1>4, <1>6, <4>1, <5>1
        <4> QED BY <4>1, <4>2
      <3> QED BY <3>1, <3>2
    <2>3. PICK t \in Nat : t = x - 1 - Dropped
      BY <1>1, <2>2
    <2>4. t < bufLen
      BY <1>1, <2>3
    <2>5. \A i \in 1 .. bufLen : segmentCells[i].seqNum = Offset(Dropped + i)
      <3> SUFFICES ASSUME NEW i \in 1 .. bufLen
                   PROVE  segmentCells[i].seqNum = Offset(Dropped + i)
        OBVIOUS
      <3>1. i \in 1 .. Len(segmentCells) /\ MinOf(Dropped + i, Len(segmentCells)) = Dropped + i
        BY <1>1 DEF MinOf
      <3> QED BY <3>1 DEF HandlerInv, StorageShape, IsPiece
    <2>6. ~(m > t)
      <3> SUFFICES ASSUME m > t
                   PROVE  FALSE
        OBVIOUS
      <3>1. t + 1 \in 1 .. m /\ t + 1 \in 1 .. bufLen /\ Dropped + (t + 1) = x
        BY <1>1, <2>3, <2>4
      <3> QED BY <1>2, <2>1, <2>5, <3>1
    <2>7. ~(m < t)
      <3> SUFFICES ASSUME m < t
                   PROVE  FALSE
        OBVIOUS
      <3>1. m < bufLen /\ m + 1 \in 1 .. bufLen /\ Dropped + (m + 1) < x
            /\ Dropped + (m + 1) \in Int
        BY <1>1, <2>3, <2>4
      <3>2. segmentCells[m + 1].seqNum < Offset(x)
        BY <2>5, <3>1, OffsetStrict
      <3>3. /\ segmentCells[m + 1].seqNum = Offset(Dropped + (m + 1))
            /\ Offset(Dropped + (m + 1)) \in Int
        BY <2>5, <3>1, OffsetNext
      <3> QED BY <1>2, <2>1, <3>1, <3>2, <3>3
    <2>8. m = t
      BY <2>6, <2>7
    <2>9. Len(segmentCells') = Len(segmentCells)
      BY <1>1, <2>1, EraseFrontCells
    <2>10. Dropped' = x - 1 /\ Dropped' >= Dropped
      BY <1>1, <2>1, <2>2, <2>3, <2>8, <2>9 DEF Dropped
    <2>11. Acked(x)'
      BY <2>1, <2>10 DEF Acked, Offset
    <2> QED BY <1>2, <1>3, <1>4, <1>6, <2>1, <2>10, <2>11
  <1> QED BY <1>5, <1>6

\* The last piece is the last that can be acknowledged.
LEMMA LastIsLast ==
    ASSUME NEW n \in Nat \ {0}, NEW z \in 0 .. n, NEW lar \in Int,
           lar = IF z = 0 THEN 0 ELSE Offset(z), lar >= Offset(n)
    PROVE  lar = Offset(n)
  <1>1. Offset(n) \in Int /\ Offset(1) = 0 /\ Offset(1) <= Offset(n)
    <2>1. Offset(1) = 0
      BY SegmentAssumption DEF Offset
    <2> QED BY <2>1, OffsetNext, OffsetMonotonic
  <1>2. z # 0 => Offset(z) <= Offset(n) /\ Offset(z) \in Int
    BY OffsetNext, OffsetMonotonic
  <1> QED BY <1>1, <1>2

\* The cells of a window, and the pieces they have.
LEMMA WindowCells ==
    ASSUME HeapInv, HandlerInv, Pieces # 0, helper \in {0, 1}, advanceWindow(helper),
           NEW i \in 1 .. WindowSize, window' # <<>>, window'[i].payloadSize > 0
    PROVE  IsPiece(window'[i], MinOf(Dropped + Index(helper, i) + 1, Pieces))
  <1>1. Len(segmentCells) = Pieces /\ Pieces \in Nat /\ Dropped \in Nat
    BY PiecesAreCut
  <1>2. PICK heap \in [1 .. WindowSize -> HeapSegments] :
          window' = [c \in 1 .. WindowSize |-> CellAt(Index(helper, c), heap[c])]
    BY DEF advanceWindow
  <1>3. window'[i] = CellAt(Index(helper, i), heap[i])
    BY <1>2
  <1>4. Index(helper, i) < Len(segmentCells)
    <2>1. CASE NoHeapPayload
      BY <1>3, <2>1, HandlerAssumption DEF CellAt, NoHeapPayload
    <2>2. CASE Pieces > WindowSize
      <3>1. Index(helper, i) <= WindowSize /\ Index(helper, i) \in Int /\ WindowSize \in Int
        BY HandlerAssumption DEF Index
      <3> QED BY ONLY <1>1, <2>2, <3>1
    <2> QED BY <2>1, <2>2 DEF HeapInv
  <1>5. Index(helper, i) \in Nat /\ Index(helper, i) + 1 \in 1 .. Len(segmentCells)
    BY <1>1, <1>4 DEF Index
  <1>6. window'[i] = segmentCells[Index(helper, i) + 1]
    BY <1>3, <1>4 DEF CellAt
  <1>7. IsPiece(segmentCells[Index(helper, i) + 1],
                MinOf(Dropped + (Index(helper, i) + 1), Len(segmentCells)))
    BY <1>5 DEF HandlerInv, StorageShape
  <1>8. Dropped + (Index(helper, i) + 1) = Dropped + Index(helper, i) + 1
    BY <1>1, <1>5
  <1> QED BY <1>1, <1>6, <1>7, <1>8

\* A window has the pieces in their order, and only the last one when all others
\* are released.
LEMMA WindowOrdered ==
    ASSUME Undisturbed, HeapInv, LocalInv, HandlerInv, Pieces # 0, NextWindow
    PROVE  /\ WindowInv'
           /\ Dropped >= Pieces - 1 /\ pc'[Sender] = "sendWindow" =>
                \A i \in 1 .. WindowSize : IsLastCell(i)'
           /\ UNCHANGED <<dataSize, LAR>> /\ Dropped' = Dropped /\ Pieces' = Pieces
           /\ turn' = 1 /\ UNCHANGED <<recvVars, inbox, pending>>
           /\ pc'[Receiver] = pc[Receiver] /\ pc'[Sender] \in {"close", "sendWindow"}
           /\ bufLen > 0 => pc'[Sender] = "sendWindow"
  <1>1. /\ helper \in {0, 1} /\ advanceWindow(helper) /\ turn' = 1
        /\ pc' = [pc EXCEPT ![Sender] = IF window' = <<>> THEN "close" ELSE "sendWindow"]
        /\ UNCHANGED <<recvVars, inbox, pending>>
    BY DEF NextWindow, LocalInv
  <1>2. UNCHANGED <<bufferVars, dataSize, LAR>> /\ Dropped' = Dropped /\ Pieces' = Pieces
    BY <1>1 DEF advanceWindow, Dropped, Pieces, bufferVars
  <1>3. /\ pc'[Receiver] = pc[Receiver] /\ pc'[Sender] \in {"close", "sendWindow"}
        /\ pc'[Sender] = "sendWindow" => window' # <<>>
        /\ window' # <<>> => pc'[Sender] = "sendWindow"
    BY <1>1, TheReceiver DEF LocalInv
  <1>4. bufLen > 0 => window' # <<>>
    <2> SUFFICES ASSUME bufLen > 0
                 PROVE  window' # <<>>
      OBVIOUS
    <2>1. PICK heap \in [1 .. WindowSize -> HeapSegments] :
            window' = [c \in 1 .. WindowSize |-> CellAt(Index(helper, c), heap[c])]
      BY <1>1 DEF advanceWindow
    <2>2. 1 \in DOMAIN window'
      BY <2>1, HandlerAssumption
    <2> QED BY <2>2
  <1>5. PICK n \in Nat \ {0}, d \in Nat, called \in {0, 1} :
          n = Pieces /\ d = Dropped /\ called = helper
    BY <1>1, PiecesAreCut
  <1> DEFINE P(i) == MinOf(d + Index(called, i) + 1, n)
  <1>6. \A i \in 1 .. WindowSize : P(i) \in 1 .. n /\ (d >= n - 1 => P(i) = n)
    <2> SUFFICES ASSUME NEW i \in 1 .. WindowSize
                 PROVE  P(i) \in 1 .. n /\ (d >= n - 1 => P(i) = n)
      OBVIOUS
    <2>1. Index(called, i) \in Nat
      BY HandlerAssumption DEF Index
    <2> QED BY <2>1 DEF MinOf
  <1>7. \A i \in 1 .. WindowSize, j \in 1 .. WindowSize : i < j /\ P(i) = n => P(j) = n
    <2> SUFFICES ASSUME NEW i \in 1 .. WindowSize, NEW j \in 1 .. WindowSize, i < j, P(i) = n
                 PROVE  P(j) = n
      OBVIOUS
    <2>1. /\ Index(called, i) \in Nat /\ Index(called, j) \in Nat
          /\ Index(called, i) < Index(called, j)
      BY HandlerAssumption DEF Index
    <2> QED BY <2>1 DEF MinOf
  <1>8. ASSUME window' # <<>>, NEW i \in 1 .. WindowSize, window'[i].payloadSize > 0
        PROVE  /\ IsPiece(window[i], P(i))'
               /\ window'[i].seqNum = Offset(n) <=> P(i) = n
    <2>1. IsPiece(window'[i], P(i))
      BY <1>1, <1>5, <1>8, WindowCells
    <2>2. IsPiece(window[i], P(i))'
      BY <1>1, <1>2, <1>5, <2>1 DEF IsPiece, Offset, Index
    <2>3. window'[i].seqNum = Offset(P(i)) /\ P(i) \in Int /\ n \in Int
      BY <1>6, <2>1 DEF IsPiece
    <2> QED BY <2>2, <2>3, OffsetOne
  <1> HIDE DEF P
  <1>9. Pieces' = n /\ Offset(Pieces)' = Offset(n)
    BY <1>2, <1>5 DEF Offset
  <1>10. window' # <<>> => \A i \in 1 .. WindowSize : window'[i].payloadSize > 0 =>
                              \E x \in 1 .. Pieces' : IsPiece(window[i], x)'
    BY <1>6, <1>8, <1>9
  <1>11. window' # <<>> => \A i \in 1 .. WindowSize, j \in 1 .. WindowSize :
            i < j /\ window'[i].payloadSize > 0 /\ window'[i].seqNum = Offset(Pieces)' =>
                IsLastCell(j)'
    BY <1>7, <1>8, <1>9 DEF IsLastCell
  <1>12. WindowInv'
    BY <1>3, <1>10, <1>11 DEF WindowInv
  <1>13. Dropped >= Pieces - 1 /\ pc'[Sender] = "sendWindow" =>
            \A i \in 1 .. WindowSize : IsLastCell(i)'
    BY <1>3, <1>5, <1>6, <1>8, <1>9 DEF IsLastCell
  <1> QED BY <1>1, <1>2, <1>3, <1>4, <1>12, <1>13

-----------------------------------------------------------------------------
(***************************************************************************)
(* The answers on their way to the sender.                                 *)
(***************************************************************************)

\* One more answer: of a piece that is stored, a FIN, or something behind a FIN.
LEMMA AnswersMore ==
    ASSUME NEW n \in Nat, NEW q \in Seq(Packet), NEW p \in Packet,
           NEW len \in Nat, NEW more \in Nat, len <= more, AnswersIn(n, q, len),
           \/ \E x \in 1 .. n : x <= more /\ IsAckOf(p, x)
           \/ IsFinPacket(p)
           \/ HasFin(q)
    PROVE  /\ AnswersIn(n, q \o <<p>>, more)
           /\ IsFinPacket(p) \/ HasFin(q) => HasFin(q \o <<p>>)
           /\ \A i \in Nat \ {0} : LastAckAt(n, q, i) => LastAckAt(n, q \o <<p>>, i)
  <1>1. PICK m \in Nat : m = Len(q)
    OBVIOUS
  <1> DEFINE t == q \o <<p>>
  <1>2. m = Len(q) /\ t = q \o <<p>>
    BY <1>1
  <1>3. Len(t) = m + 1 /\ (\A i \in 1 .. m : t[i] = q[i]) /\ t[m + 1] = p
    BY <1>2, OneMore
  <1> HIDE DEF t
  <1>4. IsFinPacket(p) \/ HasFin(q) => HasFin(t)
    <2>1. m + 1 \in 1 .. m + 1 /\ \A i \in 1 .. m : i \in 1 .. m + 1
      OBVIOUS
    <2> QED BY <1>2, <1>3, <2>1 DEF HasFin
  <1>5. AnswersIn(n, t, more)
    <2> SUFFICES ASSUME NEW i \in 1 .. m + 1
                 PROVE  \/ \E f \in 1 .. i : IsFinPacket(t[f])
                        \/ \E x \in 1 .. n : x <= more /\ IsAckOf(t[i], x)
      BY <1>3 DEF AnswersIn
    <2>1. CASE i \in 1 .. m
      <3>1. /\ t[i] = q[i] /\ \A f \in 1 .. i : t[f] = q[f]
            /\ \A x \in 1 .. n : x <= len => x <= more
        BY <1>3, <2>1
      <3> QED BY <1>2, <2>1, <3>1 DEF AnswersIn
    <2>2. CASE i = m + 1
      <3>1. m + 1 \in 1 .. i /\ \A f \in 1 .. m : f \in 1 .. i
        BY <2>2
      <3> QED BY <1>2, <1>3, <2>2, <3>1 DEF HasFin
    <2> QED BY <2>1, <2>2
  <1>6. ASSUME NEW i \in Nat \ {0}, LastAckAt(n, q, i)
        PROVE  LastAckAt(n, t, i)
    <2>1. i <= m
      BY <1>2, <1>6 DEF LastAckAt
    <2>2. i <= m + 1 /\ t[i] = q[i] /\ \A f \in 1 .. i : t[f] = q[f]
      BY <1>3, <2>1
    <2> QED BY <1>3, <1>6, <2>2 DEF LastAckAt
  <1> QED BY <1>2, <1>4, <1>5, <1>6

\* The first answer is taken, and is no FIN.
LEMMA AnswersTaken ==
    ASSUME NEW n \in Nat, NEW q \in Seq(Packet), q # <<>>, NEW len \in Nat,
           AnswersIn(n, q, len), ~IsFinPacket(q[1])
    PROVE  /\ AnswersIn(n, Tail(q), len)
           /\ HasFin(q) => HasFin(Tail(q))
           /\ \A i \in Nat : i > 1 /\ LastAckAt(n, q, i) => LastAckAt(n, Tail(q), i - 1)
           /\ \E x \in 1 .. n : x <= len /\ IsAckOf(q[1], x)
  <1>1. PICK m \in Nat : m = Len(q) - 1
    BY TailPackets
  <1> DEFINE t == Tail(q)
  <1>2. m = Len(q) - 1 /\ t = Tail(q)
    BY <1>1
  <1>3. Len(q) = m + 1 /\ Len(t) = m /\ \A i \in 1 .. m : t[i] = q[i + 1]
    BY <1>2, TailPackets
  <1> HIDE DEF t
  <1>4. \A i \in 1 .. m : i + 1 \in 1 .. m + 1
    OBVIOUS
  <1>5. \A f \in 1 .. m + 1 : f = 1 \/ (f - 1 \in 1 .. m /\ (f - 1) + 1 = f)
    OBVIOUS
  <1>6. HasFin(q) => HasFin(t)
    <2> SUFFICES ASSUME NEW f \in 1 .. m + 1, IsFinPacket(q[f])
                 PROVE  HasFin(t)
      BY <1>3 DEF HasFin
    <2>1. f - 1 \in 1 .. m /\ (f - 1) + 1 = f
      BY <1>5
    <2>2. IsFinPacket(t[f - 1])
      BY <1>3, <2>1
    <2> QED BY <1>3, <2>1, <2>2 DEF HasFin
  <1>7. AnswersIn(n, t, len)
    <2> SUFFICES ASSUME NEW i \in 1 .. m
                 PROVE  \/ \E f \in 1 .. i : IsFinPacket(t[f])
                        \/ \E x \in 1 .. n : x <= len /\ IsAckOf(t[i], x)
      BY <1>3 DEF AnswersIn
    <2>1. \/ \E f \in 1 .. i + 1 : IsFinPacket(q[f])
          \/ \E x \in 1 .. n : x <= len /\ IsAckOf(q[i + 1], x)
      BY <1>3, <1>4 DEF AnswersIn
    <2>2. ASSUME NEW f \in 1 .. i + 1, IsFinPacket(q[f])
          PROVE  \E g \in 1 .. i : IsFinPacket(t[g])
      <3>1. f # 1
        BY <2>2
      <3>2. f - 1 \in 1 .. i /\ f - 1 \in 1 .. m /\ (f - 1) + 1 = f
        BY <3>1
      <3>3. t[f - 1] = q[f]
        BY <1>3, <3>2
      <3> QED BY <2>2, <3>2, <3>3
    <2> QED BY <1>3, <2>1, <2>2
  <1>8. ASSUME NEW i \in Nat, i > 1, LastAckAt(n, q, i)
        PROVE  LastAckAt(n, t, i - 1)
    <2>1. i <= m + 1 /\ IsAckOf(q[i], n) /\ \A f \in 1 .. i : ~IsFinPacket(q[f])
      BY <1>3, <1>8 DEF LastAckAt
    <2>2. i - 1 \in 1 .. m /\ (i - 1) + 1 = i
      BY <1>8, <2>1
    <2>3. t[i - 1] = q[i]
      BY <1>3, <2>2
    <2>4. \A f \in 1 .. i - 1 : f \in 1 .. m /\ f + 1 \in 1 .. i
      BY <2>2
    <2> QED BY <1>3, <2>1, <2>2, <2>3, <2>4 DEF LastAckAt
  <1>9. \E x \in 1 .. n : x <= len /\ IsAckOf(q[1], x)
    <2>1. 1 \in 1 .. Len(q) /\ \A f \in 1 .. 1 : f = 1
      BY <1>3
    <2> QED BY <2>1 DEF AnswersIn
  <1> QED BY <1>2, <1>6, <1>7, <1>8, <1>9

-----------------------------------------------------------------------------
(***************************************************************************)
(* The sender's steps.                                                     *)
(***************************************************************************)

\* What does not depend on the sender.
LEMMA ReceiverQuiet ==
    ASSUME UNCHANGED recvVars, dataSize' = dataSize
    PROVE  /\ Received(Receiver)' = Received(Receiver) /\ Pieces' = Pieces
           /\ HasAll' <=> HasAll
           /\ StoredInOrder => StoredInOrder'
  BY DEF Received, Pieces, HasAll, Offset, StoredInOrder, recvVars

\* The queue to the receiver, as it was.
LEMMA StreamStays ==
    ASSUME StreamInv, UNCHANGED recvVars, dataSize' = dataSize, pc'[Receiver] = pc[Receiver],
           inbox'[Receiver] = inbox[Receiver], pending'[Receiver] = pending[Receiver],
           pc'[Sender] = "stopped" \/ pc[Sender] # "stopped"
    PROVE  StreamInv'
  BY ReceiverQuiet DEF StreamInv, Stream, Complete, AllLast, IsLast, Names, NumSegments,
     PieceSize, Offset

\* The receiver has all the pieces, or more of them are on the way to it.
LEMMA WhichOne ==
    ASSUME FlowInv, Pieces # 0, HandlerInv
    PROVE  dataSize # 0 /\ dataSize <= Capacity /\ (HasAll \/ GivenUp \/ Filling)
  BY PiecesAreCut DEF FlowInv

\* Between two windows nothing is on the way to a receiver that lacks a piece.
LEMMA NothingLeft ==
    ASSUME Undisturbed, TransferInv, HandlerInv, FlowInv, Pieces # 0,
           pc[Sender] = "advance", pc[Receiver] = "recv", ~HasAll
    PROVE  inbox[Receiver] = <<>> /\ pending[Receiver] = NoSegment
  <1>1. dataSize # 0 /\ Filling
    BY WhichOne DEF GivenUp
  <1>2. PICK k \in Nat, j \in Nat, s \in Nat, lone \in {0, 1} : FillingAt(k, j, s, lone)
    BY <1>1 DEF Filling
  <1>3. j = 0 /\ s = 0 /\ lone = 0
    BY <1>2 DEF FillingAt, SenderAt
  <1>4. /\ k + j < Pieces /\ NumSegments(dataSize) = Pieces /\ Pieces \in Nat
        /\ inbox[Receiver] \in Seq(Packet)
    BY <1>1, <1>2, FillingFacts
  <1>5. PICK q, h : q = inbox[Receiver] /\ h = pending[Receiver]
    OBVIOUS
  <1>6. InFlight(dataSize, q, h, 0 + k, 0, 0, 0)
    BY <1>2, <1>3, <1>5 DEF FillingAt
  <1>7. k \in Nat /\ 0 < Pieces - k /\ MinOf(0, Pieces - k) = 0 /\ 2 * (0 - 0) = 0
    BY <1>3, <1>4 DEF MinOf
  <1>8. h = NoSegment
    BY <1>4, <1>6, <1>7 DEF InFlight
  <1>9. Len(q) = 0
    BY <1>4, <1>6, <1>7, <1>8 DEF InFlight
  <1> QED BY <1>4, <1>5, <1>8, <1>9

\* A window is made.
LEMMA WindowStep ==
    ASSUME Undisturbed, HeapInv, TransferInv, HandlerInv, FlowInv, Pieces # 0, Ordered,
           NextWindow
    PROVE  Ordered'
  <1> USE DEF TransferInv
  <1>1. /\ WindowInv'
        /\ Dropped >= Pieces - 1 /\ pc'[Sender] = "sendWindow" =>
                \A i \in 1 .. WindowSize : IsLastCell(i)'
        /\ UNCHANGED <<dataSize, LAR>> /\ Dropped' = Dropped /\ Pieces' = Pieces
        /\ turn' = 1 /\ UNCHANGED <<recvVars, inbox, pending>>
        /\ pc'[Receiver] = pc[Receiver] /\ pc'[Sender] \in {"close", "sendWindow"}
    BY WindowOrdered
  <1>2. pc[Sender] = "advance" /\ InSend
    BY DEF NextWindow, InSend
  <1>3. /\ Received(Receiver)' = Received(Receiver) /\ (HasAll' <=> HasAll)
        /\ StoredInOrder'
    BY <1>1, ReceiverQuiet DEF Ordered
  <1>4. StreamInv'
    BY <1>1, <1>2, StreamStays DEF Ordered
  <1>5. Pieces \in Nat \ {0} /\ Dropped \in Nat
    BY PiecesAreCut
  <1>6. HasAll => LAR = Offset(Pieces)
    BY <1>2 DEF Ordered, LastAcked
  <1>7. PICK y \in 0 .. Pieces : y <= Len(Received(Receiver)) /\ Acked(y)
    BY <1>2 DEF Ordered, AnswersInv
  <1>8. HasAll => Dropped >= Pieces - 1
    <2>1. Offset(1) = 0
      BY SegmentAssumption DEF Offset
    <2>2. LAR = Offset(Pieces) => (y = 0 /\ Pieces = 1) \/ y = Pieces
      BY <1>5, <1>7, <2>1, OffsetOne DEF Acked
    <2>3. Dropped = IF y = 0 THEN 0 ELSE y - 1
      BY <1>7 DEF Acked
    <2> QED BY <1>5, <1>6, <2>2, <2>3
  <1>9. RestInv'
    <2> SUFFICES ASSUME pc'[Receiver] = "recv", pc'[Sender] = "sendWindow",
                        HasAll' \/ SomeLast(dataSize', inbox'[Receiver], pending'[Receiver])
                 PROVE  \A i \in 1 .. WindowSize : IsLastCell(i)'
      BY <1>1 DEF RestInv, SomeLast, IsLast
    <2>1. ASSUME ~HasAll
          PROVE  FALSE
      <3>1. inbox'[Receiver] = <<>> /\ pending'[Receiver] = NoSegment
        BY <1>1, <1>2, <2>1, NothingLeft
      <3> QED BY <1>3, <2>1, <3>1, StreamEmpty
    <2> QED BY <1>1, <1>8, <2>1
  <1>10. AnswersInv'
    <2>1. Acked(y)'
      BY <1>1, <1>7 DEF Acked, Offset
    <2> QED BY <1>1, <1>2, <1>3, <1>7, <2>1 DEF Ordered, AnswersInv
  <1>11. LastAcked' /\ InReach'
    BY <1>1, <1>3, <1>6 DEF Ordered, LastAcked, InReach, Offset
  <1> QED BY <1>1, <1>3, <1>4, <1>9, <1>10, <1>11 DEF Ordered

\* A piece behind a stream that lacks no payload.
LEMMA PieceGrows ==
    ASSUME NEW size, NEW q \in Seq(Packet), NEW h, NEW a \in Packet, NEW b \in Packet,
           NEW x \in 1 .. NumSegments(size), PieceSize(size, x) > 0,
           Stream(size, q, h), Complete(q, h),
           IsHeaderOf(size, a, x), IsPayloadOf(size, b, x),
           SomeLast(size, q, h) => IsLast(size, a.body)
    PROVE  /\ Stream(size, (q \o <<a>>) \o <<b>>, h)
           /\ Complete((q \o <<a>>) \o <<b>>, h)
           /\ AllLast(size, q, h) /\ IsLast(size, a.body) =>
                AllLast(size, (q \o <<a>>) \o <<b>>, h)
           /\ SomeLast(size, (q \o <<a>>) \o <<b>>, h) =>
                SomeLast(size, q, h) \/ IsLast(size, a.body)
  <1>1. /\ Announces(a.body) /\ Names(size, a.body, x)
        /\ a.body.segment.payloadSize = PieceSize(size, x) /\ a.body.segment.seqNum = Offset(x)
    BY DEF IsHeaderOf, Announces, Names
  <1>2. Follows(Under(q, h, Len(q)), a.body)
    BY DEF Complete, Follows, IsHeaderOf
  <1> DEFINE t == q \o <<a>>
  <1>3. /\ Stream(size, t, h)
        /\ AllLast(size, q, h) /\ IsLast(size, a.body) => AllLast(size, t, h)
        /\ SomeLast(size, t, h) => SomeLast(size, q, h) \/ IsLast(size, a.body)
        /\ Under(t, h, Len(t)) = a.body
    BY <1>1, <1>2, StreamGrows
  <1>4. t \in Seq(Packet)
    OBVIOUS
  <1>5. Follows(a.body, b.body) /\ ~Announces(b.body) /\ ~IsLast(size, b.body)
    BY <1>1 DEF Follows, IsPayloadOf, Announces, IsLast
  <1> HIDE DEF t
  <1>6. Follows(Under(t, h, Len(t)), b.body)
    BY <1>3, <1>5
  <1>7. /\ Stream(size, t \o <<b>>, h)
        /\ Complete(t \o <<b>>, h)
        /\ AllLast(size, t, h) => AllLast(size, t \o <<b>>, h)
        /\ SomeLast(size, t \o <<b>>, h) => SomeLast(size, t, h)
    BY <1>3, <1>4, <1>5, <1>6, StreamGrows
  <1> QED BY <1>3, <1>7 DEF t

\* Or a segment without payload, or nothing.
LEMMA ControlGrows ==
    ASSUME NEW size, NEW q \in Seq(Packet), NEW h, NEW p \in Packet, NEW c,
           c.payloadSize = 0, p.body = Header(c),
           Stream(size, q, h), Complete(q, h)
    PROVE  /\ Stream(size, q \o <<p>>, h)
           /\ Complete(q \o <<p>>, h)
           /\ AllLast(size, q, h) => AllLast(size, q \o <<p>>, h)
           /\ SomeLast(size, q \o <<p>>, h) => SomeLast(size, q, h)
  <1>1. p.body.kind = "header" /\ p.body.segment = [c EXCEPT !.data = NoData]
    BY DEF Header
  <1>2. p.body.segment.payloadSize = c.payloadSize
    BY <1>1
  <1>3. ~Announces(p.body) /\ ~IsLast(size, p.body)
    BY <1>2, SegmentAssumption DEF Announces, IsLast
  <1>4. Follows(Under(q, h, Len(q)), p.body)
    BY <1>1 DEF Complete, Follows
  <1> QED BY <1>3, <1>4, StreamGrows

\* What a step of sendWindow sends.
LEMMA SegmentSent ==
    ASSUME Undisturbed, TransferInv, HandlerInv, Pieces # 0, WindowInv, SendSegment
    PROVE  /\ inbox'[Sender] = inbox[Sender] /\ pending' = pending
           /\ turn \in 1 .. WindowSize /\ Outgoing = window[turn]
           /\ \/ Deaf(Receiver) /\ inbox'[Receiver] = inbox[Receiver]
              \/ \E p \in Packet : /\ Outgoing.payloadSize = 0 /\ p.body = Header(Outgoing)
                                   /\ inbox'[Receiver] = inbox[Receiver] \o <<p>>
              \/ \E a \in Packet, b \in Packet, x \in 1 .. Pieces :
                    /\ Outgoing.payloadSize > 0 /\ Outgoing.seqNum = Offset(x)
                    /\ IsHeaderOf(dataSize, a, x) /\ IsPayloadOf(dataSize, b, x)
                    /\ inbox'[Receiver] = (inbox[Receiver] \o <<a>>) \o <<b>>
  <1> USE DEF TransferInv
  <1>1. /\ pc[Sender] = "sendWindow" /\ turn \in 1 .. WindowSize /\ Outgoing = window[turn]
        /\ Outgoing \in Segment /\ peerAddr[Sender] = Receiver
    BY OutgoingTyped, PeersAre DEF SendSegment, LocalInv, Unpaired, Outgoing
  <1>2. PICK result \in SendResults(Outgoing) : Post(Sender, result.wire)
    BY DEF SendSegment
  <1>3. QueuesOK(inbox) /\ Sender \in Node /\ Receiver \in Node /\ Sender # Receiver
    BY TheReceiver DEF Channels
  <1>4. CASE Outgoing.payloadSize = 0
    <2>1. /\ inbox'[Sender] = inbox[Sender] /\ pending' = pending
          /\ Reaches(Receiver, inbox[Receiver], inbox'[Receiver], Outgoing)
      BY <1>1, <1>2, <1>3, <1>4, PostReaches
    <2>2. \/ Deaf(Receiver) /\ inbox'[Receiver] = inbox[Receiver]
          \/ \E p \in Packet : /\ p.body = Header(Outgoing)
                               /\ inbox'[Receiver] = inbox[Receiver] \o <<p>>
      BY <2>1 DEF Reaches
    <2> QED BY <1>1, <1>4, <2>1, <2>2
  <1>5. CASE Outgoing.payloadSize # 0
    <2>1. Outgoing.payloadSize > 0
      BY <1>1, <1>5, SegmentAssumption DEF Segment, UInt32
    <2>2. PICK x \in 1 .. Pieces : IsPiece(window[turn], x)
      BY <1>1, <2>1 DEF WindowInv
    <2>3. Cut(dataSize) /\ NumSegments(dataSize) = Pieces
      BY PiecesAreCut
    <2>4. /\ Outgoing.seqNum = Offset(x) /\ Outgoing.data = Offset(x)
          /\ Outgoing.payloadSize = PieceSize(dataSize, x)
      BY <1>1, <2>2 DEF IsPiece, PieceSize
    <2>5. PICK wire : wire = Wire(Outgoing)
      OBVIOUS
    <2>6. PICK more : more = PacketsOf(Sender, wire)
      OBVIOUS
    <2>7. /\ Len(more) = 2 /\ IsHeaderOf(dataSize, more[1], x) /\ IsPayloadOf(dataSize, more[2], x)
          /\ wire \in Seq(Datagram)
      BY <1>1, <2>3, <2>4, <2>5, <2>6, PieceWire
    <2>8. more \in Seq(Packet)
      BY <1>3, <2>6, <2>7, PacketsTyped
    <2>9. inbox' = Sent(inbox, Sender, Receiver, wire) /\ pending' = pending
      <3>1. SendResults(Outgoing) = {[wire |-> Wire(Outgoing), ok |-> TRUE]}
        BY NothingFails
      <3>2. result.wire = wire
        BY <1>2, <2>5, <3>1
      <3> QED BY <1>1, <1>2, <3>2 DEF Post
    <2>10. CASE Deaf(Receiver)
      <3>1. inbox' = inbox
        BY <2>9, <2>10 DEF Sent
      <3> QED BY <1>1, <2>9, <2>10, <3>1
    <2>11. CASE ~Deaf(Receiver)
      <3>1. /\ Sent(inbox, Sender, Receiver, wire)[Receiver] = inbox[Receiver] \o more
            /\ \A q \in Node \ {Receiver} : Sent(inbox, Sender, Receiver, wire)[q] = inbox[q]
        <4>1. wire \in Seq(Datagram) /\ ~Deaf(Receiver) /\ QueuesOK(inbox)
              /\ Sender \in Node /\ Receiver \in Node
          BY <1>3, <2>7, <2>11
        <4>2. /\ Sent(inbox, Sender, Receiver, wire)[Receiver]
                   = inbox[Receiver] \o PacketsOf(Sender, wire)
              /\ \A q \in Node \ {Receiver} : Sent(inbox, Sender, Receiver, wire)[q] = inbox[q]
          BY ONLY <4>1, SentBehind
        <4> QED BY <2>6, <4>2
      <3>2. inbox'[Receiver] = inbox[Receiver] \o more /\ inbox'[Sender] = inbox[Sender]
        BY <1>3, <2>9, <3>1
      <3>3. more[1] \in Packet /\ more[2] \in Packet
        <4>1. more \in Seq(Packet) /\ Len(more) = 2
          BY <2>7, <2>8
        <4>2. 1 \in 1 .. Len(more) /\ 2 \in 1 .. Len(more)
          BY ONLY <4>1
        <4> QED BY ONLY <4>1, <4>2, InSequence
      <3>4. PICK a \in Packet : a = more[1]
        BY <3>3
      <3>5. PICK b \in Packet : b = more[2]
        BY <3>3
      <3>6. PICK q \in Seq(Packet) : q = inbox[Receiver]
        BY <1>3 DEF QueuesOK
      <3>7. more = <<a, b>>
        BY <2>7, <2>8, <3>4, <3>5
      <3>8. q \o <<a, b>> = (q \o <<a>>) \o <<b>>
        OBVIOUS
      <3>9. inbox'[Receiver] = (inbox[Receiver] \o <<a>>) \o <<b>>
        BY <3>2, <3>6, <3>7, <3>8
      <3> QED BY <1>1, <2>1, <2>4, <2>7, <2>9, <3>2, <3>4, <3>5, <3>9
    <2> QED BY <2>10, <2>11
  <1> QED BY <1>4, <1>5

\* A segment of the window is sent.
LEMMA SegmentStep ==
    ASSUME Undisturbed, TransferInv, HandlerInv, Pieces # 0, Ordered, SendSegment
    PROVE  Ordered'
  <1> USE DEF TransferInv
  <1>1. /\ pc[Sender] = "sendWindow" /\ pc'[Receiver] = pc[Receiver]
        /\ UNCHANGED <<handlerVars, recvVars>> /\ dataSize' = dataSize /\ LAR' = LAR
        /\ Dropped' = Dropped /\ Pieces' = Pieces /\ window' = window
        /\ \/ pc'[Sender] = "sendWindow" /\ turn' = turn + 1
           \/ pc'[Sender] = "awaitAcks" /\ turn' = 1
    BY TheReceiver DEF SendSegment, LocalInv, handlerVars, bufferVars, Dropped, Pieces
  <1>2. /\ Received(Receiver)' = Received(Receiver) /\ (HasAll' <=> HasAll)
        /\ StoredInOrder'
    BY <1>1, ReceiverQuiet DEF Ordered
  <1>3. WindowInv
    BY DEF Ordered
  <1>4. /\ inbox'[Sender] = inbox[Sender] /\ pending' = pending
        /\ turn \in 1 .. WindowSize /\ Outgoing = window[turn]
        /\ \/ Deaf(Receiver) /\ inbox'[Receiver] = inbox[Receiver]
           \/ \E p \in Packet : /\ Outgoing.payloadSize = 0 /\ p.body = Header(Outgoing)
                                /\ inbox'[Receiver] = inbox[Receiver] \o <<p>>
           \/ \E a \in Packet, b \in Packet, x \in 1 .. Pieces :
                 /\ Outgoing.payloadSize > 0 /\ Outgoing.seqNum = Offset(x)
                 /\ IsHeaderOf(dataSize, a, x) /\ IsPayloadOf(dataSize, b, x)
                 /\ inbox'[Receiver] = (inbox[Receiver] \o <<a>>) \o <<b>>
    BY <1>3, SegmentSent
  <1>5. Pieces \in Nat \ {0} /\ NumSegments(dataSize) = Pieces /\ Cut(dataSize)
    BY PiecesAreCut
  <1>6. PICK q \in Seq(Packet) : q = inbox[Receiver]
    BY TheReceiver DEF Channels, QueuesOK
  <1>7. PICK h : h = pending[Receiver]
    OBVIOUS
  <1> DEFINE Brings == Outgoing.payloadSize > 0 /\ Outgoing.seqNum = Offset(Pieces)
  <1>8. ASSUME pc[Receiver] = "recv"
        PROVE  LET t == inbox'[Receiver]
               IN  /\ Stream(dataSize, t, h) /\ Complete(t, h)
                   /\ HasAll => AllLast(dataSize, t, h)
                   /\ SomeLast(dataSize, t, h) => SomeLast(dataSize, q, h) \/ Brings
    <2>1. ~Deaf(Receiver)
      BY <1>8 DEF Deaf
    <2>2. /\ Stream(dataSize, q, h) /\ Complete(q, h)
          /\ HasAll => AllLast(dataSize, q, h)
      BY <1>1, <1>6, <1>7, <1>8 DEF Ordered, StreamInv
    <2>3. HasAll \/ SomeLast(dataSize, q, h) =>
            (window[turn].payloadSize > 0 => window[turn].seqNum = Offset(Pieces))
      <3>1. turn \in turn .. WindowSize
        BY <1>4, HandlerAssumption
      <3> QED BY <1>1, <1>6, <1>7, <1>8, <3>1 DEF Ordered, RestInv, IsLastCell
    <2>4. ASSUME NEW p \in Packet, Outgoing.payloadSize = 0, p.body = Header(Outgoing),
                 inbox'[Receiver] = inbox[Receiver] \o <<p>>
          PROVE  LET t == inbox'[Receiver]
                 IN  /\ Stream(dataSize, t, h) /\ Complete(t, h)
                     /\ HasAll => AllLast(dataSize, t, h)
                     /\ SomeLast(dataSize, t, h) => SomeLast(dataSize, q, h)
      <3>1. LET t == q \o <<p>>
            IN  /\ Stream(dataSize, t, h) /\ Complete(t, h)
                /\ AllLast(dataSize, q, h) => AllLast(dataSize, t, h)
                /\ SomeLast(dataSize, t, h) => SomeLast(dataSize, q, h)
        BY <2>2, <2>4, ControlGrows
      <3> QED BY <1>6, <2>2, <2>4, <3>1
    <2>5. ASSUME NEW a \in Packet, NEW b \in Packet, NEW x \in 1 .. Pieces,
                 Outgoing.payloadSize > 0, Outgoing.seqNum = Offset(x),
                 IsHeaderOf(dataSize, a, x), IsPayloadOf(dataSize, b, x),
                 inbox'[Receiver] = (inbox[Receiver] \o <<a>>) \o <<b>>
          PROVE  LET t == inbox'[Receiver]
                 IN  /\ Stream(dataSize, t, h) /\ Complete(t, h)
                     /\ HasAll => AllLast(dataSize, t, h)
                     /\ SomeLast(dataSize, t, h) => SomeLast(dataSize, q, h) \/ Brings
      <3>1. PieceSize(dataSize, x) > 0 /\ x \in 1 .. NumSegments(dataSize)
        BY <1>5, PiecesFit
      <3>2. IsLast(dataSize, a.body) <=> Brings
        BY <1>5, <2>5, <3>1 DEF IsLast, Announces, IsHeaderOf
      <3>3. HasAll \/ SomeLast(dataSize, q, h) => IsLast(dataSize, a.body)
        BY <1>4, <2>3, <2>5, <3>2
      <3>4. LET t == (q \o <<a>>) \o <<b>>
            IN  /\ Stream(dataSize, t, h) /\ Complete(t, h)
                /\ AllLast(dataSize, q, h) /\ IsLast(dataSize, a.body) => AllLast(dataSize, t, h)
                /\ SomeLast(dataSize, t, h) => SomeLast(dataSize, q, h) \/ IsLast(dataSize, a.body)
        BY <2>2, <2>5, <3>1, <3>3, PieceGrows
      <3> QED BY <1>6, <2>2, <2>5, <3>2, <3>3, <3>4
    <2> QED BY <1>4, <2>1, <2>4, <2>5
  <1>9. StreamInv'
    <2>1. pc'[Receiver] = "recv" => LET t == inbox'[Receiver]
                                    IN  /\ Stream(dataSize', t, pending'[Receiver])
                                        /\ Complete(t, pending'[Receiver])
                                        /\ HasAll' => AllLast(dataSize', t, pending'[Receiver])
      BY <1>1, <1>2, <1>4, <1>7, <1>8
    <2> QED BY <2>1 DEF StreamInv, Stream, Complete, AllLast, IsLast, Names, NumSegments,
          PieceSize, Offset
  <1>10. WindowInv'
    BY <1>1, <1>3 DEF WindowInv, IsPiece, IsLastCell, Offset
  <1>11. RestInv'
    <2> SUFFICES ASSUME pc'[Receiver] = "recv", pc'[Sender] = "sendWindow",
                        HasAll' \/ SomeLast(dataSize', inbox'[Receiver], pending'[Receiver]),
                        NEW i \in turn' .. WindowSize
                 PROVE  IsLastCell(i)
      BY <1>1 DEF RestInv, SomeLast, IsLast, IsLastCell, NumSegments, Offset
    <2>1. turn' = turn + 1 /\ i \in turn .. WindowSize /\ turn < i
          /\ i \in 1 .. WindowSize
      BY <1>1, <1>4, HandlerAssumption
    <2>2. HasAll \/ SomeLast(dataSize, q, h) \/ Brings
      BY <1>1, <1>2, <1>4, <1>7, <1>8
    <2>3. ASSUME HasAll \/ SomeLast(dataSize, q, h)
          PROVE  IsLastCell(i)
      BY <1>1, <1>6, <1>7, <2>1, <2>3 DEF Ordered, RestInv
    <2>4. ASSUME Brings
          PROVE  IsLastCell(i)
      BY <1>1, <1>3, <1>4, <2>1, <2>4 DEF WindowInv
    <2> QED BY <2>2, <2>3, <2>4
  <1>12. InSend /\ InSend' /\ Replied = 0 /\ Replied' = 0
    <2>1. 1 - 1 = 0
      OBVIOUS
    <2> QED BY <1>1, <2>1 DEF InSend, Replied
  <1>13. AnswersInv'
    <2>1. PICK y \in 0 .. Pieces : y <= Len(Received(Receiver)) /\ Acked(y)
      BY <1>12 DEF Ordered, AnswersInv
    <2>2. Acked(y)'
      BY <1>1, <2>1 DEF Acked, Offset
    <2> QED BY <1>1, <1>2, <1>4, <1>12, <2>1, <2>2 DEF Ordered, AnswersInv
  <1>14. LastAcked'
    BY <1>1, <1>2, <1>4, <1>12 DEF Ordered, LastAcked, Offset
  <1>15. InReach'
    BY <1>1, <1>2 DEF Ordered, InReach
  <1> QED BY <1>2, <1>9, <1>10, <1>11, <1>13, <1>14, <1>15 DEF Ordered

\* A reply is handled: it acknowledges a piece that the receiver has stored.
LEMMA ReplyHandled ==
    ASSUME Undisturbed, TransferInv, HandlerInv, Pieces # 0, Ordered, ReplyDuringSend
    PROVE  \E x \in 1 .. Pieces, z \in 0 .. Pieces :
             /\ x <= Len(Received(Receiver)) /\ z <= Len(Received(Receiver))
             /\ Acked(z)' /\ inbox[Sender] # <<>> /\ IsAckOf(inbox[Sender][1], x)
             /\ ~IsFinPacket(inbox[Sender][1])
             /\ dataSize' = dataSize /\ Dropped' >= Dropped /\ LAR' >= LAR /\ LAR' >= Offset(x)
  <1> USE DEF TransferInv
  <1>1. PICK s \in Returned(Sender) :
          /\ ~IsFin(s)
          /\ IF "ack" \in s.flags THEN handleAck(s.ackNum) ELSE UNCHANGED handlerVars
    BY DEF ReplyDuringSend
  <1>2. inbox[Sender] # <<>> /\ s = Head(inbox[Sender]).body.segment
    BY <1>1, ReturnedToSender
  <1>3. PICK q \in Seq(Packet) : q = inbox[Sender]
    BY TheReceiver DEF Channels, QueuesOK
  <1>4. q # <<>> /\ s = q[1].body.segment /\ ~IsFinPacket(q[1])
    <2>1. Head(q) = q[1]
      BY <1>2, <1>3
    <2> QED BY <1>1, <1>2, <1>3, <2>1 DEF IsFin, IsFinPacket
  <1>5. PICK n \in Nat : n = Pieces
    BY PiecesAreCut
  <1>6. PICK len \in Nat : len = Len(Received(Receiver))
    <2>1. Received(Receiver) \in Seq(Chunk)
      BY TheReceiver DEF Received, LocalInv
    <2> QED BY <2>1
  <1>7. InSend
    BY DEF InSend, ReplyDuringSend
  <1>8. AnswersIn(n, q, len)
    BY <1>3, <1>5, <1>6, <1>7 DEF Ordered, AnswersInv
  <1>9. PICK x \in 1 .. n : x <= len /\ IsAckOf(q[1], x)
    BY <1>4, <1>8, AnswersTaken
  <1>10. handleAck(Offset(x))
    BY <1>1, <1>4, <1>9 DEF IsAckOf
  <1>11. PICK y \in 0 .. Pieces : y <= Len(Received(Receiver)) /\ Acked(y)
    BY <1>7 DEF Ordered, AnswersInv
  <1>12. /\ dataSize' = dataSize
         /\ Acked(x)' \/ Acked(y)'
         /\ Dropped' >= Dropped /\ LAR' >= LAR /\ LAR' >= Offset(x)
    BY <1>5, <1>10, <1>11, AnyAckHandled
  <1>13. PICK z \in 0 .. n : z <= len /\ Acked(z)'
    <2>1. x \in 0 .. n
      OBVIOUS
    <2> QED BY <1>5, <1>6, <1>9, <1>11, <1>12, <2>1
  <1> QED BY <1>3, <1>4, <1>5, <1>6, <1>9, <1>12, <1>13

\* The sender handles a reply: it lets go of no more than the receiver has.
LEMMA ReplyStep ==
    ASSUME Undisturbed, TransferInv, HandlerInv, Pieces # 0, Ordered, ReplyDuringSend
    PROVE  Ordered'
  <1> USE DEF TransferInv
  <1>1. PICK x \in 1 .. Pieces, z \in 0 .. Pieces :
             /\ x <= Len(Received(Receiver)) /\ z <= Len(Received(Receiver))
             /\ Acked(z)' /\ inbox[Sender] # <<>> /\ IsAckOf(inbox[Sender][1], x)
             /\ ~IsFinPacket(inbox[Sender][1])
             /\ dataSize' = dataSize /\ Dropped' >= Dropped /\ LAR' >= LAR /\ LAR' >= Offset(x)
    BY ReplyHandled
  <1>2. /\ inbox'[Sender] = Tail(inbox[Sender]) /\ inbox'[Receiver] = inbox[Receiver]
        /\ pending'[Receiver] = pending[Receiver]
    BY ReplyConsumed DEF ReplyDuringSend
  <1>3. /\ pc[Sender] = "awaitAcks" /\ CountReply /\ UNCHANGED recvVars
        /\ turn \in 1 .. WindowSize /\ WindowSize \in Nat
    BY HandlerAssumption DEF ReplyDuringSend, HandleAckThrows, Undisturbed, LocalInv
  <1>4. /\ pc'[Receiver] = pc[Receiver]
        /\ \/ turn < WindowSize /\ turn' = turn + 1 /\ pc'[Sender] = "awaitAcks"
           \/ turn = WindowSize /\ pc'[Sender] = "advance"
    BY <1>3, TheReceiver DEF CountReply, LocalInv
  <1>5. /\ Received(Receiver)' = Received(Receiver) /\ (HasAll' <=> HasAll)
        /\ StoredInOrder' /\ Pieces' = Pieces
    BY <1>1, <1>3, ReceiverQuiet DEF Ordered
  <1>6. StreamInv'
    BY <1>1, <1>2, <1>3, <1>4, StreamStays DEF Ordered
  <1>7. WindowInv' /\ RestInv'
    BY <1>4 DEF WindowInv, RestInv
  <1>8. PICK q \in Seq(Packet) : q = inbox[Sender]
    BY TheReceiver DEF Channels, QueuesOK
  <1>9. PICK n \in Nat : n = Pieces
    BY PiecesAreCut
  <1>10. PICK len \in Nat : len = Len(Received(Receiver))
    <2>1. Received(Receiver) \in Seq(Chunk)
      BY TheReceiver DEF Received, LocalInv
    <2> QED BY <2>1
  <1>11. InSend /\ InSend' /\ Replied = turn - 1
    BY <1>3, <1>4 DEF InSend, Replied
  <1>12. AnswersIn(n, q, len) /\ (pc[Receiver] = "finWait" => HasFin(q))
    BY <1>8, <1>9, <1>10, <1>11 DEF Ordered, AnswersInv
  <1>13. /\ AnswersIn(n, Tail(q), len) /\ (HasFin(q) => HasFin(Tail(q)))
         /\ \A i \in Nat : i > 1 /\ LastAckAt(n, q, i) => LastAckAt(n, Tail(q), i - 1)
    BY <1>1, <1>8, <1>12, AnswersTaken
  <1>14. AnswersInv'
    BY <1>1, <1>2, <1>4, <1>5, <1>8, <1>9, <1>10, <1>12, <1>13 DEF AnswersInv
  <1>15. LastAcked'
    <2> SUFFICES ASSUME HasAll
                 PROVE  \/ LAR' = Offset(n)
                        \/ /\ pc'[Sender] = "awaitAcks"
                           /\ \E i \in 1 .. WindowSize - turn : LastAckAt(n, Tail(q), i)
      <3>1. pc'[Sender] = "awaitAcks" => Replied' = turn
        BY <1>3, <1>4 DEF Replied
      <3> QED BY <1>2, <1>5, <1>8, <1>9, <3>1 DEF LastAcked, Offset
    <2>1. LAR' >= Offset(n) => LAR' = Offset(n)
      <3>1. LAR' = IF z = 0 THEN 0 ELSE Offset(z)
        BY <1>1 DEF Acked, Offset
      <3>2. LAR' \in Int
        BY <3>1, OffsetNext
      <3>3. n \in Nat \ {0} /\ z \in 0 .. n
        BY <1>9
      <3> QED BY <3>1, <3>2, <3>3, LastIsLast
    <2>2. CASE LAR = Offset(n)
      BY <1>1, <2>1, <2>2
    <2>3. CASE \E i \in 1 .. WindowSize - Replied : LastAckAt(n, q, i)
      <3>1. PICK i \in 1 .. WindowSize - (turn - 1) : LastAckAt(n, q, i)
        BY <1>11, <2>3
      <3>2. CASE i = 1
        <4>1. IsAckOf(q[1], n) /\ IsAckOf(q[1], x)
          BY <1>1, <1>8, <3>1, <3>2 DEF LastAckAt
        <4> QED BY <1>1, <2>1, <4>1 DEF IsAckOf
      <3>3. CASE i > 1
        <4>1. i - 1 \in 1 .. WindowSize - turn /\ turn # WindowSize /\ i \in Nat
          BY <1>3, <3>1, <3>3
        <4>2. LastAckAt(n, Tail(q), i - 1)
          BY <1>13, <3>1, <3>3, <4>1
        <4> QED BY <1>4, <4>1, <4>2
      <3> QED BY <1>3, <3>1, <3>2, <3>3
    <2> QED BY <1>8, <1>9, <1>11, <2>2, <2>3 DEF Ordered, LastAcked
  <1>16. InReach'
    <2>1. Dropped \in Nat /\ Dropped' \in Int
      BY <1>1, PiecesAreCut DEF Acked
    <2>2. HasAll => n <= Dropped + 1 + WindowSize
      BY <1>9 DEF Ordered, InReach
    <2>3. PICK d \in Int : d = Dropped'
      BY <2>1
    <2>4. d >= Dropped /\ WindowSize \in Nat
      BY <1>1, <1>3, <2>3
    <2>5. n <= Dropped + 1 + WindowSize => n <= d + 1 + WindowSize
      BY <2>1, <2>4
    <2> QED BY <1>5, <1>9, <2>2, <2>3, <2>5 DEF InReach
  <1> QED BY <1>5, <1>6, <1>7, <1>14, <1>15, <1>16 DEF Ordered

\* The sender has left send, or leaves it, and sends at most a FIN or an ACK.
LEMMA SenderLeaves ==
    ASSUME Undisturbed, Channels, Pieces # 0, Ordered, UNCHANGED <<handlerVars, recvVars>>,
           pc'[Receiver] = pc[Receiver], pc[Sender] # "stopped",
           pc'[Sender] \in {"close", "finWait", "closeWait", "done"},
           pending'[Receiver] = pending[Receiver],
           NEW c \in Segment, c.payloadSize = 0,
           \/ inbox'[Receiver] = inbox[Receiver]
           \/ Reaches(Receiver, inbox[Receiver], inbox'[Receiver], c)
    PROVE  Ordered'
  <1>1. dataSize' = dataSize /\ Dropped' = Dropped /\ Pieces' = Pieces
    BY DEF handlerVars, bufferVars, Dropped, Pieces
  <1>2. /\ Received(Receiver)' = Received(Receiver) /\ (HasAll' <=> HasAll)
        /\ StoredInOrder'
    BY <1>1, ReceiverQuiet DEF Ordered
  <1>3. WindowInv' /\ RestInv' /\ AnswersInv' /\ LastAcked'
    BY DEF WindowInv, RestInv, AnswersInv, LastAcked, InSend
  <1>4. InReach'
    BY <1>1, <1>2 DEF Ordered, InReach
  <1>5. StreamInv'
    <2>1. CASE inbox'[Receiver] = inbox[Receiver]
      BY <1>1, <2>1, StreamStays DEF Ordered
    <2>2. CASE inbox'[Receiver] # inbox[Receiver]
      <3> SUFFICES ASSUME pc'[Receiver] = "recv"
                   PROVE  LET t == inbox'[Receiver]
                              h == pending'[Receiver]
                          IN  /\ Stream(dataSize', t, h) /\ Complete(t, h)
                              /\ HasAll' => AllLast(dataSize', t, h)
        BY DEF StreamInv, Stream, Complete, AllLast, IsLast, Names, NumSegments, PieceSize, Offset
      <3>1. PICK p \in Packet : p.body = Header(c) /\ inbox'[Receiver] = inbox[Receiver] \o <<p>>
        BY <2>2 DEF Reaches
      <3>2. PICK q \in Seq(Packet) : q = inbox[Receiver]
        BY TheReceiver DEF Channels, QueuesOK
      <3>3. PICK h : h = pending[Receiver]
        OBVIOUS
      <3>4. /\ Stream(dataSize, q, h) /\ Complete(q, h)
            /\ HasAll => AllLast(dataSize, q, h)
        BY <3>2, <3>3 DEF Ordered, StreamInv
      <3>5. LET t == q \o <<p>>
            IN  /\ Stream(dataSize, t, h) /\ Complete(t, h)
                /\ AllLast(dataSize, q, h) => AllLast(dataSize, t, h)
        BY <3>1, <3>4, ControlGrows
      <3> QED BY <1>1, <1>2, <3>1, <3>2, <3>3, <3>4, <3>5
    <2> QED BY <2>1, <2>2
  <1> QED BY <1>2, <1>3, <1>4, <1>5 DEF Ordered

\* A FIN is answered.
LEMMA FinStep ==
    ASSUME Undisturbed, TransferInv, Pieces # 0, Ordered, FinDuringSend
    PROVE  Ordered'
  <1> USE DEF TransferInv
  <1>1. pc[Sender] = "awaitAcks" /\ UNCHANGED <<handlerVars, recvVars>> /\ inbox[Sender] # <<>>
    BY ReturnedToSender DEF FinDuringSend
  <1>2. finAck \in Segment /\ finAck.payloadSize = 0
    <2>1. 0 \in UInt32
      BY SegmentAssumption DEF UInt32
    <2> QED BY <2>1, ControlTyped
  <1>3. PICK result \in SendResults(finAck) :
          /\ Answer(Sender, result.wire)
          /\ IF result.ok
             THEN /\ status' = [status EXCEPT ![Sender] = "CLOSE_WAIT"]
                  /\ pc' = [pc EXCEPT ![Sender] = "close"]
                  /\ UNCHANGED turn
             ELSE CountReply /\ UNCHANGED status
    BY DEF FinDuringSend
  <1>4. result.ok
    <2>1. SendResults(finAck) = {[wire |-> Wire(finAck), ok |-> TRUE]}
      BY NothingFails
    <2> QED BY <1>3, <2>1
  <1>5. pc'[Sender] = "close" /\ pc'[Receiver] = pc[Receiver]
    BY <1>3, <1>4, TheReceiver DEF LocalInv
  <1>6. PeerAfterReceive(Sender) = Receiver
    BY <1>1, PeersAre DEF Unpaired
  <1>7. /\ pending'[Receiver] = pending[Receiver]
        /\ Reaches(Receiver, inbox[Receiver], inbox'[Receiver], finAck)
    BY <1>1, <1>2, <1>3, <1>6, TheReceiver, AnswerReaches
  <1> QED BY <1>1, <1>2, <1>5, <1>7, SenderLeaves

\* What closing sends, and where it leads.
LEMMA ClosingSends ==
    ASSUME Undisturbed, TransferInv, NEW n \in Node, NEW other \in Node, n # other, CloseNext(n)
    PROVE  /\ UNCHANGED <<handlerVars, sendVars, recvVars>>
           /\ pc[n] \in {"close", "finWait", "closeWait"} /\ pc'[other] = pc[other]
           /\ pc'[n] \in {"finWait", "closeWait", "done"}
           /\ pending'[other] = pending[other]
           /\ inbox'[n] = inbox[n] \/ (inbox[n] # <<>> /\ inbox'[n] = Tail(inbox[n]))
           /\ \/ inbox'[other] = inbox[other] /\ (pc'[n] = "finWait" => pc[n] = "finWait")
              \/ pc'[n] = "finWait" /\ Reaches(other, inbox[other], inbox'[other], fin)
              \/ pc[n] = "finWait" /\ \E s \in Segment :
                    /\ LastAck(s) \in Segment /\ LastAck(s).payloadSize = 0
                    /\ pc'[n] = "done" /\ Reaches(other, inbox[other], inbox'[other], LastAck(s))
  <1> USE DEF TransferInv
  <1>1. UNCHANGED <<handlerVars, sendVars, recvVars>>
        /\ pc[n] \in {"close", "finWait", "closeWait"}
    BY DEF CloseNext, CloseActive, ClosePassive, CloseAtOnce, FinAckInFinWait, AckInCloseWait,
       OtherInClose, TimeoutInClose, Returned
  <1>2. peerAddr[n] = other /\ (inbox[n] # <<>> => PeerAfterReceive(n) = other)
    BY <1>1, PeersAre, TheReceiver DEF Unpaired
  <1>3. 0 \in UInt32
    BY SegmentAssumption DEF UInt32
  <1>4. CASE CloseActive(n)
    <2>1. fin \in Segment /\ fin.payloadSize = 0
      BY <1>3, ControlTyped
    <2>2. SendResults(fin) = {[wire |-> Wire(fin), ok |-> TRUE]}
      BY NothingFails
    <2>3. PICK result \in SendResults(fin) :
            Post(n, result.wire) /\ pc' = [pc EXCEPT ![n] = "finWait"]
      BY <1>4, <2>2 DEF CloseActive
    <2>4. /\ inbox'[n] = inbox[n] /\ pending' = pending
          /\ Reaches(other, inbox[other], inbox'[other], fin)
      BY <1>2, <2>1, <2>3, PostReaches
    <2>5. pc'[n] = "finWait" /\ pc'[other] = pc[other]
      BY <2>3 DEF LocalInv
    <2> QED BY <1>1, <2>4, <2>5
  <1>5. CASE ClosePassive(n) \/ CloseAtOnce(n)
    BY <1>1, <1>5 DEF ClosePassive, CloseAtOnce, Closed, LocalInv
  <1>6. CASE FinAckInFinWait(n)
    <2>1. PICK s \in Returned(n) : \E result \in SendResults(LastAck(s)) : Answer(n, result.wire)
      BY <1>6 DEF FinAckInFinWait
    <2>2. PICK result \in SendResults(LastAck(s)) : Answer(n, result.wire)
      BY <2>1
    <2>3. inbox[n] # <<>> /\ s \in Segment
      BY ReturnedTyped
    <2>4. LastAck(s) \in Segment /\ LastAck(s).payloadSize = 0
      BY <2>3, AcksTyped
    <2>5. /\ inbox'[n] = Tail(inbox[n]) /\ pending'[other] = pending[other]
          /\ Reaches(other, inbox[other], inbox'[other], LastAck(s))
      BY <1>2, <2>2, <2>3, <2>4, AnswerReaches
    <2>6. pc[n] = "finWait" /\ pc'[n] = "done" /\ pc'[other] = pc[other]
      BY <1>6 DEF FinAckInFinWait, Closed, LocalInv
    <2> QED BY <1>1, <2>3, <2>4, <2>5, <2>6
  <1>7. CASE AckInCloseWait(n) \/ OtherInClose(n)
    <2>1. inbox[n] # <<>> /\ Consume(n)
      BY <1>7, ReturnedTyped DEF AckInCloseWait, OtherInClose
    <2>2. /\ inbox'[n] = Tail(inbox[n]) /\ pending'[other] = pending[other]
          /\ inbox'[other] = inbox[other]
      BY <2>1, ConsumeReaches
    <2>3. \/ pc' = pc /\ pc[n] \in {"finWait", "closeWait"}
          \/ pc' = [pc EXCEPT ![n] = "done"]
      BY <1>7 DEF AckInCloseWait, OtherInClose, Closed, WaitOn
    <2>4. pc'[other] = pc[other] /\ pc'[n] \in {"finWait", "closeWait", "done"}
          /\ (pc'[n] = "finWait" => pc[n] = "finWait")
      BY <2>3 DEF LocalInv
    <2> QED BY <1>1, <2>1, <2>2, <2>4
  <1>8. CASE TimeoutInClose(n)
    <2>1. /\ pending' = [pending EXCEPT ![n] = NoSegment] /\ inbox' = inbox
          /\ pc[n] \in {"finWait", "closeWait"}
          /\ pc' = pc \/ pc' = [pc EXCEPT ![n] = "done"]
      BY <1>8 DEF TimeoutInClose, PayloadTimeout, WaitOn, Closed
    <2>2. pending'[other] = pending[other]
      BY <2>1 DEF Channels
    <2>3. pc'[other] = pc[other] /\ pc'[n] \in {"finWait", "closeWait", "done"}
          /\ (pc'[n] = "finWait" => pc[n] = "finWait")
      BY <2>1 DEF LocalInv
    <2> QED BY <1>1, <2>1, <2>2, <2>3
  <1> QED BY <1>4, <1>5, <1>6, <1>7, <1>8 DEF CloseNext

\* The sender closes: its FIN is no header, and it sends no more pieces.
LEMMA SenderCloseStep ==
    ASSUME Undisturbed, TransferInv, Pieces # 0, Ordered, CloseNext(Sender)
    PROVE  Ordered'
  <1> USE DEF TransferInv
  <1>1. 0 \in UInt32 /\ fin \in Segment /\ fin.payloadSize = 0
    <2>1. 0 \in UInt32
      BY SegmentAssumption DEF UInt32
    <2> QED BY <2>1, ControlTyped
  <1>2. /\ UNCHANGED <<handlerVars, recvVars>>
        /\ pc[Sender] \in {"close", "finWait", "closeWait"} /\ pc'[Receiver] = pc[Receiver]
        /\ pc'[Sender] \in {"finWait", "closeWait", "done"}
        /\ pending'[Receiver] = pending[Receiver]
        /\ \/ inbox'[Receiver] = inbox[Receiver]
           \/ Reaches(Receiver, inbox[Receiver], inbox'[Receiver], fin)
           \/ \E s \in Segment :
                /\ LastAck(s) \in Segment /\ LastAck(s).payloadSize = 0
                /\ Reaches(Receiver, inbox[Receiver], inbox'[Receiver], LastAck(s))
    BY TheReceiver, ClosingSends
  <1>3. PICK c \in Segment :
          /\ c.payloadSize = 0
          /\ \/ inbox'[Receiver] = inbox[Receiver]
             \/ Reaches(Receiver, inbox[Receiver], inbox'[Receiver], c)
    BY <1>1, <1>2
  <1> QED BY <1>2, <1>3, SenderLeaves

-----------------------------------------------------------------------------
(***************************************************************************)
(* Processes that are stopped.                                             *)
(***************************************************************************)

\* The receiver stops: what was under way to it is gone.
LEMMA ReceiverStopStep ==
    ASSUME Undisturbed, TransferInv, Pieces # 0, Ordered, Stop(Receiver)
    PROVE  Ordered'
  <1> USE DEF TransferInv
  <1>1. /\ pc' = [pc EXCEPT ![Receiver] = "stopped"]
        /\ UNCHANGED <<handlerVars, sendVars, recvVars>>
        /\ inbox' = [inbox EXCEPT ![Receiver] = <<>>]
    <2>1. pc[Receiver] # "sendWindow"
      BY TheReceiver DEF LocalInv
    <2> QED BY <2>1 DEF Stop, Sent
  <1>2. pc'[Receiver] = "stopped" /\ pc'[Sender] = pc[Sender] /\ inbox'[Sender] = inbox[Sender]
    BY <1>1, TheReceiver DEF LocalInv, Channels, QueuesOK
  <1>3. /\ dataSize' = dataSize /\ Dropped' = Dropped /\ Pieces' = Pieces /\ LAR' = LAR
        /\ window' = window /\ turn' = turn
    BY <1>1 DEF handlerVars, bufferVars, Dropped, Pieces, sendVars
  <1>4. /\ Received(Receiver)' = Received(Receiver) /\ (HasAll' <=> HasAll)
        /\ StoredInOrder'
    BY <1>1, <1>3, ReceiverQuiet DEF Ordered
  <1>5. StreamInv' /\ RestInv'
    BY <1>2 DEF StreamInv, RestInv
  <1>6. WindowInv'
    BY <1>2, <1>3 DEF Ordered, WindowInv, IsPiece, IsLastCell, Offset
  <1>7. AnswersInv'
    <2> SUFFICES ASSUME InSend
                 PROVE  AnswersInv'
      BY <1>2 DEF InSend, AnswersInv
    <2>1. PICK y \in 0 .. Pieces : y <= Len(Received(Receiver)) /\ Acked(y)
      BY DEF Ordered, AnswersInv
    <2>2. Acked(y)'
      BY <1>3, <2>1 DEF Acked, Offset
    <2> QED BY <1>2, <1>3, <1>4, <2>1, <2>2 DEF Ordered, AnswersInv
  <1>8. LastAcked' /\ InReach'
    <2>1. Replied' = Replied /\ (InSend' <=> InSend)
      BY <1>2, <1>3 DEF Replied, InSend
    <2> QED BY <1>2, <1>3, <1>4, <2>1 DEF Ordered, LastAcked, InReach, Offset
  <1> QED BY <1>4, <1>5, <1>6, <1>7, <1>8 DEF Ordered

\* What a sender that is stopped leaves on the way: nothing, or a header.
LEMMA StopSends ==
    ASSUME Undisturbed, TransferInv, HandlerInv, Pieces # 0, WindowInv, Stop(Sender)
    PROVE  /\ pc'[Sender] = "stopped" /\ pc[Sender] # "stopped"
           /\ pc'[Receiver] = pc[Receiver] /\ pending'[Receiver] = pending[Receiver]
           /\ \/ inbox'[Receiver] = inbox[Receiver]
              \/ \E a \in Packet, x \in 1 .. Pieces :
                    /\ pc[Sender] = "sendWindow" /\ Outgoing = window[turn]
                    /\ Outgoing.payloadSize > 0 /\ Outgoing.seqNum = Offset(x)
                    /\ IsHeaderOf(dataSize, a, x)
                    /\ inbox'[Receiver] = inbox[Receiver] \o <<a>>
  <1> USE DEF TransferInv
  <1>1. /\ pc[Sender] # "stopped" /\ pc'[Sender] = "stopped" /\ pc'[Receiver] = pc[Receiver]
        /\ pending'[Receiver] = pending[Receiver]
    BY TheReceiver DEF Stop, LocalInv, Channels
  <1>2. PICK queues : queues = [inbox EXCEPT ![Sender] = <<>>]
    OBVIOUS
  <1>3. QueuesOK(queues) /\ queues[Receiver] = inbox[Receiver]
    BY <1>2, TheReceiver, ReplacedChannels DEF Channels, QueuesOK
  <1>4. PICK wire \in IF pc[Sender] = "sendWindow" THEN PartialWire(Outgoing) ELSE {<<>>} :
          inbox' = Sent(queues, Sender, peerAddr[Sender], wire)
    BY <1>2 DEF Stop
  <1>5. CASE wire = <<>>
    <2>1. inbox' = queues
      BY <1>4, <1>5 DEF Sent
    <2> QED BY <1>1, <1>3, <2>1
  <1>6. CASE wire # <<>>
    <2>1. pc[Sender] = "sendWindow" /\ wire \in PartialWire(Outgoing)
      BY <1>4, <1>6
    <2>2. HasPayload(Outgoing) /\ wire = <<Header(Outgoing)>>
      BY <1>6, <2>1 DEF PartialWire
    <2>3. Outgoing \in Segment /\ peerAddr[Sender] = Receiver /\ Outgoing = window[turn]
          /\ turn \in 1 .. WindowSize
      BY <2>1, OutgoingTyped, PeersAre DEF Unpaired, Outgoing, LocalInv
    <2>4. PICK x \in 1 .. Pieces : IsPiece(window[turn], x)
      BY <2>1, <2>2, <2>3 DEF WindowInv, HasPayload
    <2>5. /\ Outgoing.payloadSize > 0 /\ Outgoing.seqNum = Offset(x)
          /\ Outgoing.payloadSize = PieceSize(dataSize, x)
      BY <2>2, <2>3, <2>4 DEF IsPiece, PieceSize, HasPayload
    <2>6. wire \in Seq(Datagram) /\ Len(wire) = 1 /\ wire[1] = Header(Outgoing)
      <3>1. wire \in Seq(Datagram)
        BY <2>1, <2>3, WireTyped
      <3> QED BY <2>2, <3>1
    <2>7. CASE Deaf(Receiver)
      <3>1. inbox' = queues
        BY <1>4, <2>3, <2>7 DEF Sent
      <3> QED BY <1>1, <1>3, <3>1
    <2>8. CASE ~Deaf(Receiver)
      <3>1. PICK more : more = PacketsOf(Sender, wire)
        OBVIOUS
      <3>2. more \in Seq(Packet) /\ Len(more) = 1 /\ more[1].body = Header(Outgoing)
        BY <2>6, <3>1, TheReceiver, PacketsTyped
      <3>3. more[1] \in Packet
        <4>1. 1 \in 1 .. Len(more) /\ more \in Seq(Packet)
          BY <3>2
        <4> QED BY ONLY <4>1
      <3>4. PICK a \in Packet : a = more[1]
        BY <3>3
      <3>5. more = <<a>>
        BY <3>2, <3>4
      <3>6. inbox'[Receiver] = inbox[Receiver] \o more
        <4>1. inbox' = Sent(queues, Sender, Receiver, wire)
          BY <1>4, <2>3
        <4>2. /\ wire \in Seq(Datagram) /\ ~Deaf(Receiver) /\ QueuesOK(queues)
              /\ Sender \in Node /\ Receiver \in Node
          BY <1>3, <2>6, <2>8, TheReceiver
        <4>3. Sent(queues, Sender, Receiver, wire)[Receiver]
                = queues[Receiver] \o PacketsOf(Sender, wire)
          BY ONLY <4>2, SentBehind
        <4> QED BY <1>3, <3>1, <4>1, <4>3
      <3>7. IsHeaderOf(dataSize, a, x)
        <4>1. /\ Header(Outgoing).kind = "header"
              /\ Header(Outgoing).segment.seqNum = Outgoing.seqNum
              /\ Header(Outgoing).segment.payloadSize = Outgoing.payloadSize
          BY <2>3 DEF Header, Segment
        <4> QED BY <2>5, <3>2, <3>4, <4>1 DEF IsHeaderOf
      <3> QED BY <1>1, <2>1, <2>3, <2>5, <3>5, <3>6, <3>7
    <2> QED BY <2>7, <2>8
  <1> QED BY <1>5, <1>6

\* The sender stops, maybe behind the header of a segment.
LEMMA SenderStopStep ==
    ASSUME Undisturbed, TransferInv, HandlerInv, Pieces # 0, Ordered, Stop(Sender)
    PROVE  Ordered'
  <1> USE DEF TransferInv
  <1>1. UNCHANGED <<handlerVars, sendVars, recvVars>>
    BY DEF Stop
  <1>2. /\ pc'[Sender] = "stopped" /\ pc[Sender] # "stopped"
        /\ pc'[Receiver] = pc[Receiver] /\ pending'[Receiver] = pending[Receiver]
        /\ \/ inbox'[Receiver] = inbox[Receiver]
           \/ \E a \in Packet, x \in 1 .. Pieces :
                 /\ pc[Sender] = "sendWindow" /\ Outgoing = window[turn]
                 /\ Outgoing.payloadSize > 0 /\ Outgoing.seqNum = Offset(x)
                 /\ IsHeaderOf(dataSize, a, x)
                 /\ inbox'[Receiver] = inbox[Receiver] \o <<a>>
    BY StopSends DEF Ordered
  <1>3. dataSize' = dataSize /\ Dropped' = Dropped /\ Pieces' = Pieces
    BY <1>1 DEF handlerVars, bufferVars, Dropped, Pieces
  <1>4. /\ Received(Receiver)' = Received(Receiver) /\ (HasAll' <=> HasAll)
        /\ StoredInOrder'
    BY <1>1, <1>3, ReceiverQuiet DEF Ordered
  <1>5. WindowInv' /\ RestInv' /\ AnswersInv' /\ LastAcked'
    BY <1>2 DEF WindowInv, RestInv, AnswersInv, LastAcked, InSend
  <1>6. InReach'
    BY <1>3, <1>4 DEF Ordered, InReach
  <1>7. StreamInv'
    <2>1. CASE inbox'[Receiver] = inbox[Receiver]
      BY <1>1, <1>2, <1>3, <2>1, StreamStays DEF Ordered
    <2>2. CASE inbox'[Receiver] # inbox[Receiver]
      <3> SUFFICES ASSUME pc'[Receiver] = "recv"
                   PROVE  LET t == inbox'[Receiver]
                              h == pending'[Receiver]
                          IN  /\ Stream(dataSize', t, h)
                              /\ HasAll' => AllLast(dataSize', t, h)
        BY <1>2 DEF StreamInv, Stream, AllLast, IsLast, Names, NumSegments, PieceSize, Offset
      <3>1. PICK a \in Packet, x \in 1 .. Pieces :
                 /\ pc[Sender] = "sendWindow" /\ Outgoing = window[turn]
                 /\ Outgoing.payloadSize > 0 /\ Outgoing.seqNum = Offset(x)
                 /\ IsHeaderOf(dataSize, a, x)
                 /\ inbox'[Receiver] = inbox[Receiver] \o <<a>>
        BY <1>2, <2>2
      <3>2. PICK q \in Seq(Packet) : q = inbox[Receiver]
        BY TheReceiver DEF Channels, QueuesOK
      <3>3. PICK h : h = pending[Receiver]
        OBVIOUS
      <3>4. /\ Stream(dataSize, q, h) /\ Complete(q, h)
            /\ HasAll => AllLast(dataSize, q, h)
        BY <1>2, <3>2, <3>3 DEF Ordered, StreamInv
      <3>5. Cut(dataSize) /\ NumSegments(dataSize) = Pieces
        BY PiecesAreCut
      <3>6. PieceSize(dataSize, x) > 0 /\ x \in 1 .. NumSegments(dataSize)
        BY <3>5, PiecesFit
      <3>7. Announces(a.body) /\ Names(dataSize, a.body, x) /\ a.body.kind = "header"
            /\ a.body.segment.seqNum = Offset(x)
        BY <3>1, <3>6 DEF IsHeaderOf, Announces, Names
      <3>8. HasAll \/ SomeLast(dataSize, q, h) => IsLast(dataSize, a.body)
        <4>1. turn \in turn .. WindowSize
          BY HandlerAssumption DEF LocalInv
        <4>2. HasAll \/ SomeLast(dataSize, q, h) => Offset(x) = Offset(Pieces)
          BY <1>2, <3>1, <3>2, <3>3, <4>1 DEF Ordered, RestInv, IsLastCell
        <4> QED BY <3>5, <3>7, <4>2 DEF IsLast
      <3>9. Follows(Under(q, h, Len(q)), a.body)
        BY <3>4, <3>7 DEF Complete, Follows
      <3>10. LET t == q \o <<a>>
             IN  /\ Stream(dataSize, t, h)
                 /\ AllLast(dataSize, q, h) /\ IsLast(dataSize, a.body) => AllLast(dataSize, t, h)
        BY <3>4, <3>6, <3>7, <3>8, <3>9, StreamGrows
      <3> QED BY <1>2, <1>3, <1>4, <3>1, <3>2, <3>3, <3>4, <3>8, <3>10
    <2> QED BY <2>1, <2>2
  <1> QED BY <1>4, <1>5, <1>6, <1>7 DEF Ordered

-----------------------------------------------------------------------------
(***************************************************************************)
(* The receiver's steps.                                                   *)
(***************************************************************************)

\* What does not depend on the receiver.
LEMMA SenderQuiet ==
    ASSUME UNCHANGED <<handlerVars, sendVars>>, pc'[Sender] = pc[Sender]
    PROVE  /\ dataSize' = dataSize /\ Dropped' = Dropped /\ Pieces' = Pieces /\ LAR' = LAR
           /\ window' = window /\ turn' = turn /\ Replied' = Replied
           /\ InSend' <=> InSend
           /\ \A y : Acked(y)' <=> Acked(y)
           /\ \A i : IsLastCell(i)' <=> IsLastCell(i)
           /\ WindowInv => WindowInv'
  <1>1. /\ dataSize' = dataSize /\ Dropped' = Dropped /\ Pieces' = Pieces /\ LAR' = LAR
        /\ window' = window /\ turn' = turn
    BY DEF handlerVars, bufferVars, sendVars, Dropped, Pieces
  <1>2. Replied' = Replied /\ (InSend' <=> InSend)
    BY <1>1 DEF Replied, InSend
  <1>3. /\ \A y : Acked(y)' <=> Acked(y)
        /\ \A i : IsLastCell(i)' <=> IsLastCell(i)
    BY <1>1 DEF Acked, IsLastCell, Offset
  <1>4. WindowInv => WindowInv'
    BY <1>1, <1>3 DEF WindowInv, IsPiece, Offset
  <1> QED BY <1>1, <1>2, <1>3, <1>4

\* The packets before the receiver.
LEMMA ReceiverQueue ==
    ASSUME Undisturbed, Channels
    PROVE  /\ inbox[Receiver] \in Seq(Packet) /\ inbox[Sender] \in Seq(Packet)
           /\ pending \in [Node -> Segment]
           /\ inbox[Receiver] # <<>> => inbox[Receiver][1].body \in Datagram
  <1>1. /\ inbox[Receiver] \in Seq(Packet) /\ inbox[Sender] \in Seq(Packet)
        /\ pending \in [Node -> Segment]
    BY TheReceiver DEF Channels, QueuesOK
  <1>2. inbox[Receiver] # <<>> => inbox[Receiver][1] \in Packet
    BY <1>1
  <1> QED BY <1>1, <1>2 DEF Packet

\* A segment that is returned is a piece, or has no payload.
LEMMA SegmentRead ==
    ASSUME Undisturbed, Channels, StreamInv, pc[Receiver] = "recv", NEW p \in Returned(Receiver)
    PROVE  LET q == inbox[Receiver]
               h == pending[Receiver]
               t == Tail(inbox[Receiver])
           IN  /\ q # <<>> /\ Stream(dataSize, t, NoSegment)
               /\ Complete(q, h) => Complete(t, NoSegment)
               /\ AllLast(dataSize, q, h) => AllLast(dataSize, t, NoSegment)
               /\ SomeLast(dataSize, t, NoSegment) => SomeLast(dataSize, q, h)
               /\ p.payloadSize > 0 =>
                    \E x \in 1 .. NumSegments(dataSize) :
                      /\ p.seqNum = Offset(x) /\ p.data = Offset(x)
                      /\ p.payloadSize = PieceSize(dataSize, x)
                      /\ AllLast(dataSize, q, h) => Offset(x) = Offset(NumSegments(dataSize))
                      /\ x = NumSegments(dataSize) => /\ AllLast(dataSize, t, NoSegment)
                                                      /\ SomeLast(dataSize, q, h)
  <1>1. inbox[Receiver] # <<>> /\ p \in Segment
    BY TheReceiver, ReturnedToReceiver
  <1>2. PICK q \in Seq(Packet) : q = inbox[Receiver]
    BY ReceiverQueue
  <1>3. PICK h : h = pending[Receiver]
    OBVIOUS
  <1>4. q # <<>> /\ Head(q) = q[1] /\ q[1].body \in Datagram /\ Len(q) \in Nat /\ Len(q) >= 1
    BY <1>1, <1>2, ReceiverQueue
  <1>5. Stream(dataSize, q, h)
    BY <1>2, <1>3 DEF StreamInv
  <1>6. \/ h = NoSegment /\ p \in AsHeader(q[1].body) /\ p.payloadSize = 0
        \/ h # NoSegment /\ p = [h EXCEPT !.data = AsPayload(h, q[1].body)]
    BY <1>2, <1>3, <1>4 DEF Returned
  <1>7. Under(q, h, 0) = [kind |-> "header", segment |-> h] /\ Under(q, h, 1) = q[1].body
    BY DEF Under
  <1>8. Follows(Under(q, h, 0), q[1].body)
    <2>1. 1 \in 1 .. Len(q) /\ 1 - 1 = 0
      BY <1>4
    <2> QED BY <1>5, <1>7, <2>1 DEF Stream
  <1>9. ~Announces(q[1].body)
    <2>1. CASE h = NoSegment
      BY <1>6, <2>1, SegmentAssumption DEF Announces, AsHeader
    <2>2. CASE h # NoSegment
      <3>1. h.payloadSize > 0
        BY <1>5, <2>2 DEF Stream
      <3>2. Announces(Under(q, h, 0))
        BY <1>7, <3>1 DEF Announces
      <3> QED BY <1>8, <3>2 DEF Follows, Announces
    <2> QED BY <2>1, <2>2
  <1>10. ~Announces(Under(Tail(q), NoSegment, 0))
    BY DEF Announces, Under, NoSegment, ControlSegment
  <1>11. /\ Stream(dataSize, Tail(q), NoSegment)
         /\ Complete(q, h) => Complete(Tail(q), NoSegment)
         /\ AllLast(dataSize, q, h) => AllLast(dataSize, Tail(q), NoSegment)
         /\ SomeLast(dataSize, Tail(q), NoSegment) => SomeLast(dataSize, q, h)
    BY <1>4, <1>5, <1>9, <1>10, StreamRead
  <1>12. ASSUME p.payloadSize > 0
         PROVE  \E x \in 1 .. NumSegments(dataSize) :
                  /\ p.seqNum = Offset(x) /\ p.data = Offset(x)
                  /\ p.payloadSize = PieceSize(dataSize, x)
                  /\ AllLast(dataSize, q, h) => Offset(x) = Offset(NumSegments(dataSize))
                  /\ x = NumSegments(dataSize) => /\ AllLast(dataSize, Tail(q), NoSegment)
                                                  /\ SomeLast(dataSize, q, h)
    <2>1. h # NoSegment /\ p = [h EXCEPT !.data = AsPayload(h, q[1].body)] /\ h.payloadSize > 0
      BY <1>5, <1>6, <1>12 DEF Stream
    <2>2. h \in Segment
      BY <1>3, ReceiverQueue, TheReceiver
    <2>3. Announces(Under(q, h, 0)) /\ 0 \in 0 .. Len(q)
      BY <1>4, <1>7, <2>1 DEF Announces
    <2>4. PICK x \in 1 .. NumSegments(dataSize) : Names(dataSize, Under(q, h, 0), x)
      BY <1>5, <2>3 DEF Stream
    <2>5. h.seqNum = Offset(x) /\ h.payloadSize = PieceSize(dataSize, x)
      BY <1>7, <2>4 DEF Names
    <2>6. q[1].body = [kind |-> "payload", size |-> h.payloadSize, data |-> h.seqNum]
      BY <1>7, <1>8, <2>3 DEF Follows
    <2>7. AsPayload(h, q[1].body) = h.seqNum
      BY <2>6 DEF AsPayload
    <2>8. p.seqNum = Offset(x) /\ p.data = Offset(x) /\ p.payloadSize = PieceSize(dataSize, x)
      BY <2>1, <2>2, <2>5, <2>7 DEF Segment
    <2>9. AllLast(dataSize, q, h) => Offset(x) = Offset(NumSegments(dataSize))
      BY <1>7, <2>3, <2>5 DEF AllLast, IsLast
    <2>10. ASSUME x = NumSegments(dataSize)
           PROVE  AllLast(dataSize, Tail(q), NoSegment) /\ SomeLast(dataSize, q, h)
      <3>1. IsLast(dataSize, Under(q, h, 0))
        BY <1>7, <2>3, <2>5, <2>10 DEF IsLast
      <3>2. \A i \in 0 .. Len(q) : i = 0 \/ 0 < i
        BY <1>4
      <3>3. AllLast(dataSize, q, h)
        BY <1>5, <2>3, <3>1, <3>2 DEF Stream, AllLast
      <3> QED BY <1>11, <2>3, <3>1, <3>3 DEF SomeLast
    <2> QED BY <2>8, <2>9, <2>10
  <1> QED BY <1>2, <1>3, <1>4, <1>11, <1>12

\* The answers on their way, when the receiver stores nothing more: it has
\* sent nothing, or what it has sent is a FIN or comes behind one.
LEMMA AnswersStay ==
    ASSUME Undisturbed, Channels, LocalInv, HandlerInv, Pieces # 0, AnswersInv, LastAcked,
           UNCHANGED <<handlerVars, sendVars>>, pc'[Sender] = pc[Sender],
           Received(Receiver)' = Received(Receiver), HasAll' <=> HasAll,
           NEW c \in Segment,
           \/ /\ inbox'[Sender] = inbox[Sender]
              /\ pc'[Receiver] = "finWait" => pc[Receiver] = "finWait"
           \/ /\ Reaches(Sender, inbox[Sender], inbox'[Sender], c)
              /\ "fin" \in c.flags \/ pc[Receiver] = "finWait"
    PROVE  AnswersInv' /\ LastAcked'
  <1>1. /\ dataSize' = dataSize /\ Dropped' = Dropped /\ Pieces' = Pieces /\ LAR' = LAR
        /\ window' = window /\ turn' = turn /\ Replied' = Replied /\ (InSend' <=> InSend)
        /\ \A y : Acked(y)' <=> Acked(y)
    BY SenderQuiet
  <1>2. PICK q \in Seq(Packet) : q = inbox[Sender]
    BY ReceiverQueue
  <1>3. PICK n \in Nat : n = Pieces
    BY PiecesAreCut
  <1>4. PICK len \in Nat : len = Len(Received(Receiver))
    <2>1. Received(Receiver) \in Seq(Chunk)
      BY TheReceiver DEF Received, LocalInv
    <2> QED BY <2>1
  <1>5. Pieces' = n /\ Len(Received(Receiver)') = len
    BY <1>1, <1>3, <1>4
  <1>6. CASE ~InSend
    BY <1>1, <1>6 DEF AnswersInv, LastAcked
  <1>7. ASSUME InSend
        PROVE  AnswersInv' /\ LastAcked'
    <2>1. /\ AnswersIn(n, q, len) /\ (pc[Receiver] = "finWait" => HasFin(q))
          /\ \E y \in 0 .. n : y <= len /\ Acked(y)
      BY <1>2, <1>3, <1>4, <1>7 DEF AnswersInv
    <2>2. PICK t \in Seq(Packet) :
            /\ t = inbox'[Sender] /\ AnswersIn(n, t, len)
            /\ pc'[Receiver] = "finWait" => HasFin(t)
            /\ \A i \in Nat \ {0} : LastAckAt(n, q, i) => LastAckAt(n, t, i)
      <3>1. CASE /\ inbox'[Sender] = inbox[Sender]
                 /\ pc'[Receiver] = "finWait" => pc[Receiver] = "finWait"
        BY <1>2, <2>1, <3>1
      <3>2. CASE /\ Reaches(Sender, inbox[Sender], inbox'[Sender], c)
                 /\ "fin" \in c.flags \/ pc[Receiver] = "finWait"
        <4>1. ~Deaf(Sender)
          BY <1>7 DEF InSend, Deaf
        <4>2. PICK p \in Packet : p.body = Header(c) /\ inbox'[Sender] = q \o <<p>>
          BY <1>2, <3>2, <4>1 DEF Reaches
        <4>3. "fin" \in c.flags => IsFinPacket(p)
          BY <4>2 DEF Header, IsFinPacket, Segment
        <4>4. IsFinPacket(p) \/ HasFin(q)
          BY <2>1, <3>2, <4>3
        <4>5. PICK t : t = q \o <<p>>
          OBVIOUS
        <4>6. /\ AnswersIn(n, q \o <<p>>, len)
              /\ IsFinPacket(p) \/ HasFin(q) => HasFin(q \o <<p>>)
              /\ \A i \in Nat \ {0} : LastAckAt(n, q, i) => LastAckAt(n, q \o <<p>>, i)
          <5>1. len <= len
            OBVIOUS
          <5> QED BY <2>1, <4>4, <5>1, AnswersMore
        <4>7. t \in Seq(Packet)
          BY <4>5
        <4> QED BY <4>2, <4>4, <4>5, <4>6, <4>7
      <3> QED BY <3>1, <3>2
    <2>3. AnswersInv'
      BY <1>1, <1>5, <2>1, <2>2 DEF AnswersInv
    <2>4. LastAcked'
      <3>1. 1 .. WindowSize - Replied \subseteq Nat \ {0}
        OBVIOUS
      <3> QED BY <1>1, <1>2, <1>3, <2>2, <3>1 DEF LastAcked, Offset
    <2> QED BY <2>3, <2>4
  <1> QED BY <1>6, <1>7

\* A segment that says and acknowledges nothing.
LEMMA NoSegmentTyped == NoSegment \in Segment /\ NoSegment.payloadSize = 0
  <1>1. 0 \in UInt32
    BY SegmentAssumption DEF UInt32
  <1>2. NoSegment \in Segment
    BY <1>1, ControlTyped
  <1>3. NoSegment.payloadSize = 0
    BY DEF NoSegment, ControlSegment
  <1> QED BY <1>2, <1>3

\* A step in which the receiver stores nothing.
LEMMA SilentStep ==
    ASSUME Undisturbed, Channels, LocalInv, HandlerInv, Pieces # 0, Ordered,
           UNCHANGED <<handlerVars, sendVars>>, pc'[Sender] = pc[Sender],
           Received(Receiver)' = Received(Receiver), NEW c \in Segment,
           \/ /\ inbox'[Sender] = inbox[Sender]
              /\ pc'[Receiver] = "finWait" => pc[Receiver] = "finWait"
           \/ /\ Reaches(Sender, inbox[Sender], inbox'[Sender], c)
              /\ "fin" \in c.flags \/ pc[Receiver] = "finWait",
           StreamInv', RestInv'
    PROVE  Ordered'
  <1>1. /\ Pieces' = Pieces /\ Dropped' = Dropped /\ WindowInv'
    BY SenderQuiet DEF Ordered
  <1>2. (HasAll' <=> HasAll) /\ StoredInOrder'
    BY <1>1 DEF Ordered, HasAll, StoredInOrder, Offset
  <1>3. AnswersInv' /\ LastAcked'
    BY <1>2, AnswersStay DEF Ordered
  <1>4. InReach'
    BY <1>1, <1>2 DEF Ordered, InReach
  <1> QED BY <1>1, <1>2, <1>3, <1>4 DEF Ordered

\* A step in which it only reads.
LEMMA ReadStep ==
    ASSUME Undisturbed, Channels, LocalInv, HandlerInv, Pieces # 0, Ordered,
           UNCHANGED <<handlerVars, sendVars, recvVars, pc>>, pc[Receiver] = "recv",
           inbox'[Sender] = inbox[Sender],
           NEW q, NEW h, q = inbox'[Receiver], h = pending'[Receiver],
           Stream(dataSize, q, h),
           Complete(inbox[Receiver], pending[Receiver]) => Complete(q, h),
           AllLast(dataSize, inbox[Receiver], pending[Receiver]) => AllLast(dataSize, q, h),
           SomeLast(dataSize, q, h) => SomeLast(dataSize, inbox[Receiver], pending[Receiver])
    PROVE  Ordered'
  <1>1. /\ dataSize' = dataSize /\ turn' = turn /\ (\A i : IsLastCell(i)' <=> IsLastCell(i))
    BY SenderQuiet
  <1>2. Received(Receiver)' = Received(Receiver) /\ (HasAll' <=> HasAll)
    BY <1>1, ReceiverQuiet
  <1>3. StreamInv'
    BY <1>1, <1>2 DEF Ordered, StreamInv
  <1>4. RestInv'
    BY <1>1, <1>2 DEF Ordered, RestInv
  <1>5. NoSegment \in Segment
    BY NoSegmentTyped
  <1> QED BY <1>2, <1>3, <1>4, <1>5, SilentStep

\* It reads the header of a piece.
LEMMA HeaderStep ==
    ASSUME Undisturbed, TransferInv, HandlerInv, Pieces # 0, Ordered, AwaitPayload(Receiver)
    PROVE  Ordered'
  <1> USE DEF TransferInv
  <1>1. /\ pending[Receiver] = NoSegment /\ inbox[Receiver] # <<>>
        /\ inbox' = [inbox EXCEPT ![Receiver] = Tail(@)]
        /\ UNCHANGED <<handlerVars, sendVars, recvVars, pc>>
    BY DEF AwaitPayload, TakeHeader, Announced
  <1>2. PICK g \in AsHeader(Head(inbox[Receiver]).body) :
          g.payloadSize > 0 /\ pending' = [pending EXCEPT ![Receiver] = g]
    BY <1>1 DEF AwaitPayload, Announced
  <1>3. /\ inbox'[Receiver] = Tail(inbox[Receiver]) /\ inbox'[Sender] = inbox[Sender]
        /\ pending'[Receiver] = g
    BY <1>1, <1>2, TheReceiver DEF Channels, QueuesOK
  <1>4. PICK q \in Seq(Packet) : q = inbox[Receiver]
    BY ReceiverQueue
  <1>5. q # <<>> /\ Head(q) = q[1] /\ Len(q) \in Nat /\ Len(q) >= 1
    BY <1>1, <1>4
  <1>6. CASE pc[Receiver] = "recv"
    <2>1. Stream(dataSize, q, NoSegment)
      BY <1>1, <1>4, <1>6 DEF Ordered, StreamInv
    <2>2. q[1].body.kind = "header"
      <3>1. 1 \in 1 .. Len(q) /\ 1 - 1 = 0
        BY <1>5
      <3>2. Follows(Under(q, NoSegment, 0), Under(q, NoSegment, 1))
        BY <2>1, <3>1 DEF Stream
      <3> QED BY <3>2 DEF Follows, Under, Announces, NoSegment, ControlSegment
    <2>3. q[1].body = [kind |-> "header", segment |-> g]
      <3>1. q[1].body \in Datagram
        BY <1>4, <1>5, ReceiverQueue
      <3>2. g = q[1].body.segment
        BY <1>2, <1>4, <1>5, <2>2 DEF AsHeader
      <3> QED BY <2>2, <3>1, <3>2 DEF Datagram
    <2>4. Under(Tail(q), g, 0) = q[1].body
      BY <2>3 DEF Under
    <2>5. /\ Stream(dataSize, Tail(q), g)
          /\ Complete(q, NoSegment) => Complete(Tail(q), g)
          /\ AllLast(dataSize, q, NoSegment) => AllLast(dataSize, Tail(q), g)
          /\ SomeLast(dataSize, Tail(q), g) => SomeLast(dataSize, q, NoSegment)
      BY <1>2, <1>5, <2>1, <2>4, StreamRead
    <2>6. PICK t : t = Tail(q)
      OBVIOUS
    <2> QED BY <1>1, <1>3, <1>4, <1>6, <2>5, <2>6, ReadStep
  <1>7. CASE pc[Receiver] # "recv"
    <2>1. StreamInv' /\ RestInv'
      BY <1>1, <1>7 DEF StreamInv, RestInv
    <2>2. NoSegment \in Segment
      BY NoSegmentTyped
    <2>3. Received(Receiver)' = Received(Receiver)
      BY <1>1 DEF recvVars, Received
    <2> QED BY <1>1, <1>3, <2>1, <2>2, <2>3, SilentStep
  <1> QED BY <1>6, <1>7

\* It reads a segment that it has no use for.
LEMMA IgnoreStep ==
    ASSUME Undisturbed, TransferInv, HandlerInv, Pieces # 0, Ordered, IgnoreDuringRecv(Receiver)
    PROVE  Ordered'
  <1> USE DEF TransferInv
  <1>1. /\ pc[Receiver] = "recv" /\ Consume(Receiver)
        /\ UNCHANGED <<handlerVars, sendVars, recvVars, pc>>
    BY DEF IgnoreDuringRecv
  <1>2. PICK p \in Returned(Receiver) : TRUE
    BY DEF IgnoreDuringRecv
  <1>3. /\ inbox[Receiver] # <<>> /\ Stream(dataSize, Tail(inbox[Receiver]), NoSegment)
        /\ Complete(inbox[Receiver], pending[Receiver]) =>
             Complete(Tail(inbox[Receiver]), NoSegment)
        /\ AllLast(dataSize, inbox[Receiver], pending[Receiver]) =>
             AllLast(dataSize, Tail(inbox[Receiver]), NoSegment)
        /\ SomeLast(dataSize, Tail(inbox[Receiver]), NoSegment) =>
             SomeLast(dataSize, inbox[Receiver], pending[Receiver])
    BY <1>1, <1>2, SegmentRead DEF Ordered
  <1>4. /\ inbox'[Receiver] = Tail(inbox[Receiver]) /\ pending'[Receiver] = NoSegment
        /\ inbox'[Sender] = inbox[Sender]
    BY <1>1, <1>3, TheReceiver, ConsumeReaches
  <1>5. PICK t : t = Tail(inbox[Receiver])
    OBVIOUS
  <1> QED BY <1>1, <1>3, <1>4, <1>5, ReadStep

\* It answers a FIN, and reads no more.
LEMMA FinReadStep ==
    ASSUME Undisturbed, TransferInv, HandlerInv, Pieces # 0, Ordered, FinDuringRecv(Receiver)
    PROVE  Ordered'
  <1> USE DEF TransferInv
  <1>1. /\ pc[Receiver] = "recv" /\ UNCHANGED <<handlerVars, sendVars>>
        /\ RecvReturns(Receiver, buffer[Receiver], totalReceived[Receiver])
    BY DEF FinDuringRecv
  <1>2. PICK result \in SendResults(finAck) :
          /\ Answer(Receiver, result.wire)
          /\ status' = IF result.ok THEN [status EXCEPT ![Receiver] = "LAST_ACK"] ELSE status
    BY DEF FinDuringRecv
  <1>3. result.ok
    <2>1. SendResults(finAck) = {[wire |-> Wire(finAck), ok |-> TRUE]}
      BY NothingFails
    <2> QED BY <2>1
  <1>4. status'[Receiver] # "ESTABLISHED"
    BY <1>2, <1>3, TheReceiver DEF LocalInv
  <1>5. pc'[Receiver] = "close" /\ pc'[Sender] = pc[Sender]
    BY <1>1, <1>4, TheReceiver DEF RecvReturns, LocalInv
  <1>6. inbox[Receiver] # <<>> /\ PeerAfterReceive(Receiver) = Sender
    <2>1. inbox[Receiver] # <<>>
      BY DEF FinDuringRecv, Returned
    <2> QED BY <1>1, <2>1, PeersAre
  <1>7. 0 \in UInt32 /\ finAck \in Segment /\ finAck.payloadSize = 0 /\ "fin" \in finAck.flags
    <2>1. 0 \in UInt32
      BY SegmentAssumption DEF UInt32
    <2>2. "fin" \in finAck.flags
      BY DEF finAck, ControlSegment
    <2> QED BY <2>1, <2>2, ControlTyped
  <1>8. Reaches(Sender, inbox[Sender], inbox'[Sender], finAck)
    BY <1>2, <1>6, <1>7, TheReceiver, AnswerReaches
  <1>9. Received(Receiver)' = Received(Receiver)
    BY TheReceiver, ReturnsNothingMore
  <1>10. StreamInv' /\ RestInv'
    BY <1>5 DEF StreamInv, RestInv
  <1> QED BY <1>1, <1>5, <1>7, <1>8, <1>9, <1>10, SilentStep

\* Its receive of a payload times out, which the sender was stopped in front of.
LEMMA TimeoutStep ==
    ASSUME Undisturbed, TransferInv, HandlerInv, Pieces # 0, Ordered,
           TimeoutDuringRecv(Receiver)
    PROVE  Ordered'
  <1> USE DEF TransferInv
  <1>1. /\ pc[Receiver] = "recv" /\ UNCHANGED <<handlerVars, sendVars, inbox>>
        /\ PayloadTimeout(Receiver)
        /\ RecvReturns(Receiver, buffer[Receiver], totalReceived[Receiver])
    BY DEF TimeoutDuringRecv
  <1>2. inbox[Receiver] = <<>> /\ pending'[Receiver] = NoSegment
    BY <1>1, TheReceiver, ReceiverQueue DEF PayloadTimeout, Undisturbed
  <1>3. Received(Receiver)' = Received(Receiver)
    BY TheReceiver, ReturnsNothingMore
  <1>4. pc'[Sender] = pc[Sender] /\ pc'[Receiver] # "finWait"
    BY <1>1, TheReceiver DEF RecvReturns, LocalInv
  <1>5. /\ dataSize' = dataSize /\ turn' = turn /\ (\A i : IsLastCell(i)' <=> IsLastCell(i))
        /\ Pieces' = Pieces
    BY <1>1, <1>4, SenderQuiet
  <1>6. HasAll' <=> HasAll
    BY <1>3, <1>5 DEF HasAll, Offset
  <1>7. PICK size : size = dataSize
    OBVIOUS
  <1>8. /\ Stream(size, <<>>, NoSegment) /\ Complete(<<>>, NoSegment)
        /\ AllLast(size, <<>>, NoSegment) /\ ~SomeLast(size, <<>>, NoSegment)
    BY StreamEmpty
  <1>9. StreamInv'
    BY <1>1, <1>2, <1>5, <1>7, <1>8 DEF StreamInv
  <1>10. RestInv'
    BY <1>1, <1>2, <1>4, <1>5, <1>6, <1>7, <1>8 DEF Ordered, RestInv
  <1>11. NoSegment \in Segment
    BY NoSegmentTyped
  <1> QED BY <1>1, <1>3, <1>4, <1>9, <1>10, <1>11, SilentStep

\* It closes its socket.
LEMMA ReceiverCloseStep ==
    ASSUME Undisturbed, TransferInv, HandlerInv, Pieces # 0, Ordered, CloseNext(Receiver)
    PROVE  Ordered'
  <1> USE DEF TransferInv
  <1>1. 0 \in UInt32 /\ fin \in Segment /\ fin.payloadSize = 0 /\ "fin" \in fin.flags
    <2>1. 0 \in UInt32
      BY SegmentAssumption DEF UInt32
    <2>2. "fin" \in fin.flags
      BY DEF fin, ControlSegment
    <2> QED BY <2>1, <2>2, ControlTyped
  <1>2. /\ UNCHANGED <<handlerVars, sendVars, recvVars>>
        /\ pc'[Sender] = pc[Sender] /\ pc'[Receiver] \in {"finWait", "closeWait", "done"}
        /\ \/ /\ inbox'[Sender] = inbox[Sender]
              /\ pc'[Receiver] = "finWait" => pc[Receiver] = "finWait"
           \/ Reaches(Sender, inbox[Sender], inbox'[Sender], fin)
           \/ /\ pc[Receiver] = "finWait"
              /\ \E s \in Segment : /\ LastAck(s) \in Segment
                                    /\ Reaches(Sender, inbox[Sender], inbox'[Sender], LastAck(s))
    BY TheReceiver, ClosingSends
  <1>3. StreamInv' /\ RestInv'
    BY <1>2 DEF StreamInv, RestInv
  <1>4. Received(Receiver)' = Received(Receiver)
    BY <1>2 DEF recvVars, Received
  <1>5. PICK c \in Segment :
           \/ /\ inbox'[Sender] = inbox[Sender]
              /\ pc'[Receiver] = "finWait" => pc[Receiver] = "finWait"
           \/ /\ Reaches(Sender, inbox[Sender], inbox'[Sender], c)
              /\ "fin" \in c.flags \/ pc[Receiver] = "finWait"
    BY <1>1, <1>2
  <1> QED BY <1>2, <1>3, <1>4, <1>5, SilentStep

\* The acknowledgment of the piece that it stores.
LEMMA AckReaches ==
    ASSUME Undisturbed, TransferInv, HandlerInv, Pieces # 0, StoreSegment(Receiver),
           NEW p \in Returned(Receiver), p \in Segment,
           NEW x \in 1 .. Pieces, p.seqNum = Offset(x),
           NEW result \in SendResults(AckOf(p)), Answer(Receiver, result.wire)
    PROVE  /\ inbox'[Receiver] = Tail(inbox[Receiver])
           /\ pending'[Receiver] = NoSegment
           /\ \/ Deaf(Sender) /\ inbox'[Sender] = inbox[Sender]
              \/ \E a \in Packet : IsAckOf(a, x) /\ inbox'[Sender] = inbox[Sender] \o <<a>>
  <1>1. pc[Receiver] = "recv" /\ inbox[Receiver] # <<>>
    BY DEF StoreSegment, Returned
  <1>2. PICK k \in Nat : k = x - 1
    BY PiecesAreCut
  <1>3. p.seqNum = Offset(k + 0 + 1) /\ k + 0 + 1 = x
    BY <1>2, PiecesAreCut
  <1>4. /\ inbox'[Receiver] = Tail(inbox[Receiver])
        /\ pending'[Receiver] = NoSegment
        /\ \/ Deaf(Sender) /\ inbox'[Sender] = inbox[Sender]
           \/ \E more \in Seq(Packet) : /\ Len(more) = 1
                                        /\ IsAckOf(more[1], k + 0 + 1)
                                        /\ inbox'[Sender] = inbox[Sender] \o more
    BY <1>1, <1>3, AckFlows
  <1>5. ASSUME NEW more \in Seq(Packet), Len(more) = 1, IsAckOf(more[1], k + 0 + 1),
               inbox'[Sender] = inbox[Sender] \o more
        PROVE  \E a \in Packet : IsAckOf(a, x) /\ inbox'[Sender] = inbox[Sender] \o <<a>>
    <2>1. more[1] \in Packet /\ more = <<more[1]>>
      <3>1. 1 \in 1 .. Len(more) /\ Len(<<more[1]>>) = 1
        BY <1>5
      <3>2. more[1] \in Packet
        BY <3>1
      <3> QED BY <1>5, <3>2
    <2>2. IsAckOf(more[1], x)
      BY <1>3, <1>5
    <2> QED BY <1>5, <2>1, <2>2
  <1> QED BY <1>4, <1>5

\* The receiver stores the chunk that is piece x.
Stores(chunk, x) ==
    /\ Received(Receiver)' = Received(Receiver) \o <<chunk>> /\ chunk.data = Offset(x)
    /\ x = MinOf(Len(Received(Receiver)) + 1, Pieces)
    /\ x <= Dropped + 1 + WindowSize
    /\ Stream(dataSize, Tail(inbox[Receiver]), NoSegment)
    /\ Complete(inbox[Receiver], pending[Receiver]) =>
         Complete(Tail(inbox[Receiver]), NoSegment)
    /\ AllLast(dataSize, inbox[Receiver], pending[Receiver]) =>
         AllLast(dataSize, Tail(inbox[Receiver]), NoSegment)
    /\ SomeLast(dataSize, Tail(inbox[Receiver]), NoSegment) =>
         SomeLast(dataSize, inbox[Receiver], pending[Receiver])
    /\ x = Pieces => /\ AllLast(dataSize, Tail(inbox[Receiver]), NoSegment)
                     /\ SomeLast(dataSize, inbox[Receiver], pending[Receiver])
    /\ inbox'[Receiver] = Tail(inbox[Receiver]) /\ pending'[Receiver] = NoSegment
    /\ \/ Deaf(Sender) /\ inbox'[Sender] = inbox[Sender]
       \/ \E a \in Packet : IsAckOf(a, x) /\ inbox'[Sender] = inbox[Sender] \o <<a>>
    /\ ~HasAll => \E k \in Nat, j \in Nat, s \in Nat, lone \in {0, 1} :
                    /\ FillingAt(k, j, s, lone) /\ x = k + j + 1 /\ j + 1 <= s
                    /\ x = Len(Received(Receiver)) + 1

\* It stores a segment: the next piece, which is in the sender's window, or the
\* last one again.
LEMMA PieceStored ==
    ASSUME Undisturbed, TransferInv, HandlerInv, FlowInv, Pieces # 0, Ordered,
           StoreSegment(Receiver)
    PROVE  \E chunk \in Chunk, x \in 1 .. Pieces : Stores(chunk, x)
  <1> USE DEF TransferInv
  <1>1. PICK p \in Returned(Receiver) :
          /\ Fits(Receiver, p) /\ ChunkOf(p) \in Chunk
          /\ \E result \in SendResults(AckOf(p)) : Answer(Receiver, result.wire)
          /\ Received(Receiver)' = Received(Receiver) \o <<ChunkOf(p)>>
    BY TheReceiver, StoresOne
  <1>2. pc[Receiver] = "recv" /\ p \in Segment /\ p.payloadSize > 0 /\ inbox[Receiver] # <<>>
    BY <1>1, TheReceiver, ReturnedToReceiver DEF StoreSegment, Fits
  <1>3. dataSize # 0 /\ dataSize <= Capacity /\ (HasAll \/ GivenUp \/ Filling)
    BY WhichOne
  <1>4. PICK n \in Nat \ {0} : n = Pieces
    BY PiecesAreCut
  <1>5. NumSegments(dataSize) = n
    BY <1>4, PiecesAreCut
  <1>6. PICK x \in 1 .. n :
          /\ p.seqNum = Offset(x) /\ p.data = Offset(x)
          /\ AllLast(dataSize, inbox[Receiver], pending[Receiver]) => Offset(x) = Offset(n)
          /\ x = n => /\ AllLast(dataSize, Tail(inbox[Receiver]), NoSegment)
                      /\ SomeLast(dataSize, inbox[Receiver], pending[Receiver])
    BY <1>2, <1>5, SegmentRead DEF Ordered
  <1>7. ChunkOf(p).data = Offset(x)
    BY <1>6 DEF ChunkOf
  <1>8. PICK len \in Nat : len = Len(Received(Receiver))
    <2>1. Received(Receiver) \in Seq(Chunk)
      BY TheReceiver DEF Received, LocalInv
    <2> QED BY <2>1
  <1>9. Dropped \in Nat /\ WindowSize \in Nat
    BY PiecesAreCut, HandlerAssumption
  <1>10. ASSUME HasAll
         PROVE  x = MinOf(len + 1, n) /\ x <= Dropped + 1 + WindowSize
    <2>1. x = n
      <3>1. Offset(x) = Offset(n)
        BY <1>2, <1>6, <1>10 DEF Ordered, StreamInv
      <3> QED BY <3>1, OffsetOne
    <2>2. len >= n
      BY <1>4, <1>8, <1>10 DEF HasAll
    <2> QED BY <1>4, <1>10, <2>1, <2>2 DEF MinOf, Ordered, InReach
  <1>11. ASSUME ~HasAll
         PROVE  /\ x = MinOf(len + 1, n) /\ x <= Dropped + 1 + WindowSize
                /\ \E k \in Nat, j \in Nat, s \in Nat, lone \in {0, 1} :
                     /\ FillingAt(k, j, s, lone) /\ x = k + j + 1 /\ j + 1 <= s
                     /\ x = len + 1
    <2>1. Filling
      BY <1>2, <1>3, <1>11 DEF GivenUp
    <2>2. PICK k \in Nat, j \in Nat, s \in Nat, lone \in {0, 1} : FillingAt(k, j, s, lone)
      BY <2>1 DEF Filling
    <2>3. /\ j + 1 <= s /\ p.seqNum = Offset(k + j + 1)
      BY <1>3, <2>2, NextReturned
    <2>4. x = k + j + 1
      <3>1. x \in Int /\ k + j + 1 \in Int /\ Offset(x) = Offset(k + j + 1)
        BY <1>6, <2>3
      <3>2. PICK y \in Int : y = k + j + 1
        BY <3>1
      <3> QED BY <3>1, <3>2, OffsetOne
    <2>5. len = k + j
      BY <1>8, <2>2, StoredSoFar DEF FillingAt, HasStored
    <2>6. s <= WindowSize /\ SenderAt(k, j, s, lone)
      BY <2>2 DEF FillingAt
    <2>7. k <= Dropped + 1
      <3>1. ASSUME NEW y \in Nat, y >= k, Acked(y)
            PROVE  k <= Dropped + 1
        BY <3>1 DEF Acked
      <3>2. turn \in Nat /\ turn >= 1
        BY DEF LocalInv
      <3>3. k + turn - 1 \in Nat /\ k + turn - 1 >= k
        BY <3>2
      <3> QED BY <2>6, <3>1, <3>3 DEF SenderAt
    <2>8. x <= Dropped + 1 + WindowSize
      BY <1>9, <2>3, <2>4, <2>6, <2>7
    <2>9. x = MinOf(len + 1, n) /\ x = len + 1
      BY <2>4, <2>5 DEF MinOf
    <2> QED BY <2>2, <2>3, <2>4, <2>8, <2>9
  <1>12. /\ inbox'[Receiver] = Tail(inbox[Receiver]) /\ pending'[Receiver] = NoSegment
         /\ \/ Deaf(Sender) /\ inbox'[Sender] = inbox[Sender]
            \/ \E a \in Packet : IsAckOf(a, x) /\ inbox'[Sender] = inbox[Sender] \o <<a>>
    BY <1>1, <1>2, <1>4, <1>6, AckReaches
  <1>13. /\ Stream(dataSize, Tail(inbox[Receiver]), NoSegment)
         /\ Complete(inbox[Receiver], pending[Receiver]) =>
              Complete(Tail(inbox[Receiver]), NoSegment)
         /\ AllLast(dataSize, inbox[Receiver], pending[Receiver]) =>
              AllLast(dataSize, Tail(inbox[Receiver]), NoSegment)
         /\ SomeLast(dataSize, Tail(inbox[Receiver]), NoSegment) =>
              SomeLast(dataSize, inbox[Receiver], pending[Receiver])
    BY <1>2, SegmentRead DEF Ordered
  <1>14. /\ x = MinOf(len + 1, n) /\ x <= Dropped + 1 + WindowSize
    BY <1>10, <1>11
  <1>15. Stores(ChunkOf(p), x)
    BY <1>1, <1>4, <1>6, <1>7, <1>8, <1>11, <1>12, <1>13, <1>14 DEF Stores
  <1> QED BY <1>1, <1>4, <1>15

\* The receiver stores a segment, or finds that it has it, and answers.
LEMMA StoreStep ==
    ASSUME Undisturbed, TransferInv, HandlerInv, FlowInv, Pieces # 0, Ordered,
           StoreSegment(Receiver)
    PROVE  Ordered'
  <1> USE DEF TransferInv
  <1>1. /\ pc[Receiver] = "recv" /\ UNCHANGED <<handlerVars, sendVars>>
        /\ pc'[Sender] = pc[Sender] /\ pc'[Receiver] # "finWait"
    <2>1. pc[Receiver] = "recv" /\ UNCHANGED <<handlerVars, sendVars>>
      BY DEF StoreSegment
    <2>2. UNCHANGED pc \/ pc' = [pc EXCEPT ![Receiver] = "close"]
      BY DEF StoreSegment, RecvReturns
    <2> QED BY <2>1, <2>2, TheReceiver DEF LocalInv
  <1>2. /\ dataSize' = dataSize /\ Dropped' = Dropped /\ Pieces' = Pieces /\ LAR' = LAR
        /\ turn' = turn /\ Replied' = Replied /\ (InSend' <=> InSend)
        /\ (\A y : Acked(y)' <=> Acked(y)) /\ (\A i : IsLastCell(i)' <=> IsLastCell(i))
        /\ WindowInv'
    BY <1>1, SenderQuiet DEF Ordered
  <1>3. PICK n \in Nat \ {0} : n = Pieces
    BY PiecesAreCut
  <1>4. PICK r \in Seq(Chunk) : r = Received(Receiver)
    <2>1. Received(Receiver) \in Seq(Chunk)
      BY TheReceiver DEF Received, LocalInv
    <2> QED BY <2>1
  <1>5. PICK len \in Nat : len = Len(r)
    OBVIOUS
  <1>6. PICK q : q = inbox[Receiver]
    OBVIOUS
  <1>7. PICK h : h = pending[Receiver]
    OBVIOUS
  <1>8. PICK t : t = Tail(inbox[Receiver])
    OBVIOUS
  <1>9. PICK chunk \in Chunk, x \in 1 .. Pieces : Stores(chunk, x)
    BY PieceStored
  <1>10. /\ x \in 1 .. n
         /\ Received(Receiver)' = r \o <<chunk>> /\ chunk.data = Offset(x)
         /\ x = MinOf(len + 1, n)
         /\ x <= Dropped + 1 + WindowSize
         /\ Stream(dataSize, t, NoSegment)
         /\ Complete(q, h) => Complete(t, NoSegment)
         /\ AllLast(dataSize, q, h) => AllLast(dataSize, t, NoSegment)
         /\ SomeLast(dataSize, t, NoSegment) => SomeLast(dataSize, q, h)
         /\ x = n => AllLast(dataSize, t, NoSegment) /\ SomeLast(dataSize, q, h)
         /\ inbox'[Receiver] = t /\ pending'[Receiver] = NoSegment
         /\ \/ Deaf(Sender) /\ inbox'[Sender] = inbox[Sender]
            \/ \E a \in Packet : IsAckOf(a, x) /\ inbox'[Sender] = inbox[Sender] \o <<a>>
         /\ ~HasAll => \E k \in Nat, j \in Nat, s \in Nat, lone \in {0, 1} :
                         /\ FillingAt(k, j, s, lone) /\ x = k + j + 1 /\ j + 1 <= s
                         /\ x = len + 1
    BY <1>3, <1>4, <1>5, <1>6, <1>7, <1>8, <1>9 DEF Stores
  <1>11. PICK more \in Seq(Chunk) : more = r \o <<chunk>>
    <2>1. <<chunk>> \in Seq(Chunk)
      OBVIOUS
    <2>2. r \o <<chunk>> \in Seq(Chunk)
      BY <2>1
    <2> QED BY <2>2
  <1>12. /\ Len(more) = len + 1 /\ (\A i \in 1 .. len : more[i] = r[i]) /\ more[len + 1] = chunk
         /\ Received(Receiver)' = more
    BY <1>5, <1>10, <1>11
  \* When it has all the pieces now, it had them before or this is the last one.
  <1>13. /\ HasAll => HasAll'
         /\ HasAll' => HasAll \/ x = n
    <2>1. ASSUME HasAll
          PROVE  HasAll'
      <3>1. len >= n /\ \A i \in 1 .. n : r[i].data = Offset(i)
        BY <1>3, <1>4, <1>5, <2>1 DEF HasAll
      <3>2. Len(more) >= n /\ \A i \in 1 .. n : more[i].data = Offset(i)
        BY <1>12, <3>1
      <3> QED BY <1>2, <1>3, <1>12, <3>2 DEF HasAll, Offset
    <2>2. ASSUME HasAll', ~HasAll
          PROVE  x = n
      <3>1. len + 1 >= n
        BY <1>2, <1>3, <1>12, <2>2 DEF HasAll
      <3> QED BY <1>10, <2>2, <3>1
    <2> QED BY <2>1, <2>2
  <1>14. StoredInOrder'
    <2>1. \A i \in 1 .. len : r[i].data = Offset(MinOf(i, n))
      BY <1>3, <1>4, <1>5 DEF Ordered, StoredInOrder
    <2>2. \A i \in 1 .. len + 1 : i \in 1 .. len \/ i = len + 1
      OBVIOUS
    <2>3. \A i \in 1 .. len + 1 : more[i].data = Offset(MinOf(i, n))
      BY <1>10, <1>12, <2>1, <2>2
    <2> QED BY <1>2, <1>3, <1>12, <2>3 DEF StoredInOrder, Offset
  <1>15. StreamInv'
    <2>1. /\ pc[Sender] # "stopped" => Complete(q, h)
          /\ HasAll => AllLast(dataSize, q, h)
      BY <1>1, <1>6, <1>7 DEF Ordered, StreamInv
    <2> QED BY <1>1, <1>2, <1>10, <1>13, <2>1 DEF StreamInv
  <1>16. RestInv'
    <2>1. HasAll' \/ SomeLast(dataSize, t, NoSegment) => HasAll \/ SomeLast(dataSize, q, h)
      BY <1>10, <1>13
    <2>2. pc[Sender] = "sendWindow" /\ (HasAll \/ SomeLast(dataSize, q, h)) =>
             \A i \in turn .. WindowSize : IsLastCell(i)
      BY <1>1, <1>6, <1>7 DEF Ordered, RestInv
    <2> QED BY <1>1, <1>2, <1>10, <2>1, <2>2 DEF RestInv
  <1>17. InReach'
    BY <1>2, <1>3, <1>10, <1>13 DEF Ordered, InReach
  <1>18. AnswersInv' /\ LastAcked'
    <2>1. CASE ~InSend
      BY <1>2, <2>1 DEF AnswersInv, LastAcked
    <2>2. ASSUME InSend
          PROVE  AnswersInv' /\ LastAcked'
      <3>1. PICK u \in Seq(Packet) : u = inbox[Sender]
        BY ReceiverQueue
      <3>2. ~Deaf(Sender)
        BY <2>2 DEF InSend, Deaf
      <3>3. PICK a \in Packet : IsAckOf(a, x) /\ inbox'[Sender] = u \o <<a>>
        BY <1>10, <3>1, <3>2
      <3>4. /\ AnswersIn(n, u, len) /\ \E y \in 0 .. n : y <= len /\ Acked(y)
        BY <1>3, <1>4, <1>5, <2>2, <3>1 DEF Ordered, AnswersInv
      <3>5. PICK v : v = u \o <<a>>
        OBVIOUS
      <3>6. /\ v \in Seq(Packet) /\ Len(v) = Len(u) + 1 /\ v[Len(u) + 1] = a
            /\ \A i \in 1 .. Len(u) : v[i] = u[i]
        BY <3>5, OneMore
      <3>7. /\ AnswersIn(n, v, len + 1)
            /\ \A i \in Nat \ {0} : LastAckAt(n, u, i) => LastAckAt(n, v, i)
        <4>1. x <= len + 1 /\ len <= len + 1 /\ len + 1 \in Nat
          BY <1>10 DEF MinOf
        <4> QED BY <1>10, <3>3, <3>4, <3>5, <4>1, AnswersMore
      <3>8. AnswersInv'
        <4>1. \E y \in 0 .. n : y <= len + 1 /\ Acked(y)
          BY <3>4
        <4> QED BY <1>1, <1>2, <1>3, <1>12, <3>3, <3>5, <3>7, <4>1 DEF AnswersInv
      <3>9. ASSUME HasAll', ~HasAll
            PROVE  \/ LAR = Offset(n)
                   \/ /\ pc[Sender] # "advance"
                      /\ \E i \in 1 .. WindowSize - Replied : LastAckAt(n, v, i)
        <4>1. PICK k \in Nat, j \in Nat, s \in Nat, lone \in {0, 1} :
                FillingAt(k, j, s, lone) /\ j + 1 <= s
          BY <1>10, <3>9
        <4>2. /\ s <= WindowSize /\ WindowSize \in Nat /\ SenderAt(k, j, s, lone)
              /\ turn \in 1 .. WindowSize
          BY <4>1, HandlerAssumption DEF FillingAt, LocalInv
        <4>3. PICK b \in Int : b = Replied
          BY <4>2 DEF Replied
        <4>4. InAcks(u, k, b, j) /\ pc[Sender] # "advance" /\ b <= j
          BY <2>2, <3>1, <4>1, <4>2, <4>3 DEF InSend, SenderAt, Replied
        <4>5. /\ Len(u) = j - b /\ \A f \in 1 .. j - b : IsAckOf(u[f], k + b + f)
          BY <4>4 DEF InAcks
        <4>6. PICK i \in Int : i = j - b + 1
          BY <4>3
        <4>7. i \in 1 .. WindowSize - b /\ i <= Len(v) /\ v[i] = a
          <5>1. j - b + 1 \in 1 .. WindowSize - b /\ j - b + 1 = Len(u) + 1
            BY <4>1, <4>2, <4>4, <4>5
          <5> QED BY <3>6, <4>6, <5>1
        <4>8. IsAckOf(a, n)
          BY <1>13, <3>3, <3>9
        <4>9. ASSUME NEW f \in 1 .. i
              PROVE  ~IsFinPacket(v[f])
          <5>1. \E y : IsAckOf(v[f], y)
            <6>1. CASE f = i
              BY <4>7, <4>8, <6>1
            <6>2. CASE f \in 1 .. j - b
              BY <3>6, <4>5, <6>2
            <6> QED BY <4>6, <6>1, <6>2
          <5> QED BY <5>1 DEF IsAckOf, IsFinPacket
        <4>10. LastAckAt(n, v, i)
          BY <4>7, <4>8, <4>9 DEF LastAckAt
        <4> QED BY <4>3, <4>4, <4>7, <4>10
      <3>10. LastAcked'
        <4>1. 1 .. WindowSize - Replied \subseteq Nat \ {0}
          OBVIOUS
        <4>2. HasAll' => \/ LAR = Offset(n)
                         \/ /\ pc[Sender] # "advance"
                            /\ \E i \in 1 .. WindowSize - Replied : LastAckAt(n, v, i)
          BY <1>3, <2>2, <3>1, <3>7, <3>9, <4>1 DEF Ordered, LastAcked
        <4> QED BY <1>1, <1>2, <1>3, <3>3, <3>5, <4>2 DEF LastAcked, Offset
      <3> QED BY <3>8, <3>10
    <2> QED BY <2>1, <2>2
  <1> QED BY <1>2, <1>14, <1>15, <1>16, <1>17, <1>18 DEF Ordered

-----------------------------------------------------------------------------
(***************************************************************************)
(* The steps of OrderedDelivery, in the words of the program.              *)
(***************************************************************************)

\* The numbers of the pieces that the receiver has: the refinement's delivered.
Numbers == [i \in DOMAIN Received(Receiver) |-> Received(Receiver)[i].data \div MSS + 1]

\* What a step must do in the program to be a step of OrderedDelivery.
LEMMA PromiseSteps ==
    /\ /\ Pieces' = Pieces /\ Numbers' = Numbers /\ Dropped' = Dropped
       /\ saved'[Receiver] = saved[Receiver]
       => UNCHANGED Promise!deliveryVars
    /\ /\ Pieces = 0 /\ Pieces' \in Nat \ {0} /\ Numbers' = Numbers /\ Dropped' = Dropped
       /\ saved'[Receiver] = saved[Receiver]
       => Promise!Offer
    /\ \A x \in 1 .. Pieces :
          /\ ~saved[Receiver] /\ x <= Dropped + 1 + WindowSize
          /\ x = Len(Numbers) + 1 \/ (x = Pieces /\ Len(Numbers) >= Pieces)
          /\ Numbers' = Append(Numbers, x) /\ saved'[Receiver] \in {FALSE, x = Pieces}
          /\ Pieces' = Pieces /\ Dropped' = Dropped
          => Promise!Deliver
    /\ /\ Dropped' \in Dropped + 1 .. Pieces - 1 /\ Dropped' <= Len(Numbers)
       /\ Pieces' = Pieces /\ Numbers' = Numbers /\ saved'[Receiver] = saved[Receiver]
       => Promise!Release
    /\ /\ Pieces > 0 /\ Len(Numbers) >= Pieces /\ saved'[Receiver] = TRUE
       /\ Pieces' = Pieces /\ Numbers' = Numbers /\ Dropped' = Dropped
       => Promise!Save
  BY Zenon DEF Numbers, Promise!deliveryVars, Promise!Offer, Promise!Deliver, Promise!InWindow,
      Promise!Release, Promise!Save

\* The numbers depend on what the receiver has, which depends on its buffers.
LEMMA NumbersStay ==
    ASSUME Received(Receiver)' = Received(Receiver)
    PROVE  Numbers' = Numbers
  BY DEF Numbers

\* A step that changes no buffer of either side is a stutter.
LEMMA Stutters ==
    ASSUME UNCHANGED <<handlerVars, buffer, totalBuffer, saved>>
    PROVE  /\ Pieces' = Pieces /\ Dropped' = Dropped
           /\ Received(Receiver)' = Received(Receiver) /\ UNCHANGED Promise!deliveryVars
  <1>1. Received(Receiver)' = Received(Receiver)
    BY DEF Received
  <1>2. Pieces' = Pieces /\ Dropped' = Dropped
    BY DEF handlerVars, bufferVars, Pieces, Dropped
  <1> QED BY <1>1, <1>2, NumbersStay, PromiseSteps

\* One piece more.
LEMMA NumbersGrow ==
    ASSUME Receiver \in Receivers, LocalInv, NEW chunk \in Chunk, NEW x \in Nat \ {0},
           chunk.data = Offset(x), Received(Receiver)' = Received(Receiver) \o <<chunk>>
    PROVE  /\ Numbers' = Append(Numbers, x)
           /\ Len(Numbers) = Len(Received(Receiver)) /\ Len(Received(Receiver)) \in Nat
  <1>1. PICK r \in Seq(Chunk) : r = Received(Receiver)
    <2>1. Received(Receiver) \in Seq(Chunk)
      BY DEF Received, LocalInv
    <2> QED BY <2>1
  <1>2. PICK m : m = r \o <<chunk>>
    OBVIOUS
  <1>3. PICK len \in Nat : len = Len(r)
    OBVIOUS
  <1>4. /\ m \in Seq(Chunk) /\ Len(m) = len + 1 /\ (\A i \in 1 .. len : m[i] = r[i])
        /\ m[len + 1] = chunk
    BY <1>2, <1>3, OneMore
  <1> DEFINE N(s) == [i \in DOMAIN s |-> s[i].data \div MSS + 1]
             a == Append(N(r), x)
  <1>5. DOMAIN r = 1 .. len /\ DOMAIN m = 1 .. len + 1
    BY <1>3, <1>4
  <1>6. Numbers = N(r) /\ Numbers' = N(m)
    BY <1>1, <1>2 DEF Numbers
  <1>7. N(r) = [i \in 1 .. len |-> r[i].data \div MSS + 1]
    BY <1>5
  <1>8. Offset(x) \div MSS + 1 = x
    BY OffsetNumber
  <1> DEFINE T == {r[i].data \div MSS + 1 : i \in 1 .. len} \cup {x}
  <1>9. PICK f : f = [i \in 1 .. len |-> r[i].data \div MSS + 1]
    OBVIOUS
  <1>10. PICK g : g = [i \in 1 .. len + 1 |-> m[i].data \div MSS + 1]
    OBVIOUS
  <1>11. /\ x \in T
         /\ f \in [1 .. len -> T]
         /\ f \in Seq(T) /\ Len(f) = len
    <2>1. x \in T /\ \A i \in 1 .. len : r[i].data \div MSS + 1 \in T
      BY Zenon
    <2> HIDE DEF T
    <2>2. f \in [1 .. len -> T]
      BY <1>9, <2>1
    <2>3. f \in Seq(T)
      BY ONLY <2>2, len \in Nat
    <2>4. Len(f) = len
      BY ONLY <2>2, <2>3, len \in Nat
    <2> QED BY <2>1, <2>2, <2>3, <2>4
  <1>12. /\ \A i \in 1 .. len : g[i] = f[i]
         /\ g[len + 1] = x
    BY <1>4, <1>8, <1>9, <1>10
  <1>13. g \in [1 .. len + 1 -> T]
    <2>1. \A i \in 1 .. len + 1 : i \in 1 .. len \/ i = len + 1
      OBVIOUS
    <2>2. \A i \in 1 .. len + 1 : g[i] \in T
      BY <1>11, <1>12, <2>1
    <2> QED BY <1>10, <2>2
  <1> HIDE DEF T
  <1>14. g = Append(f, x)
    <2>1. g \in Seq(T) /\ Len(g) = len + 1
      BY <1>13
    <2>2. /\ Append(f, x) \in Seq(T) /\ Len(Append(f, x)) = len + 1
          /\ \A i \in 1 .. len : Append(f, x)[i] = f[i]
          /\ Append(f, x)[len + 1] = x
      BY <1>11
    <2>3. \A i \in 1 .. len + 1 : g[i] = Append(f, x)[i]
      BY <1>12, <2>2
    <2>4. PICK e \in Seq(T) : e = Append(f, x)
      BY <2>2
    <2>5. Len(e) = Len(g) /\ \A i \in 1 .. Len(e) : g[i] = e[i]
      BY <2>1, <2>2, <2>3, <2>4
    <2>6. g = e
      BY ONLY <2>1, <2>5, e \in Seq(T)
    <2> QED BY <2>4, <2>6
  <1> QED BY <1>1, <1>3, <1>5, <1>6, <1>9, <1>10, <1>11, <1>14

-----------------------------------------------------------------------------
(***************************************************************************)
(* Before there are pieces, or when there are none.                        *)
(***************************************************************************)

\* Nothing is cut, and the sender sends no window.
LEMMA NothingCut ==
    ASSUME SenderInv, HandlerInv, Pieces = 0
    PROVE  /\ segmentCells = <<>> /\ bufLen = 0 /\ Dropped = 0
           /\ pc[Sender] \notin {"sendWindow", "awaitAcks"}
  <1>1. dataSize = 0 \/ spinning
    <2> SUFFICES ASSUME dataSize # 0, ~spinning
                 PROVE  FALSE
      OBVIOUS
    <2>1. dataSize \in Nat \ {0} /\ dataSize <= U32 - MSS
      BY SegmentAssumption DEF SenderInv, HandlerInv, HandlerTypeOK, UInt32
    <2>2. PICK d \in Nat \ {0} : d = dataSize
      BY <2>1
    <2>3. d + MSS - 1 \in Nat /\ d + MSS - 1 < U32 /\ MSS \in Nat \ {0} /\ U32 \in Nat \ {0}
          /\ d + MSS - 1 >= MSS
      BY <2>1, <2>2, SegmentAssumption
    <2>4. (d + MSS - 1) % U32 = d + MSS - 1
      BY ONLY <2>3, ModSmall
    <2>5. d + MSS - 1 < ((d + MSS - 1) \div MSS) * MSS + MSS
      BY ONLY <2>3, DivBounds
    <2>6. (d + MSS - 1) \div MSS # 0
      <3> SUFFICES ASSUME (d + MSS - 1) \div MSS = 0
                   PROVE  FALSE
        OBVIOUS
      <3>1. d + MSS - 1 < 0 * MSS + MSS
        BY ONLY <2>5, (d + MSS - 1) \div MSS = 0
      <3> QED BY ONLY <2>3, <3>1
    <2> QED BY <2>2, <2>4, <2>6 DEF Pieces, NumSegments
  <1>2. segmentCells = <<>> /\ bufLen = 0
    BY <1>1 DEF HandlerInv, CutOnce
  <1>3. Dropped = 0
    BY <1>2 DEF Dropped
  <1>4. pc[Sender] \notin {"sendWindow", "awaitAcks"}
    BY <1>1 DEF SenderInv
  <1> QED BY <1>2, <1>3, <1>4

\* No header announces a payload.
LEMMA QuietRead ==
    ASSUME Pieces = 0, QuietInv
    PROVE  /\ Announced(Receiver) = {} /\ ~PayloadTimeout(Receiver)
           /\ \A p \in Returned(Receiver) : p.payloadSize = 0 /\ inbox[Receiver] # <<>>
  <1>1. pending[Receiver] = NoSegment /\ inbox[Receiver] \in Seq(QuietPacket)
    BY DEF QuietInv
  <1>2. ASSUME inbox[Receiver] # <<>>
        PROVE  \A s \in AsHeader(Head(inbox[Receiver]).body) : s.payloadSize = 0
    <2>1. Head(inbox[Receiver]) \in QuietPacket
      BY <1>1, <1>2
    <2> QED BY <2>1 DEF QuietPacket, ReplyBody, AsHeader
  <1>3. Announced(Receiver) = {}
    BY <1>2 DEF Announced
  <1> QED BY <1>1, <1>3 DEF PayloadTimeout, Returned

\* What may come to the queue of the receiver.
LEMMA QuietQueue ==
    ASSUME Pieces = 0, QuietInv, NEW c \in Segment, c.payloadSize = 0,
           \/ inbox'[Receiver] = inbox[Receiver] \/ inbox'[Receiver] = <<>>
           \/ inbox[Receiver] # <<>> /\ inbox'[Receiver] = Tail(inbox[Receiver])
           \/ Reaches(Receiver, inbox[Receiver], inbox'[Receiver], c)
    PROVE  inbox'[Receiver] \in Seq(QuietPacket)
  <1>1. PICK q \in Seq(QuietPacket) : q = inbox[Receiver]
    BY DEF QuietInv
  <1>2. <<>> \in Seq(QuietPacket) /\ (q # <<>> => Tail(q) \in Seq(QuietPacket))
    OBVIOUS
  <1>3. ASSUME Reaches(Receiver, q, inbox'[Receiver], c), ~Deaf(Receiver)
        PROVE  inbox'[Receiver] \in Seq(QuietPacket)
    <2>1. PICK p \in Packet : p.body = Header(c) /\ inbox'[Receiver] = q \o <<p>>
      BY <1>3 DEF Reaches
    <2>2. p \in QuietPacket
      <3>1. Header(c) \in Datagram /\ Header(c).kind = "header"
        BY DEF Header, Datagram, Segment
      <3>2. Header(c).segment.payloadSize = 0
        BY DEF Header, Segment
      <3> QED BY <2>1, <3>1, <3>2 DEF Packet, QuietPacket, ReplyBody
    <2>3. q \o <<p>> \in Seq(QuietPacket)
      BY <2>2, OneMore
    <2> QED BY <2>1, <2>3
  <1> QED BY <1>1, <1>2, <1>3 DEF Reaches

\* Then nothing has happened.
LEMMA QuietStep ==
    ASSUME Pieces = 0, QuietInv, Pieces' = Pieces, Dropped' = Dropped,
           Received(Receiver)' = Received(Receiver), saved'[Receiver] = saved[Receiver],
           pending'[Receiver] \in {NoSegment, pending[Receiver]}, NEW c \in Segment,
           c.payloadSize = 0,
           \/ inbox'[Receiver] = inbox[Receiver] \/ inbox'[Receiver] = <<>>
           \/ inbox[Receiver] # <<>> /\ inbox'[Receiver] = Tail(inbox[Receiver])
           \/ Reaches(Receiver, inbox[Receiver], inbox'[Receiver], c)
    PROVE  QuietInv' /\ UNCHANGED Promise!deliveryVars
  <1>1. inbox'[Receiver] \in Seq(QuietPacket)
    BY QuietQueue
  <1>2. QuietInv'
    BY <1>1 DEF QuietInv
  <1>3. UNCHANGED Promise!deliveryVars
    BY NumbersStay, PromiseSteps
  <1> QED BY <1>2, <1>3

\* The same when the handler and what the receiver has stay as they are.
LEMMA QuietStays ==
    ASSUME Pieces = 0, QuietInv, UNCHANGED <<handlerVars, recvVars>>,
           pending'[Receiver] \in {NoSegment, pending[Receiver]}, NEW c \in Segment,
           c.payloadSize = 0,
           \/ inbox'[Receiver] = inbox[Receiver] \/ inbox'[Receiver] = <<>>
           \/ inbox[Receiver] # <<>> /\ inbox'[Receiver] = Tail(inbox[Receiver])
           \/ Reaches(Receiver, inbox[Receiver], inbox'[Receiver], c)
    PROVE  QuietInv' /\ UNCHANGED Promise!deliveryVars
  <1>1. UNCHANGED <<handlerVars, buffer, totalBuffer, saved>>
    BY DEF recvVars
  <1>2. Pieces' = Pieces /\ Dropped' = Dropped /\ Received(Receiver)' = Received(Receiver)
    BY <1>1, Stutters
  <1>3. saved'[Receiver] = saved[Receiver]
    BY <1>1
  <1> QED BY <1>2, <1>3, QuietStep

\* A socket is closed, without data.
LEMMA QuietClose ==
    ASSUME Undisturbed, TransferInv, Pieces = 0, QuietInv, NEW n \in Node, CloseNext(n)
    PROVE  QuietInv' /\ UNCHANGED Promise!deliveryVars
  <1> USE DEF TransferInv
  <1>1. fin \in Segment /\ fin.payloadSize = 0
    <2>1. 0 \in UInt32
      BY SegmentAssumption DEF UInt32
    <2> QED BY <2>1, ControlTyped
  <1>2. CASE n = Sender
    <2>1. /\ UNCHANGED <<handlerVars, recvVars>>
          /\ pending'[Receiver] = pending[Receiver]
          /\ \/ inbox'[Receiver] = inbox[Receiver]
             \/ Reaches(Receiver, inbox[Receiver], inbox'[Receiver], fin)
             \/ \E s \in Segment :
                  /\ LastAck(s) \in Segment /\ LastAck(s).payloadSize = 0
                  /\ Reaches(Receiver, inbox[Receiver], inbox'[Receiver], LastAck(s))
      BY <1>2, TheReceiver, ClosingSends
    <2>2. PICK c \in Segment :
            /\ c.payloadSize = 0
            /\ \/ inbox'[Receiver] = inbox[Receiver]
               \/ Reaches(Receiver, inbox[Receiver], inbox'[Receiver], c)
      BY <1>1, <2>1
    <2> QED BY <2>1, <2>2, QuietStays
  <1>3. CASE n = Receiver
    <2>1. /\ UNCHANGED <<handlerVars, sendVars, recvVars>>
          /\ \/ inbox'[Receiver] = inbox[Receiver]
             \/ inbox[Receiver] # <<>> /\ inbox'[Receiver] = Tail(inbox[Receiver])
      BY <1>3, TheReceiver, ClosingSends
    <2>2. pending'[Receiver] \in {NoSegment, pending[Receiver]}
      BY <1>3, TheReceiver
      DEF CloseNext, CloseActive, ClosePassive, CloseAtOnce, FinAckInFinWait, AckInCloseWait,
          OtherInClose, TimeoutInClose, PayloadTimeout, Post, Answer, AnswerTo, Consume, Channels
    <2> QED BY <2>1, <2>2, NoSegmentTyped, QuietStays
  <1> QED BY <1>2, <1>3, TheReceiver

\* The steps of the sender, which has nothing to send.
LEMMA QuietSender ==
    ASSUME Undisturbed, TransferInv, HandlerInv, Pieces = 0, QuietInv, SenderNext, ~StartSend
    PROVE  QuietInv' /\ UNCHANGED Promise!deliveryVars
  <1>1. pc[Sender] \notin {"sendWindow", "awaitAcks"}
    BY NothingCut DEF TransferInv
  <1>2. ~SendThrows /\ ~SendSegment /\ ~ReplyDuringSend /\ ~FinDuringSend
    BY <1>1 DEF SendThrows, SendSegment, ReplyDuringSend, FinDuringSend, Undisturbed
  <1>3. CASE CloseNext(Sender)
    BY <1>3, TheReceiver, QuietClose
  <1>4. CASE NextWindow
    <2>1. UNCHANGED <<bufferVars, dataSize, recvVars, inbox, pending>>
      BY <1>4 DEF NextWindow, advanceWindow
    <2>2. Dropped' = Dropped /\ Pieces' = Pieces
      BY <2>1 DEF Dropped, Pieces, bufferVars
    <2>3. Received(Receiver)' = Received(Receiver) /\ saved'[Receiver] = saved[Receiver]
      BY <2>1 DEF Received, recvVars
    <2> QED BY <2>1, <2>2, <2>3, NoSegmentTyped, QuietStep
  <1> QED BY <1>2, <1>3, <1>4 DEF SenderNext

\* A process is stopped before anything was sent.
LEMMA QuietStop ==
    ASSUME Undisturbed, TransferInv, HandlerInv, Pieces = 0, QuietInv, NEW n \in Node, Stop(n)
    PROVE  QuietInv' /\ UNCHANGED Promise!deliveryVars
  <1> USE DEF TransferInv
  <1>1. pc[n] # "sendWindow"
    <2>1. pc[Sender] # "sendWindow"
      BY NothingCut
    <2>2. pc[Receiver] # "sendWindow"
      BY TheReceiver DEF LocalInv
    <2> QED BY <2>1, <2>2, TheReceiver
  <1>2. /\ inbox' = [inbox EXCEPT ![n] = <<>>] /\ pending' = [pending EXCEPT ![n] = NoSegment]
        /\ UNCHANGED <<handlerVars, recvVars>>
    BY <1>1 DEF Stop, Sent
  <1>3. inbox'[Receiver] = inbox[Receiver] \/ inbox'[Receiver] = <<>>
    BY <1>2, TheReceiver DEF Channels, QueuesOK
  <1>4. pending'[Receiver] \in {NoSegment, pending[Receiver]}
    BY <1>2, TheReceiver DEF Channels
  <1> QED BY <1>2, <1>3, <1>4, NoSegmentTyped, QuietStays

\* The receiver, which is sent no payload.
LEMMA QuietReceiver ==
    ASSUME Undisturbed, TransferInv, Pieces = 0, QuietInv, EndsInv, ReceiverNext(Receiver)
    PROVE  QuietInv' /\ UNCHANGED Promise!deliveryVars
  <1> USE DEF TransferInv
  <1>1. /\ Announced(Receiver) = {} /\ ~PayloadTimeout(Receiver)
        /\ \A p \in Returned(Receiver) : p.payloadSize = 0 /\ inbox[Receiver] # <<>>
    BY QuietRead
  <1>2. ~AwaitPayload(Receiver) /\ ~TimeoutDuringRecv(Receiver)
    BY <1>1 DEF AwaitPayload, TakeHeader, TimeoutDuringRecv
  <1>3. ~PayloadThrows(Receiver) /\ ~RecvThrows(Receiver)
    BY DEF PayloadThrows, RecvThrows, Undisturbed
  <1>4. ~StoreSegment(Receiver)
    <2>1. \A p \in Returned(Receiver) : ~Fits(Receiver, p)
      BY <1>1 DEF Fits
    <2> QED BY <2>1 DEF StoreSegment
  <1>5. CASE CloseNext(Receiver)
    BY <1>5, TheReceiver, QuietClose
  <1>6. CASE IgnoreDuringRecv(Receiver)
    <2>1. /\ Consume(Receiver) /\ inbox[Receiver] # <<>>
          /\ UNCHANGED <<handlerVars, recvVars>>
      BY <1>1, <1>6 DEF IgnoreDuringRecv
    <2>2. inbox'[Receiver] = Tail(inbox[Receiver]) /\ pending'[Receiver] = NoSegment
      BY <2>1, TheReceiver, ConsumeReaches
    <2> QED BY <2>1, <2>2, NoSegmentTyped, QuietStays
  <1>7. CASE FinDuringRecv(Receiver)
    <2>1. /\ pc[Receiver] = "recv" /\ inbox[Receiver] # <<>> /\ UNCHANGED handlerVars
          /\ RecvReturns(Receiver, buffer[Receiver], totalReceived[Receiver])
      BY <1>1, <1>7 DEF FinDuringRecv
    <2>2. PICK result \in SendResults(finAck) : Answer(Receiver, result.wire)
      BY <1>7 DEF FinDuringRecv
    <2>3. finAck \in Segment /\ finAck.payloadSize = 0
      <3>1. 0 \in UInt32
        BY SegmentAssumption DEF UInt32
      <3> QED BY <3>1, ControlTyped
    <2>4. PeerAfterReceive(Receiver) = Sender
      BY <2>1, PeersAre
    <2>5. inbox'[Receiver] = Tail(inbox[Receiver]) /\ pending'[Receiver] = NoSegment
      BY <2>1, <2>2, <2>3, <2>4, TheReceiver, AnswerReaches
    <2>6. Received(Receiver)' = Received(Receiver)
      BY <1>7, TheReceiver, ReturnsNothingMore
    <2>7. ~HasMetadata(totalBuffer[Receiver] \o buffer[Receiver])
      <3>1. totalBuffer[Receiver] \o buffer[Receiver] = <<>>
        BY DEF QuietInv, Received
      <3>2. ~HasMetadata(<<>>)
        BY DEF HasMetadata
      <3> QED BY <3>1, <3>2
    <2>8. saved'[Receiver] = saved[Receiver]
      <3>1. ~saved[Receiver]
        BY <2>1 DEF EndsInv
      <3>2. saved'[Receiver] = FALSE
        BY <2>1, <2>7, TheReceiver DEF RecvReturns, LocalInv
      <3>3. saved[Receiver] \in BOOLEAN
        BY TheReceiver DEF LocalInv
      <3> QED BY <3>1, <3>2, <3>3
    <2>9. Pieces' = Pieces /\ Dropped' = Dropped
      BY <2>1 DEF Pieces, Dropped, handlerVars, bufferVars
    <2> QED BY <2>1, <2>5, <2>6, <2>8, <2>9, NoSegmentTyped, QuietStep
  <1> QED BY <1>2, <1>3, <1>4, <1>5, <1>6, <1>7 DEF ReceiverNext

\* The sender's half of the handshake.
LEMMA QuietAccept ==
    ASSUME Undisturbed, SessionInv, Pieces = 0, QuietInv,
           \/ RunSender \/ listen \/ SynDuringAccept \/ NumberThrows
           \/ AckDuringAccept \/ OtherDuringAccept
    PROVE  QuietInv' /\ UNCHANGED Promise!deliveryVars
  <1> USE DEF SessionInv, TransferInv
  <1>1. UNCHANGED <<handlerVars, recvVars>>
    BY DEF RunSender, listen, SynDuringAccept, NumberThrows, AckDuringAccept,
        OtherDuringAccept
  <1>2. CASE RunSender \/ listen
    <2>1. UNCHANGED <<inbox, pending>>
      BY <1>2 DEF RunSender, listen
    <2> QED BY <1>1, <2>1, NoSegmentTyped, QuietStays
  <1>3. CASE AckDuringAccept \/ OtherDuringAccept
    <2>1. Consume(Sender)
      BY <1>3 DEF AckDuringAccept, OtherDuringAccept
    <2>2. inbox'[Receiver] = inbox[Receiver] /\ pending'[Receiver] = pending[Receiver]
      BY <2>1, ReplyConsumed
    <2> QED BY <1>1, <2>2, NoSegmentTyped, QuietStays
  <1>4. CASE SynDuringAccept
    <2>1. PICK p \in Returned(Sender), seqNum \in ISN :
            \E result \in SendResults(SynAck(seqNum, Succ(p.seqNum))) :
               AnswerTo(Sender, PeerOfSyn, result.wire)
      BY <1>4 DEF SynDuringAccept
    <2>2. PICK c \in Segment :
            c.payloadSize = 0 /\ c = SynAck(seqNum, Succ(p.seqNum))
      <3>1. seqNum \in UInt32 /\ p.seqNum \in UInt32
        BY ReturnedToSender, SessionAssumption DEF Segment
      <3>2. Succ(p.seqNum) \in UInt32
        BY <3>1, HandshakeTyped
      <3> QED BY <3>1, <3>2, HandshakeTyped
    <2>3. AnswerTo(Sender, PeerOfSyn, Wire(c))
      <3>1. SendResults(c) = {[wire |-> Wire(c), ok |-> TRUE]}
        BY NothingFails
      <3> QED BY <2>1, <2>2, <3>1
    <2>4. inbox[Sender] # <<>> /\ Head(inbox[Sender]).from \in Receivers
      BY <2>1, ReturnedToSender DEF Expected
    <2>5. PeerOfSyn = Receiver
      BY <2>4, TheReceiver DEF PeerOfSyn, Channels
    <2>6. PICK queues : queues = [inbox EXCEPT ![Sender] = Tail(@)]
      OBVIOUS
    <2>7. QueuesOK(queues)
      BY <2>4, <2>6, TailChannels, TheReceiver DEF Channels
    <2>8. queues[Receiver] = inbox[Receiver]
      BY <2>6, TheReceiver DEF Channels, QueuesOK
    <2>9. /\ inbox' = Sent(queues, Sender, Receiver, Wire(c))
          /\ pending'[Receiver] = pending[Receiver]
      BY <2>3, <2>5, <2>6, TheReceiver DEF AnswerTo, Channels
    <2>10. Reaches(Receiver, queues[Receiver],
                   Sent(queues, Sender, Receiver, Wire(c))[Receiver], c)
      BY <2>2, <2>7, TheReceiver, HeaderReaches
    <2> QED BY <1>1, <2>2, <2>8, <2>9, <2>10, QuietStays
  <1>5. ~NumberThrows
    BY DEF NumberThrows, Undisturbed
  <1> QED BY <1>2, <1>3, <1>4, <1>5

\* The receiver's half.
LEMMA QuietConnect ==
    ASSUME Undisturbed, TransferInv, Pieces = 0, QuietInv,
           \/ Connect(Receiver) \/ OnSynAck(Receiver) \/ OtherInHandshake(Receiver)
           \/ TimeoutInHandshake(Receiver)
    PROVE  QuietInv' /\ UNCHANGED Promise!deliveryVars
  <1> USE DEF TransferInv
  <1>1. UNCHANGED <<handlerVars, buffer, totalBuffer, saved>>
    BY DEF Connect, OnSynAck, OtherInHandshake, TimeoutInHandshake, recvVars
  <1>2. /\ Pieces' = Pieces /\ Dropped' = Dropped
        /\ Received(Receiver)' = Received(Receiver) /\ saved'[Receiver] = saved[Receiver]
    BY <1>1, Stutters
  <1>3. ~TimeoutInHandshake(Receiver)
    BY QuietRead DEF TimeoutInHandshake
  <1>4. CASE Connect(Receiver)
    <2>1. pending' = pending /\ \E wire : inbox' = Sent(inbox, Receiver, Sender, wire)
      BY <1>4 DEF Connect
    <2>2. inbox'[Receiver] = inbox[Receiver]
      BY <2>1, TheReceiver DEF Sent, Channels, QueuesOK
    <2> QED BY <1>2, <2>1, <2>2, NoSegmentTyped, QuietStep
  <1>5. CASE OtherInHandshake(Receiver)
    <2>1. Consume(Receiver) /\ inbox[Receiver] # <<>>
      BY <1>5, QuietRead DEF OtherInHandshake
    <2>2. inbox'[Receiver] = Tail(inbox[Receiver]) /\ pending'[Receiver] = NoSegment
      BY <2>1, TheReceiver, ConsumeReaches
    <2> QED BY <1>2, <2>1, <2>2, NoSegmentTyped, QuietStep
  <1>6. CASE OnSynAck(Receiver)
    <2>1. inbox[Receiver] # <<>> /\ pc[Receiver] = "awaitSynAck"
      BY <1>6, QuietRead DEF OnSynAck
    <2>2. PICK wire : Answer(Receiver, wire)
      BY <1>6 DEF OnSynAck
    <2>3. PeerAfterReceive(Receiver) = Sender
      BY <2>1, PeersAre
    <2>4. pending'[Receiver] = NoSegment
      BY <2>2, TheReceiver DEF Answer, AnswerTo, Channels
    <2>5. inbox' = Sent([inbox EXCEPT ![Receiver] = Tail(@)], Receiver, Sender, wire)
      BY <2>2, <2>3 DEF Answer, AnswerTo
    <2>6. inbox'[Receiver] = Tail(inbox[Receiver])
      BY <2>5, TheReceiver DEF Sent, Channels, QueuesOK
    <2> QED BY <1>2, <2>1, <2>4, <2>6, NoSegmentTyped, QuietStep
  <1> QED BY <1>3, <1>4, <1>5, <1>6

\* The data are there, and the receiver has nothing of them.
LEMMA StartOffers ==
    ASSUME Undisturbed, TransferInv, HandlerInv, Opened, Pieces = 0, QuietInv, StartSend
    PROVE  OrderInv' /\ QuietInv' /\ [Promise!DeliveryNext]_Promise!deliveryVars
  <1> USE DEF TransferInv
  <1>1. /\ pc[Sender] = "setup" /\ pc' = [pc EXCEPT ![Sender] = "advance"]
        /\ UNCHANGED <<recvVars, inbox, pending>>
    BY DEF StartSend
  <1>2. LAR = 0 /\ Dropped = 0
    BY <1>1, NothingCut DEF SenderInv, HandlerInv, CutOnce
  <1>3. HandlerInv' /\ bufLen' = Len(segmentCells')
    BY StartKeeps, SetDataStreamInv DEF Undisturbed
  <1>4. LAR' = 0
    BY <1>2 DEF StartSend, setDataStream
  <1>5. Dropped' = 0 /\ Pieces' \in Nat
    <2>1. dataSize' \in UInt32 /\ dataSize' \in Nat /\ segmentCells' \in Seq(Segment)
      BY <1>3, SegmentAssumption DEF HandlerInv, HandlerTypeOK, UInt32
    <2>2. Dropped' = 0
      BY <1>3, <2>1 DEF Dropped
    <2>3. MSS \in Nat \ {0} /\ U32 \in Nat \ {0} /\ dataSize' + MSS - 1 \in Nat
      <3>1. \A d \in Nat : MSS \in Nat \ {0} /\ U32 \in Nat \ {0} /\ d + MSS - 1 \in Nat
        BY ONLY SegmentAssumption
      <3> QED BY ONLY <2>1, <3>1
    <2>4. (dataSize' + MSS - 1) % U32 \in Nat
      BY <2>3
    <2> QED BY <2>2, <2>3, <2>4 DEF Pieces, NumSegments
  <1>6. Received(Receiver)' = Received(Receiver) /\ saved'[Receiver] = saved[Receiver]
    BY <1>1 DEF Received, recvVars
  <1>7. CASE Pieces' = 0
    <2>1. QuietInv' /\ UNCHANGED Promise!deliveryVars
      BY <1>1, <1>2, <1>5, <1>6, <1>7, NoSegmentTyped, QuietStep
    <2> QED BY <1>7, <2>1 DEF OrderInv
  <1>8. CASE Pieces' # 0
    <2>1. Promise!Offer
      BY <1>2, <1>5, <1>6, <1>8, NumbersStay, PromiseSteps
    <2>2. /\ inbox'[Sender] = <<>> /\ inbox'[Receiver] = <<>> /\ pending'[Receiver] = NoSegment
          /\ pc'[Sender] = "advance" /\ pc'[Receiver] # "finWait"
      BY <1>1, TheReceiver DEF Opened, LocalInv
    <2>3. Received(Receiver)' = <<>> /\ Len(Received(Receiver)') = 0
      BY <1>6 DEF QuietInv
    <2>4. ~HasAll'
      BY <1>5, <1>8, <2>3 DEF HasAll
    <2>5. StreamInv'
      BY <2>2, StreamEmpty DEF StreamInv
    <2>6. RestInv' /\ WindowInv' /\ LastAcked' /\ InReach'
      BY <2>2, <2>4 DEF RestInv, WindowInv, LastAcked, InReach
    <2>7. StoredInOrder'
      BY <2>3 DEF StoredInOrder
    <2>8. AnswersInv'
      <3>1. AnswersIn(Pieces', <<>>, 0)
        BY DEF AnswersIn
      <3>2. Acked(0)'
        BY <1>4, <1>5 DEF Acked
      <3>3. 0 \in 0 .. Pieces' /\ 0 <= 0
        BY <1>5
      <3> QED BY <2>2, <2>3, <3>1, <3>2, <3>3 DEF AnswersInv
    <2>9. Ordered'
      BY <2>5, <2>6, <2>7, <2>8 DEF Ordered
    <2> QED BY <1>8, <2>1, <2>9 DEF OrderInv, QuietInv, Promise!DeliveryNext
  <1> QED BY <1>7, <1>8

-----------------------------------------------------------------------------
(***************************************************************************)
(* The steps when there are pieces, as steps of the promise.               *)
(***************************************************************************)

\* A receiver that comes now finds the sender stopped.
LEMMA ComesTooLate ==
    ASSUME Undisturbed, TransferInv, HandlerInv, FlowInv, EndsInv, Pieces # 0,
           pc[Receiver] \in {"menu", "awaitSynAck"}
    PROVE  pc[Sender] = "stopped" /\ inbox[Receiver] = <<>> /\ pending[Receiver] = NoSegment
  <1>1. Received(Receiver) = <<>> /\ Pieces \in Nat \ {0}
    BY PiecesAreCut DEF EndsInv
  <1>2. ~HasAll
    BY <1>1 DEF HasAll
  <1>3. ~Filling
    BY DEF Filling, FillingAt, HasStored
  <1> QED BY <1>2, <1>3, WhichOne DEF GivenUp

\* It does not even reach it.
LEMMA TooLate ==
    ASSUME Undisturbed, TransferInv, HandlerInv, FlowInv, EndsInv, Pieces # 0, Ordered,
           \/ Connect(Receiver) \/ OnSynAck(Receiver) \/ OtherInHandshake(Receiver)
           \/ TimeoutInHandshake(Receiver)
    PROVE  Ordered' /\ UNCHANGED Promise!deliveryVars
  <1> USE DEF TransferInv
  <1>1. /\ pc'[Sender] = pc[Sender] /\ UNCHANGED <<buffer, totalBuffer, saved>>
        /\ pc[Receiver] \in {"menu", "awaitSynAck"}
    BY HandshakeApart
  <1>2. pc[Sender] = "stopped" /\ inbox[Receiver] = <<>> /\ pending[Receiver] = NoSegment
    BY <1>1, ComesTooLate
  <1>3. Connect(Receiver)
    BY <1>2 DEF OnSynAck, OtherInHandshake, TimeoutInHandshake, Returned, PayloadTimeout
  <1>4. inbox' = inbox /\ pc'[Receiver] \notin {"recv", "finWait"}
    BY <1>2, <1>3, TheReceiver DEF Connect, Sent, Deaf, LocalInv
  <1>5. UNCHANGED <<handlerVars, sendVars>>
    BY <1>3 DEF Connect
  <1>6. Received(Receiver)' = Received(Receiver) /\ UNCHANGED Promise!deliveryVars
    BY <1>1, <1>5, Stutters
  <1>7. StreamInv' /\ RestInv'
    BY <1>4 DEF StreamInv, RestInv
  <1>8. inbox'[Sender] = inbox[Sender] /\ (pc'[Receiver] = "finWait" => pc[Receiver] = "finWait")
    BY <1>4
  <1>9. Ordered'
    BY <1>1, <1>5, <1>6, <1>7, <1>8, NoSegmentTyped, SilentStep
  <1> QED BY <1>6, <1>9

\* The steps of the sender.
LEMMA SenderPromise ==
    ASSUME Undisturbed, HeapInv, TransferInv, HandlerInv, FlowInv, Pieces # 0, Ordered,
           SenderNext
    PROVE  Ordered' /\ [Promise!DeliveryNext]_Promise!deliveryVars
  <1> USE DEF TransferInv
  <1>1. ~StartSend /\ ~SendThrows
    <2>1. pc[Sender] # "setup"
      BY PiecesAreCut DEF SenderInv
    <2> QED BY <2>1 DEF StartSend, SendThrows, Undisturbed
  <1>2. CASE NextWindow
    <2>1. Ordered'
      BY <1>2, WindowStep
    <2>2. Dropped' = Dropped /\ Pieces' = Pieces /\ UNCHANGED recvVars
      BY <1>2, WindowOrdered
    <2>3. Received(Receiver)' = Received(Receiver) /\ saved'[Receiver] = saved[Receiver]
      BY <2>2 DEF Received, recvVars
    <2>4. UNCHANGED Promise!deliveryVars
      BY <2>2, <2>3, NumbersStay, PromiseSteps
    <2> QED BY <2>1, <2>4
  <1>3. CASE SendSegment \/ FinDuringSend \/ CloseNext(Sender)
    <2>1. Ordered'
      BY <1>3, SegmentStep, FinStep, SenderCloseStep
    <2>2. UNCHANGED <<handlerVars, recvVars>>
      <3>1. CASE CloseNext(Sender)
        BY <3>1, TheReceiver, ClosingSends
      <3>2. CASE SendSegment \/ FinDuringSend
        BY <3>2 DEF SendSegment, FinDuringSend
      <3> QED BY <1>3, <3>1, <3>2
    <2>3. UNCHANGED Promise!deliveryVars
      BY <2>2, Stutters DEF recvVars
    <2> QED BY <2>1, <2>3
  <1>4. CASE ReplyDuringSend
    <2>1. Ordered'
      BY <1>4, ReplyStep
    <2>2. PICK z \in 0 .. Pieces :
            /\ z <= Len(Received(Receiver)) /\ Acked(z)'
            /\ dataSize' = dataSize /\ Dropped' >= Dropped
      BY <1>4, ReplyHandled
    <2>3. UNCHANGED recvVars
      BY <1>4 DEF ReplyDuringSend
    <2>4. /\ Pieces' = Pieces /\ Received(Receiver)' = Received(Receiver)
          /\ saved'[Receiver] = saved[Receiver]
      BY <2>2, <2>3 DEF Pieces, Received, recvVars
    <2>5. Len(Numbers) = Len(Received(Receiver)) /\ Len(Received(Receiver)) \in Nat
      <3>1. Received(Receiver) \in Seq(Chunk)
        BY TheReceiver DEF Received, LocalInv
      <3> QED BY <3>1 DEF Numbers
    <2>6. Dropped' = IF z = 0 THEN 0 ELSE z - 1
      BY <2>2 DEF Acked
    <2>7. PICK n \in Nat \ {0}, d \in Nat, have \in Nat :
            n = Pieces /\ d = Dropped /\ have = Len(Numbers)
      BY <2>5, PiecesAreCut
    <2>8. z \in 0 .. n /\ z <= have
      BY <2>2, <2>5, <2>7
    <2>9. Dropped' = d \/ (Dropped' \in d + 1 .. n - 1 /\ Dropped' <= have)
      <3>1. PICK e \in Nat : e = IF z = 0 THEN 0 ELSE z - 1
        BY <2>8
      <3>2. e >= d
        BY <2>2, <2>6, <2>7, <3>1
      <3>3. e = d \/ (e \in d + 1 .. n - 1 /\ e <= have)
        BY <2>8, <3>1, <3>2
      <3> QED BY <2>6, <3>1, <3>3
    <2>10. Numbers' = Numbers
      BY <2>4, NumbersStay
    <2>11. CASE Dropped' = d
      BY <2>1, <2>4, <2>7, <2>10, <2>11, PromiseSteps
    <2>12. CASE Dropped' \in d + 1 .. n - 1 /\ Dropped' <= have
      <3>1. Promise!Release
        BY <2>4, <2>7, <2>10, <2>12, PromiseSteps
      <3> QED BY <2>1, <3>1 DEF Promise!DeliveryNext
    <2> QED BY <2>9, <2>11, <2>12
  <1> QED BY <1>1, <1>2, <1>3, <1>4 DEF SenderNext

\* A process is stopped.
LEMMA StopPromise ==
    ASSUME Undisturbed, TransferInv, HandlerInv, Pieces # 0, Ordered, OutsideNext
    PROVE  Ordered' /\ UNCHANGED Promise!deliveryVars
  <1>1. Stop(Sender) \/ Stop(Receiver)
    BY OnlyStops
  <1>2. UNCHANGED <<handlerVars, buffer, totalBuffer, saved>>
    BY <1>1 DEF Stop, recvVars
  <1> QED BY <1>1, <1>2, Stutters, SenderStopStep, ReceiverStopStep

\* What a return from recv does to the file: one more call comes only when none
\* was written.
LEMMA ReturnWrites ==
    ASSUME LocalInv, Receiver \in Receivers, Receiver \in Node, pc[Receiver] = "recv",
           NEW chunks, NEW total \in Nat, RecvReturns(Receiver, chunks, total)
    PROVE  /\ saved'[Receiver] \in BOOLEAN
           /\ pc'[Receiver] = "recv" => ~saved'[Receiver]
           /\ pc'[Receiver] \in {"recv", "close"}
  <1>1. PICK thrown, written :
          /\ saved' = [saved EXCEPT ![Receiver] =
                         /\ HasMetadata(totalBuffer[Receiver] \o chunks)
                         /\ total < MSS /\ ~thrown /\ written]
          /\ IF (total >= MSS /\ status'[Receiver] = "ESTABLISHED") /\ ~thrown
             THEN length' = [length EXCEPT ![Receiver] = total] /\ UNCHANGED pc
             ELSE pc' = [pc EXCEPT ![Receiver] = "close"] /\ UNCHANGED length
    BY DEF RecvReturns
  <1>2. saved'[Receiver] = (/\ HasMetadata(totalBuffer[Receiver] \o chunks)
                            /\ total < MSS /\ ~thrown /\ written)
    BY <1>1 DEF LocalInv
  <1>3. saved'[Receiver] \in BOOLEAN
    BY <1>2, Zenon
  <1>4. pc'[Receiver] \in {"recv", "close"}
    BY <1>1 DEF LocalInv
  <1>5. ASSUME pc'[Receiver] = "recv", saved'[Receiver]
        PROVE  FALSE
    <2>1. total < MSS
      BY <1>2, <1>5
    <2>2. total >= MSS
      BY <1>1, <1>5 DEF LocalInv
    <2> QED BY ONLY <2>1, <2>2, total \in Nat, SegmentAssumption
  <1> QED BY <1>3, <1>4, <1>5

\* A receiver that reads on has written no file.
LEMMA ReceivingEnds ==
    ASSUME Undisturbed, TransferInv, EndsInv, ReceiverNext(Receiver)
    PROVE  EndsInv' /\ saved'[Receiver] \in BOOLEAN
  <1> USE DEF TransferInv
  <1>1. pc[Receiver] \in Place /\ saved[Receiver] \in BOOLEAN
    BY TheReceiver DEF LocalInv
  <1>2. ASSUME pc[Receiver] = "recv",
               \/ UNCHANGED <<pc, saved>>
               \/ \E chunks : \E total \in Nat : RecvReturns(Receiver, chunks, total)
        PROVE  EndsInv' /\ saved'[Receiver] \in BOOLEAN
    <2>1. CASE UNCHANGED <<pc, saved>>
      BY <1>1, <1>2, <2>1 DEF EndsInv
    <2>2. CASE \E chunks : \E total \in Nat : RecvReturns(Receiver, chunks, total)
      <3>1. /\ saved'[Receiver] \in BOOLEAN
            /\ pc'[Receiver] = "recv" => ~saved'[Receiver]
            /\ pc'[Receiver] \in {"recv", "close"}
        BY <1>2, <2>2, TheReceiver, ReturnWrites
      <3> QED BY <3>1 DEF EndsInv
    <2> QED BY <1>2, <2>1, <2>2
  <1>3. totalReceived[Receiver] \in Nat
    BY TheReceiver, SegmentAssumption DEF LocalInv, UInt32
  <1>4. CASE StoreSegment(Receiver)
    <2>1. PICK p \in Returned(Receiver) :
            \/ \E chunks :
                  RecvReturns(Receiver, chunks, totalReceived[Receiver] + p.payloadSize)
            \/ UNCHANGED <<pc, saved>>
      BY <1>4 DEF StoreSegment
    <2>2. totalReceived[Receiver] + p.payloadSize \in Nat
      <3>1. p \in Segment
        BY TheReceiver, ReturnedToReceiver
      <3>2. p.payloadSize \in Nat
        BY <3>1, SegmentAssumption DEF Segment, UInt32
      <3> QED BY <1>3, <3>2
    <2>3. pc[Receiver] = "recv"
      BY <1>4 DEF StoreSegment
    <2> QED BY <1>2, <2>1, <2>2, <2>3
  <1>5. CASE FinDuringRecv(Receiver) \/ TimeoutDuringRecv(Receiver)
    <2>1. /\ pc[Receiver] = "recv"
          /\ RecvReturns(Receiver, buffer[Receiver], totalReceived[Receiver])
      BY <1>5 DEF FinDuringRecv, TimeoutDuringRecv
    <2> QED BY <1>2, <1>3, <2>1
  <1>6. CASE AwaitPayload(Receiver)
    <2>1. /\ UNCHANGED <<pc, recvVars>>
          /\ pc[Receiver] \notin {"menu"}
      BY <1>6 DEF AwaitPayload, TakeHeader, Waiting
    <2>2. Received(Receiver)' = Received(Receiver)
      BY <2>1 DEF recvVars, Received
    <2>3. pc'[Receiver] = pc[Receiver] /\ saved'[Receiver] = saved[Receiver]
      BY <2>1 DEF recvVars
    <2> QED BY <1>1, <2>2, <2>3 DEF EndsInv
  <1>7. CASE IgnoreDuringRecv(Receiver)
    <2>1. pc[Receiver] = "recv" /\ UNCHANGED <<pc, saved>>
      BY <1>7 DEF IgnoreDuringRecv, recvVars
    <2> QED BY <1>2, <2>1
  <1>8. CASE CloseNext(Receiver)
    <2>1. /\ UNCHANGED recvVars /\ pc'[Receiver] \in {"finWait", "closeWait", "done"}
      BY <1>8, TheReceiver, ClosingSends
    <2> QED BY <1>1, <2>1 DEF EndsInv, recvVars
  <1>9. ~PayloadThrows(Receiver) /\ ~RecvThrows(Receiver)
    BY DEF PayloadThrows, RecvThrows, Undisturbed
  <1> QED BY <1>4, <1>5, <1>6, <1>7, <1>8, <1>9 DEF ReceiverNext

\* recv stores a segment.
LEMMA StorePromise ==
    ASSUME Undisturbed, TransferInv, HandlerInv, FlowInv, EndsInv, Pieces # 0, Ordered,
           StoreSegment(Receiver), SavedHoldsFile'
    PROVE  Promise!Deliver
  <1> USE DEF TransferInv
  <1>1. pc[Receiver] = "recv" /\ UNCHANGED handlerVars
    BY DEF StoreSegment
  <1>2. PICK chunk \in Chunk, x \in 1 .. Pieces : Stores(chunk, x)
    BY PieceStored
  <1>3. /\ Received(Receiver)' = Received(Receiver) \o <<chunk>> /\ chunk.data = Offset(x)
        /\ x = MinOf(Len(Received(Receiver)) + 1, Pieces)
        /\ x <= Dropped + 1 + WindowSize
    BY <1>2 DEF Stores
  <1>4. PICK n \in Nat \ {0} : n = Pieces
    BY PiecesAreCut
  <1>5. x \in 1 .. n /\ x \in Nat \ {0}
    BY <1>2, <1>4
  <1>6. /\ Numbers' = Append(Numbers, x)
        /\ Len(Numbers) = Len(Received(Receiver)) /\ Len(Received(Receiver)) \in Nat
    BY <1>3, <1>5, TheReceiver, NumbersGrow
  <1>7. PICK have \in Nat : have = Len(Numbers) /\ have = Len(Received(Receiver))
    BY <1>6
  <1>8. Len(Received(Receiver)') = have + 1
    <2>1. Received(Receiver) \in Seq(Chunk)
      BY TheReceiver DEF Received, LocalInv
    <2>2. PICK q \in Seq(Chunk) : q = Received(Receiver)
      BY <2>1
    <2>3. Len(q \o <<chunk>>) = Len(q) + 1
      BY OneMore
    <2> QED BY <1>3, <1>7, <2>2, <2>3
  <1>9. x = have + 1 \/ (x = n /\ have >= n)
    <2>1. x = MinOf(have + 1, n)
      BY <1>3, <1>4, <1>7
    <2> QED BY <2>1 DEF MinOf
  <1>10. Pieces' = Pieces /\ Dropped' = Dropped
    BY <1>1 DEF Pieces, Dropped, handlerVars, bufferVars
  <1>11. ~saved[Receiver] /\ saved[Receiver] \in BOOLEAN
    BY <1>1, TheReceiver DEF EndsInv, LocalInv
  <1>12. saved'[Receiver] \in BOOLEAN
    BY <1>1, ReceivingEnds DEF ReceiverNext
  <1>13. saved'[Receiver] \in {FALSE, x = Pieces}
    <2>1. CASE ~saved'[Receiver]
      BY <1>12, <2>1
    <2>2. CASE saved'[Receiver]
      <3>1. Len(Received(Receiver)') >= Pieces'
        BY <2>2, TheReceiver DEF SavedHoldsFile
      <3>2. have + 1 >= n
        BY <1>4, <1>8, <1>10, <3>1
      <3>3. x = n
        BY <1>5, <1>9, <3>2
      <3>4. (x = Pieces) = TRUE
        BY <1>4, <3>3
      <3>5. saved'[Receiver] = TRUE
        BY <1>12, <2>2
      <3> QED BY <3>4, <3>5
    <2> QED BY <2>1, <2>2
  <1> QED BY <1>2, <1>3, <1>4, <1>6, <1>7, <1>9, <1>10, <1>11, <1>13, PromiseSteps

\* The steps of the receiver.
LEMMA ReceiverPromise ==
    ASSUME Undisturbed, TransferInv, HandlerInv, FlowInv, EndsInv, Pieces # 0, Ordered,
           ReceiverNext(Receiver), SavedHoldsFile'
    PROVE  Ordered' /\ [Promise!DeliveryNext]_Promise!deliveryVars
  <1>1. CASE StoreSegment(Receiver)
    <2>1. Ordered' /\ Promise!Deliver
      BY <1>1, StoreStep, StorePromise
    <2> QED BY <2>1 DEF Promise!DeliveryNext
  <1>2. CASE \/ AwaitPayload(Receiver) \/ IgnoreDuringRecv(Receiver) \/ CloseNext(Receiver)
    <2>1. Ordered'
      BY <1>2, HeaderStep, IgnoreStep, ReceiverCloseStep
    <2>2. UNCHANGED <<handlerVars, recvVars>>
      <3>1. CASE CloseNext(Receiver)
        BY <3>1, TheReceiver, ClosingSends
      <3>2. CASE AwaitPayload(Receiver) \/ IgnoreDuringRecv(Receiver)
        BY <3>2 DEF AwaitPayload, TakeHeader, IgnoreDuringRecv
      <3> QED BY <1>2, <3>1, <3>2
    <2>3. UNCHANGED Promise!deliveryVars
      BY <2>2, Stutters DEF recvVars
    <2> QED BY <2>1, <2>3
  <1>3. CASE FinDuringRecv(Receiver) \/ TimeoutDuringRecv(Receiver)
    <2>1. Ordered'
      BY <1>3, FinReadStep, TimeoutStep
    <2>2. pc[Receiver] = "recv" /\ UNCHANGED handlerVars
      BY <1>3 DEF FinDuringRecv, TimeoutDuringRecv
    <2>3. Received(Receiver)' = Received(Receiver)
      BY <1>3, TheReceiver, ReturnsNothingMore DEF TransferInv
    <2>4. Pieces' = Pieces /\ Dropped' = Dropped /\ Numbers' = Numbers
      BY <2>2, <2>3, NumbersStay DEF Pieces, Dropped, handlerVars, bufferVars
    <2>5. ~saved[Receiver] /\ saved[Receiver] \in BOOLEAN /\ saved'[Receiver] \in BOOLEAN
      BY <2>2, TheReceiver, ReceivingEnds DEF EndsInv, TransferInv, LocalInv
    <2>6. CASE ~saved'[Receiver]
      <3>1. UNCHANGED Promise!deliveryVars
        BY <2>4, <2>5, <2>6, PromiseSteps
      <3> QED BY <2>1, <3>1
    <2>7. CASE saved'[Receiver]
      <3>1. Len(Received(Receiver)') >= Pieces'
        BY <2>7, TheReceiver DEF SavedHoldsFile
      <3>2. Len(Numbers) = Len(Received(Receiver))
        <4>1. Received(Receiver) \in Seq(Chunk)
          BY TheReceiver DEF Received, TransferInv, LocalInv
        <4> QED BY <4>1 DEF Numbers
      <3>3. Pieces > 0 /\ Len(Numbers) >= Pieces
        <4>1. Len(Numbers) >= Pieces
          BY <2>3, <2>4, <3>1, <3>2
        <4> QED BY <4>1, PiecesAreCut
      <3>4. saved'[Receiver] = TRUE
        BY <2>5, <2>7
      <3>5. Promise!Save
        BY <2>4, <3>3, <3>4, PromiseSteps
      <3> QED BY <2>1, <3>5 DEF Promise!DeliveryNext
    <2> QED BY <2>6, <2>7
  <1>4. ~PayloadThrows(Receiver) /\ ~RecvThrows(Receiver)
    BY DEF PayloadThrows, RecvThrows, Undisturbed
  <1> QED BY <1>1, <1>2, <1>3, <1>4 DEF ReceiverNext

-----------------------------------------------------------------------------
(***************************************************************************)
(* Every step.                                                             *)
(***************************************************************************)
DeliveryInv == OrderInv /\ QuietInv /\ EndsInv /\ HeapInv

\* What the receiver has and where it is do not change together.
LEMMA EndsStay ==
    ASSUME EndsInv, UNCHANGED <<buffer, totalBuffer, saved>>,
           \/ pc'[Receiver] = pc[Receiver] \/ pc[Receiver] \in {"menu", "awaitSynAck"}
           \/ pc'[Receiver] \in {"done", "stopped"}
    PROVE  EndsInv'
  <1>1. Received(Receiver)' = Received(Receiver) /\ saved'[Receiver] = saved[Receiver]
    BY DEF Received
  <1> QED BY <1>1 DEF EndsInv

\* The steps of the sender and those from outside leave the receiver alone, or stop it.
LEMMA OthersEnd ==
    ASSUME Undisturbed, TransferInv, EndsInv, SenderNext \/ OutsideNext
    PROVE  EndsInv'
  <1>1. CASE SenderNext
    BY <1>1, SenderFrame, EndsStay DEF recvVars
  <1>2. CASE OutsideNext
    <2>1. PICK n \in {Sender, Receiver} : Stop(n)
      BY <1>2, OnlyStops
    <2>2. UNCHANGED <<buffer, totalBuffer, saved>>
      BY <2>1 DEF Stop, recvVars
    <2>3. pc'[Receiver] \in {pc[Receiver], "stopped"}
      BY <2>1, TheReceiver DEF Stop, TransferInv, LocalInv
    <2> QED BY <2>2, <2>3, EndsStay
  <1> QED BY <1>1, <1>2

\* A step of the promise changes no number of pieces but 0.
LEMMA OfferedOnce ==
    ASSUME Pieces # 0, [Promise!DeliveryNext]_Promise!deliveryVars
    PROVE  Pieces' = Pieces
  <1>1. CASE UNCHANGED Promise!deliveryVars
    BY <1>1, Zenon DEF Promise!deliveryVars
  <1>2. CASE Promise!DeliveryNext
    BY <1>2, Zenon
    DEF Promise!DeliveryNext, Promise!Offer, Promise!Deliver, Promise!Release, Promise!Save
  <1> QED BY <1>1, <1>2

\* The parts of the invariant at once.
LEMMA PartsOfOrder ==
    ASSUME HeapInv
    PROVE  /\ Pieces = 0 /\ QuietInv' /\ UNCHANGED Promise!deliveryVars => OrderInv' /\ HeapInv'
           /\ Pieces # 0 /\ Ordered' /\ [Promise!DeliveryNext]_Promise!deliveryVars =>
                OrderInv' /\ QuietInv' /\ HeapInv'
  <1>1. UNCHANGED Promise!deliveryVars => Pieces' = Pieces
    BY Zenon DEF Promise!deliveryVars
  <1>2. Pieces' = Pieces => HeapInv'
    BY DEF HeapInv, NoHeapPayload
  <1> QED BY <1>1, <1>2, OfferedOnce DEF OrderInv, QuietInv

\* When the data come, they are long enough or the heap is no data.
LEMMA HeapStarts ==
    ASSUME HarmlessHeap, HeapInv, StartSend
    PROVE  HeapInv'
  <1>1. PICK size \in Sizes : setDataStream(size % U32)
    BY DEF StartSend
  <1>2. CASE size % U32 = 0
    <2>1. Pieces' = Pieces
      BY <1>1, <1>2 DEF setDataStream, Pieces, NumSegments
    <2> QED BY <2>1 DEF HeapInv, NoHeapPayload
  <1>3. CASE size % U32 # 0
    <2>1. Pieces' = NumSegments(size % U32)
      BY <1>1, <1>3 DEF setDataStream, Pieces, NumSegments
    <2> QED BY <2>1 DEF HarmlessHeap, HeapInv, NoHeapPayload
  <1> QED BY <1>2, <1>3

\* The steps of a transfer.
LEMMA TransferOrder ==
    ASSUME Undisturbed, HarmlessHeap, TransferInv, HandlerInv, FlowInv, DeliveryInv,
           SavedHoldsFile', SenderNext \/ OutsideNext \/ ReceiverNext(Receiver)
    PROVE  DeliveryInv' /\ [Promise!DeliveryNext]_Promise!deliveryVars
  <1> USE DEF DeliveryInv
  <1>1. EndsInv'
    BY OthersEnd, ReceivingEnds
  <1>2. CASE Pieces # 0
    <2>1. Ordered' /\ [Promise!DeliveryNext]_Promise!deliveryVars
      BY <1>2, SenderPromise, StopPromise, ReceiverPromise DEF OrderInv
    <2> QED BY <1>1, <1>2, <2>1, PartsOfOrder
  <1>3. CASE Pieces = 0 /\ StartSend
    <2>1. Opened
      BY <1>3 DEF StartSend, TransferInv, SenderInv, FlowInv, Before
    <2> QED BY <1>1, <1>3, <2>1, StartOffers, HeapStarts
  <1>4. CASE Pieces = 0 /\ ~StartSend
    <2>1. QuietInv' /\ UNCHANGED Promise!deliveryVars
      <3>1. CASE SenderNext
        BY <1>4, <3>1, QuietSender
      <3>2. CASE ReceiverNext(Receiver)
        BY <1>4, <3>2, QuietReceiver
      <3>3. CASE OutsideNext
        BY <1>4, <3>3, OnlyStops, QuietStop, TheReceiver
      <3> QED BY <3>1, <3>2, <3>3
    <2> QED BY <1>1, <1>4, <2>1, PartsOfOrder
  <1> QED BY <1>2, <1>3, <1>4

\* Nothing happens.
LEMMA OrderStutters ==
    ASSUME DeliveryInv, UNCHANGED vars
    PROVE  DeliveryInv' /\ UNCHANGED Promise!deliveryVars
  <1> USE DEF DeliveryInv, vars, handlerVars, bufferVars, sendVars, recvVars, socketVars
  <1>1. UNCHANGED <<handlerVars, buffer, totalBuffer, saved>>
    OBVIOUS
  <1>2. Pieces' = Pieces /\ Received(Receiver)' = Received(Receiver)
        /\ UNCHANGED Promise!deliveryVars
    BY <1>1, Stutters
  <1>3. QuietInv' /\ EndsInv' /\ HeapInv'
    BY <1>2 DEF QuietInv, EndsInv, HeapInv, NoHeapPayload
  <1>4. Dropped' = Dropped /\ (HasAll' <=> HasAll) /\ (InSend' <=> InSend) /\ Replied' = Replied
    BY <1>2 DEF Dropped, HasAll, InSend, Replied
  <1>5. Ordered => Ordered'
    <2>1. StreamInv => StreamInv'
      BY <1>4 DEF StreamInv
    <2>2. /\ \A i : IsLastCell(i)' <=> IsLastCell(i)
          /\ \A i, x : IsPiece(window[i], x)' <=> IsPiece(window[i], x)
          /\ \A y : Acked(y)' <=> Acked(y)
      BY <1>2, <1>4 DEF IsLastCell, IsPiece, Acked, Offset
    <2>3. WindowInv => WindowInv'
      BY <1>2, <2>2 DEF WindowInv, Offset
    <2>4. RestInv => RestInv'
      BY <1>4, <2>2 DEF RestInv
    <2>5. StoredInOrder => StoredInOrder'
      BY <1>2 DEF StoredInOrder, Offset
    <2>6. AnswersInv => AnswersInv'
      BY <1>2, <1>4, <2>2 DEF AnswersInv
    <2>7. LastAcked => LastAcked'
      BY <1>2, <1>4 DEF LastAcked, Offset
    <2>8. InReach => InReach'
      BY <1>2, <1>4 DEF InReach
    <2> QED BY <2>1, <2>3, <2>4, <2>5, <2>6, <2>7, <2>8 DEF Ordered
  <1> QED BY <1>2, <1>3, <1>5 DEF OrderInv

\* The steps of the handshake, before the data or too late for them.
LEMMA HandshakeOrder ==
    ASSUME Undisturbed, SessionInv, HandlerInv, FlowInv, DeliveryInv,
           \/ Connect(Receiver) \/ OnSynAck(Receiver) \/ OtherInHandshake(Receiver)
           \/ TimeoutInHandshake(Receiver)
           \/ RunSender \/ listen \/ SynDuringAccept \/ NumberThrows
           \/ AckDuringAccept \/ OtherDuringAccept
    PROVE  DeliveryInv' /\ [Promise!DeliveryNext]_Promise!deliveryVars
  <1> USE DEF SessionInv, DeliveryInv
  <1>1. CASE \/ Connect(Receiver) \/ OnSynAck(Receiver) \/ OtherInHandshake(Receiver)
             \/ TimeoutInHandshake(Receiver)
    <2>1. /\ UNCHANGED <<buffer, totalBuffer, saved>>
          /\ pc[Receiver] \in {"menu", "awaitSynAck"}
      BY <1>1, HandshakeApart
    <2>2. EndsInv'
      BY <2>1, EndsStay
    <2>3. CASE Pieces = 0
      BY <1>1, <2>2, <2>3, QuietConnect, PartsOfOrder
    <2>4. CASE Pieces # 0
      BY <1>1, <2>2, <2>4, TooLate, PartsOfOrder DEF OrderInv
    <2> QED BY <2>3, <2>4
  <1>2. CASE \/ RunSender \/ listen \/ SynDuringAccept \/ NumberThrows
             \/ AckDuringAccept \/ OtherDuringAccept
    <2>1. pc[Sender] \in {"menu", "listen", "accept"}
      BY <1>2 DEF RunSender, listen, SynDuringAccept, NumberThrows, AckDuringAccept,
          OtherDuringAccept
    <2>2. Pieces = 0
      BY <2>1, PiecesAreCut DEF TransferInv, SenderInv
    <2>3. UNCHANGED recvVars /\ pc'[Receiver] = pc[Receiver]
      BY <1>2, TheReceiver
      DEF RunSender, listen, SynDuringAccept, NumberThrows, AckDuringAccept,
          OtherDuringAccept, TransferInv, LocalInv
    <2>4. EndsInv'
      BY <2>3, EndsStay DEF recvVars
    <2> QED BY <1>2, <2>2, <2>4, QuietAccept, PartsOfOrder
  <1> QED BY <1>1, <1>2

\* Every step of the program.
LEMMA SessionOrder ==
    ASSUME Undisturbed, HarmlessHeap, SessionInv, HandlerInv, FlowInv, DeliveryInv,
           SavedHoldsFile', [SessionNext]_vars
    PROVE  DeliveryInv' /\ [Promise!DeliveryNext]_Promise!deliveryVars
  <1>1. CASE UNCHANGED vars
    BY <1>1, OrderStutters
  <1>2. CASE SenderNext \/ OutsideNext \/ ReceiverNext(Receiver)
    BY <1>2, TransferOrder DEF SessionInv
  <1>3. CASE \/ Connect(Receiver) \/ OnSynAck(Receiver) \/ OtherInHandshake(Receiver)
             \/ TimeoutInHandshake(Receiver)
             \/ RunSender \/ listen \/ SynDuringAccept \/ NumberThrows
             \/ AckDuringAccept \/ OtherDuringAccept
    BY <1>3, HandshakeOrder
  <1>4. \A r \in Receivers : r = Receiver
    BY TheReceiver
  <1> QED
    BY <1>1, <1>2, <1>3, <1>4
    DEF SessionNext, UserNext, SenderThread, ReceiverThread

\* In a transfer on its own the handshake is over.
LEMMA NextOrder ==
    ASSUME Undisturbed, HarmlessHeap, TransferInv, HandlerInv, FlowInv, DeliveryInv,
           SavedHoldsFile', [Next]_vars
    PROVE  DeliveryInv' /\ [Promise!DeliveryNext]_Promise!deliveryVars
  <1>1. \A r \in Receivers : r = Receiver
    BY TheReceiver
  <1> QED
    BY <1>1, OrderStutters, TransferOrder DEF Next, Terminated

\* Before anybody has chosen anything, and when a transfer starts.
LEMMA OrderStarts ==
    ASSUME Undisturbed, Init \/ SessionInit
    PROVE  DeliveryInv /\ Promise!DeliveryInit
  <1>1. NothingSent
    BY DEF Init, SessionInit
  <1>2. /\ inbox[Receiver] = <<>> /\ pending[Receiver] = NoSegment
        /\ buffer[Receiver] = <<>> /\ totalBuffer[Receiver] = <<>>
        /\ saved[Receiver] = FALSE
        /\ dataSize = 0 /\ segmentCells = <<>> /\ bufLen = 0
    BY <1>1, TheReceiver DEF NothingSent, HandlerInit
  <1>3. Received(Receiver) = <<>>
    <2>1. Received(Receiver) = <<>> \o <<>>
      BY <1>2 DEF Received
    <2> QED BY <2>1
  <1>4. Pieces = 0
    <2>1. (0 + MSS - 1) % U32 = MSS - 1 /\ (MSS - 1) \div MSS = 0
      <3>1. MSS - 1 \in Nat /\ MSS - 1 < MSS /\ MSS - 1 < U32 /\ U32 \in Nat \ {0}
            /\ MSS \in Nat \ {0} /\ 0 + MSS - 1 = MSS - 1
        BY SegmentAssumption
      <3> QED BY ONLY <3>1, ModSmall, DivSmall
    <2> QED BY <1>2, <2>1 DEF Pieces, NumSegments
  <1>5. Dropped = 0
    BY <1>2 DEF Dropped
  <1>6. Numbers = <<>>
    BY <1>3 DEF Numbers
  <1>7. DeliveryInv
    BY <1>2, <1>3, <1>4 DEF DeliveryInv, OrderInv, QuietInv, EndsInv, HeapInv
  <1>8. Promise!DeliveryInit
    BY <1>2, <1>4, <1>5, <1>6, Zenon DEF Promise!DeliveryInit, Numbers
  <1> QED BY <1>7, <1>8

-----------------------------------------------------------------------------
(***************************************************************************)
(* The theorems.                                                           *)
(***************************************************************************)

\* In the whole program, behind the last piece only the last piece comes, and
\* what the receiver answers is stored (socket.cpp:207-268, 282-346).
THEOREM SessionOrderInvariant ==
    ASSUME Undisturbed, HarmlessHeap
    PROVE  SessionSpec => []DeliveryInv
  <1>1. SessionInit => DeliveryInv
    BY OrderStarts
  <1>2. SessionInv /\ HandlerInv /\ FlowInv /\ DeliveryInv /\ SavedHoldsFile'
          /\ [SessionNext]_vars => DeliveryInv'
    BY SessionOrder
  <1>3. HandlerSpec => []HandlerInv
    BY HandlerInvariant DEF Undisturbed
  <1> QED BY <1>1, <1>2, <1>3, SessionInvariant, SessionUsesHandler, SessionFlow,
             SessionSavesFile, PTL DEF SessionSpec

\* And in a transfer on its own.
THEOREM TransferOrderInvariant ==
    ASSUME Undisturbed, HarmlessHeap
    PROVE  Spec => []DeliveryInv
  <1>1. Init => DeliveryInv
    BY OrderStarts
  <1>2. TransferInv /\ HandlerInv /\ FlowInv /\ DeliveryInv /\ SavedHoldsFile'
          /\ [Next]_vars => DeliveryInv'
    BY NextOrder
  <1>3. HandlerSpec => []HandlerInv
    BY HandlerInvariant DEF Undisturbed
  <1> QED BY <1>1, <1>2, <1>3, TransferInvariant, TransferUsesHandler, TransferFlow,
             TransferSavesFile, PTL DEF Spec

\* The whole program keeps the promise of OrderedDelivery: the pieces come one by
\* one and in order, the sender lets go of what is stored, it is never more than
\* a window ahead, and a file that is saved has them all, whoever is stopped and
\* wherever (socket.cpp:207-347, main.cpp:177-241).
THEOREM SessionDeliversInOrder ==
    ASSUME Undisturbed, HarmlessHeap
    PROVE  SessionSpec => DeliversInOrder
  <1>1. SessionInit => Promise!DeliveryInit
    BY OrderStarts
  <1>2. SessionInv /\ HandlerInv /\ FlowInv /\ DeliveryInv /\ SavedHoldsFile'
          /\ [SessionNext]_vars => [Promise!DeliveryNext]_Promise!deliveryVars
    BY SessionOrder
  <1>3. HandlerSpec => []HandlerInv
    BY HandlerInvariant DEF Undisturbed
  <1> QED BY <1>1, <1>2, <1>3, SessionInvariant, SessionUsesHandler, SessionFlow,
             SessionSavesFile, SessionOrderInvariant, PTL
          DEF SessionSpec, DeliversInOrder, Promise!DeliverySpec

\* And so does a transfer on its own.
THEOREM TransferDeliversInOrder ==
    ASSUME Undisturbed, HarmlessHeap
    PROVE  Spec => DeliversInOrder
  <1>1. Init => Promise!DeliveryInit
    BY OrderStarts
  <1>2. TransferInv /\ HandlerInv /\ FlowInv /\ DeliveryInv /\ SavedHoldsFile'
          /\ [Next]_vars => [Promise!DeliveryNext]_Promise!deliveryVars
    BY NextOrder
  <1>3. HandlerSpec => []HandlerInv
    BY HandlerInvariant DEF Undisturbed
  <1> QED BY <1>1, <1>2, <1>3, TransferInvariant, TransferUsesHandler, TransferFlow,
             TransferSavesFile, TransferOrderInvariant, PTL
          DEF Spec, DeliversInOrder, Promise!DeliverySpec

-----------------------------------------------------------------------------
(***************************************************************************)
(* The answers that the sender waits for.  It waits for as many as it sent *)
(* segments, also for those of its window that hold no piece.              *)
(***************************************************************************)

\* The data of a session: none, or the last segment is not full and there is
\* one, or enough of them for the first window.
Answerable(size) ==
    NumSegments(size) # 0 =>
        size % MSS # 0 /\ (NumSegments(size) = 1 \/ NumSegments(size) >= WindowSize)

AllAnswered == \A size \in Sizes : Answerable(size % U32)

\* The receiver reads while the sender sends.
Reading == Pieces # 0 /\ InSend /\ pc[Receiver] = "recv"

HalfRead == IF pending[Receiver] # NoSegment THEN 1 ELSE 0

\* The answers that the sender still waits for, as far as it has sent segments.
Outstanding ==
    CASE pc[Sender] = "sendWindow" -> turn - 1
      [] pc[Sender] = "awaitAcks"  -> WindowSize - turn + 1
      [] OTHER                     -> 0

Counted == HeadersIn(inbox[Sender]) + HeadersIn(inbox[Receiver]) + HalfRead = Outstanding

\* A receiver that has all the pieces and reads on has room for the last one again.
HasRoom ==
    HasAll => Pieces > 1 /\ totalReceived[Receiver] = 0 /\ length[Receiver] >= MSS

\* Cells of the heap are not sent before the receiver has all the pieces.
Loud(i) == window[i].payloadSize > 0

AllAnnounce(q) == \A i \in 1 .. Len(q) : q[i].body.kind = "header" => Announces(q[i].body)

AllLoud ==
    Pieces > 1 /\ (~HasAll \/ Pieces > WindowSize) =>
        /\ AllAnnounce(inbox[Receiver])
        /\ pc[Sender] = "sendWindow" => \A i \in 1 .. WindowSize : Loud(i)

\* When the pieces are just a window, the receiver has them all before the next
\* one, whose first segment is the last one it reads.
JustFits ==
    Pieces = WindowSize =>
        /\ pc[Sender] = "advance" /\ helper = 1 => HasAll
        /\ ~HasAll /\ pc[Sender] = "sendWindow" => window[1].seqNum = 0
        /\ HasAll /\ pc[Sender] = "sendWindow" => inbox[Sender] = <<>> /\ Loud(1)
        /\ HasAll /\ pending[Receiver] = NoSegment /\ inbox[Receiver] # <<>> =>
              Announces(inbox[Receiver][1].body)

AccountInv ==
    /\ Pieces # 0 => Answerable(dataSize)
    /\ Reading => Counted /\ HasRoom /\ AllLoud /\ JustFits

-----------------------------------------------------------------------------
(***************************************************************************)
(* Counting headers.                                                       *)
(***************************************************************************)
HeaderPlaces(q) == {i \in 1 .. Len(q) : q[i].body.kind = "header"}

\* The headers of a queue are counted by their places, which are finitely many.
LEMMA PlacesFinite ==
    ASSUME NEW S, NEW q \in Seq(S)
    PROVE  /\ IsFiniteSet(HeaderPlaces(q)) /\ HeadersIn(q) = Cardinality(HeaderPlaces(q))
           /\ HeadersIn(q) \in Nat
           /\ HeadersIn(q) = 0 <=> HeaderPlaces(q) = {}
  <1>1. DOMAIN q = 1 .. Len(q) /\ Len(q) \in Nat
    OBVIOUS
  <1>2. HeadersIn(q) = Cardinality(HeaderPlaces(q))
    BY <1>1 DEF HeadersIn, HeaderPlaces
  <1>3. IsFiniteSet(1 .. Len(q)) /\ HeaderPlaces(q) \in SUBSET (1 .. Len(q))
    BY <1>1, FS_Interval DEF HeaderPlaces
  <1>4. IsFiniteSet(HeaderPlaces(q))
    BY ONLY <1>3, FS_Subset
  <1>5. Cardinality(HeaderPlaces(q)) \in Nat
    BY ONLY <1>4, FS_CardinalityType
  <1>6. Cardinality(HeaderPlaces(q)) = 0 <=> HeaderPlaces(q) = {}
    BY ONLY <1>4, FS_EmptySet
  <1> QED BY <1>2, <1>4, <1>5, <1>6

\* A header that is sent counts for one more.
LEMMA HeadersMore ==
    ASSUME NEW S, NEW q \in Seq(S), NEW p \in S
    PROVE  HeadersIn(q \o <<p>>) =
             IF p.body.kind = "header" THEN HeadersIn(q) + 1 ELSE HeadersIn(q)
  <1> DEFINE t == q \o <<p>>
             n == Len(q)
  <1>1. /\ t \in Seq(S) /\ Len(t) = n + 1 /\ n \in Nat /\ t[n + 1] = p
        /\ \A i \in 1 .. n : t[i] = q[i]
    BY OneMore
  <1> HIDE DEF t
  <1>2. n + 1 \notin HeaderPlaces(q) /\ IsFiniteSet(HeaderPlaces(q))
    BY <1>1, PlacesFinite DEF HeaderPlaces
  <1>3. HeaderPlaces(t) = IF p.body.kind = "header" THEN HeaderPlaces(q) \cup {n + 1}
                          ELSE HeaderPlaces(q)
    BY <1>1 DEF HeaderPlaces
  <1>4. Cardinality(HeaderPlaces(q) \cup {n + 1}) = Cardinality(HeaderPlaces(q)) + 1
    BY ONLY <1>2, FS_AddElement
  <1>5. HeadersIn(t) = Cardinality(HeaderPlaces(t)) /\ HeadersIn(q) = Cardinality(HeaderPlaces(q))
    BY <1>1, PlacesFinite
  <1>6. HeadersIn(t) = IF p.body.kind = "header" THEN HeadersIn(q) + 1 ELSE HeadersIn(q)
    BY <1>3, <1>4, <1>5
  <1> QED BY <1>6 DEF t

\* A header that is read counts for one less.
LEMMA HeadersLess ==
    ASSUME NEW S, NEW q \in Seq(S), q # <<>>
    PROVE  HeadersIn(Tail(q)) =
             IF q[1].body.kind = "header" THEN HeadersIn(q) - 1 ELSE HeadersIn(q)
  <1> DEFINE t == Tail(q)
             n == Len(t)
             Rest == HeaderPlaces(q) \ {1}
             up == [i \in HeaderPlaces(t) |-> i + 1]
  <1>1. /\ t \in Seq(S) /\ n \in Nat /\ Len(q) = n + 1
        /\ \A i \in 1 .. n : t[i] = q[i + 1]
    BY TailPackets
  <1> HIDE DEF t
  <1>2. up \in Bijection(HeaderPlaces(t), Rest)
    <2>1. \A i \in HeaderPlaces(t) : i \in Nat /\ i + 1 \in Rest
      BY <1>1 DEF HeaderPlaces
    <2>2. up \in [HeaderPlaces(t) -> Rest]
      BY <2>1
    <2>3. \A a \in HeaderPlaces(t), b \in HeaderPlaces(t) : up[a] = up[b] => a = b
      BY <2>1
    <2>4. \A c \in Rest : \E a \in HeaderPlaces(t) : up[a] = c
      <3> SUFFICES ASSUME NEW c \in Rest
                   PROVE  \E a \in HeaderPlaces(t) : up[a] = c
        OBVIOUS
      <3>1. c \in 2 .. n + 1 /\ q[c].body.kind = "header" /\ c \in Int
        BY <1>1 DEF HeaderPlaces
      <3>2. c - 1 \in 1 .. n /\ (c - 1) + 1 = c
        BY ONLY <1>1, <3>1
      <3>3. c - 1 \in HeaderPlaces(t)
        BY <1>1, <3>1, <3>2 DEF HeaderPlaces
      <3>4. up[c - 1] = c
        BY <3>2, <3>3
      <3> QED BY <3>3, <3>4
    <2> QED BY ONLY <2>2, <2>3, <2>4 DEF Bijection, Injection, Surjection, IsInjective
  <1>3. IsFiniteSet(HeaderPlaces(t)) /\ IsFiniteSet(HeaderPlaces(q))
    BY <1>1, PlacesFinite
  <1>4. Cardinality(Rest) = Cardinality(HeaderPlaces(t))
    <2>1. ExistsBijection(HeaderPlaces(t), Rest)
      BY <1>2 DEF ExistsBijection
    <2> QED BY ONLY <1>3, <2>1, FS_Bijection
  <1>5. Cardinality(Rest) = IF 1 \in HeaderPlaces(q) THEN Cardinality(HeaderPlaces(q)) - 1
                            ELSE Cardinality(HeaderPlaces(q))
    BY ONLY <1>3, FS_RemoveElement
  <1>6. 1 \in HeaderPlaces(q) <=> q[1].body.kind = "header"
    BY <1>1 DEF HeaderPlaces
  <1>7. HeadersIn(t) = Cardinality(HeaderPlaces(t)) /\ HeadersIn(q) = Cardinality(HeaderPlaces(q))
    BY <1>1, PlacesFinite
  <1> QED BY <1>4, <1>5, <1>6, <1>7 DEF t

\* Nothing is counted of an empty queue, and nothing but of it when all are headers.
LEMMA HeadersNone ==
    /\ HeadersIn(<<>>) = 0
    /\ \A S : \A q \in Seq(S) :
         HeadersIn(q) = 0 /\ (\A i \in 1 .. Len(q) : q[i].body.kind = "header") => q = <<>>
  <1>1. HeadersIn(<<>>) = 0
    <2>1. <<>> \in Seq({}) /\ HeaderPlaces(<<>>) = {}
      BY DEF HeaderPlaces
    <2> QED BY <2>1, PlacesFinite
  <1>2. ASSUME NEW S, NEW q \in Seq(S), HeadersIn(q) = 0,
               \A i \in 1 .. Len(q) : q[i].body.kind = "header"
        PROVE  q = <<>>
    <2>1. HeaderPlaces(q) = {}
      BY <1>2, PlacesFinite
    <2>2. HeaderPlaces(q) = 1 .. Len(q)
      BY <1>2 DEF HeaderPlaces
    <2>3. Len(q) \in Nat /\ ~(1 <= Len(q))
      BY <2>1, <2>2
    <2> QED BY <2>3
  <1> QED BY <1>1, <1>2

-----------------------------------------------------------------------------
(***************************************************************************)
(* The count of the answers.                                               *)
(***************************************************************************)

\* A last segment that is not full.
LEMMA LastNotFull ==
    ASSUME NEW size, Cut(size), size % MSS # 0
    PROVE  PieceSize(size, NumSegments(size)) < MSS
  <1>1. PICK n \in Nat \ {0} : n = NumSegments(size)
    BY DEF Cut
  <1>2. /\ size \in Nat /\ MSS \in Nat \ {0} /\ Offset(n) = (n - 1) * MSS
        /\ PieceSize(size, n) \in 1 .. MSS
        /\ Offset(n) + PieceSize(size, n) <= size
        /\ PieceSize(size, n) = MinOf(MSS, size - Offset(n))
    BY <1>1, PiecesFit, SegmentAssumption DEF Cut, PieceSize, UInt32
  <1>3. size <= n * MSS
    <2>1. 0 % MSS = 0
      BY <1>2
    <2>2. size > 0
      BY <1>2, <2>1
    <2>3. size <= Offset(n + 1)
      BY <1>1, <2>2, NumSegmentsBounds DEF Cut
    <2>4. Offset(n + 1) = n * MSS
      <3>1. (n + 1) - 1 = n
        OBVIOUS
      <3> QED BY <3>1 DEF Offset
    <2> QED BY <2>3, <2>4
  <1> SUFFICES ASSUME PieceSize(size, n) = MSS
               PROVE  FALSE
    <2>1. PICK p \in 1 .. MSS : p = PieceSize(size, n)
      BY <1>2
    <2>2. p # MSS => p < MSS
      BY <1>2
    <2> QED BY <1>1, <2>1, <2>2
  <1>4. (n - 1) * MSS + MSS = n * MSS /\ n * MSS \in Nat /\ (n - 1) * MSS \in Nat
    <2>1. \A a \in Nat, b \in Nat : (a + 1) * b = a * b + b /\ a * b \in Nat
      OBVIOUS
    <2>2. PICK a \in Nat : n = a + 1 /\ n - 1 = a
      <3>1. n - 1 \in Nat /\ n = (n - 1) + 1
        OBVIOUS
      <3> QED BY <3>1
    <2>3. (a + 1) * MSS = a * MSS + MSS /\ a * MSS \in Nat
      BY <1>2, <2>1
    <2> QED BY <1>2, <2>2, <2>3
  <1>5. size = n * MSS
    BY <1>2, <1>3, <1>4
  <1>6. (n * MSS) % MSS = 0
    BY <1>2
  <1> QED BY <1>5, <1>6

\* What a step does not change.
LEMMA AccountKept ==
    ASSUME AccountInv, dataSize' = dataSize,
           Reading' => Counted' /\ HasRoom' /\ AllLoud' /\ JustFits'
    PROVE  AccountInv'
  BY DEF AccountInv, Pieces, Answerable, NumSegments

\* The cells that were written once have a payload.
LEMMA CellsLoud ==
    ASSUME HandlerInv, Pieces # 0, helper \in {0, 1}, advanceWindow(helper), window' # <<>>,
           NEW i \in 1 .. WindowSize, Index(helper, i) < Pieces
    PROVE  /\ Loud(i)'
           /\ i = 1 /\ helper = 0 /\ Dropped = 0 => window'[1].seqNum = 0
  <1>1. /\ Len(segmentCells) = Pieces /\ Pieces \in Nat \ {0} /\ Dropped \in Nat /\ Cut(dataSize)
        /\ NumSegments(dataSize) = Pieces
    BY PiecesAreCut
  <1>2. PICK heap \in [1 .. WindowSize -> HeapSegments] :
          window' = [c \in 1 .. WindowSize |-> CellAt(Index(helper, c), heap[c])]
    BY DEF advanceWindow
  <1>3. Index(helper, i) \in Nat /\ Index(helper, i) + 1 \in 1 .. Len(segmentCells)
    BY <1>1 DEF Index
  <1>4. window'[i] = segmentCells[Index(helper, i) + 1]
    BY <1>1, <1>2 DEF CellAt
  <1>5. PICK k : k = MinOf(Dropped + (Index(helper, i) + 1), Len(segmentCells))
    OBVIOUS
  <1>6. IsPiece(segmentCells[Index(helper, i) + 1], k)
    BY <1>3, <1>5 DEF HandlerInv, StorageShape
  <1>7. k \in 1 .. Pieces
    BY <1>1, <1>3, <1>5 DEF MinOf
  <1>8. window'[i].payloadSize = PieceSize(dataSize, k) /\ PieceSize(dataSize, k) \in 1 .. MSS
    BY <1>1, <1>4, <1>6, <1>7, PiecesFit DEF IsPiece, PieceSize
  <1>9. Loud(i)'
    BY <1>8, SegmentAssumption DEF Loud
  <1>10. ASSUME i = 1, helper = 0, Dropped = 0
         PROVE  window'[1].seqNum = 0
    <2>1. k = 1
      BY <1>1, <1>3, <1>5, <1>10 DEF MinOf, Index
    <2>2. window'[1].seqNum = Offset(1) /\ Offset(1) = 0
      BY <1>4, <1>6, <1>10, <2>1, SegmentAssumption DEF IsPiece, Offset
    <2> QED BY <2>2
  <1> QED BY <1>9, <1>10

\* Only headers come to the sender.
LEMMA CountsTyped ==
    ASSUME Undisturbed, Channels
    PROVE  /\ HeadersIn(inbox[Sender]) \in Nat /\ HeadersIn(inbox[Receiver]) \in Nat
           /\ HalfRead \in {0, 1}
           /\ \A i \in 1 .. Len(inbox[Sender]) : inbox[Sender][i].body.kind = "header"
           /\ HeadersIn(inbox[Sender]) = 0 => inbox[Sender] = <<>>
           /\ inbox[Sender] = <<>> => HeadersIn(inbox[Sender]) = 0
           /\ inbox[Receiver] = <<>> => HeadersIn(inbox[Receiver]) = 0
  <1>1. inbox[Receiver] \in Seq(Packet) /\ inbox[Sender] \in Seq(Packet)
    BY ReceiverQueue
  <1>2. \A i \in 1 .. Len(inbox[Sender]) : inbox[Sender][i].body.kind = "header"
    <2>1. inbox[Sender] \in Seq(Expected(Sender))
      BY TheReceiver DEF Channels, QueuesOK
    <2>2. \A i \in 1 .. Len(inbox[Sender]) : inbox[Sender][i] \in Expected(Sender)
      BY <2>1, InSequence
    <2> QED BY <2>2 DEF Expected, ReplyBody
  <1>3. HeadersIn(inbox[Sender]) \in Nat /\ HeadersIn(inbox[Receiver]) \in Nat
    BY <1>1, PlacesFinite
  <1> QED BY <1>1, <1>2, <1>3, HeadersNone DEF HalfRead

\* A window is made.
LEMMA WindowAccount ==
    ASSUME Undisturbed, HeapInv, TransferInv, HandlerInv, FlowInv, Pieces # 0, Ordered,
           AccountInv, NextWindow
    PROVE  AccountInv'
  <1> USE DEF TransferInv
  <1>1. /\ UNCHANGED <<dataSize, LAR>> /\ Dropped' = Dropped /\ Pieces' = Pieces
        /\ turn' = 1 /\ UNCHANGED <<recvVars, inbox, pending>>
        /\ pc'[Receiver] = pc[Receiver] /\ pc'[Sender] \in {"close", "sendWindow"}
    BY WindowOrdered
  <1> SUFFICES ASSUME Reading'
               PROVE  Counted' /\ HasRoom' /\ AllLoud' /\ JustFits'
    BY <1>1, AccountKept
  <1>2. /\ pc[Sender] = "advance" /\ pc[Receiver] = "recv" /\ pc'[Sender] = "sendWindow"
        /\ Reading
    BY <1>1 DEF Reading, InSend, NextWindow
  <1>3. Counted /\ HasRoom /\ AllLoud /\ JustFits /\ Answerable(dataSize)
    BY <1>2 DEF AccountInv
  <1>4. HasAll' <=> HasAll
    BY <1>1, ReceiverQuiet
  <1>5. /\ helper \in {0, 1} /\ advanceWindow(helper)
        /\ window' # <<>>
    BY <1>2, TheReceiver DEF NextWindow, LocalInv
  <1>6. /\ Pieces \in Nat \ {0} /\ WindowSize \in Nat \ {0} /\ NumSegments(dataSize) = Pieces
        /\ dataSize # 0
    BY PiecesAreCut, HandlerAssumption
  <1>7. \A i \in 1 .. WindowSize : Index(helper, i) < Pieces => Loud(i)'
    BY <1>5, CellsLoud
  <1>8. Counted'
    <2>1. HeadersIn(inbox[Sender]) + HeadersIn(inbox[Receiver]) + HalfRead = 0
      BY <1>2, <1>3 DEF Counted, Outstanding
    <2>2. HalfRead' = HalfRead /\ Outstanding' = 0
      BY <1>1, <1>2 DEF HalfRead, Outstanding, NoSegment, ControlSegment
    <2>3. HeadersIn(inbox[Sender])' = HeadersIn(inbox[Sender])
          /\ HeadersIn(inbox[Receiver])' = HeadersIn(inbox[Receiver])
      BY <1>1 DEF HeadersIn
    <2> QED BY <2>1, <2>2, <2>3 DEF Counted
  <1>9. HasRoom'
    BY <1>1, <1>3, <1>4 DEF HasRoom, recvVars
  <1>10. ASSUME ~HasAll, Pieces = WindowSize
         PROVE  helper = 0 /\ Dropped = 0
    <2>1. helper = 0
      BY <1>2, <1>3, <1>5, <1>10 DEF JustFits
    <2>2. Filling
      BY <1>2, <1>10, WhichOne DEF GivenUp
    <2>3. PICK k \in Nat, j \in Nat, s \in Nat, lone \in {0, 1} : FillingAt(k, j, s, lone)
      BY <2>2 DEF Filling
    <2>4. helper = (IF k = 0 THEN 0 ELSE 1) /\ Acked(k)
      BY <1>2, <2>3 DEF FillingAt, SenderAt
    <2> QED BY <2>1, <2>4 DEF Acked
  <1>11. AllLoud'
    <2>1. ASSUME Pieces > 1, ~HasAll \/ Pieces > WindowSize
          PROVE  \A i \in 1 .. WindowSize : Loud(i)'
      <3>1. CASE Pieces > WindowSize
        <4>1. \A i \in 1 .. WindowSize : Index(helper, i) < Pieces
          BY <1>6, <3>1 DEF Index
        <4> QED BY <1>7, <4>1
      <3>2. CASE ~HasAll /\ Pieces = WindowSize
        <4>1. \A i \in 1 .. WindowSize : Index(helper, i) < Pieces
          BY <1>6, <1>10, <3>2 DEF Index
        <4> QED BY <1>7, <4>1
      <3> QED BY <1>3, <1>6, <2>1, <3>1, <3>2 DEF Answerable
    <2> QED BY <1>1, <1>3, <1>4, <2>1 DEF AllLoud, AllAnnounce, Announces
  <1>12. JustFits'
    <2> SUFFICES ASSUME Pieces = WindowSize
                 PROVE  /\ ~HasAll => window'[1].seqNum = 0
                        /\ HasAll => inbox[Sender] = <<>> /\ Loud(1)'
      BY <1>1, <1>2, <1>3, <1>4 DEF JustFits, Announces, NoSegment, ControlSegment
    <2>1. 1 \in 1 .. WindowSize /\ Index(helper, 1) \in {0, 1}
      BY <1>6 DEF Index
    <2>2. ~HasAll => window'[1].seqNum = 0
      <3>1. ~HasAll => Index(helper, 1) < Pieces
        BY <1>6, <1>10 DEF Index
      <3> QED BY <1>5, <1>10, <2>1, <3>1, CellsLoud
    <2>3. HasAll => Loud(1)'
      BY <1>3, <1>6, <1>7, <2>1 DEF HasRoom
    <2>4. inbox[Sender] = <<>>
      <3>1. HeadersIn(inbox[Sender]) + HeadersIn(inbox[Receiver]) + HalfRead = 0
        BY <1>2, <1>3 DEF Counted, Outstanding
      <3> QED BY <3>1, CountsTyped
    <2> QED BY <2>2, <2>3, <2>4
  <1> QED BY <1>8, <1>9, <1>11, <1>12

\* One header more, with its payload behind it if it announces one.
LEMMA OneHeaderMore ==
    ASSUME NEW q \in Seq(Packet), NEW t, NEW loud \in BOOLEAN,
           \/ ~loud /\ \E p \in Packet : p.body.kind = "header" /\ t = q \o <<p>>
           \/ loud /\ \E a \in Packet, b \in Packet :
                /\ Announces(a.body) /\ b.body.kind = "payload"
                /\ t = (q \o <<a>>) \o <<b>>
    PROVE  /\ t \in Seq(Packet) /\ t # <<>> /\ HeadersIn(t) = HeadersIn(q) + 1
           /\ q # <<>> => t[1] = q[1]
           /\ q = <<>> /\ loud => Announces(t[1].body)
           /\ loud /\ AllAnnounce(q) => AllAnnounce(t)
  <1>1. PICK n \in Nat : n = Len(q)
    OBVIOUS
  <1>2. CASE ~loud
    <2>1. PICK p \in Packet : p.body.kind = "header" /\ t = q \o <<p>>
      BY <1>2
    <2>2. /\ t \in Seq(Packet) /\ Len(t) = n + 1 /\ \A i \in 1 .. n : t[i] = q[i]
      BY <1>1, <2>1, OneMore
    <2>3. q # <<>> => 1 \in 1 .. n
      BY <1>1
    <2>4. t # <<>>
      BY <2>2
    <2> QED BY <1>2, <2>1, <2>2, <2>3, <2>4, HeadersMore
  <1>3. CASE loud
    <2>1. PICK a \in Packet, b \in Packet :
            /\ Announces(a.body) /\ b.body.kind = "payload"
            /\ t = (q \o <<a>>) \o <<b>>
      BY <1>3
    <2>2. PICK u : u = q \o <<a>>
      OBVIOUS
    <2>3. /\ u \in Seq(Packet) /\ Len(u) = n + 1 /\ u[n + 1] = a
          /\ \A i \in 1 .. n : u[i] = q[i]
      BY <1>1, <2>2, OneMore
    <2>4. /\ t \in Seq(Packet) /\ Len(t) = n + 2 /\ t[n + 2] = b
          /\ \A i \in 1 .. n + 1 : t[i] = u[i]
      <3>1. t = u \o <<b>>
        BY <2>1, <2>2
      <3>2. /\ t \in Seq(Packet) /\ Len(t) = (n + 1) + 1 /\ t[(n + 1) + 1] = b
            /\ \A i \in 1 .. n + 1 : t[i] = u[i]
        BY <2>3, <3>1, OneMore
      <3> QED BY <3>2
    <2>5. HeadersIn(u) = HeadersIn(q) + 1
      BY <2>1, <2>2, HeadersMore DEF Announces
    <2>6. HeadersIn(t) = HeadersIn(u)
      BY <2>1, <2>2, <2>3, HeadersMore
    <2>7. /\ \A i \in 1 .. n : t[i] = q[i]
          /\ t[n + 1] = a /\ t # <<>>
      BY <2>3, <2>4
    <2>8. q # <<>> => t[1] = q[1]
      <3>1. q # <<>> => 1 \in 1 .. n
        BY <1>1
      <3> QED BY <2>7, <3>1
    <2>9. q = <<>> => Announces(t[1].body)
      <3>1. q = <<>> => n + 1 = 1
        BY <1>1
      <3> QED BY <2>1, <2>7, <3>1
    <2>10. AllAnnounce(q) => AllAnnounce(t)
      <3>1. \A i \in 1 .. n + 2 : i \in 1 .. n \/ i = n + 1 \/ i = n + 2
        OBVIOUS
      <3> QED BY <1>1, <2>1, <2>4, <2>7, <3>1 DEF AllAnnounce
    <2> QED BY <2>4, <2>5, <2>6, <2>7, <2>8, <2>9, <2>10
  <1> QED BY <1>2, <1>3

\* A segment of the window is sent.
LEMMA SegmentAccount ==
    ASSUME Undisturbed, TransferInv, HandlerInv, Pieces # 0, Ordered,
           AccountInv, SendSegment
    PROVE  AccountInv'
  <1> USE DEF TransferInv
  <1>1. /\ pc[Sender] = "sendWindow" /\ UNCHANGED <<handlerVars, helper, recvVars>>
        /\ turn \in 1 .. WindowSize /\ WindowSize \in Nat \ {0} /\ Outgoing = window[turn]
        /\ \/ turn < WindowSize /\ turn' = turn + 1 /\ UNCHANGED pc
           \/ /\ turn = WindowSize /\ turn' = 1
              /\ pc' = [pc EXCEPT ![Sender] = "awaitAcks"]
    BY HandlerAssumption DEF SendSegment, LocalInv, Outgoing
  <1>2. dataSize' = dataSize /\ window' = window /\ Pieces' = Pieces /\ (HasAll' <=> HasAll)
    <2>1. dataSize' = dataSize /\ window' = window
      BY <1>1 DEF handlerVars
    <2> QED BY <1>1, <2>1, ReceiverQuiet
  <1>3. /\ pc'[Receiver] = pc[Receiver]
        /\ \/ turn < WindowSize /\ turn' = turn + 1 /\ pc'[Sender] = "sendWindow"
           \/ turn = WindowSize /\ turn' = 1 /\ pc'[Sender] = "awaitAcks"
    BY <1>1, TheReceiver DEF LocalInv
  <1> SUFFICES ASSUME Reading'
               PROVE  Counted' /\ HasRoom' /\ AllLoud' /\ JustFits'
    BY <1>2, AccountKept
  <1>4. Reading /\ pc[Receiver] = "recv"
    BY <1>1, <1>2, <1>3 DEF Reading, InSend
  <1>5. Counted /\ HasRoom /\ AllLoud /\ JustFits /\ Answerable(dataSize)
    BY <1>4 DEF AccountInv
  <1>6. PICK q \in Seq(Packet) : q = inbox[Receiver]
    BY ReceiverQueue
  <1>7. PICK t : t = inbox'[Receiver]
    OBVIOUS
  <1>8. inbox'[Sender] = inbox[Sender] /\ pending' = pending
    BY SegmentSent DEF Ordered
  <1>9. PICK loud \in BOOLEAN : loud <=> Loud(turn)
    OBVIOUS
  <1>10. \/ ~loud /\ \E p \in Packet : p.body.kind = "header" /\ t = q \o <<p>>
         \/ loud /\ \E a \in Packet, b \in Packet :
              /\ Announces(a.body) /\ b.body.kind = "payload"
              /\ t = (q \o <<a>>) \o <<b>>
    <2>1. \/ \E p \in Packet : /\ Outgoing.payloadSize = 0 /\ p.body = Header(Outgoing)
                               /\ t = q \o <<p>>
          \/ \E a \in Packet, b \in Packet, x \in 1 .. Pieces :
                /\ Outgoing.payloadSize > 0
                /\ IsHeaderOf(dataSize, a, x) /\ IsPayloadOf(dataSize, b, x)
                /\ t = (q \o <<a>>) \o <<b>>
      <3>1. ~Deaf(Receiver)
        BY <1>4 DEF Deaf
      <3> QED BY <1>6, <1>7, <3>1, SegmentSent DEF Ordered
    <2>2. \A a : \A x \in 1 .. Pieces : IsHeaderOf(dataSize, a, x) => Announces(a.body)
      <3>1. \A x \in 1 .. Pieces : PieceSize(dataSize, x) > 0
        BY PiecesAreCut, PiecesFit, SegmentAssumption
      <3> QED BY <3>1 DEF IsHeaderOf, Announces
    <2>3. \A p : p.body = Header(Outgoing) => p.body.kind = "header"
      BY DEF Header
    <2>4. \A b : \A x \in 1 .. Pieces : IsPayloadOf(dataSize, b, x) => b.body.kind = "payload"
      BY DEF IsPayloadOf
    <2>5. /\ Outgoing.payloadSize > 0 => loud
          /\ Outgoing.payloadSize = 0 => ~loud
      BY <1>1, <1>9 DEF Loud
    <2>6. CASE \E p \in Packet : /\ Outgoing.payloadSize = 0 /\ p.body = Header(Outgoing)
                                 /\ t = q \o <<p>>
      BY <2>3, <2>5, <2>6
    <2>7. CASE \E a \in Packet, b \in Packet, x \in 1 .. Pieces :
                 /\ Outgoing.payloadSize > 0
                 /\ IsHeaderOf(dataSize, a, x) /\ IsPayloadOf(dataSize, b, x)
                 /\ t = (q \o <<a>>) \o <<b>>
      <3>1. PICK a \in Packet, b \in Packet, x \in 1 .. Pieces :
              /\ Outgoing.payloadSize > 0
              /\ IsHeaderOf(dataSize, a, x) /\ IsPayloadOf(dataSize, b, x)
              /\ t = (q \o <<a>>) \o <<b>>
        BY <2>7
      <3>2. loud /\ Announces(a.body) /\ b.body.kind = "payload"
        BY <2>2, <2>4, <2>5, <3>1
      <3> QED BY <3>1, <3>2
    <2> QED BY <2>1, <2>6, <2>7
  <1>11. /\ t \in Seq(Packet) /\ t # <<>> /\ HeadersIn(t) = HeadersIn(q) + 1
         /\ q # <<>> => t[1] = q[1]
         /\ q = <<>> /\ loud => Announces(t[1].body)
         /\ loud /\ AllAnnounce(q) => AllAnnounce(t)
    BY <1>10, OneHeaderMore
  <1>12. Counted'
    <2>1. HeadersIn(inbox[Sender]) + HeadersIn(q) + HalfRead = turn - 1
      BY <1>1, <1>5, <1>6 DEF Counted, Outstanding
    <2>2. HalfRead' = HalfRead /\ Outstanding' = turn
      <3>1. HalfRead' = HalfRead
        BY <1>8 DEF HalfRead, NoSegment, ControlSegment
      <3>2. Outstanding' = turn
        BY <1>1, <1>3 DEF Outstanding
      <3> QED BY <3>1, <3>2
    <2>3. HeadersIn(inbox[Sender])' = HeadersIn(inbox[Sender])
          /\ HeadersIn(inbox[Receiver])' = HeadersIn(t)
      BY <1>7, <1>8 DEF HeadersIn
    <2>4. HeadersIn(inbox[Sender]) \in Nat /\ HeadersIn(q) \in Nat /\ HalfRead \in {0, 1}
      BY <1>6, CountsTyped
    <2> QED BY <1>1, <1>11, <2>1, <2>2, <2>3, <2>4 DEF Counted
  <1>13. HasRoom'
    BY <1>1, <1>2, <1>5 DEF HasRoom, recvVars
  <1>14. AllLoud'
    <2> SUFFICES ASSUME Pieces > 1, ~HasAll \/ Pieces > WindowSize
                 PROVE  /\ AllAnnounce(t)
                        /\ pc'[Sender] = "sendWindow" => \A i \in 1 .. WindowSize : Loud(i)
      BY <1>2, <1>7 DEF AllLoud, AllAnnounce, Announces, Loud
    <2>1. AllAnnounce(q) /\ \A i \in 1 .. WindowSize : Loud(i)
      BY <1>1, <1>5, <1>6 DEF AllLoud
    <2> QED BY <1>1, <1>9, <1>11, <2>1
  <1>15. JustFits'
    <2> SUFFICES ASSUME Pieces = WindowSize
                 PROVE  /\ ~HasAll /\ pc'[Sender] = "sendWindow" => window[1].seqNum = 0
                        /\ HasAll /\ pc'[Sender] = "sendWindow" => inbox[Sender] = <<>> /\ Loud(1)
                        /\ HasAll /\ pending[Receiver] = NoSegment => Announces(t[1].body)
      BY <1>2, <1>3, <1>7, <1>8 DEF JustFits, Announces, NoSegment, ControlSegment, Loud
    <2>1. /\ ~HasAll => window[1].seqNum = 0
          /\ HasAll => inbox[Sender] = <<>> /\ Loud(1)
          /\ HasAll /\ pending[Receiver] = NoSegment /\ q # <<>> => Announces(q[1].body)
      BY <1>1, <1>5, <1>6 DEF JustFits
    <2>2. ASSUME HasAll, pending[Receiver] = NoSegment, q = <<>>
          PROVE  loud
      <3>1. HeadersIn(inbox[Sender]) = 0 /\ HeadersIn(q) = 0 /\ HalfRead = 0
        BY <1>6, <2>1, <2>2, CountsTyped DEF HalfRead
      <3>2. HeadersIn(inbox[Sender]) + HeadersIn(q) + HalfRead = turn - 1
        BY <1>1, <1>5, <1>6 DEF Counted, Outstanding
      <3>3. turn = 1
        BY <1>1, <3>1, <3>2
      <3> QED BY <1>9, <2>1, <2>2, <3>3
    <2> QED BY <1>11, <2>1, <2>2
  <1> QED BY <1>12, <1>13, <1>14, <1>15

\* An answer is taken.
LEMMA ReplyAccount ==
    ASSUME Undisturbed, TransferInv, HandlerInv, FlowInv, Pieces # 0, Ordered,
           AccountInv, ReplyDuringSend
    PROVE  AccountInv'
  <1> USE DEF TransferInv
  <1>1. /\ pc[Sender] = "awaitAcks" /\ CountReply /\ UNCHANGED <<helper, recvVars>>
        /\ turn \in 1 .. WindowSize /\ WindowSize \in Nat \ {0}
    BY HandlerAssumption DEF ReplyDuringSend, HandleAckThrows, Undisturbed, LocalInv
  <1>2. /\ pc'[Receiver] = pc[Receiver]
        /\ \/ turn < WindowSize /\ turn' = turn + 1 /\ pc'[Sender] = "awaitAcks"
           \/ turn = WindowSize /\ turn' = 1 /\ pc'[Sender] = "advance"
    BY <1>1, TheReceiver DEF CountReply, LocalInv
  <1>3. dataSize' = dataSize /\ inbox[Sender] # <<>>
    BY ReplyHandled
  <1>4. Pieces' = Pieces /\ (HasAll' <=> HasAll)
    BY <1>1, <1>3, ReceiverQuiet
  <1>5. /\ inbox'[Sender] = Tail(inbox[Sender]) /\ inbox'[Receiver] = inbox[Receiver]
        /\ pending'[Receiver] = pending[Receiver]
    BY ReplyConsumed DEF ReplyDuringSend
  <1> SUFFICES ASSUME Reading'
               PROVE  Counted' /\ HasRoom' /\ AllLoud' /\ JustFits'
    BY <1>3, AccountKept
  <1>6. Reading /\ pc[Receiver] = "recv"
    BY <1>1, <1>2, <1>4 DEF Reading, InSend
  <1>7. Counted /\ HasRoom /\ AllLoud /\ JustFits
    BY <1>6 DEF AccountInv
  <1>8. PICK q \in Seq(Packet) : q = inbox[Sender]
    BY ReceiverQueue
  <1>9. q # <<>> /\ q[1].body.kind = "header"
    <2>1. 1 \in 1 .. Len(q)
      BY <1>3, <1>8
    <2> QED BY <1>3, <1>8, <2>1, CountsTyped
  <1>10. Counted'
    <2>1. HeadersIn(q) + HeadersIn(inbox[Receiver]) + HalfRead = WindowSize - turn + 1
      BY <1>1, <1>7, <1>8 DEF Counted, Outstanding
    <2>2. HalfRead' = HalfRead
      BY <1>5 DEF HalfRead, NoSegment, ControlSegment
    <2>3. Outstanding' = WindowSize - turn
      BY <1>1, <1>2 DEF Outstanding
    <2>4. HeadersIn(Tail(q)) = HeadersIn(q) - 1
      BY <1>9, HeadersLess
    <2>5. HeadersIn(inbox[Sender])' = HeadersIn(Tail(q))
          /\ HeadersIn(inbox[Receiver])' = HeadersIn(inbox[Receiver])
      BY <1>5, <1>8 DEF HeadersIn
    <2>6. HeadersIn(q) \in Nat /\ HeadersIn(inbox[Receiver]) \in Nat /\ HalfRead \in {0, 1}
      BY <1>8, CountsTyped
    <2> QED BY <1>1, <2>1, <2>2, <2>3, <2>4, <2>5, <2>6 DEF Counted
  <1>11. HasRoom'
    BY <1>1, <1>4, <1>7 DEF HasRoom, recvVars
  <1>12. AllLoud'
    BY <1>2, <1>4, <1>5, <1>7 DEF AllLoud, AllAnnounce, Announces
  <1>13. ASSUME ~HasAll, Pieces = WindowSize, turn = WindowSize
         PROVE  FALSE
    <2>1. Filling
      BY <1>1, <1>6, <1>13, WhichOne DEF GivenUp
    <2>2. PICK k \in Nat, j \in Nat, s \in Nat, lone \in {0, 1} : FillingAt(k, j, s, lone)
      BY <2>1 DEF Filling
    <2>3. InAcks(q, k, turn - 1, j) /\ k + j < Pieces /\ turn - 1 \in Nat
      BY <1>1, <1>8, <2>2 DEF FillingAt, SenderAt
    <2>4. turn - 1 < j
      BY <1>9, <2>3, AckRead
    <2> QED BY <1>1, <1>13, <2>3, <2>4
  <1>14. JustFits'
    BY <1>1, <1>2, <1>4, <1>5, <1>7, <1>13 DEF JustFits, Announces, NoSegment, ControlSegment
  <1> QED BY <1>10, <1>11, <1>12, <1>14

\* The receiver reads the header of a segment.
LEMMA HeaderAccount ==
    ASSUME Undisturbed, TransferInv, HandlerInv, Pieces # 0, Ordered,
           AccountInv, AwaitPayload(Receiver)
    PROVE  AccountInv'
  <1> USE DEF TransferInv
  <1>1. /\ pending[Receiver] = NoSegment /\ inbox[Receiver] # <<>>
        /\ inbox' = [inbox EXCEPT ![Receiver] = Tail(@)]
        /\ UNCHANGED <<handlerVars, sendVars, recvVars, pc>>
    BY DEF AwaitPayload, TakeHeader, Announced
  <1>2. PICK g \in AsHeader(Head(inbox[Receiver]).body) :
          g.payloadSize > 0 /\ pending' = [pending EXCEPT ![Receiver] = g]
    BY <1>1 DEF AwaitPayload, Announced
  <1>3. /\ inbox'[Receiver] = Tail(inbox[Receiver]) /\ inbox'[Sender] = inbox[Sender]
        /\ pending'[Receiver] = g /\ g # NoSegment
    BY <1>1, <1>2, TheReceiver, NotNone DEF Channels, QueuesOK
  <1>4. /\ dataSize' = dataSize /\ window' = window /\ turn' = turn
        /\ Pieces' = Pieces /\ (HasAll' <=> HasAll) /\ helper' = helper
    <2>1. dataSize' = dataSize /\ window' = window /\ turn' = turn /\ helper' = helper
      BY <1>1 DEF handlerVars, sendVars
    <2> QED BY <1>1, <2>1, ReceiverQuiet
  <1> SUFFICES ASSUME Reading'
               PROVE  Counted' /\ HasRoom' /\ AllLoud' /\ JustFits'
    BY <1>4, AccountKept
  <1>5. Reading /\ pc[Receiver] = "recv"
    BY <1>1, <1>4 DEF Reading, InSend
  <1>6. Counted /\ HasRoom /\ AllLoud /\ JustFits
    BY <1>5 DEF AccountInv
  <1>7. PICK q \in Seq(Packet) : q = inbox[Receiver]
    BY ReceiverQueue
  <1>8. q[1].body.kind = "header" /\ q # <<>>
    <2>1. Stream(dataSize, q, NoSegment)
      BY <1>1, <1>5, <1>7 DEF Ordered, StreamInv
    <2>2. 1 \in 1 .. Len(q) /\ 1 - 1 = 0
      BY <1>1, <1>7
    <2>3. Follows(Under(q, NoSegment, 0), Under(q, NoSegment, 1))
      BY <2>1, <2>2 DEF Stream
    <2> QED BY <1>1, <1>7, <2>3 DEF Follows, Under, Announces, NoSegment, ControlSegment
  <1>9. PICK t : t = Tail(q)
    OBVIOUS
  <1>10. /\ t \in Seq(Packet) /\ HeadersIn(t) = HeadersIn(q) - 1
         /\ AllAnnounce(q) => AllAnnounce(t)
    <2>1. /\ t \in Seq(Packet) /\ Len(t) = Len(q) - 1 /\ Len(q) \in Nat
          /\ \A i \in 1 .. Len(q) - 1 : t[i] = q[i + 1]
      BY <1>8, <1>9, TailPackets
    <2>2. \A i \in 1 .. Len(t) : i \in 1 .. Len(q) - 1 /\ i + 1 \in 1 .. Len(q)
      BY <2>1
    <2> QED BY <1>8, <1>9, <2>1, <2>2, HeadersLess DEF AllAnnounce
  <1>11. Counted'
    <2>1. HeadersIn(inbox[Sender]) + HeadersIn(q) + HalfRead = Outstanding
      BY <1>6, <1>7 DEF Counted
    <2>2. HalfRead = 0 /\ HalfRead' = 1
      <3>1. NoSegment' = NoSegment
        BY DEF NoSegment, ControlSegment
      <3> QED BY <1>1, <1>3, <3>1 DEF HalfRead
    <2>3. Outstanding' = Outstanding
      BY <1>1, <1>4 DEF Outstanding
    <2>4. HeadersIn(inbox[Sender])' = HeadersIn(inbox[Sender])
          /\ HeadersIn(inbox[Receiver])' = HeadersIn(t)
      BY <1>3, <1>7, <1>9 DEF HeadersIn
    <2>5. HeadersIn(inbox[Sender]) \in Nat /\ HeadersIn(q) \in Nat
      BY <1>7, CountsTyped
    <2>6. \A a \in Nat, b \in Nat : a + (b - 1) + 1 = a + b + 0
      OBVIOUS
    <2> QED BY <1>10, <2>1, <2>2, <2>3, <2>4, <2>5, <2>6 DEF Counted
  <1>12. HasRoom'
    BY <1>1, <1>4, <1>6 DEF HasRoom, recvVars
  <1>13. AllLoud'
    <2>1. inbox'[Receiver] = t
      BY <1>3, <1>7, <1>9
    <2>2. AllAnnounce(inbox[Receiver])' <=> AllAnnounce(t)
      BY <2>1 DEF AllAnnounce, Announces
    <2> QED BY <1>1, <1>4, <1>6, <1>7, <1>10, <2>2 DEF AllLoud, Loud
  <1>14. JustFits'
    <2>1. pending'[Receiver] # NoSegment'
      BY <1>3 DEF NoSegment, ControlSegment
    <2> QED BY <1>1, <1>3, <1>4, <1>6, <2>1 DEF JustFits, Loud
  <1> QED BY <1>11, <1>12, <1>13, <1>14

\* The first of the packets before a receiver that has read no header is one.
LEMMA HeaderFirst ==
    ASSUME NEW size, NEW q \in Seq(Packet), q # <<>>, Stream(size, q, NoSegment)
    PROVE  q[1].body.kind = "header"
  <1>1. 1 \in 1 .. Len(q) /\ 1 - 1 = 0
    OBVIOUS
  <1>2. Follows(Under(q, NoSegment, 0), Under(q, NoSegment, 1))
    BY <1>1 DEF Stream
  <1> QED BY <1>2 DEF Follows, Under, Announces, NoSegment, ControlSegment

\* The header of a segment with a payload that is returned has been read, and what
\* is read now is its payload.
LEMMA PayloadFirst ==
    ASSUME Undisturbed, Channels, StreamInv, pc[Receiver] = "recv",
           NEW p \in Returned(Receiver), p.payloadSize > 0
    PROVE  /\ pending[Receiver] # NoSegment /\ inbox[Receiver] # <<>>
           /\ inbox[Receiver][1].body.kind = "payload"
  <1>1. inbox[Receiver] # <<>> /\ pending[Receiver] # NoSegment
    BY DEF Returned
  <1>2. PICK q \in Seq(Packet), h \in Segment : q = inbox[Receiver] /\ h = pending[Receiver]
    BY ReceiverQueue, TheReceiver
  <1>3. Stream(dataSize, q, h) /\ 1 \in 1 .. Len(q) /\ 1 - 1 = 0
    BY <1>1, <1>2 DEF StreamInv
  <1>4. h.payloadSize > 0
    BY <1>1, <1>2, <1>3 DEF Stream
  <1>5. Follows(Under(q, h, 0), Under(q, h, 1))
    BY <1>3 DEF Stream
  <1>6. Under(q, h, 1).kind = "payload"
    BY <1>4, <1>5 DEF Follows, Under, Announces
  <1>7. Under(q, h, 1) = q[1].body
    BY DEF Under
  <1> QED BY <1>1, <1>2, <1>6, <1>7

\* A recv that returns with less than a full segment is the last one.
LEMMA ReturnCloses ==
    ASSUME LocalInv, Receiver \in Receivers, Receiver \in Node, NEW chunks, NEW total \in Nat,
           RecvReturns(Receiver, chunks, total), pc'[Receiver] = "recv"
    PROVE  /\ total >= MSS
           /\ totalReceived'[Receiver] = 0 /\ length'[Receiver] = total
  <1>1. PICK goesOn \in BOOLEAN, thrown \in BOOLEAN :
          /\ goesOn <=> total >= MSS /\ status'[Receiver] = "ESTABLISHED"
          /\ IF goesOn /\ ~thrown
             THEN length' = [length EXCEPT ![Receiver] = total]
             ELSE pc' = [pc EXCEPT ![Receiver] = "close"]
    BY DEF RecvReturns
  <1>2. goesOn /\ ~thrown
    BY <1>1 DEF LocalInv
  <1>3. totalReceived' = [totalReceived EXCEPT ![Receiver] = 0]
    BY DEF RecvReturns
  <1> QED BY <1>1, <1>2, <1>3 DEF LocalInv

\* The receiver that reads on after it has stored a segment lacked a piece before;
\* and when it has all the pieces now, it has called recv again.
LEMMA StoredReads ==
    ASSUME Undisturbed, TransferInv, HandlerInv, FlowInv, Pieces # 0, Ordered, AccountInv,
           Reading, StoreSegment(Receiver), pc'[Receiver] = "recv"
    PROVE  /\ ~HasAll
           /\ \E k \in Nat, j \in Nat, s \in Nat, lone \in {0, 1} :
                /\ FillingAt(k, j, s, lone) /\ j + 1 <= s
                /\ HasAll' => k + j + 1 = Pieces
           /\ HasAll' => HasRoom'
  <1> USE DEF TransferInv
  <1>1. PICK p \in Returned(Receiver) :
          /\ Fits(Receiver, p) /\ ChunkOf(p) \in Chunk
          /\ Received(Receiver)' = Received(Receiver) \o <<ChunkOf(p)>>
          /\ p.payloadSize < MSS =>
               RecvReturns(Receiver, buffer[Receiver] \o <<ChunkOf(p)>>,
                           totalReceived[Receiver] + p.payloadSize)
    BY TheReceiver, StoresOne
  <1>2. /\ pc[Receiver] = "recv" /\ p.payloadSize > 0 /\ Receiver \in Receivers
        /\ Receiver \in Node /\ dataSize' = dataSize /\ Pieces' = Pieces
    BY <1>1, TheReceiver DEF StoreSegment, Fits, handlerVars, Pieces
  <1>3. PICK n \in Nat \ {0} : n = Pieces
    BY PiecesAreCut
  <1>4. /\ NumSegments(dataSize) = n /\ Cut(dataSize) /\ dataSize # 0
        /\ PieceSize(dataSize, n) \in 1 .. MSS /\ PieceSize(dataSize, n) < MSS
    <2>1. NumSegments(dataSize) = n /\ Cut(dataSize) /\ dataSize # 0
      BY <1>3, PiecesAreCut
    <2>2. dataSize % MSS # 0
      BY <1>3, <2>1 DEF AccountInv, Answerable
    <2>3. PieceSize(dataSize, n) \in 1 .. MSS
      BY <1>3, <2>1, PiecesFit
    <2> QED BY <2>1, <2>2, <2>3, LastNotFull
  <1>5. totalReceived[Receiver] \in Nat /\ MSS \in Nat \ {0}
    BY <1>2, SegmentAssumption DEF LocalInv, UInt32
  <1>6. ASSUME p.payloadSize = PieceSize(dataSize, n)
        PROVE  /\ totalReceived[Receiver] + p.payloadSize >= MSS
               /\ totalReceived'[Receiver] = 0
               /\ length'[Receiver] = totalReceived[Receiver] + p.payloadSize
    <2>1. /\ totalReceived[Receiver] + p.payloadSize \in Nat
          /\ RecvReturns(Receiver, buffer[Receiver] \o <<ChunkOf(p)>>,
                         totalReceived[Receiver] + p.payloadSize)
      BY <1>1, <1>4, <1>5, <1>6
    <2> QED BY <1>2, <2>1, ReturnCloses
  <1>7. ~HasAll
    <2> SUFFICES ASSUME HasAll
                 PROVE  FALSE
      OBVIOUS
    <2>1. AllLast(dataSize, inbox[Receiver], pending[Receiver])
      BY <1>2 DEF Ordered, StreamInv
    <2>2. PICK x \in 1 .. n : /\ p.payloadSize = PieceSize(dataSize, x)
                              /\ Offset(x) = Offset(n)
      BY <1>2, <1>4, <2>1, SegmentRead DEF Ordered
    <2>3. x = n
      BY <2>2, OffsetOne
    <2>4. totalReceived[Receiver] = 0
      BY DEF AccountInv, HasRoom
    <2> QED BY <1>4, <1>5, <1>6, <2>2, <2>3, <2>4
  <1>8. PICK k \in Nat, j \in Nat, s \in Nat, lone \in {0, 1} : FillingAt(k, j, s, lone)
    <2>1. Filling
      BY <1>2, <1>7, WhichOne DEF GivenUp, Reading, InSend
    <2> QED BY <2>1 DEF Filling
  <1>9. j + 1 <= s /\ p.payloadSize = PieceSize(dataSize, k + j + 1)
    BY <1>4, <1>8, NextReturned, WhichOne
  <1>10. /\ k + j < n /\ Len(Received(Receiver)) = k + j
         /\ Received(Receiver) \in Seq(Chunk) /\ totalReceived[Receiver] = (k + j) * MSS
    BY <1>3, <1>8, StoredSoFar DEF FillingAt, HasStored
  <1>11. ASSUME HasAll'
         PROVE  k + j + 1 = n
    <2>1. Len(Received(Receiver)') >= n
      BY <1>2, <1>3, <1>11 DEF HasAll
    <2>2. Len(Received(Receiver)') = k + j + 1
      BY <1>1, <1>10, OneMore
    <2> QED BY <1>10, <2>1, <2>2
  <1>12. ASSUME HasAll'
         PROVE  HasRoom'
    <2>1. p.payloadSize = PieceSize(dataSize, n)
      BY <1>9, <1>11, <1>12
    <2>2. n # 1
      <3> SUFFICES ASSUME n = 1
                   PROVE  FALSE
        OBVIOUS
      <3>1. k + j = 0
        BY <1>11, <1>12
      <3>2. totalReceived[Receiver] = 0
        BY <1>5, <1>10, <3>1
      <3> QED BY <1>4, <1>5, <1>6, <2>1, <3>2
    <2> QED BY <1>2, <1>3, <1>6, <2>1, <2>2 DEF HasRoom
  <1> QED BY <1>3, <1>7, <1>8, <1>9, <1>11, <1>12

\* The receiver stores a segment and answers it.
LEMMA StoreAccount ==
    ASSUME Undisturbed, TransferInv, HandlerInv, FlowInv, Pieces # 0, Ordered,
           AccountInv, StoreSegment(Receiver)
    PROVE  AccountInv'
  <1> USE DEF TransferInv
  <1>1. /\ pc[Receiver] = "recv" /\ UNCHANGED <<handlerVars, sendVars>>
        /\ pc'[Sender] = pc[Sender]
    <2>1. pc[Receiver] = "recv" /\ UNCHANGED <<handlerVars, sendVars>>
      BY DEF StoreSegment
    <2>2. UNCHANGED pc \/ pc' = [pc EXCEPT ![Receiver] = "close"]
      BY DEF StoreSegment, RecvReturns
    <2> QED BY <2>1, <2>2, TheReceiver DEF LocalInv
  <1>2. /\ dataSize' = dataSize /\ window' = window /\ turn' = turn /\ helper' = helper
        /\ Pieces' = Pieces /\ (InSend' <=> InSend)
    BY <1>1 DEF handlerVars, sendVars, Pieces, InSend
  <1> SUFFICES ASSUME Reading'
               PROVE  Counted' /\ HasRoom' /\ AllLoud' /\ JustFits'
    BY <1>2, AccountKept
  <1>3. Reading /\ pc'[Receiver] = "recv" /\ ~Deaf(Sender)
    BY <1>1, <1>2 DEF Reading, InSend, Deaf
  <1>4. Counted /\ AllLoud /\ JustFits
    BY <1>3 DEF AccountInv
  <1>5. PICK n \in Nat \ {0} : n = Pieces
    BY PiecesAreCut
  <1>6. ~HasAll /\ (HasAll' => HasRoom')
    BY <1>3, StoredReads
  <1>7. PICK k \in Nat, j \in Nat, s \in Nat, lone \in {0, 1} :
          /\ FillingAt(k, j, s, lone) /\ j + 1 <= s
          /\ HasAll' => k + j + 1 = n
    BY <1>3, <1>5, StoredReads
  <1>8. PICK q \in Seq(Packet), u \in Seq(Packet) : q = inbox[Receiver] /\ u = inbox[Sender]
    BY ReceiverQueue
  <1>9. PICK t : t = Tail(q)
    OBVIOUS
  <1>10. PICK p \in Returned(Receiver) :
           /\ p.payloadSize > 0 /\ p \in Segment
           /\ \E result \in SendResults(AckOf(p)) : Answer(Receiver, result.wire)
    BY <1>1, TheReceiver, StoresOne, ReturnedToReceiver DEF Fits
  <1>11. /\ pending[Receiver] # NoSegment /\ q # <<>> /\ q[1].body.kind = "payload"
    BY <1>1, <1>8, <1>10, PayloadFirst DEF Ordered
  <1>12. PICK x \in 1 .. n : p.seqNum = Offset(x)
    BY <1>1, <1>5, <1>10, SegmentRead, PiecesAreCut DEF Ordered
  <1>13. /\ inbox'[Receiver] = t /\ pending'[Receiver] = NoSegment
         /\ \E a \in Packet : a.body.kind = "header" /\ inbox'[Sender] = u \o <<a>>
    BY <1>3, <1>5, <1>8, <1>9, <1>10, <1>12, AckReaches DEF IsAckOf
  <1>14. /\ t \in Seq(Packet) /\ HeadersIn(t) = HeadersIn(q)
         /\ AllAnnounce(q) => AllAnnounce(t)
         /\ t # <<>> => t[1].body.kind = "header"
    <2>1. /\ t \in Seq(Packet) /\ Len(t) = Len(q) - 1 /\ Len(q) \in Nat
          /\ \A i \in 1 .. Len(q) - 1 : t[i] = q[i + 1]
      BY <1>9, <1>11, TailPackets
    <2>2. \A i \in 1 .. Len(t) : i \in 1 .. Len(q) - 1 /\ i + 1 \in 1 .. Len(q)
      BY <2>1
    <2>3. HeadersIn(t) = HeadersIn(q)
      BY <1>9, <1>11, HeadersLess
    <2>4. Stream(dataSize, t, NoSegment)
      BY <1>1, <1>8, <1>9, <1>10, SegmentRead DEF Ordered
    <2>5. t # <<>> => t[1].body.kind = "header"
      BY <2>1, <2>4, HeaderFirst
    <2> QED BY <2>1, <2>2, <2>3, <2>5 DEF AllAnnounce
  <1>15. Counted'
    <2>1. HeadersIn(u) + HeadersIn(q) + HalfRead = Outstanding
      BY <1>4, <1>8 DEF Counted
    <2>2. HalfRead = 1 /\ HalfRead' = 0
      <3>1. NoSegment' = NoSegment
        BY DEF NoSegment, ControlSegment
      <3> QED BY <1>11, <1>13, <3>1 DEF HalfRead
    <2>3. Outstanding' = Outstanding
      BY <1>1, <1>2 DEF Outstanding
    <2>4. HeadersIn(inbox[Sender])' = HeadersIn(u) + 1
          /\ HeadersIn(inbox[Receiver])' = HeadersIn(t)
      <3>1. PICK a \in Packet : a.body.kind = "header" /\ inbox'[Sender] = u \o <<a>>
        BY <1>13
      <3>2. HeadersIn(u \o <<a>>) = HeadersIn(u) + 1
        BY <3>1, HeadersMore
      <3>3. HeadersIn(inbox[Sender])' = HeadersIn(u \o <<a>>)
            /\ HeadersIn(inbox[Receiver])' = HeadersIn(t)
        BY <1>13, <3>1 DEF HeadersIn
      <3> QED BY <3>2, <3>3
    <2>5. HeadersIn(u) \in Nat /\ HeadersIn(q) \in Nat
      BY <1>8, CountsTyped
    <2> QED BY <1>14, <2>1, <2>2, <2>3, <2>4, <2>5 DEF Counted
  <1>16. HasRoom'
    BY <1>6 DEF HasRoom
  <1>17. AllLoud'
    <2>1. AllAnnounce(inbox[Receiver])' <=> AllAnnounce(t)
      BY <1>13 DEF AllAnnounce, Announces
    <2> QED BY <1>1, <1>2, <1>4, <1>6, <1>8, <1>14, <2>1 DEF AllLoud, Loud
  <1>18. JustFits'
    <2> SUFFICES ASSUME n = WindowSize
                 PROVE  /\ HasAll' => pc[Sender] # "sendWindow"
                        /\ HasAll' /\ t # <<>> => Announces(t[1].body)
      BY <1>1, <1>2, <1>4, <1>5, <1>6, <1>13 DEF JustFits, Announces
    <2>1. ASSUME HasAll', pc[Sender] = "sendWindow"
          PROVE  FALSE
      <3>1. window[1].seqNum = 0 /\ turn \in 1 .. WindowSize
        BY <1>4, <1>5, <1>6, <2>1 DEF JustFits, LocalInv
      <3>2. s = turn - 1 /\ WindowFrom(k) /\ k + 1 <= n
        BY <1>5, <1>7, <2>1 DEF FillingAt, SenderAt
      <3>3. 1 \in 1 .. WindowSize
        BY <3>1
      <3>4. window[1].seqNum = Offset(k + 1)
        BY <1>5, <3>2, <3>3 DEF WindowFrom, IsPiece
      <3>5. k = 0
        <4>1. Offset(1) = 0
          BY SegmentAssumption DEF Offset
        <4>2. PICK y \in Int : y = k + 1
          OBVIOUS
        <4>3. y = 1
          BY <3>1, <3>4, <4>1, <4>2, OffsetOne
        <4> QED BY <4>2, <4>3
      <3> QED BY <1>7, <2>1, <3>1, <3>2, <3>5
    <2>2. ASSUME HasAll', t # <<>>
          PROVE  Announces(t[1].body)
      <3>1. Pieces > 1
        BY <1>2, <1>6, <2>2 DEF HasRoom
      <3>2. AllAnnounce(t)
        BY <1>4, <1>6, <1>8, <1>14, <3>1 DEF AllLoud
      <3>3. 1 \in 1 .. Len(t)
        BY <1>14, <2>2
      <3> QED BY <1>14, <2>2, <3>2, <3>3 DEF AllAnnounce
    <2> QED BY <2>1, <2>2
  <1> QED BY <1>15, <1>16, <1>17, <1>18

\* While the sender sends, the receiver has room for all that it reads.
LEMMA AllReadFits ==
    ASSUME Undisturbed, TransferInv, HandlerInv, FlowInv, Pieces # 0, Ordered, AccountInv,
           Reading, NEW p \in Returned(Receiver)
    PROVE  Fits(Receiver, p)
  <1> USE DEF TransferInv
  <1>1. /\ pc[Receiver] = "recv" /\ dataSize # 0 /\ dataSize <= Capacity
        /\ HasAll \/ Filling
    BY WhichOne DEF Reading, InSend, GivenUp
  <1>2. CASE Filling
    <2>1. PICK k \in Nat, j \in Nat, s \in Nat, lone \in {0, 1} : FillingAt(k, j, s, lone)
      BY <1>2 DEF Filling
    <2> QED BY <1>1, <2>1, NextReturned
  <1>3. CASE HasAll
    <2>1. PICK q \in Seq(Packet), h \in Segment : q = inbox[Receiver] /\ h = pending[Receiver]
      BY ReceiverQueue, TheReceiver
    <2>2. /\ AllLoud /\ JustFits /\ Answerable(dataSize)
          /\ Pieces > 1 /\ totalReceived[Receiver] = 0 /\ length[Receiver] >= MSS
      BY <1>3 DEF AccountInv, HasRoom
    <2>3. Stream(dataSize, q, h) /\ q # <<>>
      BY <1>1, <2>1 DEF Ordered, StreamInv, Returned
    <2>4. h # NoSegment
      <3> SUFFICES ASSUME h = NoSegment
                   PROVE  FALSE
        OBVIOUS
      <3>1. q[1].body.kind = "header" /\ 1 \in 1 .. Len(q) /\ Head(q) = q[1]
        BY <2>3, HeaderFirst
      <3>2. p = q[1].body.segment /\ p.payloadSize = 0
        BY <2>1, <3>1 DEF Returned, AsHeader
      <3>3. ~Announces(q[1].body)
        BY <3>2, SegmentAssumption DEF Announces
      <3>4. /\ Pieces \in Nat \ {0} /\ NumSegments(dataSize) = Pieces
            /\ WindowSize \in Nat \ {0}
        BY PiecesAreCut, HandlerAssumption
      <3>5. Pieces = WindowSize \/ Pieces > WindowSize
        BY <2>2, <3>4 DEF Answerable
      <3>6. Pieces > WindowSize => Announces(q[1].body)
        BY <2>1, <2>2, <3>1 DEF AllLoud, AllAnnounce
      <3>7. Pieces = WindowSize => Announces(q[1].body)
        BY <1>3, <2>1, <2>2, <2>3 DEF JustFits
      <3> QED BY <3>3, <3>5, <3>6, <3>7
    <2>5. p.payloadSize = h.payloadSize /\ h.payloadSize > 0
      BY <2>1, <2>3, <2>4 DEF Returned, Stream, Segment
    <2>6. PICK x \in 1 .. Pieces : p.payloadSize = PieceSize(dataSize, x)
      BY <1>1, <2>5, SegmentRead, PiecesAreCut DEF Ordered
    <2>7. p.payloadSize \in 1 .. MSS
      BY <2>6, PiecesFit, PiecesAreCut
    <2>8. length[Receiver] \in Int /\ MSS \in Int
      BY TheReceiver, SegmentAssumption, TransferAssumption DEF LocalInv, UInt32
    <2> QED BY <2>2, <2>7, <2>8 DEF Fits
  <1> QED BY <1>1, <1>2, <1>3

\* Nor does it wait for a payload that never comes.
LEMMA NoneMissing ==
    ASSUME Undisturbed, TransferInv, Ordered, Reading
    PROVE  ~PayloadTimeout(Receiver)
  <1> USE DEF TransferInv
  <1> SUFFICES ASSUME PayloadTimeout(Receiver)
               PROVE  FALSE
    OBVIOUS
  <1>1. PICK h \in Segment : h = pending[Receiver]
    BY ReceiverQueue, TheReceiver
  <1>2. inbox[Receiver] = <<>> /\ h # NoSegment
    BY <1>1 DEF PayloadTimeout, Undisturbed
  <1>3. Stream(dataSize, <<>>, h) /\ Complete(<<>>, h)
    BY <1>1, <1>2 DEF Ordered, StreamInv, Reading, InSend
  <1>4. h.payloadSize > 0
    BY <1>2, <1>3 DEF Stream
  <1> QED BY <1>3, <1>4 DEF Complete, Under, Announces

\* The receiver's steps.
LEMMA ReceiverAccount ==
    ASSUME Undisturbed, TransferInv, HandlerInv, FlowInv, Pieces # 0, Ordered,
           AccountInv, ReceiverNext(Receiver)
    PROVE  AccountInv'
  <1> USE DEF TransferInv
  <1>1. CASE AwaitPayload(Receiver)
    BY <1>1, HeaderAccount
  <1>2. CASE PayloadThrows(Receiver) \/ RecvThrows(Receiver)
    BY <1>2 DEF PayloadThrows, RecvThrows, Undisturbed
  <1>3. CASE StoreSegment(Receiver)
    BY <1>3, StoreAccount
  <1>4. CASE FinDuringRecv(Receiver) \/ IgnoreDuringRecv(Receiver) \/ TimeoutDuringRecv(Receiver)
    <2>1. pc[Receiver] = "recv" /\ UNCHANGED handlerVars
      BY <1>4 DEF FinDuringRecv, IgnoreDuringRecv, TimeoutDuringRecv
    <2>2. pc'[Sender] = pc[Sender]
      <3>1. UNCHANGED pc \/ pc' = [pc EXCEPT ![Receiver] = "close"]
        BY <1>4 DEF FinDuringRecv, IgnoreDuringRecv, TimeoutDuringRecv, RecvReturns
      <3> QED BY <3>1, TheReceiver DEF LocalInv
    <2>3. dataSize' = dataSize
      BY <2>1 DEF handlerVars
    <2>4. Reading' => Reading
      BY <2>1, <2>2 DEF Reading, InSend
    <2>5. ~Reading
      <3>1. CASE FinDuringRecv(Receiver) \/ IgnoreDuringRecv(Receiver)
        <4>1. PICK p \in Returned(Receiver) : ~Fits(Receiver, p)
          BY <3>1 DEF FinDuringRecv, IgnoreDuringRecv
        <4> QED BY <4>1, AllReadFits
      <3>2. CASE TimeoutDuringRecv(Receiver)
        BY <3>2, NoneMissing DEF TimeoutDuringRecv
      <3> QED BY <1>4, <3>1, <3>2
    <2> QED BY <2>3, <2>4, <2>5, AccountKept
  <1>5. CASE CloseNext(Receiver)
    <2>1. pc'[Receiver] # "recv" /\ UNCHANGED handlerVars
      BY <1>5, TheReceiver, ClosingSends
    <2> QED BY <2>1, AccountKept DEF Reading, handlerVars
  <1> QED BY <1>1, <1>2, <1>3, <1>4, <1>5 DEF ReceiverNext

\* The sender's steps.
LEMMA SenderAccount ==
    ASSUME Undisturbed, HeapInv, TransferInv, HandlerInv, FlowInv, Pieces # 0, Ordered,
           AccountInv, SenderNext
    PROVE  AccountInv'
  <1> USE DEF TransferInv
  <1>1. dataSize' = dataSize
    BY PiecesAreCut, SenderFrame
  <1>2. CASE StartSend
    BY <1>2, PiecesAreCut DEF StartSend, SenderInv
  <1>3. CASE SendThrows
    BY <1>3 DEF SendThrows, Undisturbed
  <1>4. CASE NextWindow
    BY <1>4, WindowAccount
  <1>5. CASE SendSegment
    BY <1>5, SegmentAccount
  <1>6. CASE ReplyDuringSend
    BY <1>6, ReplyAccount
  <1>7. CASE FinDuringSend
    <2>1. PICK result \in SendResults(finAck) :
            result.ok => pc' = [pc EXCEPT ![Sender] = "close"]
      BY <1>7 DEF FinDuringSend
    <2>2. result.ok
      <3>1. SendResults(finAck) = {[wire |-> Wire(finAck), ok |-> TRUE]}
        BY NothingFails
      <3> QED BY <3>1
    <2>3. pc'[Sender] = "close"
      BY <2>1, <2>2, TheReceiver DEF LocalInv
    <2> QED BY <1>1, <2>3, AccountKept DEF Reading, InSend
  <1>8. CASE CloseNext(Sender)
    <2>1. pc'[Sender] \in {"finWait", "closeWait", "done"}
      BY <1>8, TheReceiver, ClosingSends
    <2> QED BY <1>1, <2>1, AccountKept DEF Reading, InSend
  <1> QED BY <1>2, <1>3, <1>4, <1>5, <1>6, <1>7, <1>8 DEF SenderNext

\* The data are there, and nothing is on its way.
LEMMA StartAccount ==
    ASSUME Undisturbed, AllAnswered, TransferInv, HandlerInv, Opened, Pieces = 0,
           QuietInv, StartSend
    PROVE  AccountInv'
  <1> USE DEF TransferInv
  <1>1. /\ pc' = [pc EXCEPT ![Sender] = "advance"]
        /\ UNCHANGED <<sendVars, recvVars, inbox, pending>>
    BY DEF StartSend
  <1>2. PICK size \in Sizes : setDataStream(size % U32)
    BY DEF StartSend
  <1>3. CASE size % U32 = 0
    <2>1. dataSize' = dataSize
      BY <1>2, <1>3 DEF setDataStream
    <2> QED BY <2>1 DEF AccountInv, Reading, Pieces, NumSegments
  <1>4. CASE size % U32 # 0
    <2>1. dataSize' = size % U32
      BY <1>2, <1>4 DEF setDataStream
    <2>2. Answerable(dataSize)'
      BY <2>1 DEF AllAnswered, Answerable, NumSegments
    <2> SUFFICES ASSUME Reading'
                 PROVE  Counted' /\ HasRoom' /\ AllLoud' /\ JustFits'
      BY <2>2 DEF AccountInv
    <2>3. Pieces' \in Nat \ {0}
      <3>1. PICK d \in Nat : d = dataSize'
        <4>1. size \in Nat /\ U32 \in Nat \ {0}
          BY TransferAssumption, SegmentAssumption
        <4> QED BY <2>1, <4>1
      <3>2. MSS \in Nat \ {0} /\ U32 \in Nat \ {0} /\ d + MSS - 1 \in Nat
        BY SegmentAssumption
      <3>3. (d + MSS - 1) % U32 \in Nat
        BY <3>2
      <3>4. ((d + MSS - 1) % U32) \div MSS \in Nat
        BY <3>2, <3>3, DivBounds
      <3> QED BY <3>1, <3>4 DEF Reading, Pieces, NumSegments
    <2>4. /\ inbox'[Sender] = <<>> /\ inbox'[Receiver] = <<>> /\ pending'[Receiver] = NoSegment
          /\ pc'[Sender] = "advance" /\ helper' = 0 /\ Received(Receiver)' = <<>>
      BY <1>1, TheReceiver
      DEF Opened, LocalInv, StartSend, QuietInv, Received, recvVars, sendVars
    <2>5. ~HasAll'
      BY <2>3, <2>4 DEF HasAll
    <2>6. Counted'
      <3>1. HeadersIn(inbox[Sender])' = 0 /\ HeadersIn(inbox[Receiver])' = 0
        <4>1. /\ HeadersIn(inbox[Sender])' = HeadersIn(<<>>)
              /\ HeadersIn(inbox[Receiver])' = HeadersIn(<<>>)
          BY <2>4 DEF HeadersIn
        <4> QED BY <4>1, HeadersNone
      <3>2. HalfRead' = 0 /\ Outstanding' = 0
        BY <2>4 DEF HalfRead, Outstanding, NoSegment, ControlSegment
      <3> QED BY <3>1, <3>2 DEF Counted
    <2>7. HasRoom'
      BY <2>5 DEF HasRoom
    <2>8. AllLoud'
      BY <2>4 DEF AllLoud, AllAnnounce
    <2>9. JustFits'
      BY <2>4, <2>5 DEF JustFits
    <2> QED BY <2>6, <2>7, <2>8, <2>9
  <1> QED BY <1>3, <1>4

\* The steps of a transfer.
LEMMA TransferAccount ==
    ASSUME Undisturbed, AllAnswered, TransferInv, HandlerInv, FlowInv, DeliveryInv, AccountInv,
           SenderNext \/ OutsideNext \/ ReceiverNext(Receiver)
    PROVE  AccountInv'
  <1> USE DEF DeliveryInv
  <1>1. CASE OutsideNext
    <2>1. /\ UNCHANGED handlerVars
          /\ pc'[Sender] = "stopped" \/ pc'[Receiver] = "stopped"
      BY <1>1, OnlyStops, TheReceiver DEF Stop, TransferInv, LocalInv
    <2> QED BY <2>1, AccountKept DEF Reading, InSend, handlerVars
  <1>2. CASE Pieces # 0 /\ ~OutsideNext
    BY <1>2, SenderAccount, ReceiverAccount DEF OrderInv
  <1>3. CASE Pieces = 0 /\ StartSend
    <2>1. Opened
      BY <1>3 DEF StartSend, TransferInv, SenderInv, FlowInv, Before
    <2> QED BY <1>3, <2>1, StartAccount
  <1>4. CASE Pieces = 0 /\ ~StartSend /\ ~OutsideNext
    <2>1. dataSize' = dataSize
      <3>1. CASE SenderNext
        <4>1. pc[Sender] # "setup"
          BY <1>4, <3>1
          DEF SenderNext, SendThrows, NextWindow, SendSegment, ReplyDuringSend, FinDuringSend,
              CloseNext, CloseActive, ClosePassive, CloseAtOnce, FinAckInFinWait,
              AckInCloseWait, OtherInClose, TimeoutInClose, Undisturbed
        <4> QED BY <3>1, <4>1, SenderFrame
      <3>2. CASE ReceiverNext(Receiver)
        BY <3>2
        DEF ReceiverNext, AwaitPayload, TakeHeader, PayloadThrows, RecvThrows, StoreSegment,
            FinDuringRecv, IgnoreDuringRecv, TimeoutDuringRecv, CloseNext, CloseActive,
            ClosePassive, CloseAtOnce, FinAckInFinWait, AckInCloseWait, OtherInClose,
            TimeoutInClose, handlerVars
      <3> QED BY <1>4, <3>1, <3>2
    <2> QED BY <1>4, <2>1 DEF AccountInv, Reading, Pieces, NumSegments
  <1> QED BY <1>1, <1>2, <1>3, <1>4

\* The steps of the handshake, before the data or too late for them.
LEMMA HandshakeAccount ==
    ASSUME Undisturbed, SessionInv, HandlerInv, FlowInv, DeliveryInv, AccountInv,
           \/ Connect(Receiver) \/ OnSynAck(Receiver) \/ OtherInHandshake(Receiver)
           \/ TimeoutInHandshake(Receiver)
           \/ RunSender \/ listen \/ SynDuringAccept \/ NumberThrows
           \/ AckDuringAccept \/ OtherDuringAccept
    PROVE  AccountInv'
  <1> USE DEF SessionInv, DeliveryInv
  <1>1. CASE \/ Connect(Receiver) \/ OnSynAck(Receiver) \/ OtherInHandshake(Receiver)
             \/ TimeoutInHandshake(Receiver)
    <2>1. /\ dataSize' = dataSize /\ pc'[Sender] = pc[Sender]
          /\ pc[Receiver] \in {"menu", "awaitSynAck"}
      BY <1>1, HandshakeApart
    <2>2. Pieces # 0 => pc[Sender] = "stopped"
      BY <2>1, ComesTooLate
    <2>3. Pieces' = Pieces
      BY <2>1 DEF Pieces, NumSegments
    <2> QED BY <2>1, <2>2, <2>3, AccountKept DEF Reading, InSend
  <1>2. CASE \/ RunSender \/ listen \/ SynDuringAccept \/ NumberThrows
             \/ AckDuringAccept \/ OtherDuringAccept
    <2>1. pc[Sender] \in {"menu", "listen", "accept"} /\ UNCHANGED handlerVars
      BY <1>2 DEF RunSender, listen, SynDuringAccept, NumberThrows, AckDuringAccept,
          OtherDuringAccept
    <2>2. Pieces = 0
      BY <2>1, PiecesAreCut DEF TransferInv, SenderInv
    <2>3. dataSize' = dataSize
      BY <2>1 DEF handlerVars
    <2> QED BY <2>2, <2>3 DEF AccountInv, Reading, Pieces, NumSegments
  <1> QED BY <1>1, <1>2

\* Nothing happens.
LEMMA AccountStutters ==
    ASSUME AccountInv, UNCHANGED vars
    PROVE  AccountInv'
  <1>1. /\ UNCHANGED <<handlerVars, sendVars, recvVars, pc, inbox, pending>>
        /\ dataSize' = dataSize /\ window' = window /\ turn' = turn /\ helper' = helper
    BY DEF vars, handlerVars, sendVars
  <1>2. Pieces' = Pieces /\ (HasAll' <=> HasAll)
    BY <1>1, ReceiverQuiet
  <1>3. Reading' <=> Reading
    BY <1>1, <1>2 DEF Reading, InSend
  <1>4. Counted => Counted'
    <2>1. /\ HeadersIn(inbox[Sender])' = HeadersIn(inbox[Sender])
          /\ HeadersIn(inbox[Receiver])' = HeadersIn(inbox[Receiver])
      BY <1>1 DEF HeadersIn
    <2>2. HalfRead' = HalfRead /\ Outstanding' = Outstanding
      BY <1>1 DEF HalfRead, Outstanding, NoSegment, ControlSegment
    <2> QED BY <2>1, <2>2 DEF Counted
  <1>5. HasRoom => HasRoom'
    BY <1>1, <1>2 DEF HasRoom, recvVars
  <1>6. AllLoud => AllLoud'
    BY <1>1, <1>2 DEF AllLoud, AllAnnounce, Announces, Loud
  <1>7. JustFits => JustFits'
    BY <1>1, <1>2 DEF JustFits, Announces, Loud, NoSegment, ControlSegment
  <1> QED BY <1>1, <1>3, <1>4, <1>5, <1>6, <1>7, AccountKept DEF AccountInv

\* Every step of the program.
LEMMA SessionAccount ==
    ASSUME Undisturbed, AllAnswered, SessionInv, HandlerInv, FlowInv, DeliveryInv, AccountInv,
           [SessionNext]_vars
    PROVE  AccountInv'
  <1>1. CASE UNCHANGED vars
    BY <1>1, AccountStutters
  <1>2. CASE SenderNext \/ OutsideNext \/ ReceiverNext(Receiver)
    BY <1>2, TransferAccount DEF SessionInv
  <1>3. CASE \/ Connect(Receiver) \/ OnSynAck(Receiver) \/ OtherInHandshake(Receiver)
             \/ TimeoutInHandshake(Receiver)
             \/ RunSender \/ listen \/ SynDuringAccept \/ NumberThrows
             \/ AckDuringAccept \/ OtherDuringAccept
    BY <1>3, HandshakeAccount
  <1>4. \A r \in Receivers : r = Receiver
    BY TheReceiver
  <1> QED
    BY <1>1, <1>2, <1>3, <1>4
    DEF SessionNext, UserNext, SenderThread, ReceiverThread

\* In a transfer on its own the handshake is over.
LEMMA NextAccount ==
    ASSUME Undisturbed, AllAnswered, TransferInv, HandlerInv, FlowInv, DeliveryInv, AccountInv,
           [Next]_vars
    PROVE  AccountInv'
  <1>1. \A r \in Receivers : r = Receiver
    BY TheReceiver
  <1> QED BY <1>1, AccountStutters, TransferAccount DEF Next, Terminated

\* Without data there is nothing to answer.
LEMMA AccountStarts ==
    ASSUME HandlerInv, Init \/ SessionInit
    PROVE  AccountInv
  <1>1. dataSize = 0
    BY DEF Init, SessionInit, NothingSent, HandlerInit
  <1>2. Pieces = 0
    BY <1>1, PiecesAreCut
  <1> QED BY <1>2 DEF AccountInv, Reading

\* What the invariant says of the loop that waits for the answers.
LEMMA AccountsReplies ==
    ASSUME Undisturbed, SenderInv, HandlerInv, AccountInv
    PROVE  RepliesAccounted
  <1> SUFFICES ASSUME pc[Sender] = "awaitAcks", pc[Receiver] = "recv"
               PROVE  HeadersIn(inbox[Sender]) + HeadersIn(inbox[Receiver]) + HalfRead
                        = WindowSize - turn + 1
    BY TheReceiver DEF RepliesAccounted, HalfRead
  <1>1. Pieces # 0
    BY NothingCut
  <1> QED BY <1>1 DEF AccountInv, Reading, InSend, Counted, Outstanding

\* In the whole program the sender never waits for an answer that does not come,
\* as long as the receiver reads: the loop that counts to the window's size gets
\* an answer for each of its rounds (socket.cpp:236-266, 282-346).
THEOREM SessionRepliesAccounted ==
    ASSUME Undisturbed, HarmlessHeap, AllAnswered
    PROVE  SessionSpec => []RepliesAccounted
  <1>1. SessionInit /\ HandlerInv => AccountInv
    BY AccountStarts
  <1>2. SessionInv /\ HandlerInv /\ FlowInv /\ DeliveryInv /\ AccountInv
          /\ [SessionNext]_vars => AccountInv'
    BY SessionAccount
  <1>3. SessionInv /\ HandlerInv /\ AccountInv => RepliesAccounted
    BY AccountsReplies DEF SessionInv, TransferInv
  <1>4. HandlerSpec => []HandlerInv
    BY HandlerInvariant DEF Undisturbed
  <1> QED BY <1>1, <1>2, <1>3, <1>4, SessionInvariant, SessionUsesHandler, SessionFlow,
             SessionOrderInvariant, PTL DEF SessionSpec

\* And in a transfer on its own.
THEOREM TransferRepliesAccounted ==
    ASSUME Undisturbed, HarmlessHeap, AllAnswered
    PROVE  Spec => []RepliesAccounted
  <1>1. Init /\ HandlerInv => AccountInv
    BY AccountStarts
  <1>2. TransferInv /\ HandlerInv /\ FlowInv /\ DeliveryInv /\ AccountInv
          /\ [Next]_vars => AccountInv'
    BY NextAccount
  <1>3. TransferInv /\ HandlerInv /\ AccountInv => RepliesAccounted
    BY AccountsReplies DEF TransferInv
  <1>4. HandlerSpec => []HandlerInv
    BY HandlerInvariant DEF Undisturbed
  <1> QED BY <1>1, <1>2, <1>3, <1>4, TransferInvariant, TransferUsesHandler, TransferFlow,
             TransferOrderInvariant, PTL DEF Spec
=============================================================================
