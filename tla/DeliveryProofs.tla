--------------------------- MODULE DeliveryProofs ---------------------------
(***************************************************************************)
(* Proofs about Session and FileTransfer on a network without faults, with *)
(* one receiver: what is saved is the file.  Nothing is assumed of the     *)
(* sizes of segments, windows and files but that a file fits into the      *)
(* receiver's buffer, nothing of the heap behind the sender's segments,    *)
(* and either process may be stopped at any point.                         *)
(*                                                                         *)
(* The inductive invariant FlowInv follows the pieces of the file: those   *)
(* the receiver has stored, those on the way to it, whose acknowledgments  *)
(* are on the way back, and those the sender has released.                 *)
(***************************************************************************)
EXTENDS SessionProofs

-----------------------------------------------------------------------------
(***************************************************************************)
(* What is on its way.  The pieces of a file of size bytes are numbered    *)
(* from 1 on.                                                              *)
(***************************************************************************)
PieceSize(size, x) == MinOf(MSS, size - Offset(x))

\* The two packets of the x-th piece, and the acknowledgment of it.
IsHeaderOf(size, p, x) ==
    /\ p.body.kind = "header"
    /\ p.body.segment.seqNum = Offset(x)
    /\ p.body.segment.payloadSize = PieceSize(size, x)

IsPayloadOf(size, p, x) ==
    p.body = [kind |-> "payload", size |-> PieceSize(size, x), data |-> Offset(x)]

IsAckOf(p, x) ==
    /\ p.body.kind = "header"
    /\ p.body.segment.flags = {"ack"}
    /\ p.body.segment.ackNum = Offset(x)
    /\ p.body.segment.payloadSize = 0

\* The queue starts with the pieces k + j + 1 .. k + e, but the header of the
\* first one has been read when half is 1.
InStream(size, queue, half, k, j, e) ==
    /\ Len(queue) >= 2 * (e - j) - half
    /\ \A i \in j + 1 .. e :
         /\ \/ i = j + 1 /\ half = 1
            \/ IsHeaderOf(size, queue[2 * (i - j) - 1 - half], k + i)
         /\ IsPayloadOf(size, queue[2 * (i - j) - half], k + i)

\* The queue holds the acknowledgments of the pieces k + a + 1 .. k + j.
InAcks(queue, k, a, j) ==
    /\ Len(queue) = j - a
    /\ \A i \in 1 .. j - a : IsAckOf(queue[i], k + a + i)

-----------------------------------------------------------------------------
\* The packets of two sequences that are put together.
LEMMA ConcatAt ==
    ASSUME NEW S, NEW q \in Seq(S), NEW more \in Seq(S)
    PROVE  /\ Len(q \o more) = Len(q) + Len(more) /\ q \o more \in Seq(S)
           /\ \A i \in 1 .. Len(q) : (q \o more)[i] = q[i]
           /\ \A i \in 1 .. Len(more) : (q \o more)[Len(q) + i] = more[i]
  <1>1. ASSUME NEW i \in 1 .. Len(more)
        PROVE  (q \o more)[Len(q) + i] = more[i]
    <2>1. Len(q) + i \in 1 .. Len(q) + Len(more) /\ ~(Len(q) + i <= Len(q))
          /\ Len(q) + i - Len(q) = i
      OBVIOUS
    <2> QED BY <2>1
  <1> QED BY <1>1

\* What is left when a packet has been read.
LEMMA TailAt ==
    ASSUME NEW S, NEW q \in Seq(S), q # <<>>
    PROVE  /\ Tail(q) \in Seq(S) /\ Len(Tail(q)) = Len(q) - 1
           /\ Tail(q) # <<>> => Tail(q)[Len(Tail(q))] = q[Len(q)]
  <1>1. PICK t : t = Tail(q)
    OBVIOUS
  <1>2. t \in Seq(S) /\ Len(t) = Len(q) - 1 /\ \A i \in 1 .. Len(q) - 1 : t[i] = q[i + 1]
    BY <1>1
  <1>3. ASSUME t # <<>>
        PROVE  t[Len(t)] = q[Len(q)]
    <2>1. Len(t) \in 1 .. Len(q) - 1 /\ Len(t) + 1 = Len(q)
      BY <1>2, <1>3
    <2> QED BY <1>2, <2>1
  <1> QED BY <1>1, <1>2, <1>3

\* The header of the first piece is read.
LEMMA StreamHeader ==
    ASSUME NEW size, NEW q \in Seq(Packet), NEW k \in Nat, NEW j \in Nat, NEW e \in Nat,
           j < e, InStream(size, q, 0, k, j, e)
    PROVE  /\ Len(q) >= 2 /\ q # <<>>
           /\ IsHeaderOf(size, Head(q), k + j + 1)
           /\ InStream(size, Tail(q), 1, k, j, e)
  <1>1. Len(q) >= 2 /\ q # <<>> /\ Head(q) = q[1]
    BY DEF InStream
  <1>2. IsHeaderOf(size, q[1], k + j + 1)
    <2>1. j + 1 \in j + 1 .. e /\ 2 * (j + 1 - j) - 1 - 0 = 1 /\ k + (j + 1) = k + j + 1
      OBVIOUS
    <2>2. \A i \in j + 1 .. e : IsHeaderOf(size, q[2 * (i - j) - 1 - 0], k + i)
      BY DEF InStream
    <2>3. PICK i \in j + 1 .. e : i = j + 1
      OBVIOUS
    <2>4. 2 * (i - j) - 1 - 0 = 1 /\ k + i = k + j + 1
      BY <2>3
    <2>5. IsHeaderOf(size, q[2 * (i - j) - 1 - 0], k + i)
      BY <2>2
    <2> QED BY <2>4, <2>5
  <1> DEFINE t == Tail(q)
  <1>3. Len(t) = Len(q) - 1 /\ \A i \in 1 .. Len(q) - 1 : t[i] = q[i + 1]
    BY <1>1
  <1>4. Len(q) >= 2 * (e - j) /\ Len(q) \in Nat
    BY DEF InStream
  <1>5. Len(t) >= 2 * (e - j) - 1
    BY <1>3, <1>4
  <1>6. ASSUME NEW i \in j + 1 .. e
        PROVE  /\ \/ i = j + 1 /\ 1 = 1
                  \/ IsHeaderOf(size, t[2 * (i - j) - 1 - 1], k + i)
               /\ IsPayloadOf(size, t[2 * (i - j) - 1], k + i)
    <2> DEFINE d == i - j
    <2>1. d \in Nat /\ d >= 1 /\ d <= e - j
      OBVIOUS
    <2>2. 2 * d - 1 \in 1 .. Len(q) - 1 /\ (2 * d - 1) + 1 = 2 * d - 0
      BY <1>4, <2>1
    <2>3. t[2 * d - 1] = q[2 * d - 0]
      BY <1>3, <2>2
    <2>4. IsPayloadOf(size, q[2 * (i - j) - 0], k + i)
      BY DEF InStream
    <2>5. CASE i # j + 1
      <3>1. 2 * d - 1 - 1 \in 1 .. Len(q) - 1 /\ (2 * d - 1 - 1) + 1 = 2 * d - 1 - 0
        BY <1>4, <2>1, <2>5
      <3>2. t[2 * d - 1 - 1] = q[2 * d - 1 - 0]
        BY <1>3, <3>1
      <3>3. IsHeaderOf(size, q[2 * (i - j) - 1 - 0], k + i)
        BY DEF InStream
      <3> QED BY <2>3, <2>4, <3>2, <3>3
    <2> QED BY <2>3, <2>4, <2>5
  <1> QED BY <1>1, <1>2, <1>5, <1>6 DEF InStream

\* Its payload is read.
LEMMA StreamPayload ==
    ASSUME NEW size, NEW q \in Seq(Packet), NEW k \in Nat, NEW j \in Nat, NEW e \in Nat,
           j < e, InStream(size, q, 1, k, j, e)
    PROVE  /\ Len(q) >= 1 /\ q # <<>>
           /\ IsPayloadOf(size, Head(q), k + j + 1)
           /\ InStream(size, Tail(q), 0, k, j + 1, e)
  <1>1. Len(q) >= 1 /\ q # <<>> /\ Head(q) = q[1]
    BY DEF InStream
  <1>2. IsPayloadOf(size, q[1], k + j + 1)
    <2>1. j + 1 \in j + 1 .. e /\ 2 * (j + 1 - j) - 1 = 1 /\ k + (j + 1) = k + j + 1
      OBVIOUS
    <2>2. \A i \in j + 1 .. e : IsPayloadOf(size, q[2 * (i - j) - 1], k + i)
      BY DEF InStream
    <2>3. IsPayloadOf(size, q[2 * (j + 1 - j) - 1], k + (j + 1))
      BY <2>1, <2>2
    <2> QED BY <2>1, <2>3
  <1> DEFINE t == Tail(q)
  <1>3. Len(t) = Len(q) - 1 /\ \A i \in 1 .. Len(q) - 1 : t[i] = q[i + 1]
    BY <1>1
  <1>4. Len(q) >= 2 * (e - j) - 1 /\ Len(q) \in Nat
    BY DEF InStream
  <1>5. Len(t) >= 2 * (e - (j + 1)) - 0
    BY <1>3, <1>4
  <1>6. ASSUME NEW i \in j + 1 + 1 .. e
        PROVE  /\ IsHeaderOf(size, t[2 * (i - (j + 1)) - 1 - 0], k + i)
               /\ IsPayloadOf(size, t[2 * (i - (j + 1)) - 0], k + i)
    <2> DEFINE d == i - j
    <2>1. d \in Nat /\ d >= 2 /\ d <= e - j /\ i - (j + 1) = d - 1 /\ i \in j + 1 .. e
      OBVIOUS
    <2>2. /\ 2 * (d - 1) - 0 \in 1 .. Len(q) - 1 /\ (2 * (d - 1) - 0) + 1 = 2 * d - 1
          /\ 2 * (d - 1) - 1 - 0 \in 1 .. Len(q) - 1
          /\ (2 * (d - 1) - 1 - 0) + 1 = 2 * d - 1 - 1
      BY <1>4, <2>1
    <2>3. t[2 * (d - 1) - 0] = q[2 * d - 1] /\ t[2 * (d - 1) - 1 - 0] = q[2 * d - 1 - 1]
      BY <1>3, <2>2
    <2> HIDE DEF t, d
    <2>4. /\ IsPayloadOf(size, q[2 * (i - j) - 1], k + i)
          /\ i = j + 1 \/ IsHeaderOf(size, q[2 * (i - j) - 1 - 1], k + i)
      BY <2>1 DEF InStream
    <2>5. d = i - j
      BY DEF d
    <2>6. /\ IsPayloadOf(size, q[2 * d - 1], k + i)
          /\ IsHeaderOf(size, q[2 * d - 1 - 1], k + i)
      BY <2>1, <2>4, <2>5
    <2>7. /\ IsPayloadOf(size, t[2 * (d - 1) - 0], k + i)
          /\ IsHeaderOf(size, t[2 * (d - 1) - 1 - 0], k + i)
      BY <2>3, <2>6
    <2> QED BY <2>1, <2>7
  <1> QED BY <1>1, <1>2, <1>5, <1>6 DEF InStream

\* Something more is sent.
LEMMA StreamMore ==
    ASSUME NEW size, NEW q \in Seq(Packet), NEW more \in Seq(Packet), NEW half \in {0, 1},
           NEW k \in Nat, NEW j \in Nat, NEW e \in Nat,
           InStream(size, q, half, k, j, e)
    PROVE  InStream(size, q \o more, half, k, j, e)
  <1> DEFINE t == q \o more
  <1>1. Len(t) = Len(q) + Len(more) /\ \A i \in 1 .. Len(q) : t[i] = q[i]
    BY ConcatAt
  <1>2. Len(q) >= 2 * (e - j) - half /\ Len(q) \in Nat /\ Len(more) \in Nat
    BY DEF InStream
  <1>3. ASSUME NEW i \in j + 1 .. e
        PROVE  /\ \/ i = j + 1 /\ half = 1
                  \/ IsHeaderOf(size, t[2 * (i - j) - 1 - half], k + i)
               /\ IsPayloadOf(size, t[2 * (i - j) - half], k + i)
    <2> DEFINE d == i - j
    <2>1. d \in Nat /\ d >= 1 /\ d <= e - j /\ (d = 1 <=> i = j + 1)
      OBVIOUS
    <2>2. 2 * d - half \in 1 .. Len(q)
      BY <1>2, <2>1
    <2>3. t[2 * d - half] = q[2 * d - half]
      BY <1>1, <2>2
    <2>4. /\ IsPayloadOf(size, q[2 * (i - j) - half], k + i)
          /\ \/ i = j + 1 /\ half = 1
             \/ IsHeaderOf(size, q[2 * (i - j) - 1 - half], k + i)
      BY DEF InStream
    <2>5. CASE ~(i = j + 1 /\ half = 1)
      <3>1. 2 * d - 1 - half \in 1 .. Len(q)
        BY <1>2, <2>1, <2>5
      <3>2. t[2 * d - 1 - half] = q[2 * d - 1 - half]
        BY <1>1, <3>1
      <3> QED BY <2>3, <2>4, <2>5, <3>2
    <2> QED BY <2>3, <2>4, <2>5
  <1>4. Len(t) >= 2 * (e - j) - half
    BY <1>1, <1>2
  <1> HIDE DEF t
  <1>5. InStream(size, t, half, k, j, e)
    BY <1>3, <1>4 DEF InStream
  <1> QED BY <1>5 DEF t

\* An acknowledgment is read.
LEMMA AckRead ==
    ASSUME NEW q \in Seq(Packet), NEW k \in Nat, NEW a \in Nat, NEW j \in Nat,
           InAcks(q, k, a, j), q # <<>>
    PROVE  /\ a < j
           /\ IsAckOf(Head(q), k + a + 1)
           /\ InAcks(Tail(q), k, a + 1, j)
  <1>1. Len(q) = j - a /\ Len(q) \in Nat /\ Len(q) >= 1 /\ Head(q) = q[1]
    BY DEF InAcks
  <1>2. 1 \in 1 .. j - a
    BY <1>1
  <1>3. IsAckOf(q[1], k + a + 1)
    BY <1>2 DEF InAcks
  <1> DEFINE t == Tail(q)
  <1>4. Len(t) = Len(q) - 1 /\ \A i \in 1 .. Len(q) - 1 : t[i] = q[i + 1]
    OBVIOUS
  <1>5. ASSUME NEW i \in 1 .. j - (a + 1)
        PROVE  IsAckOf(t[i], k + (a + 1) + i)
    <2>1. i + 1 \in 1 .. j - a /\ i \in 1 .. Len(q) - 1
          /\ k + a + (i + 1) = k + (a + 1) + i
      BY <1>1
    <2>2. IsAckOf(q[i + 1], k + a + (i + 1))
      BY <2>1 DEF InAcks
    <2> QED BY <1>4, <2>1, <2>2
  <1>6. Len(t) = j - (a + 1)
    BY <1>1, <1>4
  <1> QED BY <1>1, <1>3, <1>5, <1>6 DEF InAcks

\* An acknowledgment is sent.
LEMMA AckSent ==
    ASSUME NEW q \in Seq(Packet), NEW more \in Seq(Packet), Len(more) = 1,
           NEW k \in Nat, NEW a \in Nat, NEW j \in Nat,
           InAcks(q, k, a, j), IsAckOf(more[1], k + j + 1)
    PROVE  InAcks(q \o more, k, a, j + 1)
  <1>1. PICK t : t = q \o more
    OBVIOUS
  <1>2. /\ Len(t) = Len(q) + 1 /\ \A i \in 1 .. Len(q) : t[i] = q[i]
        /\ t[Len(q) + 1] = more[1]
    <2>1. 1 \in 1 .. Len(more)
      OBVIOUS
    <2>2. /\ Len(t) = Len(q) + Len(more) /\ \A i \in 1 .. Len(q) : t[i] = q[i]
          /\ \A i \in 1 .. Len(more) : t[Len(q) + i] = more[i]
      BY ONLY <1>1, ConcatAt, q \in Seq(Packet), more \in Seq(Packet)
    <2> QED BY <2>1, <2>2
  <1>3. Len(q) = j - a /\ Len(q) \in Nat
    BY DEF InAcks
  <1>4. ASSUME NEW i \in 1 .. j + 1 - a
        PROVE  IsAckOf(t[i], k + a + i)
    <2>1. CASE i \in 1 .. j - a
      <3>1. IsAckOf(q[i], k + a + i)
        BY <2>1 DEF InAcks
      <3>2. t[i] = q[i]
        BY <1>2, <1>3, <2>1
      <3> QED BY <3>1, <3>2
    <2>2. CASE i = j - a + 1
      <3>1. k + a + i = k + j + 1 /\ i = Len(q) + 1
        BY <1>3, <2>2
      <3>2. t[i] = more[1]
        BY <1>2, <3>1
      <3> QED BY <3>1, <3>2
    <2> QED BY <2>1, <2>2
  <1>5. InAcks(t, k, a, j + 1)
    BY <1>2, <1>3, <1>4 DEF InAcks
  <1> QED BY <1>1, <1>5

-----------------------------------------------------------------------------
\* What is on its way to the receiver, which has read the header h, if any: the
\* sender has sent s segments of the window behind piece k, and the receiver has
\* stored j of them.  When the window has more, nothing else has been sent, but
\* for a header when the sender was stopped behind it (lone).
InFlight(size, queue, h, k, j, s, lone) ==
    LET n    == NumSegments(size)
        e    == MinOf(s, n - k)
        half == IF h = NoSegment THEN 0 ELSE 1
    IN  /\ InStream(size, queue, half, k, j, e)
        /\ s < n - k =>
             /\ Len(queue) = 2 * (s - j) - half + lone
             /\ lone = 1 /\ queue # <<>> => IsHeaderOf(size, queue[Len(queue)], k + s + 1)
        /\ h # NoSegment =>
             /\ \/ j < e
                \/ lone = 1 /\ j = s /\ s < n - k
             /\ h.seqNum = Offset(k + j + 1)
             /\ h.payloadSize = PieceSize(size, k + j + 1)

\* A file with at least one piece.
Cut(size) == size \in UInt32 /\ NumSegments(size) \in Nat \ {0}

\* Every piece but the last is full, and no piece is empty or behind the end.
LEMMA PiecesFit ==
    ASSUME NEW size, Cut(size), NEW x \in 1 .. NumSegments(size)
    PROVE  /\ Offset(x) \in UInt32 /\ Offset(x) = (x - 1) * MSS
           /\ PieceSize(size, x) \in 1 .. MSS
           /\ Offset(x) + PieceSize(size, x) <= size
           /\ x < NumSegments(size) => PieceSize(size, x) = MSS
  <1> DEFINE n == NumSegments(size)
  <1>1. size \in Nat /\ size < U32 /\ U32 \in Nat /\ MSS \in Nat \ {0}
    BY SegmentAssumption DEF Cut, UInt32
  <1>2. size > 0
    <2>1. CASE size = 0
      <3>1. (size + MSS - 1) % U32 = MSS - 1 /\ (MSS - 1) \div MSS = 0
        <4>1. MSS - 1 \in Nat /\ MSS - 1 < U32 /\ MSS - 1 < MSS /\ U32 \in Nat \ {0}
              /\ size + MSS - 1 = MSS - 1
          BY <1>1, <2>1, SegmentAssumption
        <4>2. (MSS - 1) % U32 = MSS - 1
          BY <4>1, ModSmall
        <4>3. (MSS - 1) \div MSS = 0
          BY <1>1, <4>1, DivSmall
        <4> QED BY <4>1, <4>2, <4>3
      <3>2. NumSegments(size) = 0
        BY <3>1 DEF NumSegments
      <3> QED BY <3>2 DEF Cut
    <2> QED BY <1>1, <2>1
  <1>3. n \in Nat \ {0} /\ Offset(n) < size /\ size <= Offset(n + 1)
    BY <1>2, NumSegmentsBounds DEF Cut
  <1>4. /\ Offset(x) = (x - 1) * MSS /\ Offset(1) = 0
        /\ Offset(x) \in Int /\ Offset(n) \in Int /\ Offset(x + 1) = Offset(x) + MSS
    BY <1>1, <1>3, OffsetNext DEF Offset
  <1>5. Offset(1) <= Offset(x) /\ Offset(x) <= Offset(n)
    BY <1>3, OffsetMonotonic
  <1>6. x < n => Offset(x + 1) <= Offset(n)
    BY <1>3, OffsetMonotonic
  <1> HIDE DEF n
  <1>7. 0 <= Offset(x) /\ Offset(x) < size
    BY <1>1, <1>3, <1>4, <1>5
  <1>8. PieceSize(size, x) = MinOf(MSS, size - Offset(x))
    BY DEF PieceSize
  <1>9. PieceSize(size, x) \in 1 .. MSS /\ Offset(x) + PieceSize(size, x) <= size
    BY <1>1, <1>4, <1>7, <1>8 DEF MinOf
  <1>10. x < n => PieceSize(size, x) = MSS
    BY <1>1, <1>3, <1>4, <1>6, <1>7, <1>8 DEF MinOf
  <1>11. Offset(x) \in UInt32
    BY <1>1, <1>4, <1>7 DEF UInt32
  <1> QED BY <1>4, <1>9, <1>10, <1>11 DEF n

\* A header with a payload to come is not the value that stands for none.
LEMMA NotNone ==
    ASSUME NEW h, h.payloadSize > 0
    PROVE  h # NoSegment
  BY DEF NoSegment, ControlSegment

\* The receiver reads a header: it is that of the next piece.
LEMMA FlightHeader ==
    ASSUME NEW size, Cut(size), NEW q \in Seq(Packet), q # <<>>,
           NEW k \in Nat, NEW j \in Nat, NEW s \in Nat, NEW lone \in {0, 1},
           j <= s, k + j < NumSegments(size),
           InFlight(size, q, NoSegment, k, j, s, lone)
    PROVE  /\ IsHeaderOf(size, Head(q), k + j + 1)
           /\ Head(q).body.segment # NoSegment
           /\ InFlight(size, Tail(q), Head(q).body.segment, k, j, s, lone)
  <1> DEFINE n == NumSegments(size)
             e == MinOf(s, n - k)
             h == Head(q).body.segment
  <1>1. n \in Nat /\ n - k \in Nat /\ e \in Nat /\ j <= e /\ j < n - k
    BY DEF Cut, MinOf
  <1>2. InStream(size, q, 0, k, j, e)
    BY DEF InFlight
  <1>3. s < n - k =>
          /\ Len(q) = 2 * (s - j) + lone
          /\ lone = 1 => IsHeaderOf(size, q[Len(q)], k + s + 1)
    BY DEF InFlight
  <1>4. PICK t \in Seq(Packet) : /\ t = Tail(q) /\ Len(t) = Len(q) - 1
                                 /\ t # <<>> => t[Len(t)] = q[Len(q)]
    BY TailAt
  <1>5. \/ j < e
        \/ e = s /\ j = s /\ s < n - k /\ lone = 1 /\ Len(q) = 1
    <2>1. CASE s < n - k
      <3>1. e = s
        BY <1>1, <2>1 DEF MinOf
      <3>2. CASE j = s
        <4>1. Len(q) = lone /\ Len(q) \in Nat /\ Len(q) # 0
          BY <1>3, <2>1, <3>2
        <4> QED BY <2>1, <3>1, <3>2, <4>1
      <3> QED BY <1>1, <3>1, <3>2
    <2>2. CASE ~(s < n - k)
      <3>1. e = n - k
        BY <1>1, <2>2 DEF MinOf
      <3> QED BY <1>1, <3>1
    <2> QED BY <2>1, <2>2
  <1>6. IsHeaderOf(size, Head(q), k + j + 1)
    <2>1. CASE j < e
      BY <1>1, <1>2, <2>1, StreamHeader
    <2>2. CASE j = s /\ s < n - k /\ lone = 1 /\ Len(q) = 1
      <3>1. Head(q) = q[Len(q)] /\ k + s + 1 = k + j + 1
        BY <2>2
      <3> QED BY <1>3, <2>2, <3>1
    <2> QED BY <1>5, <2>1, <2>2
  <1>7. InStream(size, t, 1, k, j, e)
    <2>1. CASE j < e
      BY <1>1, <1>2, <1>4, <2>1, StreamHeader
    <2>2. CASE e = s /\ j = s /\ Len(q) = 1
      <3>1. Len(t) >= 2 * (e - j) - 1 /\ j + 1 .. e = {}
        BY <1>4, <2>2
      <3> QED BY <3>1 DEF InStream
    <2> QED BY <1>5, <2>1, <2>2
  <1>8. /\ h.seqNum = Offset(k + j + 1) /\ h.payloadSize = PieceSize(size, k + j + 1)
        /\ h # NoSegment
    <2>1. h.seqNum = Offset(k + j + 1) /\ h.payloadSize = PieceSize(size, k + j + 1)
      BY <1>6 DEF IsHeaderOf
    <2>2. k + j + 1 \in 1 .. n
      BY <1>1
    <2>3. PieceSize(size, k + j + 1) \in 1 .. MSS /\ MSS \in Nat
      BY <2>2, PiecesFit, SegmentAssumption
    <2> HIDE DEF h
    <2> QED BY <2>1, <2>3, NotNone
  <1>9. s < n - k =>
          /\ Len(t) = 2 * (s - j) - 1 + lone
          /\ lone = 1 /\ t # <<>> => IsHeaderOf(size, t[Len(t)], k + s + 1)
    BY <1>3, <1>4
  <1> HIDE DEF h
  <1>10. InFlight(size, t, h, k, j, s, lone)
    BY <1>5, <1>7, <1>8, <1>9 DEF InFlight
  <1> QED BY <1>4, <1>6, <1>8, <1>10 DEF h

\* The receiver reads a payload: it is that of the piece whose header it has.
LEMMA FlightPayload ==
    ASSUME NEW size, Cut(size), NEW q \in Seq(Packet), q # <<>>, NEW h, h # NoSegment,
           NEW k \in Nat, NEW j \in Nat, NEW s \in Nat, NEW lone \in {0, 1},
           j <= s, k + j < NumSegments(size),
           InFlight(size, q, h, k, j, s, lone)
    PROVE  /\ IsPayloadOf(size, Head(q), k + j + 1)
           /\ j + 1 <= s
           /\ InFlight(size, Tail(q), NoSegment, k, j + 1, s, lone)
  <1> DEFINE n == NumSegments(size)
             e == MinOf(s, n - k)
  <1>1. n \in Nat /\ n - k \in Nat /\ e \in Nat /\ j <= e /\ e <= s
    BY DEF Cut, MinOf
  <1>2. InStream(size, q, 1, k, j, e)
    BY DEF InFlight
  <1>3. s < n - k =>
          /\ Len(q) = 2 * (s - j) - 1 + lone
          /\ lone = 1 => IsHeaderOf(size, q[Len(q)], k + s + 1)
    BY DEF InFlight
  <1>4. PICK t \in Seq(Packet) : /\ t = Tail(q) /\ Len(t) = Len(q) - 1
                                 /\ t # <<>> => t[Len(t)] = q[Len(q)]
    BY TailAt
  <1>5. j < e
    <2>1. j < e \/ (lone = 1 /\ j = s /\ s < n - k)
      BY DEF InFlight
    <2>2. ~(lone = 1 /\ j = s /\ s < n - k)
      <3>1. Len(q) \in Nat /\ Len(q) # 0
        OBVIOUS
      <3> QED BY <1>3, <3>1
    <2> QED BY <2>1, <2>2
  <1>6. IsPayloadOf(size, Head(q), k + j + 1) /\ InStream(size, t, 0, k, j + 1, e)
    BY <1>1, <1>2, <1>4, <1>5, StreamPayload
  <1>7. ASSUME s < n - k
        PROVE  /\ Len(t) = 2 * (s - (j + 1)) - 0 + lone
               /\ lone = 1 /\ t # <<>> => IsHeaderOf(size, t[Len(t)], k + s + 1)
    <2>1. Len(t) = 2 * (s - (j + 1)) - 0 + lone
      <3>1. Len(q) = 2 * (s - j) - 1 + lone /\ Len(t) = Len(q) - 1
        BY <1>3, <1>4, <1>7
      <3>2. lone \in Int /\ 2 * (s - j) - 1 + lone - 1 = 2 * (s - (j + 1)) - 0 + lone
        OBVIOUS
      <3> QED BY <3>1, <3>2
    <2> QED BY <1>3, <1>4, <1>7, <2>1
  <1>8. InFlight(size, t, NoSegment, k, j + 1, s, lone)
    BY <1>6, <1>7 DEF InFlight
  <1> QED BY <1>1, <1>4, <1>5, <1>6, <1>8

\* The payload does not come: the sender was stopped behind the header.
LEMMA FlightEnds ==
    ASSUME NEW size, Cut(size), NEW h, h # NoSegment,
           NEW k \in Nat, NEW j \in Nat, NEW s \in Nat, NEW lone \in {0, 1},
           j <= s, k + j < NumSegments(size),
           InFlight(size, <<>>, h, k, j, s, lone)
    PROVE  lone = 1
  <1> DEFINE n == NumSegments(size)
             e == MinOf(s, n - k)
  <1>1. n \in Nat /\ n - k \in Nat /\ e \in Nat
    BY DEF Cut, MinOf
  <1>2. Len(<<>>) >= 2 * (e - j) - 1
    BY DEF InFlight, InStream
  <1>3. ~(j < e)
    BY <1>1, <1>2
  <1> QED BY <1>3 DEF InFlight


\* The sender sends another segment of its window: the next piece, or behind the
\* last piece whatever the window has there.
LEMMA FlightSent ==
    ASSUME NEW size, Cut(size), NEW q \in Seq(Packet), NEW h, NEW more \in Seq(Packet),
           NEW k \in Nat, NEW j \in Nat, NEW s \in Nat,
           j <= s, k + j < NumSegments(size),
           InFlight(size, q, h, k, j, s, 0),
           k + s < NumSegments(size) =>
             /\ Len(more) = 2
             /\ IsHeaderOf(size, more[1], k + s + 1)
             /\ IsPayloadOf(size, more[2], k + s + 1)
    PROVE  InFlight(size, q \o more, h, k, j, s + 1, 0)
  <1> DEFINE n == NumSegments(size)
             e == MinOf(s, n - k)
             f == MinOf(s + 1, n - k)
             half == IF h = NoSegment THEN 0 ELSE 1
  <1>1. /\ e = MinOf(s, n - k) /\ f = MinOf(s + 1, n - k)
        /\ half = IF h = NoSegment THEN 0 ELSE 1
    OBVIOUS
  <1> HIDE DEF e, f, half
  <1>2. n \in Nat /\ n - k \in Nat /\ e \in Nat /\ j <= e /\ half \in {0, 1}
    BY <1>1, SMTT(30) DEF Cut, MinOf
  <1>3. /\ InStream(size, q, half, k, j, e)
        /\ s < n - k => Len(q) = 2 * (s - j) - half + 0
        /\ h # NoSegment => /\ j < e \/ (0 = 1 /\ j = s /\ s < n - k)
                            /\ h.seqNum = Offset(k + j + 1)
                            /\ h.payloadSize = PieceSize(size, k + j + 1)
    BY <1>1, SMTT(30) DEF InFlight
  <1>4. CASE s < n - k
    <2>1. e = s /\ f = s + 1 /\ k + s < NumSegments(size)
      BY <1>1, <1>2, <1>4, SMTT(30) DEF MinOf
    <2>2. PICK len \in Nat : Len(q) = len /\ len = 2 * (s - j) - half
      BY <1>2, <1>3, <1>4
    <2>3. Len(more) = 2 /\ 1 \in 1 .. Len(more) /\ 2 \in 1 .. Len(more)
      <3>1. Len(more) = 2
        BY <2>1
      <3> QED BY ONLY <3>1
    <2>4. PICK t : t = q \o more
      OBVIOUS
    <2>5. InStream(size, t, half, k, j, f) /\ Len(t) = 2 * (s + 1 - j) - half + 0
      <3>1. /\ Len(t) = len + 2
            /\ t[len + 1] = more[1] /\ t[len + 2] = more[2]
        <4>1. Len(t) = Len(q) + Len(more) /\ \A i \in 1 .. Len(more) : t[Len(q) + i] = more[i]
          BY ONLY <2>4, ConcatAt, q \in Seq(Packet), more \in Seq(Packet)
        <4> QED BY ONLY <2>2, <2>3, <4>1
      <3>2. InStream(size, t, half, k, j, s)
        BY <1>2, <1>3, <2>1, <2>4, StreamMore
      <3>3. ASSUME NEW i \in j + 1 .. s + 1
            PROVE  /\ \/ i = j + 1 /\ half = 1
                      \/ IsHeaderOf(size, t[2 * (i - j) - 1 - half], k + i)
                   /\ IsPayloadOf(size, t[2 * (i - j) - half], k + i)
        <4>1. CASE i = s + 1
          <5>1. /\ 2 * (i - j) - half = len + 2 /\ 2 * (i - j) - 1 - half = len + 1
                /\ k + i = k + s + 1
            BY <1>2, <2>2, <4>1
          <5>2. IsHeaderOf(size, more[1], k + s + 1) /\ IsPayloadOf(size, more[2], k + s + 1)
            BY <2>1
          <5>3. /\ IsHeaderOf(size, t[2 * (i - j) - 1 - half], k + i)
                /\ IsPayloadOf(size, t[2 * (i - j) - half], k + i)
            BY ONLY <3>1, <5>1, <5>2
          <5> QED BY ONLY <5>3
        <4>2. CASE i \in j + 1 .. s
          BY <3>2, <4>2 DEF InStream
        <4>3. i = s + 1 \/ i \in j + 1 .. s
          OBVIOUS
        <4> QED BY ONLY <4>1, <4>2, <4>3
      <3>4. Len(t) = 2 * (s + 1 - j) - half + 0
        BY ONLY <1>2, <2>2, <3>1, s \in Nat, j \in Nat
      <3>5. Len(t) >= 2 * (s + 1 - j) - half
        BY <1>2, <3>4
      <3>6. InStream(size, t, half, k, j, s + 1)
        BY ONLY <3>3, <3>5 DEF InStream
      <3> QED BY ONLY <2>1, <3>4, <3>6
    <2>6. h # NoSegment => j < f
      BY <1>2, <1>3, <2>1
    <2>7. InFlight(size, t, h, k, j, s + 1, 0)
      BY <1>3, <2>5, <2>6, <1>1 DEF InFlight
    <2> QED BY <2>4, <2>7
  <1>5. CASE ~(s < n - k)
    <2>1. e = n - k /\ f = n - k
      BY <1>1, <1>2, <1>5 DEF MinOf
    <2>2. PICK t : t = q \o more
      OBVIOUS
    <2>3. InStream(size, t, half, k, j, f)
      BY <1>2, <1>3, <2>1, <2>2, StreamMore
    <2>4. ~(s + 1 < n - k) /\ (h # NoSegment => j < f)
      BY <1>2, <1>3, <1>5, <2>1
    <2>5. InFlight(size, t, h, k, j, s + 1, 0)
      BY <1>3, <2>3, <2>4, <1>1 DEF InFlight
    <2> QED BY <2>2, <2>5
  <1> QED BY <1>4, <1>5

\* The sender is stopped, before or behind the header of its next segment.
LEMMA FlightStops ==
    ASSUME NEW size, Cut(size), NEW q \in Seq(Packet), NEW h, NEW more \in Seq(Packet),
           NEW k \in Nat, NEW j \in Nat, NEW s \in Nat,
           j <= s, k + j < NumSegments(size),
           InFlight(size, q, h, k, j, s, 0),
           k + s < NumSegments(size) /\ more # <<>> =>
             Len(more) = 1 /\ IsHeaderOf(size, more[1], k + s + 1)
    PROVE  \E lone \in {0, 1} : InFlight(size, q \o more, h, k, j, s, lone)
  <1> DEFINE n == NumSegments(size)
             e == MinOf(s, n - k)
             half == IF h = NoSegment THEN 0 ELSE 1
  <1>1. n \in Nat /\ n - k \in Nat /\ e \in Nat /\ j <= e /\ half \in {0, 1}
    BY DEF Cut, MinOf
  <1>2. /\ InStream(size, q, half, k, j, e)
        /\ s < n - k => Len(q) = 2 * (s - j) - half + 0
        /\ h # NoSegment => /\ j < e \/ (0 = 1 /\ j = s /\ s < n - k)
                            /\ h.seqNum = Offset(k + j + 1)
                            /\ h.payloadSize = PieceSize(size, k + j + 1)
    BY DEF InFlight
  <1>3. PICK t : t = q \o more
    OBVIOUS
  <1>4. InStream(size, t, half, k, j, e)
    BY <1>1, <1>2, <1>3, StreamMore
  <1>5. CASE ~(s < n - k)
    <2>1. InFlight(size, t, h, k, j, s, 0)
      BY <1>2, <1>4, <1>5 DEF InFlight
    <2> QED BY <1>3, <2>1
  <1>6. CASE more = <<>>
    <2>1. t = q
      BY <1>3, <1>6
    <2> QED BY <1>3, <2>1
  <1>7. CASE s < n - k /\ more # <<>>
    <2>1. Len(more) = 1 /\ IsHeaderOf(size, more[1], k + s + 1)
      BY <1>1, <1>7
    <2>2. Len(t) = Len(q) + 1 /\ t[Len(t)] = more[1]
      <3>1. 1 \in 1 .. Len(more)
        BY <2>1
      <3>2. Len(t) = Len(q) + Len(more) /\ \A i \in 1 .. Len(more) : t[Len(q) + i] = more[i]
        BY ONLY <1>3, ConcatAt, q \in Seq(Packet), more \in Seq(Packet)
      <3> QED BY <2>1, <3>1, <3>2
    <2>3. Len(t) = 2 * (s - j) - half + 1 /\ IsHeaderOf(size, t[Len(t)], k + s + 1)
      <3>1. Len(q) = 2 * (s - j) - half + 0
        BY <1>2, <1>7
      <3> QED BY <1>1, <2>1, <2>2, <3>1
    <2>4. InFlight(size, t, h, k, j, s, 1)
      BY <1>2, <1>4, <2>3 DEF InFlight
    <2> QED BY <1>3, <2>4
  <1> QED BY <1>5, <1>6, <1>7

\* All of a window has been stored, and there is more of the file.
LEMMA FlightOver ==
    ASSUME NEW size, Cut(size), NEW q \in Seq(Packet), NEW h,
           NEW k \in Nat, NEW s \in Nat, k + s < NumSegments(size),
           InFlight(size, q, h, k, s, s, 0)
    PROVE  InFlight(size, q, h, k + s, 0, 0, 0)
  <1> DEFINE n == NumSegments(size)
             e == MinOf(s, n - k)
  <1>1. n \in Nat /\ s < n - k /\ e = s
    BY DEF Cut, MinOf
  <1>2. h = NoSegment
    BY <1>1 DEF InFlight
  <1>3. Len(q) = 0
    BY <1>1, <1>2 DEF InFlight
  <1>4. MinOf(0, n - (k + s)) = 0 /\ 0 + 1 .. 0 = {}
    BY <1>1 DEF MinOf
  <1>5. q = <<>>
    BY <1>3
  <1> QED BY <1>2, <1>3, <1>4, <1>5 DEF InFlight, InStream

\* Nothing has been sent yet.
LEMMA FlightStarts ==
    ASSUME NEW size, Cut(size)
    PROVE  InFlight(size, <<>>, NoSegment, 0, 0, 0, 0)
  <1>1. MinOf(0, NumSegments(size) - 0) = 0 /\ 0 + 1 .. 0 = {} /\ Len(<<>>) = 0
    BY DEF Cut, MinOf
  <1> QED BY <1>1 DEF InFlight, InStream


-----------------------------------------------------------------------------
(***************************************************************************)
(* The invariant.                                                          *)
(***************************************************************************)

\* One receiver, a network without faults, no failing call and no clock; and a
\* file fits into the receiver's buffer.
Undisturbed ==
    /\ Receivers = {Receiver}
    /\ MaxFaults = 0 /\ ~MayFail /\ ~MayBeLate
    /\ \A size \in Sizes : size % U32 <= Capacity

\* The acknowledgments of pieces up to x have been handled: all of these pieces
\* but the last are released.
Acked(x) ==
    /\ Dropped = IF x = 0 THEN 0 ELSE x - 1
    /\ LAR = IF x = 0 THEN 0 ELSE Offset(x)

\* The window starts behind piece k.
WindowFrom(k) ==
    \A i \in 1 .. WindowSize : k + i <= Pieces => IsPiece(window[i], k + i)

\* The receiver is in its first call of recv and has stored m pieces.
HasStored(m) ==
    /\ pc[Receiver] = "recv"
    /\ ~saved[Receiver]
    /\ length[Receiver] = Capacity
    /\ totalBuffer[Receiver] = <<>>
    /\ Len(buffer[Receiver]) = m
    /\ totalReceived[Receiver] = m * MSS
    /\ \A i \in 1 .. m : buffer[Receiver][i].data = Offset(i)

\* The sender works on the window behind piece k: it has sent s segments of it,
\* and the acknowledgments of j are on their way or have been handled.
SenderAt(k, j, s, lone) ==
    \/ /\ pc[Sender] = "advance" /\ j = 0 /\ s = 0 /\ lone = 0
       /\ inbox[Sender] = <<>>
       /\ helper = (IF k = 0 THEN 0 ELSE 1) /\ Acked(k)
    \/ /\ pc[Sender] = "sendWindow" /\ s = turn - 1 /\ lone = 0
       /\ InAcks(inbox[Sender], k, 0, j)
       /\ helper = 1 /\ WindowFrom(k) /\ Acked(k)
    \/ /\ pc[Sender] = "awaitAcks" /\ s = WindowSize /\ lone = 0
       /\ turn - 1 <= j
       /\ InAcks(inbox[Sender], k, turn - 1, j)
       /\ helper = 1 /\ Acked(k + turn - 1)
    \/ pc[Sender] = "stopped" /\ k <= Dropped + 1

FillingAt(k, j, s, lone) ==
    /\ j <= s /\ s <= WindowSize /\ k + j < Pieces
    /\ HasStored(k + j)
    /\ InFlight(dataSize, inbox[Receiver], pending[Receiver], k, j, s, lone)
    /\ SenderAt(k, j, s, lone)

Filling == \E k \in Nat, j \in Nat, s \in Nat, lone \in {0, 1} : FillingAt(k, j, s, lone)

\* The receiver has every piece, in order, whatever comes behind them.
HasAll ==
    /\ Len(Received(Receiver)) >= Pieces
    /\ \A i \in 1 .. Pieces : Received(Receiver)[i].data = Offset(i)

\* No more comes to the receiver, or it was stopped, and it has not saved a file.
GivenUp ==
    /\ ~saved[Receiver]
    /\ \/ pc[Receiver] = "stopped"
       \/ pc[Sender] = "stopped" /\ inbox[Receiver] = <<>> /\ pending[Receiver] = NoSegment

IsSyn(p) == "syn" \in p.body.segment.flags

\* At most one segment of the handshake is under way.
OneUnderWay ==
    \/ inbox[Sender] = <<>> /\ inbox[Receiver] = <<>>
    \/ /\ Len(inbox[Sender]) = 1 /\ inbox[Receiver] = <<>>
       /\ IsSyn(inbox[Sender][1]) /\ pc[Receiver] \in {"awaitSynAck", "stopped"}
    \/ /\ inbox[Sender] = <<>> /\ Len(inbox[Receiver]) = 1
       /\ inbox[Receiver][1].body.kind = "header"
       /\ inbox[Receiver][1].body.segment.payloadSize = 0
       /\ pc[Receiver] = "awaitSynAck"
    \/ /\ Len(inbox[Sender]) = 1 /\ inbox[Receiver] = <<>>
       /\ ~IsSyn(inbox[Sender][1]) /\ pc[Receiver] \in {"recv", "stopped"}

\* The receiver has not been sent any data.
Opened ==
    /\ ~saved[Receiver] /\ buffer[Receiver] = <<>> /\ totalBuffer[Receiver] = <<>>
    /\ totalReceived[Receiver] = 0 /\ pending[Receiver] = NoSegment
    /\ helper = 0
    /\ pc[Receiver] \in {"menu", "awaitSynAck", "recv", "done", "stopped"}
    /\ pc[Receiver] = "recv" => length[Receiver] = Capacity
    /\ OneUnderWay
    /\ pc[Sender] = "setup" => /\ inbox[Sender] = <<>> /\ inbox[Receiver] = <<>>
                               /\ pc[Receiver] \in {"recv", "stopped"}

Before == {"menu", "listen", "accept", "setup"}

FlowInv ==
    IF dataSize = 0
    THEN pc[Sender] \in Before => Opened
    ELSE dataSize <= Capacity /\ (HasAll \/ GivenUp \/ Filling)


-----------------------------------------------------------------------------
\* The receiver.
LEMMA TheReceiver ==
    ASSUME Undisturbed
    PROVE  /\ Receiver \in Receivers /\ Receiver \in Node /\ Receiver # Sender
           /\ Sender \in Node
           /\ \A r \in Receivers : r = Receiver
           /\ \A n \in Node : n = Sender \/ n = Receiver
  <1>1. Receiver \in Receivers /\ \A r \in Receivers : r = Receiver
    BY DEF Undisturbed
  <1> QED BY <1>1, Nodes

\* Nothing fails.
LEMMA NothingFails ==
    ASSUME Undisturbed, NEW s
    PROVE  /\ SendResults(s) = {[wire |-> Wire(s), ok |-> TRUE]}
           /\ Outcomes = {TRUE}
  BY DEF Undisturbed, SendResults, Outcomes

\* A header without payload is one datagram.
LEMMA ControlWire ==
    ASSUME NEW s, s.payloadSize = 0
    PROVE  Wire(s) = <<Header(s)>>
  BY DEF Wire, HasPayload

\* What the pieces of a file that is being sent say of the handler.
LEMMA FileIsCut ==
    ASSUME HandlerInv, dataSize # 0, Pieces # 0
    PROVE  /\ Cut(dataSize) /\ ~spinning
           /\ Len(segmentCells) = Pieces /\ Pieces \in Nat \ {0}
           /\ dataIndex = dataSize
           /\ dataSize \in UInt32
  <1>1. dataSize \in UInt32 /\ dataSize \in Nat /\ dataSize > 0
    BY SegmentAssumption DEF HandlerInv, HandlerTypeOK, UInt32
  <1>2. ~(dataSize > U32 - MSS) /\ Pieces \in Nat \ {0}
    BY <1>1, NumSegmentsBounds DEF Pieces
  <1>3. ~spinning /\ dataIndex = dataSize
    BY <1>2 DEF HandlerInv, SpinsOnlyOnWrap
  <1>4. Len(segmentCells) = Pieces
    BY <1>3 DEF HandlerInv, CutOnce, Pieces
  <1> QED BY <1>1, <1>2, <1>3, <1>4 DEF Cut, Pieces

-----------------------------------------------------------------------------
(***************************************************************************)
(* A receiver that has every piece keeps them.                             *)
(***************************************************************************)

\* Where recv returns, what it has stored is behind what was collected.
LEMMA ReturnsCollected ==
    ASSUME LocalInv, NEW r \in Receivers, NEW extra \in Seq(Chunk), NEW total,
           RecvReturns(r, buffer[r] \o extra, total)
    PROVE  Received(r)' = Received(r) \o extra
  <1>1. PICK before \in Seq(Chunk), now \in Seq(Chunk) :
          before = totalBuffer[r] /\ now = buffer[r]
    BY DEF LocalInv
  <1>2. /\ totalBuffer' = [totalBuffer EXCEPT ![r] = before \o (now \o extra)]
        /\ buffer' = [buffer EXCEPT ![r] = <<>>]
    BY <1>1 DEF RecvReturns
  <1>3. totalBuffer'[r] = before \o (now \o extra) /\ buffer'[r] = <<>>
    BY <1>2 DEF LocalInv
  <1>4. (before \o (now \o extra)) \o <<>> = (before \o now) \o extra
    OBVIOUS
  <1> QED BY <1>1, <1>3, <1>4 DEF Received

\* Where recv stores a segment and goes on.
LEMMA StoreCollected ==
    ASSUME LocalInv, NEW r \in Receivers, NEW extra \in Seq(Chunk),
           buffer' = [buffer EXCEPT ![r] = buffer[r] \o extra],
           totalBuffer' = totalBuffer
    PROVE  Received(r)' = Received(r) \o extra
  <1>1. PICK before \in Seq(Chunk), now \in Seq(Chunk) :
          before = totalBuffer[r] /\ now = buffer[r]
    BY DEF LocalInv
  <1>2. totalBuffer'[r] = before /\ buffer'[r] = now \o extra
    BY <1>1 DEF LocalInv
  <1>3. before \o (now \o extra) = (before \o now) \o extra
    OBVIOUS
  <1> QED BY <1>1, <1>2, <1>3 DEF Received

\* A stored segment.
ChunkOf(s) == [seqNum |-> s.seqNum, size |-> s.payloadSize, data |-> s.data]

\* recv stores one segment.
LEMMA StoresOne ==
    ASSUME TransferInv, NEW r \in Receivers, StoreSegment(r)
    PROVE  \E s \in Returned(r) :
             /\ Fits(r, s) /\ ChunkOf(s) \in Chunk
             /\ \E result \in SendResults(AckOf(s)) : Answer(r, result.wire)
             /\ Received(r)' = Received(r) \o <<ChunkOf(s)>>
             /\ IF s.payloadSize < MSS
                THEN RecvReturns(r, buffer[r] \o <<ChunkOf(s)>>,
                                 totalReceived[r] + s.payloadSize)
                ELSE /\ buffer' = [buffer EXCEPT ![r] = buffer[r] \o <<ChunkOf(s)>>]
                     /\ totalReceived' = [totalReceived EXCEPT
                                            ![r] = totalReceived[r] + s.payloadSize]
                     /\ UNCHANGED <<pc, length, totalBuffer, saved>>
  <1> USE DEF TransferInv
  <1>1. PICK s \in Returned(r) :
          /\ Fits(r, s)
          /\ \E result \in SendResults(AckOf(s)) : Answer(r, result.wire)
          /\ IF s.payloadSize < MSS
             THEN RecvReturns(r, Append(buffer[r], ChunkOf(s)),
                              totalReceived[r] + s.payloadSize)
             ELSE /\ buffer' = [buffer EXCEPT ![r] = Append(buffer[r], ChunkOf(s))]
                  /\ totalReceived' = [totalReceived EXCEPT
                                         ![r] = totalReceived[r] + s.payloadSize]
                  /\ UNCHANGED <<pc, length, totalBuffer, saved>>
    BY DEF StoreSegment, ChunkOf
  <1>2. ChunkOf(s) \in Chunk
    BY <1>1, ReturnedToReceiver DEF Fits, Chunk, Segment, ChunkOf
  <1>3. <<ChunkOf(s)>> \in Seq(Chunk)
    BY <1>2
  <1>4. Append(buffer[r], ChunkOf(s)) = buffer[r] \o <<ChunkOf(s)>>
    BY <1>2, AppendSeq DEF LocalInv
  <1>5. Received(r)' = Received(r) \o <<ChunkOf(s)>>
    <2>1. CASE s.payloadSize < MSS
      BY <1>1, <1>3, <1>4, <2>1, ReturnsCollected
    <2>2. CASE ~(s.payloadSize < MSS)
      BY <1>1, <1>3, <1>4, <2>2, StoreCollected
    <2> QED BY <2>1, <2>2
  <1> QED BY <1>1, <1>2, <1>4, <1>5

\* The other ends of recv store nothing.
LEMMA ReturnsNothingMore ==
    ASSUME LocalInv, NEW r \in Receivers, FinDuringRecv(r) \/ TimeoutDuringRecv(r)
    PROVE  Received(r)' = Received(r)
  <1>1. \E total : RecvReturns(r, buffer[r], total)
    BY DEF FinDuringRecv, TimeoutDuringRecv
  <1>2. buffer[r] = buffer[r] \o <<>> /\ <<>> \in Seq(Chunk) /\ Received(r) \in Seq(Chunk)
    BY DEF LocalInv, Received
  <1>3. Received(r)' = Received(r) \o <<>>
    BY <1>1, <1>2, ReturnsCollected
  <1> QED BY <1>2, <1>3

\* Every step of the receiver keeps what it has.
LEMMA ReceiverCollects ==
    ASSUME TransferInv, NEW r \in Receivers, ReceiverNext(r)
    PROVE  \E extra \in Seq(Chunk) : Received(r)' = Received(r) \o extra
  <1> USE DEF TransferInv
  <1>1. <<>> \in Seq(Chunk) /\ Received(r) \in Seq(Chunk)
    BY DEF Received, LocalInv
  <1>2. Received(r) \o <<>> = Received(r)
    BY <1>1
  <1>3. CASE StoreSegment(r)
    <2>1. PICK s \in Returned(r) : /\ ChunkOf(s) \in Chunk
                                   /\ Received(r)' = Received(r) \o <<ChunkOf(s)>>
      BY <1>3, StoresOne
    <2>2. <<ChunkOf(s)>> \in Seq(Chunk)
      BY <2>1
    <2> QED BY <2>1, <2>2
  <1>4. CASE FinDuringRecv(r) \/ TimeoutDuringRecv(r)
    BY <1>1, <1>2, <1>4, ReturnsNothingMore
  <1>5. CASE UNCHANGED recvVars
    <2>1. Received(r)' = Received(r)
      BY <1>5 DEF Received, recvVars
    <2> QED BY <1>1, <1>2, <2>1
  <1> QED
    BY <1>3, <1>4, <1>5
    DEF ReceiverNext, AwaitPayload, PayloadThrows, TakeHeader, RecvThrows, IgnoreDuringRecv,
        CloseNext, CloseActive, ClosePassive, CloseAtOnce, FinAckInFinWait, AckInCloseWait,
        OtherInClose, TimeoutInClose

\* So it has all that it has once had.
LEMMA HasAllKept ==
    ASSUME LocalInv, HasAll, Undisturbed, dataSize' = dataSize, Pieces \in Nat,
           NEW extra \in Seq(Chunk), Received(Receiver)' = Received(Receiver) \o extra
    PROVE  HasAll'
  <1>1. Received(Receiver) \in Seq(Chunk)
    <2>1. totalBuffer[Receiver] \in Seq(Chunk) /\ buffer[Receiver] \in Seq(Chunk)
      BY TheReceiver DEF LocalInv
    <2> QED BY <2>1 DEF Received
  <1>2. PICK chunks \in Seq(Chunk) : chunks = Received(Receiver)
    BY <1>1
  <1>3. PICK after : after = chunks \o extra
    OBVIOUS
  <1>4. Len(after) = Len(chunks) + Len(extra) /\ \A i \in 1 .. Len(chunks) : after[i] = chunks[i]
    BY <1>3
  <1>5. Pieces' = Pieces
    BY DEF Pieces
  <1>6. Len(chunks) >= Pieces /\ \A i \in 1 .. Pieces : chunks[i].data = Offset(i)
    BY <1>2 DEF HasAll
  <1>7. Len(after) >= Pieces /\ \A i \in 1 .. Pieces : after[i].data = Offset(i)
    <2>1. PICK len \in Nat, more \in Nat : len = Len(chunks) /\ more = Len(extra)
      OBVIOUS
    <2>2. Len(after) = len + more /\ len >= Pieces /\ \A i \in 1 .. len : after[i] = chunks[i]
      BY <1>4, <1>6, <2>1
    <2>3. len + more >= Pieces /\ \A i \in 1 .. Pieces : i \in 1 .. len
      BY <2>2
    <2> QED BY ONLY <1>6, <2>2, <2>3
  <1>8. Received(Receiver)' = after
    BY <1>2, <1>3
  <1> QED BY <1>5, <1>7, <1>8 DEF HasAll, Offset


-----------------------------------------------------------------------------
(***************************************************************************)
(* The sender's steps.                                                     *)
(***************************************************************************)

\* The acknowledgment of the piece behind x releases piece x, if there is one.
LEMMA AckHandled ==
    ASSUME HandlerInv, dataSize # 0, NEW x \in Nat, x < Pieces,
           Acked(x), handleAck(Offset(x + 1))
    PROVE  Acked(x + 1)' /\ dataSize' = dataSize
  <1>1. /\ ~spinning /\ Len(segmentCells) = Pieces /\ Pieces \in Nat
        /\ Cut(dataSize) /\ dataSize \in UInt32
    BY FileIsCut
  <1>2. /\ x + 1 \in 1 .. Pieces /\ Offset(x + 1) \in UInt32
        /\ Offset(x + 1) = x * MSS
    <2>1. x + 1 \in 1 .. Pieces
      BY <1>1
    <2>2. Offset(x + 1) \in UInt32
      BY <1>1, <2>1, PiecesFit DEF Pieces
    <2> QED BY <2>1, <2>2, OffsetNext
  <1>3. CASE x = 0
    <2>1. Offset(x + 1) = 0 /\ LAR = 0 /\ Dropped = 0
      BY <1>2, <1>3, SegmentAssumption DEF Acked
    <2>2. UNCHANGED <<bufferVars, dataSize, LAR>>
      BY <2>1 DEF handleAck, IsNewAck
    <2>3. Dropped' = 0 /\ LAR' = 0
      BY <2>1, <2>2 DEF Dropped, bufferVars
    <2>4. Offset(0 + 1) = 0
      BY <1>3, <2>1
    <2> QED BY <1>3, <2>2, <2>3, <2>4 DEF Acked, Offset
  <1>4. CASE x > 0
    <2>1. LAR = Offset(x) /\ Dropped = x - 1
      BY <1>4 DEF Acked
    <2>2. /\ Offset(x + 1) = Offset(x) + MSS /\ Offset(x) \in Int
          /\ MSS \in Nat /\ MSS > 0
      BY OffsetNext, SegmentAssumption
    <2>3. Offset(x + 1) > LAR
      BY <2>1, <2>2
    <2>4. PICK m \in 0 .. bufLen :
            /\ m < bufLen => segmentCells[m + 1].seqNum >= Offset(x + 1)
            /\ \A i \in 1 .. m : segmentCells[i].seqNum < Offset(x + 1)
            /\ segmentCells' = EraseFront(segmentCells, bufLen, m)
            /\ bufLen' = bufLen - m
            /\ LAR' = Offset(x + 1)
            /\ UNCHANGED dataSize
      BY <1>1, <1>2, <2>3, HandleAckStep
    <2>5. /\ bufLen \in 0 .. Len(segmentCells) /\ segmentCells \in Seq(Segment)
          /\ Dropped = Len(segmentCells) - bufLen
      BY DEF HandlerInv, HandlerTypeOK, Dropped
    <2>6. bufLen = Pieces - (x - 1) /\ bufLen >= 2
      BY <1>1, <1>4, <2>1, <2>5
    <2>7. segmentCells[1].seqNum = Offset(x) /\ segmentCells[2].seqNum = Offset(x + 1)
      <3>1. 1 \in 1 .. Len(segmentCells) /\ 2 \in 1 .. Len(segmentCells)
        BY <2>5, <2>6
      <3>2. /\ IsPiece(segmentCells[1], MinOf(Dropped + 1, Len(segmentCells)))
            /\ IsPiece(segmentCells[2], MinOf(Dropped + 2, Len(segmentCells)))
        BY <3>1 DEF HandlerInv, StorageShape
      <3>3. /\ MinOf(Dropped + 1, Len(segmentCells)) = x
            /\ MinOf(Dropped + 2, Len(segmentCells)) = x + 1
        BY <1>1, <2>1 DEF MinOf
      <3> QED BY <3>2, <3>3 DEF IsPiece
    <2>8. m = 1
      <3>1. m # 0
        <4>1. CASE m = 0
          <5>1. segmentCells[1].seqNum >= Offset(x + 1)
            BY <2>4, <2>6, <4>1
          <5> QED BY <2>2, <2>7, <5>1
        <4> QED BY <4>1
      <3>2. ~(m >= 2)
        <4>1. CASE m >= 2
          <5>1. 2 \in 1 .. m
            BY <2>5, <4>1
          <5>2. segmentCells[2].seqNum < Offset(x + 1)
            BY <2>4, <5>1
          <5> QED BY <2>2, <2>7, <5>2
        <4> QED BY <4>1
      <3> QED BY <2>4, <2>5, <3>1, <3>2
    <2>9. Len(segmentCells') = Len(segmentCells)
      BY <2>4, <2>5, EraseFrontCells
    <2>10. Dropped' = x
      BY <1>1, <2>4, <2>6, <2>8, <2>9 DEF Dropped
    <2>11. LAR' = Offset(x + 1)'
      BY <2>4 DEF Offset
    <2> QED BY <2>4, <2>10, <2>11 DEF Acked
  <1> QED BY <1>3, <1>4

\* A window of the pieces behind k.
LEMMA WindowFlows ==
    ASSUME Undisturbed, LocalInv, HandlerInv, dataSize # 0, pc[Sender] = "advance", NextWindow,
           NEW k \in Nat, NEW j \in Nat, NEW s \in Nat, NEW lone \in {0, 1},
           FillingAt(k, j, s, lone)
    PROVE  Filling'
  <1>1. Pieces # 0 /\ k + j < Pieces
    BY DEF FillingAt, Pieces, Cut
  <1>2. /\ Len(segmentCells) = Pieces /\ Pieces \in Nat /\ WindowSize \in Nat /\ WindowSize > 0
    BY <1>1, FileIsCut, HandlerAssumption
  <1>3. /\ j = 0 /\ s = 0 /\ lone = 0 /\ inbox[Sender] = <<>> /\ k < Pieces
        /\ helper = (IF k = 0 THEN 0 ELSE 1) /\ Acked(k)
    BY <1>1 DEF FillingAt, SenderAt
  <1>4. bufLen > 0 /\ Dropped = Len(segmentCells) - bufLen
    <2>1. bufLen \in Nat /\ Dropped = Len(segmentCells) - bufLen
      BY DEF HandlerInv, HandlerTypeOK, Dropped
    <2> QED BY <1>2, <1>3, <2>1 DEF Acked
  <1>5. PICK heap \in [1 .. WindowSize -> HeapSegments] :
          window' = [i \in 1 .. WindowSize |-> CellAt(Index(helper, i), heap[i])]
    BY <1>4 DEF NextWindow, advanceWindow
  <1>6. /\ UNCHANGED <<bufferVars, dataSize, LAR>> /\ helper' = 1 /\ turn' = 1
        /\ UNCHANGED <<recvVars, inbox, pending>>
        /\ pc' = [pc EXCEPT ![Sender] = IF window' = <<>> THEN "close" ELSE "sendWindow"]
    BY DEF NextWindow, advanceWindow
  <1>7. window' # <<>>
    <2>1. 1 \in DOMAIN window'
      BY <1>2, <1>5
    <2> QED BY <2>1
  <1>8. pc'[Sender] = "sendWindow" /\ pc'[Receiver] = pc[Receiver]
    BY <1>6, <1>7, TheReceiver DEF LocalInv
  <1>9. Pieces' = Pieces /\ dataSize' = dataSize
    BY <1>6 DEF Pieces
  <1>10. WindowFrom(k)'
    <2>1. ASSUME NEW i \in 1 .. WindowSize, k + i <= Pieces
          PROVE  IsPiece(window'[i], k + i)
      <3>1. window'[i] = CellAt(Index(helper, i), heap[i])
        BY <1>5
      <3>2. CASE k = 0
        <4>1. Index(helper, i) = i - 1 /\ i - 1 < Len(segmentCells) /\ (i - 1) + 1 = i
          BY <1>2, <1>3, <2>1, <3>2 DEF Index
        <4>2. CellAt(Index(helper, i), heap[i]) = segmentCells[i]
          BY <4>1 DEF CellAt
        <4>3. MinOf(Dropped + i, Len(segmentCells)) = k + i /\ i \in 1 .. Len(segmentCells)
          BY <1>2, <1>3, <2>1, <3>2 DEF Acked, MinOf
        <4> QED BY <3>1, <4>2, <4>3 DEF HandlerInv, StorageShape
      <3>3. CASE k > 0
        <4>1. Index(helper, i) = i /\ i < Len(segmentCells)
          BY <1>2, <1>3, <2>1, <3>3 DEF Index
        <4>2. CellAt(Index(helper, i), heap[i]) = segmentCells[i + 1]
          BY <4>1 DEF CellAt
        <4>3. /\ MinOf(Dropped + (i + 1), Len(segmentCells)) = k + i
              /\ i + 1 \in 1 .. Len(segmentCells)
          BY <1>2, <1>3, <2>1, <3>3, <4>1 DEF Acked, MinOf
        <4> QED BY <3>1, <4>2, <4>3 DEF HandlerInv, StorageShape
      <3> QED BY <3>2, <3>3
    <2> QED BY <1>9, <2>1 DEF WindowFrom, IsPiece, Offset
  <1>11. Acked(k)'
    BY <1>3, <1>6 DEF Acked, Dropped, Offset, bufferVars
  <1>12. InAcks(inbox'[Sender], k, 0, 0)
    <2>1. Len(inbox'[Sender]) = 0 /\ 1 .. 0 - 0 = {}
      BY <1>3, <1>6
    <2> QED BY <2>1 DEF InAcks
  <1>13. SenderAt(k, 0, 0, 0)'
    BY <1>6, <1>8, <1>10, <1>11, <1>12 DEF SenderAt
  <1>14. HasStored(k + 0)'
    BY <1>3, <1>6, <1>8 DEF FillingAt, HasStored, recvVars, Offset
  <1>15. InFlight(dataSize', inbox'[Receiver], pending'[Receiver], k, 0, 0, 0)
    BY <1>3, <1>6, <1>9 DEF FillingAt
  <1>16. FillingAt(k, 0, 0, 0)'
    BY <1>2, <1>3, <1>9, <1>13, <1>14, <1>15 DEF FillingAt
  <1> QED BY <1>16 DEF Filling


\* The packets that n sends.
PacketsOf(n, wire) == [i \in DOMAIN wire |-> [from |-> n, body |-> wire[i]]]

\* They are packets.
LEMMA PacketsTyped ==
    ASSUME NEW n \in Node, NEW wire \in Seq(Datagram)
    PROVE  /\ PacketsOf(n, wire) \in Seq(Packet)
           /\ Len(PacketsOf(n, wire)) = Len(wire)
           /\ \A i \in 1 .. Len(wire) : PacketsOf(n, wire)[i].body = wire[i]
  <1>1. \A i \in DOMAIN wire : [from |-> n, body |-> wire[i]] \in Packet
    BY DEF Packet
  <1> QED BY <1>1 DEF PacketsOf

\* What is sent to a socket that listens is behind what is on its way to it, and
\* the other queues stay as they are.
LEMMA SentBehind ==
    ASSUME NEW queues, QueuesOK(queues), NEW n \in Node, NEW dst \in Node, ~Deaf(dst),
           NEW wire \in Seq(Datagram)
    PROVE  /\ Sent(queues, n, dst, wire)[dst] = queues[dst] \o PacketsOf(n, wire)
           /\ \A q \in Node \ {dst} : Sent(queues, n, dst, wire)[q] = queues[q]
  <1>1. CASE wire = <<>>
    <2>1. PacketsOf(n, wire) = <<>>
      BY <1>1 DEF PacketsOf
    <2>2. queues[dst] \in Seq(Packet)
      BY DEF QueuesOK
    <2>3. queues[dst] \o <<>> = queues[dst]
      BY <2>2
    <2>4. Sent(queues, n, dst, wire) = queues
      BY <1>1 DEF Sent
    <2> QED BY <2>1, <2>3, <2>4
  <1>2. CASE wire # <<>>
    <2>1. Sent(queues, n, dst, wire) = [queues EXCEPT ![dst] = @ \o PacketsOf(n, wire)]
      BY <1>2 DEF Sent, PacketsOf
    <2> QED BY <2>1 DEF QueuesOK
  <1> QED BY <1>1, <1>2

\* The two packets of a piece.
LEMMA PieceWire ==
    ASSUME NEW size, Cut(size), NEW x \in 1 .. NumSegments(size), NEW s \in Segment,
           s.seqNum = Offset(x), s.data = Offset(x), s.payloadSize = PieceSize(size, x)
    PROVE  LET more == PacketsOf(Sender, Wire(s))
           IN  /\ Len(more) = 2
               /\ IsHeaderOf(size, more[1], x)
               /\ IsPayloadOf(size, more[2], x)
               /\ PartialWire(s) = {<<>>, <<Header(s)>>}
               /\ Wire(s) \in Seq(Datagram)
  <1>1. PieceSize(size, x) \in 1 .. MSS /\ Offset(x) \in UInt32
    BY PiecesFit
  <1>2. s.payloadSize > 0 /\ s.data # NoData
    BY <1>1, SegmentAssumption DEF UInt32, NoData
  <1>3. HasPayload(s) /\ Wire(s) = <<Header(s), Payload(s)>>
    BY <1>2 DEF HasPayload, Wire
  <1>4. PartialWire(s) = {<<>>, <<Header(s)>>}
    BY <1>3 DEF PartialWire
  <1>5. Wire(s) \in Seq(Datagram)
    BY WireTyped
  <1>6. Len(Wire(s)) = 2 /\ Wire(s)[1] = Header(s) /\ Wire(s)[2] = Payload(s)
    BY <1>3
  <1>7. PICK more : more = PacketsOf(Sender, Wire(s))
    OBVIOUS
  <1>8. Len(more) = 2 /\ more[1].body = Header(s) /\ more[2].body = Payload(s)
    BY <1>5, <1>6, <1>7, PacketsTyped, Nodes
  <1>9. /\ Header(s).kind = "header" /\ Header(s).segment.seqNum = s.seqNum
        /\ Header(s).segment.payloadSize = s.payloadSize
    BY DEF Header, Segment
  <1>10. IsHeaderOf(size, more[1], x) /\ IsPayloadOf(size, more[2], x)
    BY <1>8, <1>9 DEF IsHeaderOf, IsPayloadOf, Payload
  <1> QED BY <1>4, <1>5, <1>7, <1>8, <1>10

\* The segment that the sender sends next, and whom it sends it to.
LEMMA OutgoingPiece ==
    ASSUME Undisturbed, TransferInv, HandlerInv, dataSize # 0, pc[Sender] = "sendWindow",
           NEW k \in Nat, NEW j \in Nat, NEW s \in Nat, NEW lone \in {0, 1},
           FillingAt(k, j, s, lone)
    PROVE  /\ Outgoing \in Segment /\ s = turn - 1 /\ s < WindowSize /\ lone = 0
           /\ InAcks(inbox[Sender], k, 0, j)
           /\ helper = 1 /\ WindowFrom(k) /\ Acked(k)
           /\ peerAddr[Sender] = Receiver /\ ~Deaf(Receiver)
           /\ k + s + 1 <= Pieces =>
                /\ Outgoing.seqNum = Offset(k + s + 1) /\ Outgoing.data = Offset(k + s + 1)
                /\ Outgoing.payloadSize = PieceSize(dataSize, k + s + 1)
  <1> USE DEF TransferInv
  <1>1. /\ s = turn - 1 /\ lone = 0 /\ InAcks(inbox[Sender], k, 0, j)
        /\ helper = 1 /\ WindowFrom(k) /\ Acked(k)
    BY DEF FillingAt, SenderAt
  <1>2. turn \in 1 .. WindowSize /\ WindowSize \in Nat
    BY HandlerAssumption DEF LocalInv
  <1>3. window \in [1 .. WindowSize -> Segment]
    BY DEF SenderInv, HandlerInv, HandlerTypeOK
  <1>4. Outgoing \in Segment /\ Outgoing = window[turn]
    BY <1>2, <1>3 DEF Outgoing
  <1>5. peerAddr[Sender] = Receiver
    BY TheReceiver DEF Channels, Unpaired
  <1>6. ~Deaf(Receiver)
    BY DEF FillingAt, HasStored, Deaf
  <1>7. ASSUME k + s + 1 <= Pieces
        PROVE  IsPiece(window[turn], k + s + 1)
    <2>1. k + turn = k + s + 1
      BY <1>1, <1>2
    <2>2. k + turn <= Pieces
      BY <1>7, <2>1
    <2>3. IsPiece(window[turn], k + turn)
      BY <1>1, <1>2, <2>2 DEF WindowFrom
    <2> QED BY <2>1, <2>3
  <1> QED BY <1>1, <1>2, <1>4, <1>5, <1>6, <1>7 DEF IsPiece, PieceSize

\* A segment is sent.
LEMMA SegmentFlows ==
    ASSUME Undisturbed, TransferInv, HandlerInv, dataSize # 0, SendSegment,
           NEW k \in Nat, NEW j \in Nat, NEW s \in Nat, NEW lone \in {0, 1},
           FillingAt(k, j, s, lone)
    PROVE  Filling'
  <1> USE DEF TransferInv
  <1>1. pc[Sender] = "sendWindow" /\ Pieces # 0 /\ k + j < Pieces /\ j <= s
    BY DEF SendSegment, FillingAt, Pieces, Cut
  <1>2. Cut(dataSize) /\ Pieces \in Nat /\ NumSegments(dataSize) = Pieces
    BY <1>1, FileIsCut DEF Pieces
  <1>3. /\ Outgoing \in Segment /\ s = turn - 1 /\ s < WindowSize /\ lone = 0
        /\ InAcks(inbox[Sender], k, 0, j)
        /\ helper = 1 /\ WindowFrom(k) /\ Acked(k)
        /\ peerAddr[Sender] = Receiver /\ ~Deaf(Receiver)
        /\ k + s + 1 <= Pieces =>
             /\ Outgoing.seqNum = Offset(k + s + 1) /\ Outgoing.data = Offset(k + s + 1)
             /\ Outgoing.payloadSize = PieceSize(dataSize, k + s + 1)
    BY <1>1, OutgoingPiece
  <1>4. Wire(Outgoing) \in Seq(Datagram)
    BY <1>3, WireTyped
  <1>5. inbox' = Sent(inbox, Sender, Receiver, Wire(Outgoing)) /\ pending' = pending
    <2>1. SendResults(Outgoing) = {[wire |-> Wire(Outgoing), ok |-> TRUE]}
      BY NothingFails
    <2>2. PICK result \in SendResults(Outgoing) : Post(Sender, result.wire)
      BY DEF SendSegment
    <2>3. result.wire = Wire(Outgoing)
      BY <2>1, <2>2
    <2> QED BY <1>3, <2>2, <2>3 DEF Post
  <1>6. PICK more \in Seq(Packet) : more = PacketsOf(Sender, Wire(Outgoing))
    BY <1>4, PacketsTyped, Nodes
  <1>7. /\ inbox'[Receiver] = inbox[Receiver] \o more
        /\ inbox'[Sender] = inbox[Sender]
    <2>1. QueuesOK(inbox) /\ Sender \in Node /\ Receiver \in Node /\ Receiver # Sender
      BY TheReceiver DEF Channels
    <2>2. /\ Sent(inbox, Sender, Receiver, Wire(Outgoing))[Receiver]
               = inbox[Receiver] \o PacketsOf(Sender, Wire(Outgoing))
          /\ \A q \in Node \ {Receiver} :
                Sent(inbox, Sender, Receiver, Wire(Outgoing))[q] = inbox[q]
      BY <1>3, <1>4, <2>1, SentBehind
    <2> QED BY <1>5, <1>6, <2>1, <2>2
  <1>8. k + s < NumSegments(dataSize) =>
          /\ Len(more) = 2
          /\ IsHeaderOf(dataSize, more[1], k + s + 1)
          /\ IsPayloadOf(dataSize, more[2], k + s + 1)
    <2>1. CASE k + s < Pieces
      <3>1. k + s + 1 \in 1 .. NumSegments(dataSize)
        BY <1>2, <2>1
      <3> QED BY <1>2, <1>3, <1>6, <3>1, PieceWire
    <2> QED BY <1>2, <2>1
  <1>9. UNCHANGED <<handlerVars, helper, recvVars>> /\ dataSize' = dataSize /\ Pieces' = Pieces
    BY DEF SendSegment, handlerVars, bufferVars, Pieces
  <1>10. InFlight(dataSize', inbox'[Receiver], pending'[Receiver], k, j, s + 1, 0)
    <2>1. InFlight(dataSize, inbox[Receiver], pending[Receiver], k, j, s, 0)
      BY <1>3 DEF FillingAt
    <2>2. inbox[Receiver] \in Seq(Packet)
      BY TheReceiver DEF Channels, QueuesOK
    <2>3. PICK q, h : q = inbox[Receiver] /\ h = pending[Receiver]
      OBVIOUS
    <2>4. InFlight(dataSize, q, h, k, j, s, 0)
      BY <2>1, <2>3
    <2>5. InFlight(dataSize, q \o more, h, k, j, s + 1, 0)
      BY <1>1, <1>2, <1>8, <2>2, <2>3, <2>4, FlightSent
    <2> QED BY <1>5, <1>7, <1>9, <2>3, <2>5
  <1>11. pc'[Receiver] = pc[Receiver]
    BY TheReceiver DEF SendSegment, LocalInv
  <1>12. HasStored(k + j)'
    BY <1>9, <1>11 DEF FillingAt, HasStored, recvVars, Offset
  <1>13. WindowFrom(k)' /\ Acked(k)' /\ helper' = 1
    BY <1>3, <1>9 DEF WindowFrom, IsPiece, Offset, Acked, Dropped, handlerVars, bufferVars
  <1>14. SenderAt(k, j, s + 1, 0)'
    <2>1. CASE turn < WindowSize
      <3>1. turn' = turn + 1 /\ pc' = pc
        BY <2>1 DEF SendSegment
      <3>2. s + 1 = turn' - 1 /\ pc'[Sender] = "sendWindow"
        BY <1>1, <1>3, <3>1 DEF LocalInv
      <3> QED BY <1>3, <1>7, <1>13, <3>2 DEF SenderAt
    <2>2. CASE ~(turn < WindowSize)
      <3>1. turn' = 1 /\ pc'[Sender] = "awaitAcks"
        BY <2>2, TheReceiver DEF SendSegment, LocalInv
      <3>2. s + 1 = WindowSize /\ turn' - 1 = 0 /\ k + turn' - 1 = k
        BY <1>3, <2>2, <3>1, HandlerAssumption DEF LocalInv
      <3>3. Acked(k + turn - 1)'
        BY <1>13, <3>2 DEF Acked
      <3>4. InAcks(inbox[Sender], k, turn - 1, j)' /\ (turn - 1 <= j)'
        BY <1>3, <1>7, <3>2
      <3> QED BY <1>13, <3>1, <3>2, <3>3, <3>4 DEF SenderAt
    <2> QED BY <2>1, <2>2
  <1>15. FillingAt(k, j, s + 1, 0)'
    <2>1. WindowSize \in Nat
      BY HandlerAssumption
    <2>2. j <= s + 1 /\ s + 1 <= WindowSize
      BY ONLY <1>1, <1>3, <2>1, j \in Nat, s \in Nat
    <2>3. k + j < Pieces'
      BY <1>1, <1>9
    <2> QED BY <1>10, <1>12, <1>14, <2>2, <2>3 DEF FillingAt
  <1> QED BY <1>15 DEF Filling

-----------------------------------------------------------------------------
\* Where the two processes are while pieces are under way.
LEMMA FillingFacts ==
    ASSUME Undisturbed, TransferInv, HandlerInv, dataSize # 0,
           NEW k \in Nat, NEW j \in Nat, NEW s \in Nat, NEW lone \in {0, 1},
           FillingAt(k, j, s, lone)
    PROVE  /\ Cut(dataSize) /\ NumSegments(dataSize) = Pieces /\ Pieces \in Nat \ {0}
           /\ k + j < Pieces /\ j <= s /\ s <= WindowSize /\ ~spinning
           /\ QueuesOK(inbox)
           /\ inbox[Sender] \in Seq(Packet) /\ inbox[Receiver] \in Seq(Packet)
           /\ pc[Receiver] = "recv" /\ ~Deaf(Receiver)
           /\ pc[Sender] \in {"advance", "sendWindow", "awaitAcks", "stopped"}
  <1> USE DEF TransferInv
  <1>1. k + j < Pieces /\ j <= s /\ s <= WindowSize /\ Pieces # 0
    BY DEF FillingAt, Pieces, Cut
  <1>2. Cut(dataSize) /\ NumSegments(dataSize) = Pieces /\ Pieces \in Nat \ {0} /\ ~spinning
    BY <1>1, FileIsCut DEF Pieces
  <1>3. QueuesOK(inbox) /\ inbox[Sender] \in Seq(Packet) /\ inbox[Receiver] \in Seq(Packet)
    BY TheReceiver DEF Channels, QueuesOK
  <1>4. pc[Receiver] = "recv" /\ ~Deaf(Receiver)
    BY DEF FillingAt, HasStored, Deaf
  <1>5. pc[Sender] \in {"advance", "sendWindow", "awaitAcks", "stopped"}
    BY DEF FillingAt, SenderAt
  <1> QED BY <1>1, <1>2, <1>3, <1>4, <1>5

\* The sender reads a reply and sends nothing.
LEMMA ReplyConsumed ==
    ASSUME Undisturbed, TransferInv, Consume(Sender)
    PROVE  /\ inbox'[Sender] = Tail(inbox[Sender])
           /\ inbox'[Receiver] = inbox[Receiver]
           /\ pending'[Receiver] = pending[Receiver]
  <1>1. /\ inbox' = [inbox EXCEPT ![Sender] = Tail(@)]
        /\ pending' = [pending EXCEPT ![Sender] = NoSegment]
    BY DEF Consume, Answer, AnswerTo, Sent
  <1> QED BY <1>1, TheReceiver DEF TransferInv, Channels, QueuesOK

\* The acknowledgment of a piece is handled.
LEMMA ReplyFlows ==
    ASSUME Undisturbed, TransferInv, HandlerInv, dataSize # 0, ReplyDuringSend,
           NEW k \in Nat, NEW j \in Nat, NEW s \in Nat, NEW lone \in {0, 1},
           FillingAt(k, j, s, lone)
    PROVE  Filling'
  <1> USE DEF TransferInv
  <1>1. /\ Cut(dataSize) /\ NumSegments(dataSize) = Pieces /\ Pieces \in Nat \ {0}
        /\ k + j < Pieces /\ j <= s /\ s <= WindowSize
        /\ inbox[Sender] \in Seq(Packet) /\ inbox[Receiver] \in Seq(Packet)
        /\ pc[Receiver] = "recv"
    BY FillingFacts
  <1>2. pc[Sender] = "awaitAcks"
    BY DEF ReplyDuringSend
  <1>3. /\ s = WindowSize /\ lone = 0 /\ turn - 1 <= j
        /\ InAcks(inbox[Sender], k, turn - 1, j) /\ helper = 1 /\ Acked(k + turn - 1)
    BY <1>2 DEF FillingAt, SenderAt
  <1>4. turn \in 1 .. WindowSize /\ WindowSize \in Nat /\ turn - 1 \in Nat
    BY HandlerAssumption DEF LocalInv
  <1>5. PICK p \in Returned(Sender) :
          /\ ~IsFin(p)
          /\ IF "ack" \in p.flags THEN handleAck(p.ackNum) ELSE UNCHANGED handlerVars
    BY DEF ReplyDuringSend
  <1>6. inbox[Sender] # <<>> /\ p = Head(inbox[Sender]).body.segment
    BY <1>5, ReturnedToSender
  <1>7. PICK x \in Nat : x = k + (turn - 1)
    BY <1>4
  <1>8. /\ turn - 1 < j /\ IsAckOf(Head(inbox[Sender]), x + 1)
        /\ InAcks(Tail(inbox[Sender]), k, turn, j)
    <2>1. PICK a \in Nat : a = turn - 1
      BY <1>4
    <2>2. InAcks(inbox[Sender], k, a, j)
      BY <1>3, <2>1
    <2>3. /\ a < j /\ IsAckOf(Head(inbox[Sender]), k + a + 1)
          /\ InAcks(Tail(inbox[Sender]), k, a + 1, j)
      BY <1>1, <1>6, <2>2, AckRead
    <2>4. a + 1 = turn /\ k + a + 1 = x + 1
      BY <1>4, <1>7, <2>1
    <2> QED BY <2>1, <2>3, <2>4
  <1>9. Acked(x + 1)' /\ dataSize' = dataSize
    <2>1. p.flags = {"ack"} /\ p.ackNum = Offset(x + 1)
      BY <1>6, <1>8 DEF IsAckOf
    <2>2. handleAck(Offset(x + 1))
      BY <1>5, <2>1
    <2>3. Acked(x) /\ x < Pieces
      <3>1. k + turn - 1 = x
        BY <1>4, <1>7
      <3> QED BY <1>1, <1>3, <1>4, <1>7, <1>8, <3>1
    <2> QED BY <2>2, <2>3, AckHandled
  <1>10. /\ inbox'[Sender] = Tail(inbox[Sender]) /\ inbox'[Receiver] = inbox[Receiver]
         /\ pending'[Receiver] = pending[Receiver]
    BY ReplyConsumed DEF ReplyDuringSend
  <1>11. CountReply /\ UNCHANGED <<helper, recvVars>>
    BY DEF ReplyDuringSend, HandleAckThrows, Undisturbed
  <1>12. Pieces' = Pieces
    BY <1>9 DEF Pieces
  <1>13. InFlight(dataSize', inbox'[Receiver], pending'[Receiver], k, j, s, 0)
    BY <1>3, <1>9, <1>10 DEF FillingAt
  <1>14. pc'[Receiver] = pc[Receiver]
    BY <1>11, TheReceiver DEF CountReply, LocalInv
  <1>15. HasStored(k + j)'
    BY <1>11, <1>14 DEF FillingAt, HasStored, recvVars, Offset
  <1>16. CASE turn < WindowSize
    <2>1. turn' = turn + 1 /\ pc' = pc
      BY <1>11, <1>16 DEF CountReply
    <2>2. turn' - 1 = turn /\ turn <= j /\ x + 1 = k + turn' - 1
      BY <1>4, <1>7, <1>8, <2>1
    <2>3. Acked(k + turn - 1)' /\ InAcks(inbox[Sender], k, turn - 1, j)' /\ (turn - 1 <= j)'
      <3>1. Acked(k + turn - 1)'
        BY <1>9, <2>2 DEF Acked
      <3>2. InAcks(inbox[Sender], k, turn - 1, j)' /\ (turn - 1 <= j)'
        BY <1>8, <1>10, <2>2
      <3> QED BY <3>1, <3>2
    <2>4. SenderAt(k, j, s, 0)'
      BY <1>2, <1>3, <1>11, <2>1, <2>3 DEF SenderAt
    <2>5. FillingAt(k, j, s, 0)'
      BY <1>1, <1>12, <1>13, <1>15, <2>4 DEF FillingAt
    <2> QED BY <2>5 DEF Filling
  <1>17. CASE ~(turn < WindowSize)
    <2>1. pc'[Sender] = "advance"
      BY <1>11, <1>17, TheReceiver DEF CountReply, LocalInv
    <2>2. turn = WindowSize /\ j = s /\ x + 1 = k + s
      BY <1>1, <1>3, <1>4, <1>7, <1>8, <1>17
    <2>3. inbox'[Sender] = <<>>
      <3>1. Len(Tail(inbox[Sender])) = 0 /\ Tail(inbox[Sender]) \in Seq(Packet)
        BY <1>1, <1>3, <1>6, <1>8, <2>2, HeadTailSeq DEF InAcks
      <3>2. PICK t \in Seq(Packet) : t = Tail(inbox[Sender])
        BY <3>1
      <3>3. t = <<>>
        BY ONLY <3>1, <3>2, SMTT(30)
      <3> QED BY <1>10, <3>2, <3>3
    <2>4. Acked(k + s)' /\ helper' = 1 /\ k + s # 0
      BY <1>3, <1>4, <1>9, <1>11, <2>2
    <2>5. SenderAt(k + s, 0, 0, 0)'
      BY <2>1, <2>3, <2>4 DEF SenderAt
    <2>6. InFlight(dataSize', inbox'[Receiver], pending'[Receiver], k + s, 0, 0, 0)
      <3>1. InFlight(dataSize, inbox[Receiver], pending[Receiver], k, s, s, 0)
        BY <1>9, <1>10, <1>13, <2>2
      <3>2. k + s < NumSegments(dataSize)
        BY <1>1, <2>2
      <3>3. PICK q \in Seq(Packet), h \in {pending[Receiver]} : q = inbox[Receiver]
        BY <1>1
      <3>4. InFlight(dataSize, q, h, k + s, 0, 0, 0)
        BY <1>1, <3>1, <3>2, <3>3, FlightOver
      <3> QED BY <1>9, <1>10, <3>3, <3>4
    <2>7. HasStored(k + s + 0)'
      <3>1. k + s + 0 = k + j
        BY <2>2
      <3> QED BY <1>15, <3>1
    <2>8. FillingAt(k + s, 0, 0, 0)'
      <3>1. 0 <= 0 /\ 0 <= WindowSize /\ k + s + 0 < Pieces'
        BY <1>1, <1>4, <1>12, <2>2
      <3> QED BY <2>5, <2>6, <2>7, <3>1 DEF FillingAt
    <2> QED BY <2>8 DEF Filling
  <1> QED BY <1>16, <1>17

\* What a step of the sender leaves alone.
LEMMA SenderFrame ==
    ASSUME Undisturbed, TransferInv, SenderNext
    PROVE  /\ pc[Sender] \notin {"stopped", "menu", "listen", "accept"}
           /\ UNCHANGED recvVars /\ pc'[Receiver] = pc[Receiver]
           /\ pc'[Sender] \notin Before
           /\ dataSize # 0 => dataSize' = dataSize
           /\ pc[Sender] # "setup" => dataSize' = dataSize
  <1> USE DEF TransferInv
  <1>1. pc[Sender] \notin {"stopped", "menu", "listen", "accept"}
    BY DEF SenderNext, StartSend, SendThrows, NextWindow, SendSegment, ReplyDuringSend,
        FinDuringSend, CloseNext, CloseActive, ClosePassive, CloseAtOnce,
        FinAckInFinWait, AckInCloseWait, OtherInClose, TimeoutInClose
  <1>2. \/ pc' = pc /\ pc[Sender] # "setup"
        \/ \E p \in {"advance", "close", "sendWindow", "awaitAcks", "finWait", "closeWait",
                     "done"} : pc' = [pc EXCEPT ![Sender] = p]
    BY DEF SenderNext, StartSend, SendThrows, NextWindow, SendSegment, ReplyDuringSend,
        CountReply, FinDuringSend, CloseNext, CloseActive, ClosePassive, CloseAtOnce,
        FinAckInFinWait, AckInCloseWait, OtherInClose, TimeoutInClose, Closed, WaitOn
  <1>3. UNCHANGED recvVars
    BY DEF SenderNext, StartSend, SendThrows, NextWindow, SendSegment, ReplyDuringSend,
        FinDuringSend, CloseNext, CloseActive, ClosePassive, CloseAtOnce,
        FinAckInFinWait, AckInCloseWait, OtherInClose, TimeoutInClose
  <1>4. pc'[Receiver] = pc[Receiver] /\ pc'[Sender] \notin Before
    BY <1>1, <1>2, TheReceiver DEF LocalInv, Before
  <1>5. ASSUME pc[Sender] # "setup"
        PROVE  dataSize' = dataSize
    <2>1. CASE ReplyDuringSend
      BY <2>1 DEF ReplyDuringSend, handleAck, handlerVars
    <2>2. CASE NextWindow
      BY <2>2 DEF NextWindow, advanceWindow
    <2>3. CASE UNCHANGED handlerVars
      BY <2>3 DEF handlerVars
    <2> QED
      BY <1>5, <2>1, <2>2, <2>3
      DEF SenderNext, StartSend, SendThrows, SendSegment, FinDuringSend, CloseNext,
          CloseActive, ClosePassive, CloseAtOnce, FinAckInFinWait, AckInCloseWait,
          OtherInClose, TimeoutInClose
  <1>6. dataSize # 0 => pc[Sender] # "setup"
    BY DEF SenderInv
  <1> QED BY <1>1, <1>3, <1>4, <1>5, <1>6

\* The receiver keeps what it has when none of its variables changes.
LEMMA QuietHasAll ==
    ASSUME HasAll, UNCHANGED recvVars, dataSize' = dataSize
    PROVE  HasAll'
  BY DEF HasAll, Received, Pieces, Offset, recvVars

\* No FIN is on its way to a sender that waits for acknowledgments.
LEMMA NoFinYet ==
    ASSUME Undisturbed, TransferInv, HandlerInv, dataSize # 0, FinDuringSend,
           NEW k \in Nat, NEW j \in Nat, NEW s \in Nat, NEW lone \in {0, 1},
           FillingAt(k, j, s, lone)
    PROVE  FALSE
  <1> USE DEF TransferInv
  <1>1. inbox[Sender] \in Seq(Packet)
    BY FillingFacts
  <1>2. InAcks(inbox[Sender], k, turn - 1, j)
    BY DEF FinDuringSend, FillingAt, SenderAt
  <1>3. PICK p \in Returned(Sender) : IsFin(p)
    BY DEF FinDuringSend
  <1>4. inbox[Sender] # <<>> /\ p = Head(inbox[Sender]).body.segment
    BY <1>3, ReturnedToSender
  <1>5. turn - 1 \in Nat
    BY HandlerAssumption DEF LocalInv
  <1>6. IsAckOf(Head(inbox[Sender]), k + (turn - 1) + 1)
    BY <1>1, <1>2, <1>4, <1>5, AckRead
  <1> QED BY <1>3, <1>4, <1>6 DEF IsAckOf, IsFin

\* The sender's steps keep the file flowing.
LEMMA SenderFlows ==
    ASSUME Undisturbed, TransferInv, HandlerInv, dataSize # 0, FlowInv, SenderNext
    PROVE  FlowInv'
  <1> USE DEF TransferInv
  <1>1. /\ pc[Sender] # "stopped" /\ pc'[Receiver] = pc[Receiver]
        /\ UNCHANGED recvVars /\ dataSize' = dataSize
    BY SenderFrame
  <1>2. dataSize <= Capacity /\ (HasAll \/ GivenUp \/ Filling)
    BY DEF FlowInv
  <1>3. CASE HasAll
    BY <1>1, <1>2, <1>3, QuietHasAll DEF FlowInv
  <1>4. CASE GivenUp
    <2>1. GivenUp'
      BY <1>1, <1>4 DEF GivenUp, recvVars
    <2> QED BY <1>1, <1>2, <2>1 DEF FlowInv
  <1>5. CASE Filling
    <2>1. PICK k \in Nat, j \in Nat, s \in Nat, lone \in {0, 1} : FillingAt(k, j, s, lone)
      BY <1>5 DEF Filling
    <2>2. pc[Sender] \in {"advance", "sendWindow", "awaitAcks"}
      BY <1>1, <2>1, FillingFacts
    <2>3. NextWindow \/ SendSegment \/ ReplyDuringSend \/ FinDuringSend
      BY <2>2 DEF SenderNext, StartSend, SendThrows, Undisturbed, CloseNext, CloseActive,
           ClosePassive, CloseAtOnce, FinAckInFinWait, AckInCloseWait, OtherInClose,
           TimeoutInClose, Returned
    <2>4. ASSUME NextWindow
          PROVE  Filling'
      <3>1. pc[Sender] = "advance"
        BY <2>4 DEF NextWindow
      <3> QED BY <2>1, <2>4, <3>1, WindowFlows
    <2>5. Filling'
      BY <2>1, <2>3, <2>4, SegmentFlows, ReplyFlows, NoFinYet
    <2> QED BY <1>1, <1>2, <2>5 DEF FlowInv
  <1> QED BY <1>2, <1>3, <1>4, <1>5

-----------------------------------------------------------------------------
(***************************************************************************)
(* The receiver's steps.                                                   *)
(***************************************************************************)

\* The place of the sender does not change with a step of the receiver that
\* sends nothing.
LEMMA SenderStays ==
    ASSUME UNCHANGED <<handlerVars, sendVars>>, pc'[Sender] = pc[Sender],
           inbox'[Sender] = inbox[Sender],
           NEW k, NEW j, NEW s, NEW lone, SenderAt(k, j, s, lone)
    PROVE  SenderAt(k, j, s, lone)'
  <1>1. \A x : Acked(x) => Acked(x)'
    BY DEF Acked, Dropped, Offset, handlerVars, bufferVars
  <1>2. WindowFrom(k) => WindowFrom(k)'
    BY DEF WindowFrom, IsPiece, Pieces, Offset, handlerVars, bufferVars
  <1>3. Dropped' = Dropped /\ turn' = turn /\ helper' = helper
    BY DEF Dropped, handlerVars, bufferVars, sendVars
  <1>4. Acked(k + turn - 1) => Acked(k + turn - 1)'
    BY <1>1, <1>3 DEF Acked
  <1> QED BY <1>1, <1>2, <1>3, <1>4 DEF SenderAt

\* Nor does it when an acknowledgment is sent.
LEMMA SenderIsSent ==
    ASSUME UNCHANGED <<handlerVars, sendVars>>, pc'[Sender] = pc[Sender], LocalInv,
           NEW k \in Nat, NEW j \in Nat, NEW s \in Nat, NEW lone, j + 1 <= s,
           inbox[Sender] \in Seq(Packet),
           SenderAt(k, j, s, lone),
           \/ pc[Sender] = "stopped"
           \/ \E more \in Seq(Packet) : /\ Len(more) = 1 /\ IsAckOf(more[1], k + j + 1)
                                        /\ inbox'[Sender] = inbox[Sender] \o more
    PROVE  SenderAt(k, j + 1, s, lone)'
  <1>1. \A x : Acked(x) => Acked(x)'
    BY DEF Acked, Dropped, Offset, handlerVars, bufferVars
  <1>2. WindowFrom(k) => WindowFrom(k)'
    BY DEF WindowFrom, IsPiece, Pieces, Offset, handlerVars, bufferVars
  <1>3. Dropped' = Dropped /\ turn' = turn /\ helper' = helper
    BY DEF Dropped, handlerVars, bufferVars, sendVars
  <1>4. Acked(k + turn - 1) => Acked(k + turn - 1)'
    BY <1>1, <1>3 DEF Acked
  <1>5. CASE pc[Sender] = "stopped"
    BY <1>3, <1>5 DEF SenderAt
  <1>6. CASE pc[Sender] # "stopped"
    <2>1. PICK more \in Seq(Packet) : /\ Len(more) = 1 /\ IsAckOf(more[1], k + j + 1)
                                      /\ inbox'[Sender] = inbox[Sender] \o more
      BY <1>6
    <2>2. turn - 1 \in Nat
      BY HandlerAssumption DEF LocalInv
    <2>3. ASSUME NEW a \in Nat, InAcks(inbox[Sender], k, a, j)
          PROVE  InAcks(inbox'[Sender], k, a, j + 1)
      BY <2>1, <2>3, AckSent
    <2>4. CASE pc[Sender] = "sendWindow"
      <3>1. InAcks(inbox'[Sender], k, 0, j + 1)
        BY <2>3, <2>4 DEF SenderAt
      <3> QED BY <1>1, <1>2, <1>3, <2>4, <3>1 DEF SenderAt
    <2>5. CASE pc[Sender] = "awaitAcks"
      <3>1. InAcks(inbox'[Sender], k, turn - 1, j + 1) /\ turn - 1 <= j + 1
        BY <2>2, <2>3, <2>5 DEF SenderAt
      <3> QED BY <1>3, <1>4, <2>5, <3>1 DEF SenderAt
    <2>6. CASE pc[Sender] = "advance"
      BY <2>6 DEF SenderAt
    <2> QED BY <1>6, <2>4, <2>5, <2>6 DEF SenderAt
  <1> QED BY <1>5, <1>6

\* What the receiver is returned is the next piece of the file, and it fits.
LEMMA NextReturned ==
    ASSUME Undisturbed, TransferInv, HandlerInv, dataSize # 0, dataSize <= Capacity,
           NEW k \in Nat, NEW j \in Nat, NEW s \in Nat, NEW lone \in {0, 1},
           FillingAt(k, j, s, lone), NEW p \in Returned(Receiver)
    PROVE  /\ inbox[Receiver] # <<>> /\ pending[Receiver] # NoSegment
           /\ j + 1 <= s
           /\ InFlight(dataSize, Tail(inbox[Receiver]), NoSegment, k, j + 1, s, lone)
           /\ p \in Segment
           /\ p.seqNum = Offset(k + j + 1) /\ p.data = Offset(k + j + 1)
           /\ p.payloadSize = PieceSize(dataSize, k + j + 1)
           /\ Fits(Receiver, p)
  <1> USE DEF TransferInv
  <1>1. /\ Cut(dataSize) /\ NumSegments(dataSize) = Pieces /\ Pieces \in Nat \ {0}
        /\ k + j < Pieces /\ j <= s
        /\ inbox[Receiver] \in Seq(Packet) /\ pc[Receiver] = "recv"
    BY FillingFacts
  <1>2. inbox[Receiver] # <<>>
    BY DEF Returned
  <1>3. InFlight(dataSize, inbox[Receiver], pending[Receiver], k, j, s, lone)
    BY DEF FillingAt
  <1>4. k + j + 1 \in 1 .. NumSegments(dataSize)
    BY <1>1
  <1>5. /\ Offset(k + j + 1) = (k + j) * MSS /\ Offset(k + j + 1) \in UInt32
        /\ PieceSize(dataSize, k + j + 1) \in 1 .. MSS
        /\ Offset(k + j + 1) + PieceSize(dataSize, k + j + 1) <= dataSize
    <2>1. k + j + 1 - 1 = k + j
      OBVIOUS
    <2>2. /\ Offset(k + j + 1) = (k + j + 1 - 1) * MSS /\ Offset(k + j + 1) \in UInt32
          /\ PieceSize(dataSize, k + j + 1) \in 1 .. MSS
          /\ Offset(k + j + 1) + PieceSize(dataSize, k + j + 1) <= dataSize
      BY <1>1, <1>4, PiecesFit
    <2> QED BY <2>1, <2>2
  <1>6. PICK q \in Seq(Packet), h \in {pending[Receiver]} : q = inbox[Receiver]
    BY <1>1
  <1>7. pending[Receiver] # NoSegment
    <2>1. ASSUME pending[Receiver] = NoSegment
          PROVE  FALSE
      <3>1. p \in AsHeader(Head(q).body) /\ p.payloadSize = 0
        BY <1>6, <2>1 DEF Returned
      <3>2. IsHeaderOf(dataSize, Head(q), k + j + 1)
        BY <1>1, <1>2, <1>3, <1>6, <2>1, FlightHeader
      <3>3. p.payloadSize = PieceSize(dataSize, k + j + 1)
        BY <3>1, <3>2 DEF IsHeaderOf, AsHeader
      <3> QED BY <1>5, <3>1, <3>3, SegmentAssumption
    <2> QED BY <2>1
  <1>8. /\ IsPayloadOf(dataSize, Head(q), k + j + 1) /\ j + 1 <= s
        /\ InFlight(dataSize, Tail(q), NoSegment, k, j + 1, s, lone)
    BY <1>1, <1>2, <1>3, <1>6, <1>7, FlightPayload
  <1>9. /\ h.seqNum = Offset(k + j + 1)
        /\ h.payloadSize = PieceSize(dataSize, k + j + 1)
    BY <1>3, <1>6, <1>7 DEF InFlight
  <1>10. p = [h EXCEPT !.data = AsPayload(h, Head(q).body)]
    BY <1>6, <1>7 DEF Returned
  <1>11. AsPayload(h, Head(q).body) = Offset(k + j + 1)
    BY <1>8, <1>9 DEF IsPayloadOf, AsPayload
  <1>12. p \in Segment
    BY ReturnedToReceiver, TheReceiver
  <1>13. h \in Segment
    BY <1>6, TheReceiver DEF Channels
  <1>14. /\ p.seqNum = Offset(k + j + 1) /\ p.data = Offset(k + j + 1)
         /\ p.payloadSize = PieceSize(dataSize, k + j + 1)
    BY <1>9, <1>10, <1>11, <1>13 DEF Segment
  <1>15. Fits(Receiver, p)
    <2>1. length[Receiver] = Capacity /\ totalReceived[Receiver] = (k + j) * MSS
      BY DEF FillingAt, HasStored
    <2>2. PICK offset \in Nat, bytes \in Nat :
            /\ offset = Offset(k + j + 1) /\ bytes = PieceSize(dataSize, k + j + 1)
            /\ bytes > 0 /\ offset + bytes <= dataSize
      BY <1>5, SegmentAssumption DEF UInt32
    <2>3. dataSize \in Nat /\ Capacity \in Nat
      BY <1>1, TransferAssumption, SegmentAssumption DEF Cut, UInt32
    <2>4. bytes <= Capacity - offset
      BY <2>2, <2>3
    <2> QED BY <1>5, <1>14, <2>1, <2>2, <2>4 DEF Fits
  <1> QED BY <1>2, <1>6, <1>7, <1>8, <1>12, <1>14, <1>15

\* A header is read.
LEMMA HeaderFlows ==
    ASSUME Undisturbed, TransferInv, HandlerInv, dataSize # 0, AwaitPayload(Receiver),
           NEW k \in Nat, NEW j \in Nat, NEW s \in Nat, NEW lone \in {0, 1},
           FillingAt(k, j, s, lone)
    PROVE  Filling' /\ dataSize' = dataSize
  <1> USE DEF TransferInv
  <1>1. /\ Cut(dataSize) /\ NumSegments(dataSize) = Pieces /\ Pieces \in Nat \ {0}
        /\ k + j < Pieces /\ j <= s /\ s <= WindowSize
        /\ inbox[Receiver] \in Seq(Packet)
    BY FillingFacts
  <1>2. /\ pending[Receiver] = NoSegment /\ inbox[Receiver] # <<>>
        /\ inbox' = [inbox EXCEPT ![Receiver] = Tail(@)]
        /\ UNCHANGED <<handlerVars, sendVars, recvVars, pc>>
    BY DEF AwaitPayload, TakeHeader, Announced
  <1>3. PICK h \in AsHeader(Head(inbox[Receiver]).body) :
          pending' = [pending EXCEPT ![Receiver] = h]
    BY <1>2 DEF AwaitPayload, Announced
  <1>4. /\ inbox'[Receiver] = Tail(inbox[Receiver]) /\ inbox'[Sender] = inbox[Sender]
        /\ pending'[Receiver] = h
    BY <1>2, <1>3, TheReceiver DEF Channels, QueuesOK
  <1>5. PICK q \in Seq(Packet) : q = inbox[Receiver]
    BY <1>1
  <1>6. /\ IsHeaderOf(dataSize, Head(q), k + j + 1)
        /\ InFlight(dataSize, Tail(q), Head(q).body.segment, k, j, s, lone)
    <2>1. InFlight(dataSize, q, NoSegment, k, j, s, lone)
      BY <1>2, <1>5 DEF FillingAt
    <2>2. q # <<>>
      BY <1>2, <1>5
    <2> QED BY ONLY <1>1, <2>1, <2>2, FlightHeader, q \in Seq(Packet), SMTT(30), ZenonT(30),
                    k \in Nat, j \in Nat, s \in Nat, lone \in {0, 1}
  <1>7. h = Head(q).body.segment
    BY <1>3, <1>5, <1>6 DEF IsHeaderOf, AsHeader
  <1>8. dataSize' = dataSize /\ Pieces' = Pieces
    BY <1>2 DEF handlerVars, Pieces
  <1>9. InFlight(dataSize', inbox'[Receiver], pending'[Receiver], k, j, s, lone)
    BY <1>4, <1>5, <1>6, <1>7, <1>8
  <1>10. SenderAt(k, j, s, lone)'
    BY <1>2, <1>4, SenderStays DEF FillingAt
  <1>11. HasStored(k + j)'
    BY <1>2 DEF FillingAt, HasStored, recvVars, Offset
  <1>12. FillingAt(k, j, s, lone)'
    BY <1>1, <1>8, <1>9, <1>10, <1>11 DEF FillingAt
  <1> QED BY <1>8, <1>12 DEF Filling

\* The acknowledgment of a stored segment is sent behind those of the earlier
\* ones, unless the sender was stopped.
LEMMA AckFlows ==
    ASSUME Undisturbed, TransferInv, pc[Receiver] = "recv", NEW p \in Segment,
           inbox[Receiver] # <<>>, NEW k \in Nat, NEW j \in Nat, p.seqNum = Offset(k + j + 1),
           NEW result \in SendResults(AckOf(p)), Answer(Receiver, result.wire)
    PROVE  /\ inbox'[Receiver] = Tail(inbox[Receiver])
           /\ pending'[Receiver] = NoSegment
           /\ \/ Deaf(Sender) /\ inbox'[Sender] = inbox[Sender]
              \/ \E more \in Seq(Packet) : /\ Len(more) = 1
                                           /\ IsAckOf(more[1], k + j + 1)
                                           /\ inbox'[Sender] = inbox[Sender] \o more
  <1> USE DEF TransferInv
  <1>1. QueuesOK(inbox) /\ Receiver \in Node /\ Sender \in Node /\ Receiver # Sender
    BY TheReceiver DEF Channels
  <1>2. PICK queues : queues = [inbox EXCEPT ![Receiver] = Tail(@)]
    OBVIOUS
  <1>3. QueuesOK(queues)
    BY <1>1, <1>2, TailChannels
  <1>4. /\ queues[Receiver] = Tail(inbox[Receiver]) /\ queues[Sender] = inbox[Sender]
    BY <1>1, <1>2 DEF QueuesOK
  <1>5. peerAddr[Receiver] = Sender
    BY TheReceiver DEF Channels
  <1>6. PICK wire : wire = Wire(AckOf(p))
    OBVIOUS
  <1>7. result.wire = wire
    <2>1. SendResults(AckOf(p)) = {[wire |-> Wire(AckOf(p)), ok |-> TRUE]}
      BY NothingFails
    <2> QED BY <1>6, <2>1
  <1>8. inbox' = Sent(queues, Receiver, Sender, wire)
    BY <1>2, <1>5, <1>7 DEF Answer, AnswerTo, PeerAfterReceive
  <1>9. pending'[Receiver] = NoSegment
    BY <1>1 DEF Answer, AnswerTo, Channels
  <1>10. wire = <<Header(AckOf(p))>> /\ wire \in Seq(Datagram)
    BY <1>6, AcksTyped, ControlWire, WireTyped
  <1>11. CASE Deaf(Sender)
    <2>1. inbox' = queues
      BY <1>8, <1>11 DEF Sent
    <2> QED BY <1>4, <1>9, <1>11, <2>1
  <1>12. CASE ~Deaf(Sender)
    <2>1. PICK more \in Seq(Packet) : more = PacketsOf(Receiver, wire)
      BY <1>1, <1>10, PacketsTyped
    <2>2. inbox'[Sender] = inbox[Sender] \o more /\ inbox'[Receiver] = Tail(inbox[Receiver])
      <3>1. /\ Sent(queues, Receiver, Sender, wire)[Sender]
                 = queues[Sender] \o PacketsOf(Receiver, wire)
            /\ \A q \in Node \ {Sender} : Sent(queues, Receiver, Sender, wire)[q] = queues[q]
        <4>1. wire \in Seq(Datagram)
          BY <1>10
        <4> QED BY ONLY <1>1, <1>3, <1>12, <4>1, SentBehind
      <3> QED BY <1>1, <1>4, <1>8, <2>1, <3>1
    <2>3. Len(more) = 1 /\ more[1].body = Header(AckOf(p))
      <3>1. Len(wire) = 1 /\ 1 \in 1 .. Len(wire) /\ wire[1] = Header(AckOf(p))
        BY <1>10
      <3> QED BY <1>1, <1>10, <2>1, <3>1, PacketsTyped
    <2>4. /\ Header(AckOf(p)).kind = "header"
          /\ Header(AckOf(p)).segment.flags = {"ack"}
          /\ Header(AckOf(p)).segment.ackNum = Offset(k + j + 1)
          /\ Header(AckOf(p)).segment.payloadSize = 0
      BY DEF Header, AckOf, ack, ControlSegment
    <2>5. IsAckOf(more[1], k + j + 1)
      BY <2>3, <2>4 DEF IsAckOf
    <2> QED BY <1>9, <2>2, <2>3, <2>5
  <1> QED BY <1>11, <1>12

\* The receiver has nothing but what its first call of recv has stored.
LEMMA StoredSoFar ==
    ASSUME Undisturbed, LocalInv, NEW m, HasStored(m)
    PROVE  Received(Receiver) = buffer[Receiver] /\ buffer[Receiver] \in Seq(Chunk)
  <1>1. buffer[Receiver] \in Seq(Chunk) /\ totalBuffer[Receiver] = <<>>
    BY TheReceiver DEF LocalInv, HasStored
  <1>2. PICK chunks \in Seq(Chunk) : chunks = buffer[Receiver]
    BY <1>1
  <1>3. <<>> \o chunks = chunks
    OBVIOUS
  <1> QED BY <1>1, <1>2, <1>3 DEF Received

\* One more piece behind the first m.
LEMMA OnePieceMore ==
    ASSUME NEW chunks \in Seq(Chunk), NEW chunk \in Chunk, NEW m \in Nat, Len(chunks) = m,
           \A i \in 1 .. m : chunks[i].data = Offset(i), chunk.data = Offset(m + 1)
    PROVE  /\ Len(chunks \o <<chunk>>) = m + 1
           /\ \A i \in 1 .. m + 1 : (chunks \o <<chunk>>)[i].data = Offset(i)
  <1>1. PICK more : more = chunks \o <<chunk>>
    OBVIOUS
  <1>2. Len(more) = m + 1 /\ more[m + 1] = chunk /\ \A i \in 1 .. m : more[i] = chunks[i]
    BY <1>1
  <1>3. \A i \in 1 .. m + 1 : i = m + 1 \/ i \in 1 .. m
    OBVIOUS
  <1> QED BY <1>1, <1>2, <1>3

\* A piece is stored.
LEMMA StoreFlows ==
    ASSUME Undisturbed, TransferInv, HandlerInv, dataSize # 0, dataSize <= Capacity,
           StoreSegment(Receiver), pc'[Sender] = pc[Sender],
           NEW k \in Nat, NEW j \in Nat, NEW s \in Nat, NEW lone \in {0, 1},
           FillingAt(k, j, s, lone)
    PROVE  HasAll' \/ Filling'
  <1> USE DEF TransferInv
  <1>1. /\ Cut(dataSize) /\ NumSegments(dataSize) = Pieces /\ Pieces \in Nat \ {0}
        /\ k + j < Pieces /\ j <= s /\ s <= WindowSize
        /\ inbox[Sender] \in Seq(Packet) /\ pc[Receiver] = "recv"
        /\ pc[Sender] \in {"advance", "sendWindow", "awaitAcks", "stopped"}
    BY FillingFacts
  <1>2. PICK p \in Returned(Receiver) :
          /\ ChunkOf(p) \in Chunk
          /\ \E result \in SendResults(AckOf(p)) : Answer(Receiver, result.wire)
          /\ Received(Receiver)' = Received(Receiver) \o <<ChunkOf(p)>>
          /\ IF p.payloadSize < MSS
             THEN RecvReturns(Receiver, buffer[Receiver] \o <<ChunkOf(p)>>,
                              totalReceived[Receiver] + p.payloadSize)
             ELSE /\ buffer' = [buffer EXCEPT ![Receiver] = buffer[Receiver] \o <<ChunkOf(p)>>]
                  /\ totalReceived' = [totalReceived EXCEPT
                                         ![Receiver] = totalReceived[Receiver] + p.payloadSize]
                  /\ UNCHANGED <<pc, length, totalBuffer, saved>>
    BY StoresOne, TheReceiver
  <1>3. /\ inbox[Receiver] # <<>> /\ j + 1 <= s
        /\ InFlight(dataSize, Tail(inbox[Receiver]), NoSegment, k, j + 1, s, lone)
        /\ p \in Segment
        /\ p.seqNum = Offset(k + j + 1) /\ p.data = Offset(k + j + 1)
        /\ p.payloadSize = PieceSize(dataSize, k + j + 1)
    BY NextReturned
  <1>4. PICK result \in SendResults(AckOf(p)) : Answer(Receiver, result.wire)
    BY <1>2
  <1>5. /\ inbox'[Receiver] = Tail(inbox[Receiver]) /\ pending'[Receiver] = NoSegment
        /\ \/ pc[Sender] = "stopped"
           \/ \E more \in Seq(Packet) : /\ Len(more) = 1 /\ IsAckOf(more[1], k + j + 1)
                                        /\ inbox'[Sender] = inbox[Sender] \o more
    <2>1. Deaf(Sender) => pc[Sender] = "stopped"
      BY <1>1 DEF Deaf
    <2> QED BY <1>1, <1>3, <1>4, <2>1, AckFlows
  <1>6. UNCHANGED <<handlerVars, sendVars>> /\ dataSize' = dataSize /\ Pieces' = Pieces
    BY DEF StoreSegment, handlerVars, Pieces
  <1>7. HasStored(k + j)
    BY DEF FillingAt
  <1>8. Received(Receiver) = buffer[Receiver] /\ buffer[Receiver] \in Seq(Chunk)
    BY <1>7, StoredSoFar
  <1>9. PICK m \in Nat, chunks \in Seq(Chunk) : m = k + j /\ chunks = buffer[Receiver]
    BY <1>8
  <1>10. PICK more : more = chunks \o <<ChunkOf(p)>>
    OBVIOUS
  <1>11. m = k + j /\ chunks = buffer[Receiver] /\ more = chunks \o <<ChunkOf(p)>>
    BY <1>9, <1>10
  <1>12. ChunkOf(p).data = Offset(m + 1)
    BY <1>3, <1>11 DEF ChunkOf
  <1>13. /\ Len(more) = m + 1 /\ \A i \in 1 .. m + 1 : more[i].data = Offset(i)
    <2>1. Len(chunks) = m /\ \A i \in 1 .. m : chunks[i].data = Offset(i)
      BY <1>7, <1>11 DEF HasStored
    <2> QED BY <1>2, <1>11, <1>12, <2>1, OnePieceMore
  <1>14. Received(Receiver)' = more
    BY <1>2, <1>8, <1>11
  <1>15. CASE m + 1 = Pieces
    <2>1. Len(more) >= Pieces' /\ \A i \in 1 .. Pieces' : more[i].data = Offset(i)
      BY <1>1, <1>6, <1>13, <1>15
    <2> QED BY <1>14, <2>1 DEF HasAll, Offset
  <1>16. CASE m + 1 < Pieces
    <2>1. m + 1 \in 1 .. NumSegments(dataSize) /\ m + 1 < NumSegments(dataSize)
      BY <1>1, <1>16
    <2>2. p.payloadSize = MSS
      BY <1>1, <1>3, <1>11, <2>1, PiecesFit
    <2>3. ~(p.payloadSize < MSS)
      BY <2>2, SegmentAssumption
    <2>4. /\ buffer' = [buffer EXCEPT ![Receiver] = more]
          /\ totalReceived' = [totalReceived EXCEPT ![Receiver] = totalReceived[Receiver] + MSS]
          /\ UNCHANGED <<pc, length, totalBuffer, saved>>
      BY <1>2, <1>11, <2>2, <2>3
    <2>5. buffer'[Receiver] = more /\ totalReceived'[Receiver] = totalReceived[Receiver] + MSS
      BY <2>4, TheReceiver DEF LocalInv
    <2>6. totalReceived'[Receiver] = (m + 1) * MSS
      <3>1. totalReceived[Receiver] = m * MSS /\ MSS \in Nat
        BY <1>7, <1>11, SegmentAssumption DEF HasStored
      <3>2. m * MSS + MSS = (m + 1) * MSS
        BY <3>1
      <3> QED BY <2>5, <3>1, <3>2
    <2>7. k + (j + 1) = m + 1
      BY <1>11
    <2>8. HasStored(m + 1)'
      <3>1. \A i \in 1 .. m + 1 : buffer'[Receiver][i].data = Offset(i)
        BY <1>13, <2>5
      <3> QED BY <1>7, <1>13, <2>4, <2>5, <2>6, <3>1 DEF HasStored, Offset
    <2>9. SenderAt(k, j + 1, s, lone)'
      BY <1>1, <1>3, <1>5, <1>6, SenderIsSent DEF FillingAt
    <2>10. InFlight(dataSize', inbox'[Receiver], pending'[Receiver], k, j + 1, s, lone)
      BY <1>3, <1>5, <1>6
    <2>11. FillingAt(k, j + 1, s, lone)'
      <3>1. k + (j + 1) < Pieces'
        BY <1>6, <1>16, <2>7
      <3>2. HasStored(k + (j + 1))'
        BY <2>7, <2>8
      <3> QED BY <1>1, <1>3, <2>9, <2>10, <3>1, <3>2 DEF FillingAt
    <2> QED BY <2>11 DEF Filling
  <1>17. m + 1 = Pieces \/ m + 1 < Pieces
    BY <1>1, <1>11
  <1> QED BY <1>15, <1>16, <1>17

\* The payload of a header does not come: the sender was stopped between the two.
\* What was received is short of a segment only when it is nothing.
LEMMA TimeoutGivesUp ==
    ASSUME Undisturbed, TransferInv, HandlerInv, dataSize # 0,
           TimeoutDuringRecv(Receiver), pc'[Sender] = pc[Sender],
           NEW k \in Nat, NEW j \in Nat, NEW s \in Nat, NEW lone \in {0, 1},
           FillingAt(k, j, s, lone)
    PROVE  GivenUp' /\ dataSize' = dataSize
  <1> USE DEF TransferInv
  <1>1. /\ Cut(dataSize) /\ NumSegments(dataSize) = Pieces /\ k + j < Pieces /\ j <= s
        /\ pc[Receiver] = "recv"
    BY FillingFacts
  <1>2. /\ pending[Receiver] # NoSegment /\ inbox[Receiver] = <<>>
        /\ pending' = [pending EXCEPT ![Receiver] = NoSegment]
        /\ UNCHANGED <<handlerVars, inbox>>
        /\ RecvReturns(Receiver, buffer[Receiver], totalReceived[Receiver])
    BY DEF TimeoutDuringRecv, PayloadTimeout, Undisturbed
  <1>3. lone = 1
    <2>1. PICK h : h = pending[Receiver]
      OBVIOUS
    <2>2. InFlight(dataSize, <<>>, h, k, j, s, lone)
      BY <1>2, <2>1 DEF FillingAt
    <2> QED BY <1>1, <1>2, <2>1, <2>2, FlightEnds
  <1>4. pc'[Sender] = "stopped"
    BY <1>3 DEF FillingAt, SenderAt
  <1>5. ~saved'[Receiver]
    <2>1. /\ totalBuffer[Receiver] = <<>> /\ Len(buffer[Receiver]) = k + j
          /\ totalReceived[Receiver] = (k + j) * MSS
      BY DEF FillingAt, HasStored
    <2>2. PICK m \in Nat, chunks \in Seq(Chunk), all \in {totalBuffer[Receiver] \o buffer[Receiver]} :
            m = k + j /\ chunks = buffer[Receiver] /\ all = totalBuffer[Receiver] \o chunks
      BY TheReceiver DEF LocalInv
    <2>3. all = chunks /\ Len(chunks) = m
      BY <2>1, <2>2
    <2>4. saved'[Receiver] => HasMetadata(all) /\ m * MSS < MSS
      <3>1. PICK thrown \in BOOLEAN, written \in BOOLEAN :
              saved' = [saved EXCEPT ![Receiver] =
                          HasMetadata(all) /\ m * MSS < MSS /\ ~thrown /\ written]
        BY <1>2, <2>1, <2>2 DEF RecvReturns, Outcomes
      <3> QED BY <3>1, TheReceiver DEF LocalInv
    <2>5. m * MSS < MSS => m = 0
      <3>1. MSS \in Nat /\ MSS > 0
        BY SegmentAssumption
      <3>2. m >= 1 => m * MSS >= MSS
        BY <3>1
      <3> QED BY <3>1, <3>2
    <2>6. HasMetadata(all) => m # 0
      BY <2>3 DEF HasMetadata
    <2> QED BY <2>4, <2>5, <2>6
  <1>6. pending'[Receiver] = NoSegment /\ inbox'[Receiver] = <<>> /\ dataSize' = dataSize
    BY <1>2, TheReceiver DEF Channels, handlerVars
  <1> QED BY <1>4, <1>5, <1>6 DEF GivenUp

\* A receiver to which nothing more comes only closes.
LEMMA GivenUpCloses ==
    ASSUME Undisturbed, TransferInv, GivenUp, ReceiverNext(Receiver),
           pc'[Sender] = pc[Sender]
    PROVE  GivenUp'
  <1> USE DEF TransferInv
  <1>1. pc[Receiver] # "stopped"
    BY DEF ReceiverNext, AwaitPayload, PayloadThrows, TakeHeader, Waiting, RecvThrows,
        StoreSegment, FinDuringRecv, IgnoreDuringRecv, TimeoutDuringRecv, CloseNext,
        CloseActive, ClosePassive, CloseAtOnce, FinAckInFinWait, AckInCloseWait,
        OtherInClose, TimeoutInClose
  <1>2. /\ ~saved[Receiver] /\ pc[Sender] = "stopped"
        /\ inbox[Receiver] = <<>> /\ pending[Receiver] = NoSegment
    BY <1>1 DEF GivenUp
  <1>3. Returned(Receiver) = {} /\ Announced(Receiver) = {} /\ ~PayloadTimeout(Receiver)
    BY <1>2 DEF Returned, Announced, PayloadTimeout
  <1>4. CloseActive(Receiver) \/ ClosePassive(Receiver) \/ CloseAtOnce(Receiver)
    BY <1>3 DEF ReceiverNext, AwaitPayload, PayloadThrows, TakeHeader, RecvThrows, Undisturbed,
        StoreSegment, FinDuringRecv, IgnoreDuringRecv, TimeoutDuringRecv, CloseNext,
        FinAckInFinWait, AckInCloseWait, OtherInClose, TimeoutInClose
  <1>5. UNCHANGED <<recvVars, pending>>
    BY <1>4 DEF CloseActive, Post, ClosePassive, CloseAtOnce
  <1>6. inbox' = inbox
    <2>1. ASSUME CloseActive(Receiver)
          PROVE  inbox' = inbox
      <3>1. peerAddr[Receiver] = Sender /\ Deaf(Sender)
        BY <1>2, <2>1, TheReceiver DEF Channels, Deaf, CloseActive
      <3> QED BY <2>1, <3>1 DEF CloseActive, Post, Sent
    <2> QED BY <1>4, <2>1 DEF ClosePassive, CloseAtOnce
  <1> QED BY <1>2, <1>5, <1>6 DEF GivenUp, recvVars

\* The receiver's steps keep the file flowing, or it has all of it.
LEMMA ReceiverFlows ==
    ASSUME Undisturbed, TransferInv, HandlerInv, dataSize # 0, FlowInv,
           ReceiverNext(Receiver)
    PROVE  FlowInv'
  <1> USE DEF TransferInv
  <1>1. pc'[Sender] = pc[Sender]
    BY ReceiverApart, TheReceiver
  <1>2. dataSize' = dataSize
    BY DEF ReceiverNext, AwaitPayload, PayloadThrows, TakeHeader, RecvThrows, StoreSegment,
        FinDuringRecv, IgnoreDuringRecv, TimeoutDuringRecv, CloseNext, CloseActive,
        ClosePassive, CloseAtOnce, FinAckInFinWait, AckInCloseWait, OtherInClose,
        TimeoutInClose, handlerVars
  <1>3. dataSize <= Capacity /\ (HasAll \/ GivenUp \/ Filling)
    BY DEF FlowInv
  <1>4. CASE HasAll
    <2>1. PICK extra \in Seq(Chunk) : Received(Receiver)' = Received(Receiver) \o extra
      BY ReceiverCollects, TheReceiver
    <2>2. Pieces \in Nat
      <3>1. dataSize + MSS - 1 \in Nat /\ U32 \in Nat \ {0} /\ MSS \in Nat \ {0}
        BY SegmentAssumption DEF HandlerInv, HandlerTypeOK, UInt32
      <3>2. (dataSize + MSS - 1) % U32 \in Nat
        BY <3>1
      <3> QED BY <3>1, <3>2 DEF Pieces, NumSegments
    <2>3. HasAll'
      BY <1>2, <1>4, <2>1, <2>2, HasAllKept
    <2> QED BY <1>2, <1>3, <2>3 DEF FlowInv
  <1>5. CASE GivenUp
    <2>1. GivenUp'
      BY <1>1, <1>5, GivenUpCloses
    <2> QED BY <1>2, <1>3, <2>1 DEF FlowInv
  <1>6. CASE Filling
    <2>1. PICK k \in Nat, j \in Nat, s \in Nat, lone \in {0, 1} : FillingAt(k, j, s, lone)
      BY <1>6 DEF Filling
    <2>2. pc[Receiver] = "recv"
      BY <2>1, FillingFacts
    <2>3. \A p \in Returned(Receiver) : Fits(Receiver, p)
      BY <1>3, <2>1, NextReturned
    <2>4. AwaitPayload(Receiver) \/ StoreSegment(Receiver) \/ TimeoutDuringRecv(Receiver)
      BY <2>2, <2>3 DEF ReceiverNext, PayloadThrows, RecvThrows, Undisturbed, FinDuringRecv,
           IgnoreDuringRecv, CloseNext, CloseActive, ClosePassive, CloseAtOnce,
           FinAckInFinWait, AckInCloseWait, OtherInClose, TimeoutInClose
    <2>5. HasAll' \/ GivenUp' \/ Filling'
      <3>1. ASSUME AwaitPayload(Receiver)
            PROVE  Filling'
        BY <2>1, <3>1, HeaderFlows
      <3>2. ASSUME StoreSegment(Receiver)
            PROVE  HasAll' \/ Filling'
        BY <1>1, <1>3, <2>1, <3>2, StoreFlows
      <3>3. ASSUME TimeoutDuringRecv(Receiver)
            PROVE  GivenUp'
        BY <1>1, <2>1, <3>3, TimeoutGivesUp
      <3> QED BY <2>4, <3>1, <3>2, <3>3
    <2> QED BY <1>2, <1>3, <2>5 DEF FlowInv
  <1> QED BY <1>3, <1>4, <1>5, <1>6

-----------------------------------------------------------------------------
(***************************************************************************)
(* Processes that are stopped.                                             *)
(***************************************************************************)

\* The network does nothing by itself.
LEMMA OnlyStops ==
    ASSUME Undisturbed, TransferInv, OutsideNext
    PROVE  Stop(Sender) \/ Stop(Receiver)
  <1>1. faults = 0 /\ MaxFaults = 0
    BY DEF TransferInv, LocalInv, Undisturbed
  <1>2. \A n, queue : ~Fault(n, queue)
    BY <1>1 DEF Fault
  <1> QED BY <1>2, TheReceiver DEF OutsideNext, Lose, Duplicate, Reorder

\* What becomes of the queue when the sender is stopped within a segment: there is a
\* datagram more or there is none, and perhaps a header without its payload.
CutShort(k, j, s) ==
  \E more \in Seq(Packet), cut \in {0, 1} :
    /\ inbox'[Receiver] = inbox[Receiver] \o more
    /\ InFlight(dataSize, inbox[Receiver] \o more, pending[Receiver], k, j, s, cut)

\* The sender is stopped before the first datagram of a segment or behind it.
LEMMA StoppedBetween ==
    ASSUME Undisturbed, TransferInv, HandlerInv, dataSize # 0, pc[Sender] = "sendWindow",
           Stop(Sender),
           NEW k \in Nat, NEW j \in Nat, NEW s \in Nat, NEW lone \in {0, 1},
           FillingAt(k, j, s, lone)
    PROVE  CutShort(k, j, s)
  <1> USE DEF TransferInv
  <1>1. /\ Cut(dataSize) /\ NumSegments(dataSize) = Pieces /\ Pieces \in Nat \ {0}
        /\ k + j < Pieces /\ j <= s /\ QueuesOK(inbox) /\ inbox[Receiver] \in Seq(Packet)
    BY FillingFacts
  <1>2. /\ Outgoing \in Segment /\ lone = 0 /\ peerAddr[Sender] = Receiver /\ ~Deaf(Receiver)
        /\ k + s + 1 <= Pieces =>
             /\ Outgoing.seqNum = Offset(k + s + 1) /\ Outgoing.data = Offset(k + s + 1)
             /\ Outgoing.payloadSize = PieceSize(dataSize, k + s + 1)
    BY OutgoingPiece, ZenonT(30)
  <1>3. PICK queues : queues = [inbox EXCEPT ![Sender] = <<>>]
    BY ONLY TheReceiver
  <1>4. PICK wire \in PartialWire(Outgoing) : inbox' = Sent(queues, Sender, Receiver, wire)
    BY <1>2, <1>3 DEF Stop
  <1>5. wire \in Seq(Datagram)
    BY <1>2, WireTyped
  <1>6. QueuesOK(queues) /\ queues[Receiver] = inbox[Receiver]
    <2>1. <<>> \in Seq(Packet) /\ <<>> \in Seq(Expected(Sender))
      OBVIOUS
    <2>2. QueuesOK(queues)
      BY <1>1, <1>3, <2>1, TheReceiver, ReplacedChannels
    <2> QED BY <1>1, <1>3, <2>2, TheReceiver DEF QueuesOK
  <1>7. PICK more \in Seq(Packet) : more = PacketsOf(Sender, wire)
    BY <1>5, PacketsTyped, Nodes
  <1>8. Sent(queues, Sender, Receiver, wire)[Receiver] = inbox[Receiver] \o more
    <2>1. Sender \in Node /\ Receiver \in Node
      BY TheReceiver
    <2>2. Sent(queues, Sender, Receiver, wire)[Receiver]
             = queues[Receiver] \o PacketsOf(Sender, wire)
      <3>1. ~Deaf(Receiver) /\ QueuesOK(queues)
        BY <1>2, <1>6
      <3> QED BY ONLY <1>5, <2>1, <3>1, SentBehind
    <2> QED BY <1>6, <1>7, <2>2
  <1>9. ASSUME k + s < NumSegments(dataSize), more # <<>>
        PROVE  Len(more) = 1 /\ IsHeaderOf(dataSize, more[1], k + s + 1)
    <2>1. k + s + 1 \in 1 .. NumSegments(dataSize) /\ k + s + 1 <= Pieces
      BY <1>1, <1>9
    <2>2. /\ IsHeaderOf(dataSize, PacketsOf(Sender, Wire(Outgoing))[1], k + s + 1)
          /\ PartialWire(Outgoing) = {<<>>, <<Header(Outgoing)>>}
          /\ Len(PacketsOf(Sender, Wire(Outgoing))) = 2
          /\ Wire(Outgoing) \in Seq(Datagram)
      BY <1>1, <1>2, <2>1, PieceWire
    <2>3. wire # <<>>
      BY <1>7, <1>9 DEF PacketsOf
    <2>4. wire = <<Header(Outgoing)>> /\ Len(wire) = 1 /\ wire[1] = Header(Outgoing)
      BY <2>2, <2>3
    <2>5. Len(more) = 1 /\ more[1].body = Header(Outgoing)
      <3>1. 1 \in 1 .. Len(wire)
        BY <2>4
      <3>2. /\ Len(more) = Len(wire)
            /\ \A i \in 1 .. Len(wire) : more[i].body = wire[i]
        <4>1. Sender \in Node
          BY TheReceiver
        <4> QED BY ONLY <1>5, <1>7, <4>1, PacketsTyped
      <3> QED BY ONLY <2>4, <3>1, <3>2
    <2>6. PacketsOf(Sender, Wire(Outgoing))[1].body = Header(Outgoing)
      <3>1. Len(Wire(Outgoing)) = 2 /\ 1 \in 1 .. Len(Wire(Outgoing))
            /\ PacketsOf(Sender, Wire(Outgoing))[1].body = Wire(Outgoing)[1]
        <4>1. Len(Wire(Outgoing)) = 2
          BY <2>2, PacketsTyped, Nodes
        <4>2. 1 \in 1 .. Len(Wire(Outgoing))
          BY <4>1
        <4> QED BY <2>2, <4>1, <4>2, PacketsTyped, Nodes
      <3>2. Wire(Outgoing)[1] = Header(Outgoing)
        BY DEF Wire
      <3> QED BY <3>1, <3>2
    <2> QED BY <2>2, <2>5, <2>6 DEF IsHeaderOf
  <1>10. PICK q \in Seq(Packet), h \in {pending[Receiver]} : q = inbox[Receiver]
    BY <1>1
  <1>11. \E cut \in {0, 1} : InFlight(dataSize, q \o more, h, k, j, s, cut)
    <2>1. InFlight(dataSize, q, h, k, j, s, 0)
      BY <1>2, <1>10 DEF FillingAt
    <2> QED BY <1>1, <1>9, <2>1, FlightStops
  <1> QED BY <1>8, <1>10, <1>11, <1>4 DEF CutShort

\* The sender is stopped while it sends.
LEMMA SenderStopped ==
    ASSUME Undisturbed, TransferInv, HandlerInv, dataSize # 0, Stop(Sender),
           NEW k \in Nat, NEW j \in Nat, NEW s \in Nat, NEW lone \in {0, 1},
           FillingAt(k, j, s, lone)
    PROVE  Filling'
  <1>1. ASSUME pc[Sender] = "sendWindow"
        PROVE  CutShort(k, j, s)
    BY <1>1, StoppedBetween
  <1> USE DEF TransferInv
  <1>2. /\ k + j < Pieces /\ j <= s /\ s <= WindowSize /\ QueuesOK(inbox)
        /\ inbox[Receiver] \in Seq(Packet)
        /\ pc[Sender] \in {"advance", "sendWindow", "awaitAcks", "stopped"}
    BY FillingFacts
  <1>3. /\ pc' = [pc EXCEPT ![Sender] = "stopped"] /\ pc[Sender] # "stopped"
        /\ pending' = [pending EXCEPT ![Sender] = NoSegment]
        /\ UNCHANGED <<handlerVars, sendVars, recvVars>>
    BY DEF Stop
  <1>4. /\ pc'[Sender] = "stopped" /\ pc'[Receiver] = pc[Receiver]
        /\ pending'[Receiver] = pending[Receiver]
    BY <1>3, TheReceiver DEF LocalInv, Channels
  <1>5. dataSize' = dataSize /\ Pieces' = Pieces /\ Dropped' = Dropped
    BY <1>3 DEF handlerVars, bufferVars, Pieces, Dropped
  <1>6. k <= Dropped + 1
    <2>1. turn \in Nat \ {0}
      BY HandlerAssumption DEF LocalInv
    <2>2. Acked(k) \/ Acked(k + turn - 1)
      BY <1>2, <1>3 DEF FillingAt, SenderAt
    <2> QED BY <2>1, <2>2 DEF Acked
  <1>7. \E cut \in {0, 1} :
          InFlight(dataSize, inbox'[Receiver], pending[Receiver], k, j, s, cut)
    <2>1. CASE pc[Sender] = "sendWindow"
      <3>1. PICK more \in Seq(Packet), cut \in {0, 1} :
              /\ inbox'[Receiver] = inbox[Receiver] \o more
              /\ InFlight(dataSize, inbox[Receiver] \o more, pending[Receiver], k, j, s, cut)
        BY <1>1, <2>1 DEF CutShort
      <3> QED BY <3>1
    <2>2. CASE pc[Sender] # "sendWindow"
      <3>1. inbox' = [inbox EXCEPT ![Sender] = <<>>]
        BY <2>2 DEF Stop, Sent
      <3>2. inbox'[Receiver] = inbox[Receiver]
        BY <1>2, <3>1, TheReceiver DEF QueuesOK
      <3> QED BY <3>2 DEF FillingAt
    <2> QED BY <2>1, <2>2
  <1>8. PICK cut \in {0, 1} :
          InFlight(dataSize', inbox'[Receiver], pending'[Receiver], k, j, s, cut)
    BY <1>4, <1>5, <1>7
  <1>9. HasStored(k + j)'
    BY <1>3, <1>4 DEF FillingAt, HasStored, recvVars, Offset
  <1>10. SenderAt(k, j, s, cut)'
    BY <1>4, <1>5, <1>6 DEF SenderAt
  <1>11. FillingAt(k, j, s, cut)'
    BY <1>2, <1>5, <1>8, <1>9, <1>10 DEF FillingAt
  <1> QED BY <1>11 DEF Filling

\* Whoever is stopped, what is saved stays what it is.
LEMMA StopFlows ==
    ASSUME Undisturbed, TransferInv, HandlerInv, dataSize # 0, FlowInv, OutsideNext
    PROVE  FlowInv'
  <1> USE DEF TransferInv
  <1>1. dataSize <= Capacity /\ (HasAll \/ GivenUp \/ Filling)
    BY DEF FlowInv
  <1>2. PICK n \in {Sender, Receiver} : Stop(n)
    BY OnlyStops
  <1>3. UNCHANGED recvVars /\ dataSize' = dataSize
    BY <1>2 DEF Stop, handlerVars
  <1>4. CASE HasAll
    BY <1>1, <1>3, <1>4, QuietHasAll DEF FlowInv
  <1>5. CASE Stop(Receiver) /\ ~saved[Receiver]
    <2>1. pc'[Receiver] = "stopped"
      BY <1>5, TheReceiver DEF Stop, LocalInv
    <2>2. GivenUp'
      BY <1>3, <1>5, <2>1 DEF GivenUp, recvVars
    <2> QED BY <1>1, <1>3, <2>2 DEF FlowInv
  <1>6. CASE Stop(Sender) /\ GivenUp
    <2>1. pc[Receiver] = "stopped" /\ pc'[Receiver] = pc[Receiver]
      BY <1>6, TheReceiver DEF Stop, LocalInv, GivenUp
    <2>2. GivenUp'
      BY <1>3, <1>6, <2>1 DEF GivenUp, recvVars
    <2> QED BY <1>1, <1>3, <2>2 DEF FlowInv
  <1>7. CASE Stop(Sender) /\ Filling
    <2>1. PICK k \in Nat, j \in Nat, s \in Nat, lone \in {0, 1} : FillingAt(k, j, s, lone)
      BY <1>7 DEF Filling
    <2>2. Filling'
      BY <1>7, <2>1, SenderStopped
    <2> QED BY <1>1, <1>3, <2>2 DEF FlowInv
  <1>8. GivenUp \/ Filling => ~saved[Receiver]
    BY DEF GivenUp, Filling, FillingAt, HasStored
  <1> QED BY <1>1, <1>2, <1>4, <1>5, <1>6, <1>7, <1>8

-----------------------------------------------------------------------------
(***************************************************************************)
(* The handshake, before there is any data.                                *)
(***************************************************************************)

\* What of Opened stays by itself.
LEMMA OpenedStays ==
    ASSUME Opened, UNCHANGED <<recvVars, sendVars>>, pending'[Receiver] = NoSegment,
           pc'[Receiver] \in {"menu", "awaitSynAck", "recv", "done", "stopped"},
           pc'[Receiver] = "recv" => pc[Receiver] = "recv",
           OneUnderWay',
           pc'[Sender] = "setup" => /\ inbox'[Sender] = <<>> /\ inbox'[Receiver] = <<>>
                                    /\ pc'[Receiver] \in {"recv", "stopped"}
    PROVE  Opened'
  BY DEF Opened, recvVars, sendVars

\* What the sender reads in accept is the only segment under way.
LEMMA ReadInAccept ==
    ASSUME Undisturbed, Channels, Opened, NEW p \in Returned(Sender)
    PROVE  /\ inbox[Sender] # <<>> /\ Tail(inbox[Sender]) = <<>> /\ inbox[Receiver] = <<>>
           /\ p \in Segment /\ Head(inbox[Sender]).from = Receiver
           /\ "syn" \in p.flags => pc[Receiver] \in {"awaitSynAck", "stopped"}
           /\ "syn" \notin p.flags => pc[Receiver] \in {"recv", "stopped"}
  <1>1. /\ inbox[Sender] # <<>> /\ p = Head(inbox[Sender]).body.segment /\ p \in Segment
        /\ Head(inbox[Sender]) \in Expected(Sender)
    BY ReturnedToSender
  <1>2. PICK q \in Seq(Packet) : q = inbox[Sender]
    BY TheReceiver DEF Channels, QueuesOK
  <1>3. /\ Len(q) = 1 /\ inbox[Receiver] = <<>>
        /\ \/ IsSyn(q[1]) /\ pc[Receiver] \in {"awaitSynAck", "stopped"}
           \/ ~IsSyn(q[1]) /\ pc[Receiver] \in {"recv", "stopped"}
    BY <1>1, <1>2 DEF Opened, OneUnderWay
  <1>4. Head(q) = q[1] /\ Tail(q) = <<>>
    <2>1. PICK t \in Seq(Packet) : t = Tail(q) /\ Len(t) = Len(q) - 1
      BY <1>1, <1>2, TailAt
    <2>2. t = <<>>
      BY <1>3, <2>1
    <2> QED BY <2>1, <2>2
  <1>5. Head(inbox[Sender]).from = Receiver
    BY <1>1, TheReceiver DEF Expected
  <1> QED BY <1>1, <1>2, <1>3, <1>4, <1>5 DEF IsSyn

\* The sender answers the SYN.
LEMMA SynAnswered ==
    ASSUME Undisturbed, SessionInv, Opened, SynDuringAccept
    PROVE  Opened'
  <1> USE DEF SessionInv, TransferInv
  <1>1. PICK p \in Returned(Sender), seqNum \in ISN :
          /\ "syn" \in p.flags
          /\ \E result \in SendResults(SynAck(seqNum, Succ(p.seqNum))) :
               AnswerTo(Sender, PeerOfSyn, result.wire)
    BY DEF SynDuringAccept
  <1>2. /\ inbox[Sender] # <<>> /\ Tail(inbox[Sender]) = <<>> /\ inbox[Receiver] = <<>>
        /\ p \in Segment /\ Head(inbox[Sender]).from = Receiver
        /\ pc[Receiver] \in {"awaitSynAck", "stopped"}
    BY <1>1, ReadInAccept
  <1>3. PICK wire : wire = Wire(SynAck(seqNum, Succ(p.seqNum)))
    OBVIOUS
  <1>4. AnswerTo(Sender, PeerOfSyn, wire)
    <2>1. SendResults(SynAck(seqNum, Succ(p.seqNum)))
            = {[wire |-> Wire(SynAck(seqNum, Succ(p.seqNum))), ok |-> TRUE]}
      BY NothingFails
    <2> QED BY <1>1, <1>3, <2>1
  <1>5. PeerOfSyn = Receiver
    BY <1>2, TheReceiver DEF PeerOfSyn, Channels
  <1>6. PICK queues : queues = [inbox EXCEPT ![Sender] = Tail(@)]
    OBVIOUS
  <1>7. /\ QueuesOK(queues) /\ queues[Sender] = <<>> /\ queues[Receiver] = <<>>
        /\ Sender \in Node /\ Receiver \in Node /\ Receiver # Sender
    <2>1. QueuesOK(queues)
      BY <1>2, <1>6, TailChannels, TheReceiver DEF Channels
    <2> QED BY <1>2, <1>6, <2>1, TheReceiver DEF Channels, QueuesOK
  <1>8. inbox' = Sent(queues, Sender, Receiver, wire) /\ pending'[Receiver] = pending[Receiver]
    BY <1>4, <1>5, <1>6, <1>7 DEF AnswerTo, Channels
  <1>9. wire \in Seq(Datagram) /\ wire = <<Header(SynAck(seqNum, Succ(p.seqNum)))>>
    <2>1. seqNum \in UInt32 /\ p.seqNum \in UInt32
      BY <1>2, SessionAssumption DEF Segment
    <2>2. Succ(p.seqNum) \in UInt32
      BY <2>1, HandshakeTyped
    <2>3. /\ SynAck(seqNum, Succ(p.seqNum)) \in Segment
          /\ SynAck(seqNum, Succ(p.seqNum)).payloadSize = 0
      BY <2>1, <2>2, HandshakeTyped
    <2> QED BY <1>3, <2>3, WireTyped, ControlWire
  <1>10. UNCHANGED <<recvVars, sendVars, pc>> /\ pc[Sender] = "accept"
    BY DEF SynDuringAccept
  <1>11. OneUnderWay'
    <2>1. CASE Deaf(Receiver)
      <3>1. inbox' = queues
        BY <1>8, <2>1 DEF Sent
      <3> QED BY <1>7, <3>1 DEF OneUnderWay
    <2>2. CASE ~Deaf(Receiver)
      <3>1. /\ Sent(queues, Sender, Receiver, wire)[Receiver]
                 = queues[Receiver] \o PacketsOf(Sender, wire)
            /\ \A q \in Node \ {Receiver} : Sent(queues, Sender, Receiver, wire)[q] = queues[q]
        <4>1. wire \in Seq(Datagram) /\ QueuesOK(queues) /\ Sender \in Node /\ Receiver \in Node
          BY <1>7, <1>9
        <4> QED BY ONLY <2>2, <4>1, SentBehind
      <3>2. PICK more \in Seq(Packet) : more = PacketsOf(Sender, wire)
        BY <1>7, <1>9, PacketsTyped
      <3>3. Len(more) = 1 /\ more[1].body = Header(SynAck(seqNum, Succ(p.seqNum)))
        <4>1. /\ Len(wire) = 1 /\ 1 \in 1 .. Len(wire)
              /\ wire[1] = Header(SynAck(seqNum, Succ(p.seqNum)))
          BY <1>9
        <4> QED BY <1>7, <1>9, <3>2, <4>1, PacketsTyped
      <3>4. <<>> \o more = more
        OBVIOUS
      <3>5. inbox'[Receiver] = more /\ inbox'[Sender] = <<>>
        BY <1>7, <1>8, <3>1, <3>2, <3>4
      <3>6. pc'[Receiver] = "awaitSynAck"
        BY <1>2, <1>10, <2>2 DEF Deaf
      <3>7. /\ Header(SynAck(seqNum, Succ(p.seqNum))).kind = "header"
            /\ Header(SynAck(seqNum, Succ(p.seqNum))).segment.payloadSize = 0
        BY DEF Header, SynAck, syn, ControlSegment
      <3> QED BY <3>3, <3>5, <3>6, <3>7 DEF OneUnderWay
    <2> QED BY <2>1, <2>2
  <1>12. pending'[Receiver] = NoSegment
    BY <1>8 DEF Opened
  <1> QED BY <1>2, <1>10, <1>11, <1>12, OpenedStays DEF Opened

\* The sender's other steps before it has data.
LEMMA SenderOpening ==
    ASSUME Undisturbed, SessionInv, dataSize = 0, Opened,
           \/ RunSender \/ listen \/ SynDuringAccept \/ NumberThrows
           \/ AckDuringAccept \/ OtherDuringAccept
    PROVE  dataSize' = 0 /\ (pc'[Sender] \in Before => Opened')
  <1> USE DEF SessionInv, TransferInv
  <1>1. dataSize' = 0
    BY DEF RunSender, listen, SynDuringAccept, NumberThrows, AckDuringAccept,
        OtherDuringAccept, handlerVars
  <1>2. CASE SynDuringAccept
    BY <1>1, <1>2, SynAnswered
  <1>3. CASE RunSender \/ listen
    <2>1. /\ UNCHANGED <<recvVars, sendVars, inbox, pending>>
          /\ \E p \in {"listen", "done", "accept"} : pc' = [pc EXCEPT ![Sender] = p]
      BY <1>3 DEF RunSender, listen
    <2>2. pc'[Receiver] = pc[Receiver] /\ pc'[Sender] # "setup"
      BY <2>1, TheReceiver DEF LocalInv
    <2>3. OneUnderWay' /\ pending'[Receiver] = NoSegment
      BY <2>1, <2>2 DEF Opened, OneUnderWay, IsSyn
    <2> QED BY <1>1, <2>1, <2>2, <2>3, OpenedStays DEF Opened
  <1>4. CASE AckDuringAccept \/ OtherDuringAccept
    <2>1. PICK p \in Returned(Sender) : "syn" \notin p.flags
      BY <1>4 DEF AckDuringAccept, OtherDuringAccept
    <2>2. /\ inbox[Sender] # <<>> /\ Tail(inbox[Sender]) = <<>> /\ inbox[Receiver] = <<>>
          /\ pc[Receiver] \in {"recv", "stopped"}
      BY <2>1, ReadInAccept
    <2>3. /\ Consume(Sender) /\ UNCHANGED <<recvVars, sendVars>>
          /\ pc' = pc \/ pc' = [pc EXCEPT ![Sender] = "setup"]
      BY <1>4 DEF AckDuringAccept, OtherDuringAccept
    <2>4. /\ inbox'[Sender] = <<>> /\ inbox'[Receiver] = <<>>
          /\ pending'[Receiver] = NoSegment /\ pc'[Receiver] = pc[Receiver]
      <3>1. /\ inbox'[Sender] = Tail(inbox[Sender]) /\ inbox'[Receiver] = inbox[Receiver]
            /\ pending'[Receiver] = pending[Receiver]
        BY <2>3, ReplyConsumed
      <3> QED BY <2>2, <2>3, <3>1, TheReceiver DEF Opened, LocalInv
    <2>5. OneUnderWay'
      BY <2>4 DEF OneUnderWay
    <2> QED BY <1>1, <2>2, <2>3, <2>4, <2>5, OpenedStays DEF Opened
  <1>5. ~NumberThrows
    BY DEF NumberThrows, Undisturbed
  <1> QED BY <1>2, <1>3, <1>4, <1>5

\* What the receiver reads before there is data is a segment of the handshake.
LEMMA ReadInHandshake ==
    ASSUME Undisturbed, Channels, Opened
    PROVE  /\ Announced(Receiver) = {} /\ ~PayloadTimeout(Receiver)
           /\ \A p \in Returned(Receiver) :
                /\ pc[Receiver] = "awaitSynAck" /\ p \in Segment
                /\ inbox[Receiver] # <<>> /\ Tail(inbox[Receiver]) = <<>>
                /\ inbox[Sender] = <<>>
  <1>1. PICK q \in Seq(Packet) : q = inbox[Receiver]
    BY TheReceiver DEF Channels, QueuesOK
  <1>2. /\ pending[Receiver] = NoSegment
        /\ q # <<>> => /\ Len(q) = 1 /\ inbox[Sender] = <<>> /\ pc[Receiver] = "awaitSynAck"
                       /\ q[1].body.kind = "header"
                       /\ q[1].body.segment.payloadSize = 0
    BY <1>1 DEF Opened, OneUnderWay
  <1>3. q # <<>> => Head(q) = q[1] /\ Tail(q) = <<>>
    <2> SUFFICES ASSUME q # <<>>
                 PROVE  Head(q) = q[1] /\ Tail(q) = <<>>
      OBVIOUS
    <2>1. PICK t \in Seq(Packet) : t = Tail(q) /\ Len(t) = Len(q) - 1
      BY TailAt
    <2>2. t = <<>>
      BY <1>2, <2>1
    <2> QED BY <2>1, <2>2
  <1>4. Announced(Receiver) = {}
    <2>1. CASE q = <<>>
      BY <1>1, <2>1 DEF Announced
    <2>2. CASE q # <<>>
      <3>1. Head(inbox[Receiver]).body.kind = "header"
            /\ Head(inbox[Receiver]).body.segment.payloadSize = 0
        BY <1>1, <1>2, <1>3, <2>2
      <3> QED BY <3>1 DEF Announced, AsHeader
    <2> QED BY <2>1, <2>2
  <1>5. ~PayloadTimeout(Receiver)
    BY <1>2 DEF PayloadTimeout
  <1>6. ASSUME NEW p \in Returned(Receiver)
        PROVE  inbox[Receiver] # <<>> /\ p \in Segment
    BY <1>6, TheReceiver, ReturnedToReceiver
  <1> QED BY <1>1, <1>2, <1>3, <1>4, <1>5, <1>6

\* The receiver's SYN reaches a sender that listens, or nobody.
LEMMA SynSent ==
    ASSUME Undisturbed, SessionInv, Opened, Connect(Receiver)
    PROVE  pc'[Sender] = pc[Sender] /\ Opened'
  <1> USE DEF SessionInv, TransferInv
  <1>1. PICK seqNum \in ISN :
          \E result \in SendResults(syn(seqNum)) :
             /\ inbox' = Sent(inbox, Receiver, Sender, result.wire)
             /\ pc' = [pc EXCEPT ![Receiver] = IF result.ok THEN "awaitSynAck" ELSE "done"]
    BY DEF Connect
  <1>2. PICK wire : wire = Wire(syn(seqNum))
    OBVIOUS
  <1>3. /\ inbox' = Sent(inbox, Receiver, Sender, wire)
        /\ pc' = [pc EXCEPT ![Receiver] = "awaitSynAck"]
    <2>1. SendResults(syn(seqNum)) = {[wire |-> Wire(syn(seqNum)), ok |-> TRUE]}
      BY NothingFails
    <2> QED BY <1>1, <1>2, <2>1
  <1>4. /\ QueuesOK(inbox) /\ Sender \in Node /\ Receiver \in Node /\ Receiver # Sender
    BY TheReceiver DEF Channels
  <1>5. pc'[Receiver] = "awaitSynAck" /\ pc'[Sender] = pc[Sender]
    BY <1>3, <1>4 DEF LocalInv
  <1>6. /\ UNCHANGED <<recvVars, sendVars, pending>> /\ pc[Receiver] = "menu"
    BY DEF Connect
  <1>7. inbox[Sender] = <<>> /\ inbox[Receiver] = <<>> /\ pc[Sender] # "setup"
    BY <1>6 DEF Opened, OneUnderWay
  <1>8. wire \in Seq(Datagram) /\ wire = <<Header(syn(seqNum))>>
    <2>1. seqNum \in UInt32 /\ 0 \in UInt32
      BY SessionAssumption, SegmentAssumption DEF UInt32
    <2>2. syn(seqNum) \in Segment /\ syn(seqNum).payloadSize = 0
      BY <2>1, HandshakeTyped
    <2> QED BY <1>2, <2>2, WireTyped, ControlWire
  <1>9. OneUnderWay'
    <2>1. CASE Deaf(Sender)
      <3>1. inbox' = inbox
        BY <1>3, <2>1 DEF Sent
      <3> QED BY <1>7, <3>1 DEF OneUnderWay
    <2>2. CASE ~Deaf(Sender)
      <3>1. /\ Sent(inbox, Receiver, Sender, wire)[Sender]
                 = inbox[Sender] \o PacketsOf(Receiver, wire)
            /\ \A q \in Node \ {Sender} : Sent(inbox, Receiver, Sender, wire)[q] = inbox[q]
        <4>1. wire \in Seq(Datagram) /\ QueuesOK(inbox) /\ Sender \in Node /\ Receiver \in Node
          BY <1>4, <1>8
        <4> QED BY ONLY <2>2, <4>1, SentBehind
      <3>2. PICK more \in Seq(Packet) : more = PacketsOf(Receiver, wire)
        BY <1>4, <1>8, PacketsTyped
      <3>3. Len(more) = 1 /\ more[1].body = Header(syn(seqNum))
        <4>1. Len(wire) = 1 /\ 1 \in 1 .. Len(wire) /\ wire[1] = Header(syn(seqNum))
          BY <1>8
        <4> QED BY <1>4, <1>8, <3>2, <4>1, PacketsTyped
      <3>4. <<>> \o more = more
        OBVIOUS
      <3>5. inbox'[Sender] = more /\ inbox'[Receiver] = <<>>
        BY <1>3, <1>4, <1>7, <3>1, <3>2, <3>4
      <3>6. IsSyn(more[1])
        BY <3>3 DEF IsSyn, Header, syn, ControlSegment
      <3> QED BY <1>5, <3>3, <3>5, <3>6 DEF OneUnderWay
    <2> QED BY <2>1, <2>2
  <1>10. pending'[Receiver] = NoSegment
    BY <1>6 DEF Opened
  <1> QED BY <1>5, <1>6, <1>7, <1>9, <1>10, OpenedStays

\* The receiver answers the SYN-ACK, and calls recv.
LEMMA SynAckAnswered ==
    ASSUME Undisturbed, SessionInv, Opened, OnSynAck(Receiver)
    PROVE  pc'[Sender] = pc[Sender] /\ Opened'
  <1> USE DEF SessionInv, TransferInv
  <1>1. PICK p \in Returned(Receiver) :
          \E result \in SendResults(ack(p.ackNum, Succ(p.seqNum))) :
             /\ Answer(Receiver, result.wire)
             /\ result.ok => /\ pc' = [pc EXCEPT ![Receiver] = "recv"]
                             /\ length' = [length EXCEPT ![Receiver] = Capacity]
    BY DEF OnSynAck
  <1>2. PICK wire : wire = Wire(ack(p.ackNum, Succ(p.seqNum)))
    OBVIOUS
  <1>3. /\ Answer(Receiver, wire) /\ pc' = [pc EXCEPT ![Receiver] = "recv"]
        /\ length' = [length EXCEPT ![Receiver] = Capacity]
    <2>1. SendResults(ack(p.ackNum, Succ(p.seqNum)))
            = {[wire |-> Wire(ack(p.ackNum, Succ(p.seqNum))), ok |-> TRUE]}
      BY NothingFails
    <2> QED BY <1>1, <1>2, <2>1
  <1>4. /\ pc[Receiver] = "awaitSynAck" /\ p \in Segment
        /\ inbox[Receiver] # <<>> /\ Tail(inbox[Receiver]) = <<>> /\ inbox[Sender] = <<>>
    BY <1>1, ReadInHandshake
  <1>5. PICK queues : queues = [inbox EXCEPT ![Receiver] = Tail(@)]
    OBVIOUS
  <1>6. /\ QueuesOK(queues) /\ queues[Sender] = <<>> /\ queues[Receiver] = <<>>
        /\ Sender \in Node /\ Receiver \in Node /\ Receiver # Sender
    <2>1. QueuesOK(queues)
      BY <1>4, <1>5, TailChannels, TheReceiver DEF Channels
    <2> QED BY <1>4, <1>5, <2>1, TheReceiver DEF Channels, QueuesOK
  <1>7. peerAddr[Receiver] = Sender
    BY <1>4, TheReceiver DEF Channels
  <1>8. inbox' = Sent(queues, Receiver, Sender, wire) /\ pending'[Receiver] = NoSegment
    BY <1>3, <1>4, <1>5, <1>6, <1>7 DEF Answer, AnswerTo, PeerAfterReceive, Channels
  <1>9. /\ pc'[Receiver] = "recv" /\ pc'[Sender] = pc[Sender] /\ length'[Receiver] = Capacity
    BY <1>3, TheReceiver DEF LocalInv
  <1>10. wire \in Seq(Datagram) /\ wire = <<Header(ack(p.ackNum, Succ(p.seqNum)))>>
    <2>1. p.ackNum \in UInt32 /\ p.seqNum \in UInt32 /\ 0 \in UInt32
      BY <1>4, SegmentAssumption DEF Segment, UInt32
    <2>2. Succ(p.seqNum) \in UInt32
      BY <2>1, HandshakeTyped
    <2>3. /\ ack(p.ackNum, Succ(p.seqNum)) \in Segment
          /\ ack(p.ackNum, Succ(p.seqNum)).payloadSize = 0
      BY <2>1, <2>2, ControlTyped
    <2> QED BY <1>2, <2>3, WireTyped, ControlWire
  <1>11. OneUnderWay'
    <2>1. CASE Deaf(Sender)
      <3>1. inbox' = queues
        BY <1>8, <2>1 DEF Sent
      <3> QED BY <1>6, <3>1 DEF OneUnderWay
    <2>2. CASE ~Deaf(Sender)
      <3>1. /\ Sent(queues, Receiver, Sender, wire)[Sender]
                 = queues[Sender] \o PacketsOf(Receiver, wire)
            /\ \A q \in Node \ {Sender} : Sent(queues, Receiver, Sender, wire)[q] = queues[q]
        <4>1. wire \in Seq(Datagram) /\ QueuesOK(queues) /\ Sender \in Node /\ Receiver \in Node
          BY <1>6, <1>10
        <4> QED BY ONLY <2>2, <4>1, SentBehind
      <3>2. PICK more \in Seq(Packet) : more = PacketsOf(Receiver, wire)
        BY <1>6, <1>10, PacketsTyped
      <3>3. Len(more) = 1 /\ more[1].body = Header(ack(p.ackNum, Succ(p.seqNum)))
        <4>1. /\ Len(wire) = 1 /\ 1 \in 1 .. Len(wire)
              /\ wire[1] = Header(ack(p.ackNum, Succ(p.seqNum)))
          BY <1>10
        <4> QED BY <1>6, <1>10, <3>2, <4>1, PacketsTyped
      <3>4. <<>> \o more = more
        OBVIOUS
      <3>5. inbox'[Sender] = more /\ inbox'[Receiver] = <<>>
        BY <1>6, <1>8, <3>1, <3>2, <3>4
      <3>6. ~IsSyn(more[1])
        BY <3>3 DEF IsSyn, Header, ack, ControlSegment
      <3> QED BY <1>9, <3>3, <3>5, <3>6 DEF OneUnderWay
    <2> QED BY <2>1, <2>2
  <1>12. UNCHANGED <<sendVars, totalReceived, buffer, totalBuffer, saved>>
    BY DEF OnSynAck
  <1>13. pc'[Sender] # "setup"
    BY <1>4, <1>9 DEF Opened
  <1> QED BY <1>8, <1>9, <1>11, <1>12, <1>13 DEF Opened, sendVars

\* The receiver drops what is no SYN-ACK, and times out nowhere.
LEMMA OtherRead ==
    ASSUME Undisturbed, SessionInv, Opened,
           OtherInHandshake(Receiver) \/ TimeoutInHandshake(Receiver)
    PROVE  pc'[Sender] = pc[Sender] /\ Opened'
  <1> USE DEF SessionInv, TransferInv
  <1>1. ~TimeoutInHandshake(Receiver)
    BY ReadInHandshake DEF TimeoutInHandshake
  <1>2. /\ Returned(Receiver) # {} /\ Consume(Receiver) /\ pc[Receiver] = "awaitSynAck"
        /\ UNCHANGED <<recvVars, sendVars, pc>>
    BY <1>1 DEF OtherInHandshake
  <1>3. /\ inbox[Receiver] # <<>> /\ Tail(inbox[Receiver]) = <<>> /\ inbox[Sender] = <<>>
    BY <1>2, ReadInHandshake
  <1>4. /\ inbox' = [inbox EXCEPT ![Receiver] = Tail(@)]
        /\ pending' = [pending EXCEPT ![Receiver] = NoSegment]
    BY <1>2 DEF Consume, Answer, AnswerTo, Sent
  <1>5. /\ inbox'[Receiver] = <<>> /\ inbox'[Sender] = <<>> /\ pending'[Receiver] = NoSegment
    BY <1>3, <1>4, TheReceiver DEF Channels, QueuesOK
  <1>6. OneUnderWay' /\ pc[Sender] # "setup"
    BY <1>2, <1>5 DEF OneUnderWay, Opened
  <1> QED BY <1>2, <1>5, <1>6, OpenedStays DEF Opened

\* Before there is data, recv and close do nothing.
LEMMA ReceiverWaits ==
    ASSUME Undisturbed, TransferInv, Opened, ReceiverNext(Receiver)
    PROVE  FALSE
  <1>1. /\ Announced(Receiver) = {} /\ ~PayloadTimeout(Receiver)
        /\ \A p \in Returned(Receiver) : pc[Receiver] = "awaitSynAck"
    BY ReadInHandshake DEF TransferInv
  <1>2. pc[Receiver] \in {"menu", "awaitSynAck", "recv", "done", "stopped"} /\ ~MayFail
    BY DEF Opened, Undisturbed
  <1>3. ~AwaitPayload(Receiver) /\ ~PayloadThrows(Receiver) /\ ~RecvThrows(Receiver)
    BY <1>1, <1>2 DEF AwaitPayload, PayloadThrows, TakeHeader, RecvThrows
  <1>4. /\ ~StoreSegment(Receiver) /\ ~FinDuringRecv(Receiver) /\ ~IgnoreDuringRecv(Receiver)
        /\ ~TimeoutDuringRecv(Receiver)
    BY <1>1 DEF StoreSegment, FinDuringRecv, IgnoreDuringRecv, TimeoutDuringRecv
  <1>5. ~CloseNext(Receiver)
    BY <1>2 DEF CloseNext, CloseActive, ClosePassive, CloseAtOnce, FinAckInFinWait,
        AckInCloseWait, OtherInClose, TimeoutInClose
  <1> QED BY <1>3, <1>4, <1>5 DEF ReceiverNext

\* The receiver's steps before there is data.
LEMMA ReceiverOpening ==
    ASSUME Undisturbed, SessionInv, Opened, ReceiverThread(Receiver) \/ Connect(Receiver)
    PROVE  pc'[Sender] = pc[Sender] /\ Opened'
  BY SynSent, SynAckAnswered, OtherRead, ReceiverWaits DEF ReceiverThread, SessionInv

\* The receiver is stopped before there is data.
LEMMA StopOpening ==
    ASSUME Undisturbed, TransferInv, Opened, OutsideNext
    PROVE  pc'[Sender] \in Before => Opened'
  <1> USE DEF TransferInv
  <1>1. CASE Stop(Sender)
    BY <1>1, TheReceiver DEF Stop, LocalInv, Before
  <1>2. CASE Stop(Receiver)
    <2>1. /\ pc' = [pc EXCEPT ![Receiver] = "stopped"]
          /\ pending' = [pending EXCEPT ![Receiver] = NoSegment]
          /\ UNCHANGED <<recvVars, sendVars>>
      BY <1>2 DEF Stop
    <2>2. inbox' = [inbox EXCEPT ![Receiver] = <<>>]
      BY <1>2, TheReceiver DEF Stop, LocalInv, Sent
    <2>3. /\ pc'[Receiver] = "stopped" /\ pc'[Sender] = pc[Sender]
          /\ pending'[Receiver] = NoSegment
          /\ inbox'[Receiver] = <<>> /\ inbox'[Sender] = inbox[Sender]
      BY <2>1, <2>2, TheReceiver DEF LocalInv, Channels, QueuesOK
    <2>4. OneUnderWay'
      BY <2>3 DEF Opened, OneUnderWay, IsSyn
    <2>5. pc'[Sender] = "setup" => inbox'[Sender] = <<>>
      BY <2>3 DEF Opened
    <2> QED BY <2>1, <2>3, <2>4, <2>5, OpenedStays
  <1> QED BY <1>1, <1>2, OnlyStops

\* The sender has its data, and a receiver that has read nothing of it.
LEMMA StartFlows ==
    ASSUME Undisturbed, TransferInv, HandlerInv, Opened, StartSend
    PROVE  FlowInv'
  <1> USE DEF TransferInv
  <1>1. /\ pc[Sender] = "setup" /\ pc' = [pc EXCEPT ![Sender] = "advance"]
        /\ UNCHANGED <<sendVars, recvVars, inbox, pending>>
    BY DEF StartSend
  <1>2. dataSize = 0
    BY <1>1 DEF SenderInv
  <1>3. LAR = 0
    BY <1>2 DEF HandlerInv, CutOnce
  <1>4. SetDataStream
    BY StartKeeps
  <1>5. HandlerInv' /\ bufLen' = Len(segmentCells')
    BY <1>4, SetDataStreamInv DEF Undisturbed
  <1>6. PICK size \in Sizes : setDataStream(size % U32)
    BY DEF StartSend
  <1>7. size % U32 <= Capacity /\ LAR' = 0
    BY <1>3, <1>6 DEF Undisturbed, setDataStream
  <1>8. dataSize' = 0 \/ dataSize' = size % U32
    BY <1>2, <1>6 DEF setDataStream, bufferVars
  <1>9. /\ pc'[Sender] = "advance" /\ pc'[Receiver] = pc[Receiver]
    BY <1>1, TheReceiver DEF LocalInv
  <1>10. CASE dataSize' = 0
    BY <1>9, <1>10 DEF FlowInv, Before
  <1>11. CASE dataSize' # 0
    <2>1. dataSize' <= Capacity
      BY <1>7, <1>8, <1>11
    <2>2. dataSize' \in UInt32 /\ dataSize' \in Nat /\ segmentCells' \in Seq(Segment)
      BY <1>5, SegmentAssumption DEF HandlerInv, HandlerTypeOK, UInt32
    <2>3. Pieces' = NumSegments(dataSize') /\ Pieces' \in Nat
      <3>1. MSS \in Nat \ {0} /\ U32 \in Nat \ {0} /\ dataSize' + MSS - 1 \in Nat
        <4>1. \A d \in Nat : MSS \in Nat \ {0} /\ U32 \in Nat \ {0} /\ d + MSS - 1 \in Nat
          BY ONLY SegmentAssumption
        <4> QED BY ONLY <2>2, <4>1
      <3>2. (dataSize' + MSS - 1) % U32 \in Nat
        BY <3>1
      <3> QED BY <3>1, <3>2 DEF Pieces, NumSegments
    <2>4. /\ ~saved[Receiver] /\ buffer[Receiver] = <<>> /\ totalBuffer[Receiver] = <<>>
          /\ totalReceived[Receiver] = 0 /\ pending[Receiver] = NoSegment /\ helper = 0
          /\ inbox[Sender] = <<>> /\ inbox[Receiver] = <<>>
          /\ pc[Receiver] \in {"recv", "stopped"}
          /\ pc[Receiver] = "recv" => length[Receiver] = Capacity
      BY <1>1 DEF Opened
    <2>5. CASE Pieces' = 0
      <3>1. Received(Receiver)' = <<>> \o <<>>
        BY <1>1, <2>4 DEF Received, recvVars
      <3>2. Len(Received(Receiver)') = 0
        BY <3>1
      <3>3. HasAll'
        BY <2>5, <3>2 DEF HasAll
      <3> QED BY <1>11, <2>1, <3>3 DEF FlowInv
    <2>6. CASE pc[Receiver] = "stopped"
      <3>1. GivenUp'
        BY <1>1, <1>9, <2>4, <2>6 DEF GivenUp, recvVars
      <3> QED BY <1>11, <2>1, <3>1 DEF FlowInv
    <2>7. CASE Pieces' # 0 /\ pc[Receiver] = "recv"
      <3>1. InFlight(dataSize', <<>>, NoSegment, 0, 0, 0, 0)
        <4>1. Cut(dataSize')
          BY <2>2, <2>3, <2>7 DEF Cut
        <4> QED BY <4>1, FlightStarts
      <3>2. HasStored(0 + 0)'
        BY <1>1, <1>9, <2>4, <2>7, SegmentAssumption DEF HasStored, recvVars
      <3>3. Acked(0)'
        BY <1>5, <1>7, <2>2 DEF Acked, Dropped
      <3>4. SenderAt(0, 0, 0, 0)'
        BY <1>1, <1>9, <2>4, <3>3 DEF SenderAt, sendVars
      <3>5. 0 <= WindowSize /\ 0 + 0 < Pieces'
        BY <2>3, <2>7, HandlerAssumption
      <3>6. FillingAt(0, 0, 0, 0)'
        BY <1>1, <2>4, <3>1, <3>2, <3>4, <3>5 DEF FillingAt
      <3>7. Filling'
        BY <3>6 DEF Filling
      <3> QED BY <1>11, <2>1, <3>7 DEF FlowInv
    <2> QED BY <2>4, <2>5, <2>6, <2>7
  <1> QED BY <1>10, <1>11

\* The steps of the transfer before there is data.
LEMMA NoDataFlows ==
    ASSUME Undisturbed, TransferInv, HandlerInv, dataSize = 0, FlowInv, SenderNext
    PROVE  FlowInv'
  <1>1. CASE pc[Sender] \in Before
    <2>1. pc[Sender] = "setup"
      BY <1>1, SenderFrame DEF Before
    <2>2. Opened
      BY <1>1 DEF FlowInv
    <2>3. StartSend
      BY <2>1 DEF SenderNext, SendThrows, Undisturbed, NextWindow, SendSegment,
          ReplyDuringSend, FinDuringSend, CloseNext, CloseActive, ClosePassive, CloseAtOnce,
          FinAckInFinWait, AckInCloseWait, OtherInClose, TimeoutInClose
    <2> QED BY <2>2, <2>3, StartFlows
  <1>2. CASE pc[Sender] \notin Before
    <2>1. dataSize' = 0 /\ pc'[Sender] \notin Before
      BY <1>2, SenderFrame DEF Before
    <2> QED BY <2>1 DEF FlowInv
  <1> QED BY <1>1, <1>2

-----------------------------------------------------------------------------
(***************************************************************************)
(* The theorems.                                                           *)
(***************************************************************************)

\* Without data there is nothing to follow but the handshake.
LEMMA QuietNoData ==
    ASSUME dataSize = 0, FlowInv, dataSize' = 0, pc'[Sender] = pc[Sender],
           Opened => Opened'
    PROVE  FlowInv'
  BY DEF FlowInv

\* Nothing happens.
LEMMA FlowStutters ==
    ASSUME FlowInv, UNCHANGED vars
    PROVE  FlowInv'
  <1> USE DEF vars, handlerVars, bufferVars, sendVars, recvVars, socketVars
  <1>1. /\ dataSize' = dataSize /\ pc' = pc /\ Pieces' = Pieces /\ Dropped' = Dropped
    BY DEF Pieces, Dropped
  <1>2. Opened => Opened'
    BY DEF Opened, OneUnderWay, IsSyn
  <1>3. HasAll => HasAll'
    BY QuietHasAll
  <1>4. GivenUp => GivenUp'
    BY DEF GivenUp
  <1>5. Filling => Filling'
    <2>1. ASSUME NEW k \in Nat, NEW j \in Nat, NEW s \in Nat, NEW lone \in {0, 1},
                 FillingAt(k, j, s, lone)
          PROVE  FillingAt(k, j, s, lone)'
      <3>1. HasStored(k + j)'
        BY <2>1 DEF FillingAt, HasStored, Offset
      <3>2. SenderAt(k, j, s, lone)'
        BY <2>1, SenderStays DEF FillingAt
      <3> QED BY <1>1, <2>1, <3>1, <3>2 DEF FillingAt
    <2> QED BY <2>1 DEF Filling
  <1> QED BY <1>1, <1>2, <1>3, <1>4, <1>5 DEF FlowInv

\* The steps of a transfer.
LEMMA TransferFlows ==
    ASSUME Undisturbed, TransferInv, HandlerInv, FlowInv,
           SenderNext \/ OutsideNext
    PROVE  FlowInv'
  <1>1. CASE SenderNext
    BY <1>1, SenderFlows, NoDataFlows
  <1>2. CASE OutsideNext /\ dataSize # 0
    BY <1>2, StopFlows
  <1>3. CASE OutsideNext /\ dataSize = 0
    <2>1. dataSize' = 0
      BY <1>3, OnlyStops DEF Stop, handlerVars
    <2>2. pc[Sender] \notin Before => pc'[Sender] \notin Before
      BY <1>3, OutsideApart DEF TransferInv, Before
    <2>3. Opened /\ pc'[Sender] \in Before => Opened'
      BY <1>3, StopOpening
    <2> QED BY <1>3, <2>1, <2>2, <2>3 DEF FlowInv
  <1> QED BY <1>1, <1>2, <1>3

\* A step of the receiver outside of its handshake, while the sender may have
\* no data yet.
LEMMA ReceivingFlows ==
    ASSUME Undisturbed, TransferInv, HandlerInv, FlowInv, ReceiverNext(Receiver)
    PROVE  FlowInv'
  <1> USE DEF TransferInv
  <1>1. CASE dataSize # 0
    BY <1>1, ReceiverFlows
  <1>2. CASE dataSize = 0
    <2>1. dataSize' = 0
      BY <1>2 DEF ReceiverNext, AwaitPayload, PayloadThrows, TakeHeader, RecvThrows,
          StoreSegment, FinDuringRecv, IgnoreDuringRecv, TimeoutDuringRecv, CloseNext,
          CloseActive, ClosePassive, CloseAtOnce, FinAckInFinWait, AckInCloseWait,
          OtherInClose, TimeoutInClose, handlerVars
    <2>2. pc'[Sender] = pc[Sender]
      BY ReceiverApart, TheReceiver
    <2>3. ~Opened
      BY ReceiverWaits
    <2> QED BY <1>2, <2>1, <2>2, <2>3, QuietNoData
  <1> QED BY <1>1, <1>2

\* What the receiver's handshake leaves alone.
LEMMA HandshakeApart ==
    ASSUME Undisturbed, TransferInv,
           \/ Connect(Receiver) \/ OnSynAck(Receiver) \/ OtherInHandshake(Receiver)
           \/ TimeoutInHandshake(Receiver)
    PROVE  /\ dataSize' = dataSize /\ pc'[Sender] = pc[Sender]
           /\ UNCHANGED <<totalReceived, buffer, totalBuffer, saved>>
           /\ pc[Receiver] \in {"menu", "awaitSynAck"}
  <1>1. UNCHANGED <<handlerVars, totalReceived, buffer, totalBuffer, saved>>
    BY DEF Connect, OnSynAck, OtherInHandshake, TimeoutInHandshake, recvVars
  <1>2. pc' = pc \/ \E p : pc' = [pc EXCEPT ![Receiver] = p]
    BY DEF Connect, OnSynAck, OtherInHandshake, TimeoutInHandshake
  <1>3. pc[Receiver] \in {"menu", "awaitSynAck"}
    BY DEF Connect, OnSynAck, OtherInHandshake, TimeoutInHandshake
  <1> QED BY <1>1, <1>2, <1>3, TheReceiver DEF TransferInv, LocalInv, handlerVars

\* The handshake of a receiver that comes after the sender has stopped saves nothing.
LEMMA HandshakeTooLate ==
    ASSUME Undisturbed, TransferInv, GivenUp,
           \/ Connect(Receiver) \/ OnSynAck(Receiver) \/ OtherInHandshake(Receiver)
           \/ TimeoutInHandshake(Receiver)
    PROVE  GivenUp'
  <1> USE DEF TransferInv
  <1>1. /\ pc'[Sender] = pc[Sender] /\ saved' = saved
        /\ pc[Receiver] \in {"menu", "awaitSynAck"}
    BY HandshakeApart
  <1>2. pc[Sender] = "stopped" /\ inbox[Receiver] = <<>> /\ pending[Receiver] = NoSegment
    BY <1>1 DEF GivenUp
  <1>3. Connect(Receiver)
    BY <1>2 DEF OnSynAck, OtherInHandshake, TimeoutInHandshake, Returned, PayloadTimeout
  <1>4. inbox' = inbox /\ pending' = pending
    BY <1>2, <1>3 DEF Connect, Sent, Deaf
  <1> QED BY <1>1, <1>2, <1>4 DEF GivenUp

\* The receiver's handshake.
LEMMA HandshakeFlows ==
    ASSUME Undisturbed, SessionInv, HandlerInv, FlowInv,
           \/ Connect(Receiver) \/ OnSynAck(Receiver) \/ OtherInHandshake(Receiver)
           \/ TimeoutInHandshake(Receiver)
    PROVE  FlowInv'
  <1> USE DEF SessionInv
  <1>1. /\ dataSize' = dataSize /\ pc'[Sender] = pc[Sender]
        /\ UNCHANGED <<totalReceived, buffer, totalBuffer, saved>>
        /\ pc[Receiver] \in {"menu", "awaitSynAck"}
    BY HandshakeApart
  <1>2. CASE dataSize = 0
    <2>1. Opened => Opened'
      BY ReceiverOpening DEF ReceiverThread
    <2> QED BY <1>1, <1>2, <2>1, QuietNoData
  <1>3. CASE dataSize # 0
    <2>1. dataSize <= Capacity /\ (HasAll \/ GivenUp \/ Filling)
      BY <1>3 DEF FlowInv
    <2>2. HasAll => HasAll'
      BY <1>1 DEF HasAll, Received, Pieces, Offset
    <2>3. GivenUp => GivenUp'
      BY HandshakeTooLate
    <2>4. ~Filling
      BY <1>1 DEF Filling, FillingAt, HasStored
    <2> QED BY <1>1, <1>3, <2>1, <2>2, <2>3, <2>4 DEF FlowInv
  <1> QED BY <1>2, <1>3

\* Every step of the program.
LEMMA SessionFlows ==
    ASSUME Undisturbed, SessionInv, HandlerInv, FlowInv, [SessionNext]_vars
    PROVE  FlowInv'
  <1>1. CASE UNCHANGED vars
    BY <1>1, FlowStutters
  <1>2. CASE SenderNext \/ OutsideNext
    BY <1>2, TransferFlows DEF SessionInv
  <1>3. CASE ReceiverNext(Receiver)
    BY <1>3, ReceivingFlows DEF SessionInv
  <1>4. CASE \/ Connect(Receiver) \/ OnSynAck(Receiver) \/ OtherInHandshake(Receiver)
             \/ TimeoutInHandshake(Receiver)
    BY <1>4, HandshakeFlows
  <1>5. CASE \/ RunSender \/ listen \/ SynDuringAccept \/ NumberThrows
             \/ AckDuringAccept \/ OtherDuringAccept
    <2>1. pc[Sender] \in {"menu", "listen", "accept"}
      BY <1>5 DEF RunSender, listen, SynDuringAccept, NumberThrows, AckDuringAccept,
          OtherDuringAccept
    <2>2. dataSize = 0 /\ Opened
      BY <2>1 DEF SessionInv, TransferInv, SenderInv, FlowInv, Before
    <2>3. dataSize' = 0 /\ (pc'[Sender] \in Before => Opened')
      BY <1>5, <2>2, SenderOpening
    <2> QED BY <2>3 DEF FlowInv
  <1>6. \A r \in Receivers : r = Receiver
    BY TheReceiver
  <1> QED
    BY <1>1, <1>2, <1>3, <1>4, <1>5, <1>6
    DEF SessionNext, UserNext, SenderThread, ReceiverThread

\* In a transfer on its own the handshake is over.
LEMMA NextFlows ==
    ASSUME Undisturbed, TransferInv, HandlerInv, FlowInv, [Next]_vars
    PROVE  FlowInv'
  <1>1. \A r \in Receivers : r = Receiver
    BY TheReceiver
  <1> QED
    BY <1>1, FlowStutters, TransferFlows, ReceivingFlows DEF Next, Terminated

\* The invariant holds before anybody has chosen anything, and when a transfer starts.
LEMMA FlowStarts ==
    ASSUME Undisturbed, Init \/ SessionInit
    PROVE  FlowInv
  <1>1. /\ NothingSent
        /\ pc[Receiver] \in {"menu", "recv"}
        /\ pc[Receiver] = "recv" => length[Receiver] = Capacity
        /\ pc[Sender] = "setup" => pc[Receiver] = "recv"
    <2>1. CASE Init
      <3>1. PICK peer \in Receivers :
              /\ pc = [n \in Node |-> CASE n = Sender -> "setup" [] n = peer -> "recv"
                                        [] OTHER -> "menu"]
              /\ length = [r \in Receivers |-> IF r = peer THEN Capacity ELSE 0]
        BY <2>1 DEF Init
      <3>2. peer = Receiver
        BY TheReceiver
      <3> QED BY <2>1, <3>1, <3>2, TheReceiver DEF Init
    <2>2. CASE SessionInit
      BY <2>2, TheReceiver DEF SessionInit
    <2> QED BY <2>1, <2>2
  <1>2. /\ dataSize = 0 /\ helper = 0 /\ inbox[Sender] = <<>> /\ inbox[Receiver] = <<>>
        /\ pending[Receiver] = NoSegment /\ totalReceived[Receiver] = 0
        /\ buffer[Receiver] = <<>> /\ totalBuffer[Receiver] = <<>> /\ ~saved[Receiver]
    BY <1>1, TheReceiver DEF NothingSent, HandlerInit
  <1>3. Opened
    BY <1>1, <1>2 DEF Opened, OneUnderWay
  <1> QED BY <1>2, <1>3 DEF FlowInv

\* What the invariant says of a saved file.
LEMMA FlowSaves ==
    ASSUME Undisturbed, TransferInv, FlowInv
    PROVE  SavedHoldsFile
  <1> USE DEF TransferInv
  <1> SUFFICES ASSUME saved[Receiver]
               PROVE  HasAll
    BY TheReceiver DEF SavedHoldsFile, HasAll
  <1>1. CASE dataSize # 0
    BY <1>1 DEF FlowInv, GivenUp, Filling, FillingAt, HasStored
  <1>2. CASE dataSize = 0
    <2>1. (0 + MSS - 1) % U32 = MSS - 1 /\ (MSS - 1) \div MSS = 0
      <3>1. MSS - 1 \in Nat /\ MSS - 1 < MSS /\ MSS - 1 < U32 /\ U32 \in Nat \ {0}
            /\ MSS \in Nat \ {0} /\ 0 + MSS - 1 = MSS - 1
        BY SegmentAssumption
      <3> QED BY ONLY <3>1, ModSmall, DivSmall
    <2>2. Pieces = 0
      BY <1>2, <2>1 DEF Pieces, NumSegments
    <2>3. Received(Receiver) \in Seq(Chunk)
      BY TheReceiver DEF Received, LocalInv
    <2>4. Len(Received(Receiver)) \in Nat
      BY <2>3
    <2> QED BY <2>2, <2>4 DEF HasAll
  <1> QED BY <1>1, <1>2

\* The pieces of a file follow each other to the receiver.
THEOREM SessionFlow ==
    ASSUME Undisturbed
    PROVE  SessionSpec => []FlowInv
  <1>1. SessionInit => FlowInv
    BY FlowStarts
  <1>2. SessionInv /\ HandlerInv /\ FlowInv /\ [SessionNext]_vars => FlowInv'
    BY SessionFlows
  <1>3. ~MayFail
    BY DEF Undisturbed
  <1>4. HandlerSpec => []HandlerInv
    BY <1>3, HandlerInvariant
  <1> QED BY <1>1, <1>2, <1>4, SessionInvariant, SessionUsesHandler, PTL DEF SessionSpec

\* The same of a transfer on its own.
THEOREM TransferFlow ==
    ASSUME Undisturbed
    PROVE  Spec => []FlowInv
  <1>1. Init => FlowInv
    BY FlowStarts
  <1>2. TransferInv /\ HandlerInv /\ FlowInv /\ [Next]_vars => FlowInv'
    BY NextFlows
  <1>3. ~MayFail
    BY DEF Undisturbed
  <1>4. HandlerSpec => []HandlerInv
    BY <1>3, HandlerInvariant
  <1> QED BY <1>1, <1>2, <1>4, TransferInvariant, TransferUsesHandler, PTL DEF Spec

\* In the whole program, with one receiver and a network without faults, a file
\* that is saved has every piece of what the user sends, in order and from the
\* first on, whoever is stopped and wherever (README.md:79, main.cpp:220-238).
THEOREM SessionSavesFile ==
    ASSUME Undisturbed
    PROVE  SessionSpec => []SavedHoldsFile
  <1>1. SessionInv /\ FlowInv => SavedHoldsFile
    BY FlowSaves DEF SessionInv
  <1> QED BY <1>1, SessionFlow, SessionInvariant, PTL

\* And in a transfer on its own.
THEOREM TransferSavesFile ==
    ASSUME Undisturbed
    PROVE  Spec => []SavedHoldsFile
  <1>1. TransferInv /\ FlowInv => SavedHoldsFile
    BY FlowSaves
  <1> QED BY <1>1, TransferFlow, TransferInvariant, PTL
=============================================================================
