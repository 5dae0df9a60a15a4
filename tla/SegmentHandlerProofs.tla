------------------------ MODULE SegmentHandlerProofs ------------------------
(***************************************************************************)
(* Proofs about SegmentHandler, for every payload size, window size, size  *)
(* of the data and content of the heap, and for acknowledgments of any     *)
(* number in any order.                                                    *)
(*                                                                         *)
(* HandlerInv, the first inductive invariant, needs an allocation that     *)
(* never fails: then the data are cut once and for all.  What is left when *)
(* allocations fail is FailingInv, at the end of the module.               *)
(***************************************************************************)
EXTENDS SegmentHandler, TLAPS

\* What the loop of handleAck leaves: the first live cell is not below LAR.
BaseNotBelowLAR == bufLen > 0 => segmentCells[1].seqNum >= LAR

HandlerInv ==
    /\ HandlerTypeOK
    /\ CutOnce
    /\ SpinsOnlyOnWrap
    /\ StorageShape
    /\ BaseNotBelowLAR
    /\ WindowConsecutive

-----------------------------------------------------------------------------
\* Arithmetic.

\* The quotient and the remainder.
LEMMA DivBounds ==
    ASSUME NEW a \in Nat, NEW b \in Nat \ {0}
    PROVE  /\ a \div b \in Nat
           /\ (a \div b) * b <= a
           /\ a < (a \div b) * b + b
  OBVIOUS

\* A multiple of the divisor.
LEMMA DivExact ==
    ASSUME NEW a \in Nat, NEW b \in Nat \ {0}, a % b = 0
    PROVE  a \div b \in Nat /\ (a \div b) * b = a
  OBVIOUS

\* Less than the divisor divides to nothing.
LEMMA DivSmall ==
    ASSUME NEW a \in Nat, NEW b \in Nat \ {0}, a < b
    PROVE  a \div b = 0
  OBVIOUS

\* A number of uint32_t that does not wrap.
LEMMA ModSmall ==
    ASSUME NEW a \in Nat, NEW b \in Nat \ {0}, a < b
    PROVE  a % b = a
  OBVIOUS

\* A number of uint32_t that wraps once.
LEMMA ModWrap ==
    ASSUME NEW a \in Nat, NEW b \in Nat \ {0}, b <= a, a < 2 * b
    PROVE  a % b = a - b
  OBVIOUS

\* Segments start MSS bytes apart.
LEMMA OffsetNext ==
    ASSUME NEW k \in Int
    PROVE  /\ Offset(k) \in Int
           /\ Offset(k + 1) = Offset(k) + MSS
           /\ Offset(k + 1) = k * MSS
  BY SegmentAssumption DEF Offset

\* Later segments start later.
LEMMA OffsetMonotonic ==
    ASSUME NEW j \in Int, NEW k \in Int, j <= k
    PROVE  Offset(j) <= Offset(k)
  <1> DEFINE d == k - j
  <1>1. d \in Nat /\ MSS \in Nat
    BY SegmentAssumption
  <1>2. d * MSS >= 0
    BY <1>1
  <1>3. Offset(k) = Offset(j) + d * MSS
    BY SegmentAssumption DEF Offset
  <1> QED BY <1>2, <1>3, OffsetNext

\* generateSegments cuts the data into as many segments as it takes, the last
\* one not empty, unless rounding up wraps around: then it finds none to cut
\* (segment_handler.cpp:46).
LEMMA NumSegmentsBounds ==
    ASSUME NEW size \in UInt32, size > 0
    PROVE  IF size > U32 - MSS
           THEN NumSegments(size) = 0
           ELSE /\ NumSegments(size) \in Nat \ {0}
                /\ Offset(NumSegments(size)) < size
                /\ size <= Offset(NumSegments(size) + 1)
  <1> DEFINE up == size + MSS - 1
  <1>1. /\ MSS \in Nat \ {0} /\ U32 \in Nat \ {0} /\ MSS < U32
        /\ size \in Nat /\ size < U32 /\ up \in Nat
    BY SegmentAssumption DEF UInt32
  <1>2. CASE size > U32 - MSS
    <2>1. up % U32 = up - U32
      <3>1. U32 <= up /\ up < 2 * U32
        BY <1>1, <1>2
      <3> HIDE DEF up
      <3> QED BY <1>1, <3>1, ModWrap
    <2>2. up - U32 \in Nat /\ up - U32 < MSS
      BY <1>1, <1>2
    <2>3. (up - U32) \div MSS = 0
      BY <1>1, <2>2, DivSmall
    <2>4. NumSegments(size) = (up % U32) \div MSS
      BY DEF NumSegments
    <2> QED BY <1>2, <2>1, <2>3, <2>4
  <1>3. CASE ~(size > U32 - MSS)
    <2>1. up % U32 = up
      BY <1>1, <1>3, ModSmall
    <2> DEFINE n == NumSegments(size)
    <2>2. n = up \div MSS
      BY <2>1 DEF NumSegments
    <2>3. n \in Nat /\ n * MSS <= up /\ up < n * MSS + MSS
      BY <1>1, <2>2, DivBounds
    <2>4. n # 0
      BY <1>1, <2>3
    <2>5. Offset(n + 1) = n * MSS /\ Offset(n + 1) = Offset(n) + MSS /\ Offset(n) \in Int
      BY <2>3, OffsetNext
    <2> QED BY <1>1, <1>3, <2>3, <2>4, <2>5
  <1> QED BY <1>2, <1>3

-----------------------------------------------------------------------------
\* What generateSegments puts into the empty buffer of a new handler are the
\* segments of the data, in order.
LEMMA CutSegmentIsPiece ==
    ASSUME NEW size \in UInt32, size > 0, size <= U32 - MSS,
           NEW k \in 1 .. NumSegments(size), NEW flags \in SUBSET Flag
    PROVE  LET s == CutSegment(k, 0, 0, size, flags)
           IN  /\ s \in Segment
               /\ s.seqNum = Offset(k)
               /\ s.data = Offset(k)
               /\ s.payloadSize = MinOf(MSS, size - Offset(k))
  <1> DEFINE n == NumSegments(size)
  <1>1. n \in Nat \ {0} /\ Offset(n) < size /\ size \in Nat /\ size < U32
    BY NumSegmentsBounds, SegmentAssumption DEF UInt32
  <1>2. k \in Nat \ {0} /\ k <= n
    BY <1>1
  <1>3. 0 <= Offset(k) /\ Offset(k) < size /\ Offset(k) \in Int
    <2>1. Offset(1) = 0
      BY SegmentAssumption DEF Offset
    <2>2. Offset(1) <= Offset(k) /\ Offset(k) <= Offset(n)
      BY <1>1, <1>2, OffsetMonotonic
    <2> QED BY <1>1, <1>2, <2>1, <2>2, OffsetNext
  <1>4. MSS \in Nat \ {0} /\ U32 \in Nat
    BY SegmentAssumption
  <1>5. MinOf(MSS, size - Offset(k)) \in UInt32
    BY <1>1, <1>3, <1>4 DEF MinOf, UInt32
  <1>6. CutSegment(k, 0, 0, size, flags) =
          [flags |-> flags, seqNum |-> Offset(k), ackNum |-> 0,
           payloadSize |-> MinOf(MSS, size - Offset(k)), data |-> Offset(k)]
    BY <1>3 DEF CutSegment, Offset
  <1>7. Offset(k) \in UInt32 /\ 0 \in UInt32
    BY <1>1, <1>3, <1>4 DEF UInt32
  <1> QED BY <1>5, <1>6, <1>7 DEF Segment

\* The storage shifts down, and its last live cell stays behind.
LEMMA EraseFrontCells ==
    ASSUME NEW cells \in Seq(Segment), NEW len \in 0 .. Len(cells), NEW k \in 0 .. len
    PROVE  /\ EraseFront(cells, len, k) \in Seq(Segment)
           /\ Len(EraseFront(cells, len, k)) = Len(cells)
           /\ \A j \in 1 .. Len(cells) :
                EraseFront(cells, len, k)[j] =
                  IF j <= len THEN cells[MinOf(j + k, len)] ELSE cells[j]
  <1> DEFINE erased == EraseFront(cells, len, k)
  <1>1. ASSUME NEW j \in 1 .. Len(cells), j <= len
        PROVE  MinOf(j + k, len) \in 1 .. Len(cells)
    BY <1>1 DEF MinOf
  <1>2. \A j \in 1 .. Len(cells) :
          (IF j <= len THEN cells[MinOf(j + k, len)] ELSE cells[j]) \in Segment
    BY <1>1
  <1>3. erased \in [1 .. Len(cells) -> Segment]
    BY <1>2 DEF EraseFront
  <1>4. erased \in Seq(Segment) /\ Len(erased) = Len(cells)
    BY <1>3
  <1>5. \A j \in 1 .. Len(cells) :
          erased[j] = IF j <= len THEN cells[MinOf(j + k, len)] ELSE cells[j]
    BY DEF EraseFront
  <1> QED BY <1>4, <1>5

-----------------------------------------------------------------------------
\* A new handler (segment_handler.cpp:12-20).
LEMMA InvInit == HandlerInit => HandlerInv
  <1> SUFFICES ASSUME HandlerInit
               PROVE  HandlerInv
    OBVIOUS
  <1> USE DEF HandlerInit
  <1>1. HandlerTypeOK
    <2>1. <<>> \in Seq(Segment) /\ Len(<<>>) = 0
      OBVIOUS
    <2>2. 0 \in UInt32
      BY SegmentAssumption DEF UInt32
    <2>3. segmentCells \in Seq(Segment) /\ bufLen \in 0 .. Len(segmentCells)
      BY <2>1
    <2>4. spinning \in BOOLEAN
      OBVIOUS
    <2>5. window \in {<<>>} \cup [1 .. WindowSize -> Segment]
      OBVIOUS
    <2> QED BY ONLY <2>2, <2>3, <2>4, <2>5, HandlerInit DEF HandlerTypeOK, HandlerInit
  <1>2. CutOnce /\ SpinsOnlyOnWrap
    BY DEF CutOnce, SpinsOnlyOnWrap
  <1>3. StorageShape /\ BaseNotBelowLAR /\ WindowConsecutive
    BY DEF StorageShape, BaseNotBelowLAR, WindowConsecutive
  <1> QED BY <1>1, <1>2, <1>3 DEF HandlerInv

\* The first and only time the data are cut.
LEMMA SetDataStreamInv ==
    ASSUME ~MayFail, HandlerInv, SetDataStream
    PROVE  HandlerInv' /\ bufLen' = Len(segmentCells')
  <1> USE DEF HandlerInv
  <1>1. PICK size \in UInt32 : setDataStream(size)
    BY DEF SetDataStream
  <1>2. /\ dataSize = 0 /\ segmentCells = <<>> /\ bufLen = 0 /\ window = <<>>
        /\ dataIndex = 0 /\ currentSeqNum = 0 /\ LAR = 0 /\ ~spinning
    BY DEF SetDataStream, CutOnce
  <1>3. size \in UInt32 /\ size \in Nat
    BY SegmentAssumption DEF UInt32
  <1>4. LAR' = 0 /\ window' = <<>>
    BY <1>1, <1>2 DEF setDataStream
  <1>5. CASE size = 0
    BY <1>1, <1>2, <1>4, <1>5
    DEF setDataStream, bufferVars, HandlerTypeOK, CutOnce, SpinsOnlyOnWrap, StorageShape,
        BaseNotBelowLAR, WindowConsecutive, IsPiece, Dropped, Offset, NextOffset
  <1>6. CASE size # 0
    <2>1. dataSize' = size /\ generateSegments(segmentCells, bufLen)
      BY <1>1, <1>6 DEF setDataStream
    <2>2. 0 < size /\ 0 < WindowSize % 255
      BY <1>3, <1>6, HandlerAssumption
    <2> DEFINE n == NumSegments(dataSize' - dataIndex)
               cut(flags) == [i \in 1 .. n |-> CutSegment(i, dataIndex, currentSeqNum,
                                                         dataSize', flags[i])]
               bytes == BytesOf(n, dataSize' - dataIndex)
    <2>3. dataIndex < dataSize' /\ bufLen < WindowSize % 255
      BY <1>2, <1>3, <2>1, <2>2
    <2>4. dataSize' - dataIndex = size /\ n = NumSegments(size)
      BY <1>2, <1>3, <2>1
    <2>5. CASE n = 0
      <3>1. size > U32 - MSS
        BY <1>3, <2>2, <2>4, <2>5, NumSegmentsBounds
      <3>2. /\ segmentCells' = <<>> /\ bufLen' = 0 /\ spinning' = TRUE
            /\ dataIndex' = 0 /\ currentSeqNum' = 0
        BY <1>2, <2>1, <2>3, <2>5 DEF generateSegments
      <3>3. HandlerTypeOK'
        BY <1>3, <1>4, <2>1, <3>2, SegmentAssumption DEF HandlerTypeOK, UInt32
      <3>4. CutOnce'
        BY <1>4, <1>6, <2>1, <3>2 DEF CutOnce
      <3>5. SpinsOnlyOnWrap'
        BY <2>1, <3>1, <3>2 DEF SpinsOnlyOnWrap
      <3>6. StorageShape' /\ BaseNotBelowLAR' /\ WindowConsecutive'
        BY <1>4, <3>2 DEF StorageShape, BaseNotBelowLAR, WindowConsecutive
      <3> QED BY <3>2, <3>3, <3>4, <3>5, <3>6
    <2>6. CASE n # 0
      <3>1. n \in Nat \ {0} /\ ~(size > U32 - MSS)
        BY <1>3, <2>2, <2>4, <2>6, NumSegmentsBounds
      <3>2. PICK flags \in [1 .. n -> DataFlags] :
              segmentCells' = PushBack(segmentCells, bufLen, cut(flags))
        <4>1. PICK made \in Made(n) : \E flags \in [1 .. made -> DataFlags] :
                segmentCells' = PushBack(segmentCells, bufLen,
                    [i \in 1 .. made |->
                       IF made < n
                       THEN Freed(CutSegment(i, dataIndex, currentSeqNum, dataSize', flags[i]))
                       ELSE CutSegment(i, dataIndex, currentSeqNum, dataSize', flags[i])])
          BY <2>1, <2>3, <2>6, Zenon DEF generateSegments
        <4>2. made = n
          BY <4>1 DEF Made
        <4> HIDE DEF n
        <4>3. ~(n < n)
          BY <3>1
        <4> QED BY <4>1, <4>2, <4>3
      <3>3. \A k \in 1 .. n : flags[k] \in SUBSET Flag
        BY HandlerAssumption
      <3> DEFINE segments == cut(flags)
      <3>4. ASSUME NEW k \in 1 .. n
            PROVE  /\ segments[k] \in Segment
                   /\ segments[k].seqNum = Offset(k)
                   /\ segments[k].data = Offset(k)
                   /\ segments[k].payloadSize = MinOf(MSS, size - Offset(k))
        <4>1. segments[k] = CutSegment(k, 0, 0, size, flags[k])
          BY <1>2, <2>1
        <4>2. k \in 1 .. NumSegments(size) /\ size <= U32 - MSS
          BY <1>3, <2>4, <3>1, SegmentAssumption
        <4> HIDE DEF segments
        <4> QED BY <1>3, <2>2, <3>3, <4>1, <4>2, CutSegmentIsPiece
      <3>5. segments \in Seq(Segment) /\ Len(segments) = n
        BY <3>1, <3>4
      <3>6. segmentCells' = segments
        <4>1. SubSeq(segmentCells, 1, bufLen) = <<>>
          BY <1>2
        <4> HIDE DEF segments, n
        <4>2. SubSeq(segmentCells, bufLen + Len(segments) + 1, Len(segmentCells)) = <<>>
          BY <1>2, <3>1, <3>5
        <4>3. segmentCells' = <<>> \o segments \o <<>>
          BY <3>2, <4>1, <4>2 DEF PushBack, segments
        <4> QED BY <3>5, <4>3
      <3>7. bufLen' = bufLen + n /\ ~spinning'
            /\ dataIndex' = dataIndex + size /\ currentSeqNum' = currentSeqNum + size
        <4>1. \E made \in Made(n) :
                /\ bufLen' = bufLen + made
                /\ dataIndex' = dataIndex + BytesOf(made, dataSize' - dataIndex)
                /\ currentSeqNum' = currentSeqNum + BytesOf(made, dataSize' - dataIndex)
          BY <2>1, <2>3, <2>6, Zenon DEF generateSegments
        <4>2. bufLen' = bufLen + n /\ dataIndex' = dataIndex + bytes
              /\ currentSeqNum' = currentSeqNum + bytes
          BY <4>1 DEF Made
        <4>3. ~spinning'
          BY <1>2, <2>1, <2>3, <2>6, Zenon DEF generateSegments
        <4>4. size <= n * MSS /\ n * MSS \in Nat
          <5>1. size <= Offset(n + 1) /\ Offset(n + 1) = n * MSS
            BY <1>3, <2>2, <2>4, <3>1, NumSegmentsBounds, OffsetNext
          <5> HIDE DEF n
          <5> QED BY <3>1, <5>1, SegmentAssumption
        <4>5. bytes = size
          <5> HIDE DEF n
          <5> QED BY <1>3, <2>4, <4>4 DEF BytesOf, MinOf
        <4> QED BY <4>2, <4>3, <4>5
      <3>8. bufLen' = n /\ dataIndex' = size /\ currentSeqNum' = size
        BY <1>2, <1>3, <3>1, <3>7
      <3> HIDE DEF segments, n
      <3>9. HandlerTypeOK'
        <4>1. /\ segmentCells' \in Seq(Segment)
              /\ bufLen' \in 0 .. Len(segmentCells')
          BY <3>1, <3>5, <3>6, <3>8
        <4>2. spinning' \in BOOLEAN
          <5>1. spinning' = spinning
            BY <2>1, <2>3, <2>6, Zenon DEF generateSegments, n
          <5> QED BY <5>1 DEF HandlerTypeOK
        <4>3. 0 \in UInt32
          BY SegmentAssumption DEF UInt32
        <4> QED BY <1>3, <1>4, <2>1, <3>8, <4>1, <4>2, <4>3 DEF HandlerTypeOK
      <3>10. CutOnce' /\ SpinsOnlyOnWrap'
        BY <1>6, <2>1, <2>4, <3>1, <3>5, <3>6, <3>7, <3>8 DEF CutOnce, SpinsOnlyOnWrap
      <3>11. StorageShape'
        <4>1. ASSUME NEW j \in 1 .. n
              PROVE  MinOf(0 + j, n) = j
          BY <3>1 DEF MinOf
        <4>2. Dropped' = 0
          BY <3>1, <3>5, <3>6, <3>8 DEF Dropped
        <4> QED
          BY <2>1, <3>4, <3>5, <3>6, <4>1, <4>2 DEF StorageShape, IsPiece, Offset
      <3>12. BaseNotBelowLAR'
        <4>1. segments[1].seqNum = 0
          BY <3>1, <3>4, SegmentAssumption DEF Offset
        <4> QED BY <1>4, <3>6, <4>1 DEF BaseNotBelowLAR
      <3>13. WindowConsecutive'
        BY <1>4 DEF WindowConsecutive
      <3>14. bufLen' = Len(segmentCells')
        BY <3>5, <3>6, <3>8
      <3> QED BY <3>9, <3>10, <3>11, <3>12, <3>13, <3>14
    <2> QED BY <2>5, <2>6
  <1> QED BY <1>5, <1>6

\* What an acknowledgment beyond LAR does: it erases the segments below it.
LEMMA HandleAckStep ==
    ASSUME HandlerInv, ~spinning, dataSize # 0,
           NEW ackNum \in UInt32, handleAck(ackNum), ackNum > LAR
    PROVE  \E k \in 0 .. bufLen :
             /\ k < bufLen => segmentCells[k + 1].seqNum >= ackNum
             /\ \A j \in 1 .. k : segmentCells[j].seqNum < ackNum
             /\ segmentCells' = EraseFront(segmentCells, bufLen, k)
             /\ bufLen' = bufLen - k
             /\ LAR' = ackNum
             /\ UNCHANGED <<dataSize, dataIndex, currentSeqNum, spinning, window>>
  <1>1. PICK k \in 0 .. bufLen :
          /\ k < bufLen => segmentCells[k + 1].seqNum >= ackNum
          /\ \A j \in 1 .. k : segmentCells[j].seqNum < ackNum
          /\ generateSegments(EraseFront(segmentCells, bufLen, k), bufLen - k)
    BY DEF handleAck, IsNewAck, Erases
  <1>2. LAR' = ackNum /\ UNCHANGED <<dataSize, window>>
    BY DEF handleAck, IsNewAck
  <1>3. ~(dataIndex < dataSize')
    BY <1>2, SegmentAssumption DEF HandlerInv, CutOnce, HandlerTypeOK, UInt32
  <1>4. /\ segmentCells' = EraseFront(segmentCells, bufLen, k)
        /\ bufLen' = bufLen - k
        /\ UNCHANGED <<dataIndex, currentSeqNum, spinning>>
    BY <1>1, <1>3, Zenon DEF generateSegments
  <1> QED BY <1>1, <1>2, <1>4

\* An acknowledgment keeps the invariant, new or not (segment_handler.cpp:162-171).
LEMMA HandleAckInv == HandlerInv /\ HandleAck => HandlerInv'
  <1> SUFFICES ASSUME HandlerInv, ~spinning, dataSize # 0,
                      NEW ackNum \in UInt32, handleAck(ackNum)
               PROVE  HandlerInv'
    BY DEF HandleAck
  <1> USE DEF HandlerInv
  <1>1. CASE ~(ackNum > LAR)
    BY <1>1
    DEF handleAck, IsNewAck, bufferVars, HandlerTypeOK, CutOnce, SpinsOnlyOnWrap, StorageShape,
        BaseNotBelowLAR, WindowConsecutive, IsPiece, Dropped, Offset, NextOffset
  <1>2. CASE ackNum > LAR
    <2>1. PICK k \in 0 .. bufLen :
            /\ k < bufLen => segmentCells[k + 1].seqNum >= ackNum
            /\ segmentCells' = EraseFront(segmentCells, bufLen, k)
            /\ bufLen' = bufLen - k
            /\ LAR' = ackNum
            /\ UNCHANGED <<dataSize, dataIndex, currentSeqNum, spinning, window>>
      BY <1>2, HandleAckStep
    <2> DEFINE n == Len(segmentCells)
    <2>2. segmentCells \in Seq(Segment) /\ n \in Nat /\ bufLen \in 0 .. n /\ k \in Nat
      BY DEF HandlerTypeOK
    <2>3. /\ segmentCells' \in Seq(Segment)
          /\ Len(segmentCells') = n
          /\ \A j \in 1 .. n :
               segmentCells'[j] =
                 IF j <= bufLen THEN segmentCells[MinOf(j + k, bufLen)] ELSE segmentCells[j]
      BY <2>1, <2>2, EraseFrontCells
    <2>4. HandlerTypeOK'
      <3>1. bufLen' \in 0 .. Len(segmentCells')
        BY <2>1, <2>2, <2>3
      <3> QED BY <2>1, <2>3, <3>1 DEF HandlerTypeOK
    <2>5. CutOnce' /\ SpinsOnlyOnWrap'
      BY <2>1, <2>3 DEF CutOnce, SpinsOnlyOnWrap, NumSegments
    <2>6. StorageShape'
      <3> SUFFICES ASSUME NEW j \in 1 .. n
                   PROVE  IsPiece(segmentCells'[j], MinOf(Dropped' + j, n))
        BY <2>1, <2>3 DEF StorageShape, IsPiece, Offset
      <3>1. Dropped = n - bufLen /\ Dropped' = Dropped + k
        BY <2>1, <2>2, <2>3 DEF Dropped
      <3>2. ASSUME NEW i \in 1 .. n
            PROVE  IsPiece(segmentCells[i], MinOf(Dropped + i, n))
        BY DEF StorageShape
      <3>3. PICK i \in 1 .. n : /\ segmentCells'[j] = segmentCells[i]
                                /\ MinOf(Dropped + i, n) = MinOf(Dropped' + j, n)
        <4>1. CASE j <= bufLen
          <5>1. MinOf(j + k, bufLen) \in 1 .. n
            BY <2>2, <4>1 DEF MinOf
          <5>2. MinOf(Dropped + MinOf(j + k, bufLen), n) = MinOf(Dropped' + j, n)
            BY <2>2, <3>1, <4>1 DEF MinOf
          <5> QED BY <2>3, <4>1, <5>1, <5>2
        <4>2. CASE ~(j <= bufLen)
          <5>1. MinOf(Dropped + j, n) = MinOf(Dropped' + j, n)
            BY <2>2, <3>1, <4>2 DEF MinOf
          <5> QED BY <2>3, <4>2, <5>1
        <4> QED BY <4>1, <4>2
      <3> QED BY <3>2, <3>3
    <2>7. BaseNotBelowLAR'
      <3> SUFFICES ASSUME bufLen' > 0
                   PROVE  segmentCells'[1].seqNum >= LAR'
        BY DEF BaseNotBelowLAR
      <3>1. k < bufLen /\ MinOf(1 + k, bufLen) = k + 1 /\ 1 <= bufLen /\ 1 \in 1 .. n
        BY <2>1, <2>2 DEF MinOf
      <3>2. segmentCells'[1] = segmentCells[k + 1]
        BY <2>3, <3>1
      <3> QED BY <2>1, <3>1, <3>2
    <2>8. WindowConsecutive'
      BY <2>1, <2>3 DEF WindowConsecutive, NextOffset
    <2> QED BY <2>4, <2>5, <2>6, <2>7, <2>8
  <1> QED BY <1>1, <1>2

-----------------------------------------------------------------------------
\* The successor of a piece of the data is the piece behind it, and the last
\* one is its own.
LEMMA NextOfPiece ==
    ASSUME HandlerInv, dataSize # 0, ~spinning,
           NEW k \in 1 .. Len(segmentCells)
    PROVE  NextOffset(Offset(k)) = Offset(MinOf(k + 1, Len(segmentCells)))
  <1> DEFINE n == Len(segmentCells)
  <1>1. n = NumSegments(dataSize) /\ dataSize \in UInt32 /\ dataSize \in Nat
    BY SegmentAssumption DEF HandlerInv, CutOnce, HandlerTypeOK, UInt32
  <1>2. dataSize > 0 /\ ~(dataSize > U32 - MSS)
    BY <1>1 DEF HandlerInv, SpinsOnlyOnWrap
  <1>3. n \in Nat \ {0} /\ Offset(n) < dataSize /\ dataSize <= Offset(n + 1)
    BY <1>1, <1>2, NumSegmentsBounds
  <1>4. /\ Offset(k + 1) = Offset(k) + MSS /\ MSS \in Nat
        /\ Offset(k) \in Int /\ Offset(n) \in Int
    BY OffsetNext, SegmentAssumption
  <1>5. CASE k = n
    <2>1. MinOf(k + 1, n) = n
      BY <1>3, <1>5 DEF MinOf
    <2>2. ~(Offset(k) + MSS < dataSize)
      BY <1>1, <1>3, <1>4, <1>5
    <2> QED BY <1>5, <2>1, <2>2 DEF NextOffset
  <1>6. CASE k < n
    <2>1. MinOf(k + 1, n) = k + 1
      BY <1>3, <1>6 DEF MinOf
    <2>2. Offset(k + 1) <= Offset(n)
      BY <1>3, <1>6, OffsetMonotonic
    <2>3. Offset(k) + MSS < dataSize
      BY <1>1, <1>3, <1>4, <2>2
    <2> QED BY <1>4, <2>1, <2>3 DEF NextOffset
  <1> QED BY <1>3, <1>5, <1>6

\* Handing out a window keeps the invariant (segment_handler.cpp:118-156).
LEMMA AdvanceWindowInv == HandlerInv /\ AdvanceWindow => HandlerInv'
  <1> SUFFICES ASSUME HandlerInv, ~spinning, NEW helper \in {0, 1}, advanceWindow(helper)
               PROVE  HandlerInv'
    BY DEF AdvanceWindow
  <1> USE DEF HandlerInv
  <1> DEFINE n == Len(segmentCells)
  <1>1. UNCHANGED <<segmentCells, bufLen, dataIndex, currentSeqNum, spinning, dataSize, LAR>>
    BY DEF advanceWindow, bufferVars
  <1>2. segmentCells \in Seq(Segment) /\ n \in Nat /\ bufLen \in 0 .. n /\ WindowSize \in Nat
    BY HandlerAssumption DEF HandlerTypeOK
  <1>3. StorageShape' /\ SpinsOnlyOnWrap' /\ BaseNotBelowLAR'
    BY <1>1
    DEF StorageShape, IsPiece, Dropped, Offset, SpinsOnlyOnWrap, BaseNotBelowLAR
  <1>4. CASE bufLen = 0
    <2>1. window' = <<>>
      BY <1>4 DEF advanceWindow
    <2> QED BY <1>1, <1>3, <2>1 DEF HandlerTypeOK, CutOnce, WindowConsecutive
  <1>5. CASE bufLen # 0
    <2>1. dataSize # 0 /\ n > 0
      BY <1>2, <1>5 DEF CutOnce
    <2>2. PICK heap \in [1 .. WindowSize -> HeapSegments] :
            window' = [i \in 1 .. WindowSize |->
                         CellAt(Index(helper, i), heap[i])]
      BY <1>5 DEF advanceWindow
    <2> DEFINE at(i) == IF helper # 0 THEN i + 1 ELSE i
    <2>3. ASSUME NEW i \in 1 .. WindowSize
          PROVE  /\ at(i) <= n => window'[i] = segmentCells[at(i)]
                 /\ window'[i] \in Segment
      <3>1. window'[i] = CellAt(at(i) - 1, heap[i])
        <4>1. Index(helper, i) = at(i) - 1
          BY DEF Index
        <4> QED BY <2>2, <4>1
      <3>2. at(i) \in Nat \ {0}
        OBVIOUS
      <3> HIDE DEF at
      <3>3. window'[i] = IF at(i) <= n THEN segmentCells[at(i)] ELSE heap[i]
        BY <1>2, <3>1, <3>2 DEF CellAt
      <3> QED BY <1>2, <3>2, <3>3, HandlerAssumption
    <2>4. HandlerTypeOK'
      <3>1. window' \in [1 .. WindowSize -> Segment]
        BY <2>2, <2>3
      <3> QED BY <1>1, <3>1 DEF HandlerTypeOK
    <2>5. CutOnce'
      BY <1>1, <2>1 DEF CutOnce
    <2>6. WindowConsecutive'
      <3> SUFFICES ASSUME n > WindowSize, NEW i \in 1 .. WindowSize - 1
                   PROVE  window'[i + 1].data = NextOffset(window'[i].data)
        BY <1>1 DEF WindowConsecutive, NextOffset
      <3> DEFINE piece(j) == MinOf(Dropped + j, n)
      <3>1. /\ i \in 1 .. WindowSize /\ i + 1 \in 1 .. WindowSize
            /\ at(i) \in 1 .. n /\ at(i + 1) \in 1 .. n /\ at(i + 1) = at(i) + 1
        BY <1>2
      <3>2. window'[i] = segmentCells[at(i)] /\ window'[i + 1] = segmentCells[at(i) + 1]
        BY <2>3, <3>1
      <3> HIDE DEF at
      <3>3. /\ window'[i].data = Offset(piece(at(i)))
            /\ window'[i + 1].data = Offset(piece(at(i) + 1))
        BY <3>1, <3>2 DEF StorageShape, IsPiece
      <3>4. /\ piece(at(i)) \in 1 .. n
            /\ MinOf(piece(at(i)) + 1, n) = piece(at(i) + 1)
        BY <1>2, <3>1 DEF Dropped, MinOf
      <3>5. NextOffset(Offset(piece(at(i)))) = Offset(MinOf(piece(at(i)) + 1, n))
        BY <2>1, <3>4, NextOfPiece
      <3> QED BY <3>3, <3>4, <3>5
    <2> QED BY <1>3, <2>4, <2>5, <2>6
  <1> QED BY <1>4, <1>5

\* Every step keeps the invariant.
LEMMA InvStep ==
    ASSUME ~MayFail, HandlerInv, [HandlerNext]_handlerVars
    PROVE  HandlerInv'
  <1>1. HandlerInv /\ UNCHANGED handlerVars => HandlerInv'
    BY DEF handlerVars, bufferVars, HandlerInv, HandlerTypeOK, CutOnce, SpinsOnlyOnWrap,
           StorageShape, IsPiece, Dropped, Offset, BaseNotBelowLAR, WindowConsecutive,
           NextOffset
  <1> QED
    BY <1>1, SetDataStreamInv, HandleAckInv, AdvanceWindowInv DEF HandlerNext, Spin

-----------------------------------------------------------------------------
\* The inductive invariant.
THEOREM HandlerInvariant ==
    ASSUME ~MayFail
    PROVE  HandlerSpec => []HandlerInv
  <1>1. HandlerInv /\ [HandlerNext]_handlerVars => HandlerInv'
    BY InvStep
  <1> QED BY <1>1, InvInit, PTL DEF HandlerSpec

\* Whatever acknowledgments arrive, and in whatever order, the buffer holds the
\* rest of the data in order (SegmentHandler::handleAck and generateSegments).
THEOREM StorageInOrder ==
    ASSUME ~MayFail
    PROVE  HandlerSpec => []StorageShape
  <1>1. HandlerInv => StorageShape
    BY DEF HandlerInv
  <1> QED BY <1>1, HandlerInvariant, PTL

\* The data are cut by setDataStream and never again: no acknowledgment makes
\* generateSegments number a byte twice (segment_handler.cpp:41-99, 169).
THEOREM CutOnlyOnce ==
    ASSUME ~MayFail
    PROVE  HandlerSpec => []CutOnce
  <1>1. HandlerInv => CutOnce
    BY DEF HandlerInv
  <1> QED BY <1>1, HandlerInvariant, PTL

\* The loop of generateSegments is endless exactly for the last MSS - 1 sizes
\* of a uint32_t (segment_handler.cpp:41-46).
THEOREM EndlessOnlyOnWrap ==
    ASSUME ~MayFail
    PROVE  HandlerSpec => []SpinsOnlyOnWrap
  <1>1. HandlerInv => SpinsOnlyOnWrap
    BY DEF HandlerInv
  <1> QED BY <1>1, HandlerInvariant, PTL

\* A window of a file with more segments than the window never holds anything
\* but consecutive segments of that file, although advanceWindow reads behind
\* the end of segmentBuffer (segment_handler.cpp:136-143).
THEOREM WindowsConsecutive ==
    ASSUME ~MayFail
    PROVE  HandlerSpec => []WindowConsecutive
  <1>1. HandlerInv => WindowConsecutive
    BY DEF HandlerInv
  <1> QED BY <1>1, HandlerInvariant, PTL

\* LAR and the buffer only move forward (segment_handler.cpp:162-171).
THEOREM HandlerOnlyForward ==
    ASSUME ~MayFail
    PROVE  HandlerSpec => OnlyForward
  <1> DEFINE Forward == LAR' >= LAR /\ (dataSize # 0 => bufLen' <= bufLen)
  <1>1. HandlerInv /\ [HandlerNext]_handlerVars => [Forward]_handlerVars
    <2> SUFFICES ASSUME HandlerInv, HandlerNext
                 PROVE  Forward \/ UNCHANGED handlerVars
      OBVIOUS
    <2>1. LAR \in Nat /\ bufLen \in Nat
      BY SegmentAssumption DEF HandlerInv, HandlerTypeOK, UInt32
    <2>2. CASE SetDataStream
      BY <2>1, <2>2 DEF SetDataStream, setDataStream
    <2>3. CASE HandleAck
      <3>1. PICK ackNum \in UInt32 : handleAck(ackNum)
        BY <2>3 DEF HandleAck
      <3>2. CASE ackNum > LAR
        <4>1. PICK k \in 0 .. bufLen : bufLen' = bufLen - k /\ LAR' = ackNum
          BY <2>3, <3>1, <3>2, HandleAckStep DEF HandleAck
        <4>2. ackNum \in Nat
          BY SegmentAssumption DEF UInt32
        <4> QED BY <2>1, <3>2, <4>1, <4>2
      <3>3. CASE ~(ackNum > LAR)
        BY <2>1, <3>1, <3>3 DEF handleAck, IsNewAck, bufferVars
      <3> QED BY <3>2, <3>3
    <2>4. CASE AdvanceWindow
      BY <2>1, <2>4 DEF AdvanceWindow, advanceWindow, bufferVars
    <2> QED BY <2>2, <2>3, <2>4 DEF HandlerNext, Spin
  <1> QED BY <1>1, HandlerInvariant, PTL DEF HandlerSpec, OnlyForward

(***************************************************************************)
(* Nothing is lost: what has left the buffer lies below LAR.               *)
(***************************************************************************)
DroppedBelow == Dropped > 0 => Offset(Dropped) < LAR

\* Every step keeps it: an acknowledgment erases what is below its number.
LEMMA DroppedStep ==
    ASSUME ~MayFail, HandlerInv, HandlerInv', DroppedBelow, [HandlerNext]_handlerVars
    PROVE  DroppedBelow'
  <1>1. CASE SetDataStream
    <2>1. Dropped' = 0
      BY <1>1, SetDataStreamInv DEF Dropped, HandlerInv, HandlerTypeOK
    <2> QED BY <2>1 DEF DroppedBelow
  <1>2. ASSUME UNCHANGED <<segmentCells, bufLen, LAR>>
        PROVE  DroppedBelow'
    BY <1>2 DEF DroppedBelow, Dropped, Offset
  <1>3. CASE HandleAck
    <2>1. PICK ackNum \in UInt32 : handleAck(ackNum)
      BY <1>3 DEF HandleAck
    <2>2. CASE ~(ackNum > LAR)
      BY <1>2, <2>1, <2>2 DEF handleAck, IsNewAck, bufferVars
    <2>3. CASE ackNum > LAR
      <3>1. PICK k \in 0 .. bufLen :
              /\ \A j \in 1 .. k : segmentCells[j].seqNum < ackNum
              /\ segmentCells' = EraseFront(segmentCells, bufLen, k)
              /\ bufLen' = bufLen - k
              /\ LAR' = ackNum
        BY <1>3, <2>1, <2>3, HandleAckStep DEF HandleAck
      <3> DEFINE n == Len(segmentCells)
      <3>2. /\ segmentCells \in Seq(Segment) /\ n \in Nat /\ bufLen \in 0 .. n /\ k \in Nat
            /\ LAR \in Nat /\ ackNum \in Nat
        BY SegmentAssumption DEF HandlerInv, HandlerTypeOK, UInt32
      <3>3. Len(segmentCells') = n
        BY <3>1, <3>2, EraseFrontCells
      <3>4. Dropped' = Dropped + k /\ Dropped = n - bufLen /\ Dropped \in Nat
        BY <3>1, <3>2, <3>3 DEF Dropped
      <3>5. CASE k = 0
        <4>1. Dropped' = Dropped
          BY <3>4, <3>5
        <4>2. Dropped > 0 => Offset(Dropped) < ackNum
          <5>1. Offset(Dropped) \in Int
            BY <3>4, OffsetNext
          <5> QED BY <2>3, <3>2, <5>1 DEF DroppedBelow
        <4> QED BY <3>1, <4>1, <4>2 DEF DroppedBelow, Offset
      <3>6. CASE k > 0
        <4>1. k \in 1 .. n /\ MinOf(Dropped + k, n) = Dropped + k
          BY <3>2, <3>4, <3>6 DEF MinOf
        <4>2. IsPiece(segmentCells[k], MinOf(Dropped + k, n))
          BY <4>1 DEF HandlerInv, StorageShape
        <4>3. segmentCells[k].seqNum = Offset(Dropped + k)
          BY <4>1, <4>2 DEF IsPiece
        <4>4. segmentCells[k].seqNum < ackNum
          BY <3>1, <3>2, <3>6
        <4> QED BY <3>1, <3>4, <4>3, <4>4 DEF DroppedBelow, Offset
      <3> QED BY <3>2, <3>5, <3>6
    <2> QED BY <2>2, <2>3
  <1>4. CASE AdvanceWindow
    BY <1>2, <1>4 DEF AdvanceWindow, advanceWindow, bufferVars
  <1>5. CASE UNCHANGED handlerVars
    BY <1>2, <1>5 DEF handlerVars, bufferVars
  <1> QED BY <1>1, <1>3, <1>4, <1>5 DEF HandlerNext, Spin

\* Then every byte from LAR on lies in a live cell.
LEMMA AboveIsLive == HandlerInv /\ DroppedBelow => NothingLost
  <1> SUFFICES ASSUME HandlerInv, DroppedBelow, ~spinning, LAR % MSS = 0,
                      NEW byte \in LAR .. dataSize - 1
               PROVE  \E j \in 1 .. bufLen :
                        byte \in segmentCells[j].data ..
                                   segmentCells[j].data + segmentCells[j].payloadSize - 1
    BY DEF NothingLost
  <1> USE DEF HandlerInv
  <1> DEFINE n == Len(segmentCells)
             p == byte \div MSS + 1
             m == LAR \div MSS
  <1>1. /\ LAR \in Nat /\ dataSize \in UInt32 /\ dataSize \in Nat /\ MSS \in Nat \ {0}
        /\ byte \in Nat /\ LAR <= byte /\ byte < dataSize /\ dataSize > 0
    BY SegmentAssumption DEF HandlerTypeOK, UInt32
  <1>2. n \in Nat \ {0} /\ dataSize <= Offset(n + 1)
    <2>1. n = NumSegments(dataSize) /\ ~(dataSize > U32 - MSS)
      BY <1>1 DEF CutOnce, SpinsOnlyOnWrap
    <2> QED BY <1>1, <2>1, NumSegmentsBounds
  <1>3. /\ p \in Nat \ {0}
        /\ Offset(p) <= byte /\ byte < Offset(p) + MSS /\ Offset(p) \in Int
        /\ Offset(p + 1) = Offset(p) + MSS
    <2> DEFINE q == byte \div MSS
    <2>1. q \in Nat /\ q * MSS <= byte /\ byte < q * MSS + MSS
      BY <1>1, DivBounds
    <2> HIDE DEF q
    <2>2. Offset(q + 1) = q * MSS /\ Offset(q + 1) \in Int
          /\ Offset(q + 1 + 1) = Offset(q + 1) + MSS
      BY <2>1, OffsetNext
    <2> QED BY <2>1, <2>2 DEF q
  <1>4. m \in Nat /\ Offset(m + 1) = LAR
    <2>1. m \in Nat /\ m * MSS = LAR
      BY <1>1
    <2> QED BY <2>1, OffsetNext
  <1> HIDE DEF p, m, n
  <1>5. p <= n
    <2> SUFFICES ASSUME n + 1 <= p
                 PROVE  FALSE
      BY <1>2, <1>3
    <2>1. Offset(n + 1) <= Offset(p)
      BY <1>2, <1>3, OffsetMonotonic
    <2> QED BY <1>1, <1>2, <1>3, <2>1, OffsetNext
  <1>6. m < p
    <2>1. p <= m => Offset(p + 1) <= Offset(m + 1)
      BY <1>3, <1>4, OffsetMonotonic
    <2> QED BY <1>1, <1>3, <1>4, <2>1
  <1>7. Dropped = n - bufLen /\ Dropped \in Nat /\ bufLen \in 0 .. n
    BY <1>2 DEF Dropped, HandlerTypeOK, n
  <1>8. Dropped < p
    <2> SUFFICES ASSUME m + 1 <= Dropped
                 PROVE  FALSE
      BY <1>3, <1>4, <1>6, <1>7
    <2>1. Offset(m + 1) <= Offset(Dropped)
      BY <1>4, <1>7, OffsetMonotonic
    <2>2. Offset(Dropped) \in Int /\ Dropped > 0
      BY <1>4, <1>7, OffsetNext
    <2>3. Offset(Dropped) < LAR
      BY <2>2 DEF DroppedBelow
    <2> QED BY <1>1, <1>4, <2>1, <2>2, <2>3
  <1> DEFINE j == p - Dropped
  <1>9. j \in 1 .. bufLen /\ j \in 1 .. n /\ Dropped + j = p /\ MinOf(p, n) = p
    BY <1>2, <1>3, <1>5, <1>7, <1>8 DEF MinOf
  <1>10. IsPiece(segmentCells[j], p)
    BY <1>9 DEF StorageShape, n
  <1>11. /\ segmentCells[j].data = Offset(p)
         /\ segmentCells[j].payloadSize = MinOf(MSS, dataSize - Offset(p))
    BY <1>10 DEF IsPiece
  <1>12. byte \in Offset(p) .. Offset(p) + MinOf(MSS, dataSize - Offset(p)) - 1
    BY <1>1, <1>3 DEF MinOf
  <1> QED BY <1>9, <1>11, <1>12

\* As long as acknowledgments name the start of a segment, in whatever order they
\* come, no byte that is not acknowledged leaves the buffer
\* (segment_handler.cpp:162-171).
THEOREM NothingEverLost ==
    ASSUME ~MayFail
    PROVE  HandlerSpec => []NothingLost
  <1>1. HandlerInit => DroppedBelow
    BY DEF HandlerInit, DroppedBelow, Dropped
  <1>2. HandlerInv /\ HandlerInv' /\ DroppedBelow /\ [HandlerNext]_handlerVars
          => DroppedBelow'
    BY DroppedStep
  <1> QED BY <1>1, <1>2, AboveIsLive, HandlerInvariant, PTL DEF HandlerSpec

\* A window that is not the first one starts behind the segment LAR names: what
\* has left the buffer is exactly what lies below LAR.
LEMMA StartsBehindLAR ==
    ASSUME HandlerInv, DroppedBelow, advanceWindow(1), window' # <<>>,
           LAR % MSS = 0, Len(segmentCells) > 1
    PROVE  window'[1].data = NextOffset(LAR)
  <1> USE DEF HandlerInv
  <1> DEFINE n == Len(segmentCells)
             m == LAR \div MSS
  <1>1. /\ LAR \in Nat /\ MSS \in Nat \ {0} /\ WindowSize \in Nat \ {0}
        /\ n \in Nat /\ n > 1 /\ bufLen \in 0 .. n
        /\ Dropped = n - bufLen /\ Dropped \in Nat
    BY SegmentAssumption, HandlerAssumption DEF HandlerTypeOK, UInt32, Dropped
  <1>2. bufLen # 0 /\ dataSize # 0 /\ ~spinning
    BY <1>1 DEF advanceWindow, CutOnce
  <1>3. m \in Nat /\ Offset(m + 1) = LAR /\ Offset(m + 1) \in Int
    <2>1. m \in Nat /\ m * MSS = LAR
      <3>1. LAR % MSS = 0
        OBVIOUS
      <3> QED BY <1>1, <3>1, DivExact
    <2> HIDE DEF m
    <2>2. m \in Int
      BY <2>1
    <2>3. Offset(m + 1) = m * MSS
      BY <2>2, OffsetNext
    <2>4. Offset(m + 1) \in Int
      BY <2>1, <2>3, <1>1
    <2> QED BY <2>1, <2>3, <2>4
  <1> HIDE DEF m, n
  <1>4. segmentCells[1].seqNum = Offset(Dropped + 1)
    <2>1. MinOf(Dropped + 1, n) = Dropped + 1 /\ 1 \in 1 .. n
      BY <1>1, <1>2 DEF MinOf
    <2> QED BY <2>1 DEF StorageShape, IsPiece, n
  <1>5. Dropped = m
    <2>1. CASE Dropped < m
      <3>1. Offset(Dropped + 2) <= Offset(m + 1)
        BY <1>1, <1>3, <2>1, OffsetMonotonic
      <3>2. Offset(Dropped + 2) = Offset(Dropped + 1) + MSS /\ Offset(Dropped + 1) \in Int
        <4>1. Dropped + 1 \in Nat /\ Dropped + 1 + 1 = Dropped + 2
          BY <1>1
        <4> QED BY <4>1, OffsetNext
      <3>3. Offset(Dropped + 1) >= LAR
        BY <1>1, <1>2, <1>4 DEF BaseNotBelowLAR
      <3> QED BY <1>1, <1>3, <3>1, <3>2, <3>3
    <2>2. CASE m < Dropped
      <3>1. Offset(m + 1) <= Offset(Dropped)
        BY <1>1, <1>3, <2>2, OffsetMonotonic
      <3>2. Offset(Dropped) < LAR
        BY <1>1, <1>3, <2>2 DEF DroppedBelow
      <3>3. Offset(Dropped) \in Int
        BY <1>1, OffsetNext
      <3> QED BY <1>1, <1>3, <3>1, <3>2, <3>3
    <2> QED BY <1>1, <1>3, <2>1, <2>2
  <1>6. window'[1] = segmentCells[2]
    <2>1. PICK heap \in [1 .. WindowSize -> HeapSegments] :
            window' = [i \in 1 .. WindowSize |-> CellAt(Index(1, i), heap[i])]
      BY <1>2 DEF advanceWindow
    <2>2. window'[1] = CellAt(1, heap[1])
      BY <1>1, <2>1 DEF Index
    <2> QED BY <1>1, <2>2 DEF CellAt, n
  <1>7. segmentCells[2].data = Offset(MinOf(Dropped + 2, n))
    <2>1. 2 \in 1 .. n
      BY <1>1
    <2> QED BY <2>1 DEF StorageShape, IsPiece, n
  <1>8. NextOffset(Offset(m + 1)) = Offset(MinOf(m + 2, n))
    <2>1. m + 1 \in 1 .. n /\ m + 1 + 1 = m + 2
      BY <1>1, <1>2, <1>3, <1>5
    <2> QED BY <1>2, <2>1, NextOfPiece DEF n
  <1> QED BY <1>3, <1>5, <1>6, <1>7, <1>8

\* Whatever acknowledgments have come, in whatever order, a window that is not
\* the first one begins with the segment behind the one LAR names, or with the
\* last one again (segment_handler.cpp:138-139, 163-168).
THEOREM WindowsFollowAcks ==
    ASSUME ~MayFail
    PROVE  HandlerSpec => WindowFollowsAck
  <1> DEFINE Follows == (advanceWindow(1) /\ window' # <<>> /\ LAR % MSS = 0
                           /\ Len(segmentCells) > 1)
                          => window'[1].data = NextOffset(LAR)
  <1>1. HandlerInit => DroppedBelow
    BY DEF HandlerInit, DroppedBelow, Dropped
  <1>2. HandlerInv /\ HandlerInv' /\ DroppedBelow /\ [HandlerNext]_handlerVars
          => DroppedBelow'
    BY DroppedStep
  <1>3. HandlerInv /\ DroppedBelow => [Follows]_handlerVars
    BY StartsBehindLAR
  <1> QED BY <1>1, <1>2, <1>3, HandlerInvariant, PTL DEF HandlerSpec, WindowFollowsAck

-----------------------------------------------------------------------------
(***************************************************************************)
(* When allocations may fail.                                              *)
(***************************************************************************)
FailingInv == HandlerTypeOK /\ CutContinues

\* Two sequences of segments, one behind the other.
LEMMA ConcatCells ==
    ASSUME NEW s \in Seq(Segment), NEW t \in Seq(Segment)
    PROVE  /\ s \o t \in Seq(Segment)
           /\ Len(s \o t) = Len(s) + Len(t)
           /\ \A j \in 1 .. Len(s) : (s \o t)[j] = s[j]
  OBVIOUS

\* What is left to cut of size bytes from index on.
LEMMA RemainingUInt32 ==
    ASSUME NEW size \in UInt32, NEW index \in UInt32, index < size
    PROVE  /\ size - index \in UInt32 /\ size - index \in Nat /\ size - index > 0
           /\ size \in Nat /\ index \in Nat
  BY SegmentAssumption DEF UInt32

\* What is pushed stands behind the live cells.
LEMMA PushBackCells ==
    ASSUME NEW cells \in Seq(Segment), NEW len \in 0 .. Len(cells), NEW new \in Seq(Segment)
    PROVE  /\ PushBack(cells, len, new) \in Seq(Segment)
           /\ len + Len(new) \in 0 .. Len(PushBack(cells, len, new))
           /\ \A j \in 1 .. len + Len(new) :
                PushBack(cells, len, new)[j] = IF j <= len THEN cells[j] ELSE new[j - len]
  <1> DEFINE live == SubSeq(cells, 1, len)
             left == SubSeq(cells, len + Len(new) + 1, Len(cells))
  <1>1. Len(cells) \in Nat /\ Len(new) \in Nat /\ len \in Nat /\ len <= Len(cells)
    OBVIOUS
  <1>2. live \in Seq(Segment) /\ Len(live) = len /\ \A j \in 1 .. len : live[j] = cells[j]
    BY <1>1
  <1>3. left \in Seq(Segment)
    BY <1>1
  <1> HIDE DEF live, left
  <1>4. /\ live \o new \in Seq(Segment)
        /\ Len(live \o new) = len + Len(new)
        /\ \A j \in 1 .. len + Len(new) :
             (live \o new)[j] = IF j <= len THEN live[j] ELSE new[j - len]
    BY <1>1, <1>2
  <1> DEFINE front == live \o new
  <1> HIDE DEF front
  <1>5. /\ front \o left \in Seq(Segment)
        /\ Len(front \o left) = len + Len(new) + Len(left) /\ Len(left) \in Nat
        /\ \A j \in 1 .. len + Len(new) : (front \o left)[j] = front[j]
    <2>1. front \in Seq(Segment) /\ Len(front) = len + Len(new)
      BY <1>4 DEF front
    <2>2. Len(left) \in Nat
      BY <1>3
    <2> QED BY <1>1, <1>3, <2>1, <2>2, ConcatCells
  <1>6. PushBack(cells, len, new) = front \o left
    BY DEF PushBack, front, live, left
  <1> QED BY <1>1, <1>2, <1>4, <1>5, <1>6 DEF front

\* The i-th segment of a cut continues the one before it, and the last one that
\* is made ends where the next call cuts on.
LEMMA CutSegmentContinues ==
    ASSUME NEW size \in UInt32, NEW index \in UInt32, index < size,
           NumSegments(size - index) # 0,
           NEW made \in 0 .. NumSegments(size - index), NEW i \in 1 .. made,
           NEW flags \in SUBSET Flag
    PROVE  LET s == CutSegment(i, index, index, size, flags)
           IN  /\ s \in Segment /\ Freed(s) \in Segment
               /\ s.data = s.seqNum
               /\ s.seqNum = index + Offset(i)
               /\ s.payloadSize \in 1 .. MSS
               /\ s.seqNum + s.payloadSize =
                    index + (IF i < made THEN Offset(i + 1) ELSE BytesOf(made, size - index))
  <1> DEFINE remaining == size - index
             n         == NumSegments(remaining)
  <1>1. /\ MSS \in Nat \ {0} /\ U32 \in Nat /\ size \in Nat /\ index \in Nat /\ size < U32
        /\ remaining \in UInt32 /\ remaining > 0
    BY SegmentAssumption DEF UInt32
  <1>2. n \in Nat \ {0} /\ Offset(n) < remaining
    BY <1>1, NumSegmentsBounds
  <1> HIDE DEF remaining, n
  <1>3. i \in Nat \ {0} /\ made \in Nat /\ i <= made /\ made <= n
    BY <1>2 DEF n, remaining
  <1>4. /\ Offset(i) \in Int /\ 0 <= Offset(i) /\ Offset(i) < remaining
        /\ Offset(i + 1) = Offset(i) + MSS /\ Offset(i + 1) = i * MSS
    <2>1. Offset(1) = 0
      BY SegmentAssumption DEF Offset
    <2>2. Offset(1) <= Offset(i) /\ Offset(i) <= Offset(n)
      BY <1>2, <1>3, OffsetMonotonic
    <2> QED BY <1>1, <1>2, <1>3, <2>1, <2>2, OffsetNext DEF remaining
  <1>5. CutSegment(i, index, index, size, flags) =
          [flags |-> flags, seqNum |-> index + Offset(i), ackNum |-> 0,
           payloadSize |-> MinOf(MSS, size - (index + Offset(i))), data |-> index + Offset(i)]
    BY DEF CutSegment, Offset
  <1>6. /\ MinOf(MSS, size - (index + Offset(i))) \in 1 .. MSS
        /\ MinOf(MSS, size - (index + Offset(i))) \in UInt32
        /\ index + Offset(i) \in UInt32 /\ 0 \in UInt32
    BY <1>1, <1>4, SegmentAssumption DEF MinOf, UInt32, remaining
  <1>7. CutSegment(i, index, index, size, flags) \in Segment
        /\ Freed(CutSegment(i, index, index, size, flags)) \in Segment
    BY <1>5, <1>6 DEF Segment, Freed
  <1>8. CASE i < made
    <2>1. Offset(i + 1) <= Offset(n)
      BY <1>2, <1>3, <1>8, OffsetMonotonic
    <2>2. MinOf(MSS, size - (index + Offset(i))) = MSS
      BY <1>1, <1>2, <1>4, <2>1, OffsetNext DEF MinOf, remaining
    <2> QED BY <1>1, <1>4, <1>5, <1>6, <1>7, <1>8, <2>2
  <1>9. CASE ~(i < made)
    <2>1. made * MSS = Offset(i) + MSS
      BY <1>3, <1>4, <1>9
    <2>2. Offset(i) + MinOf(MSS, size - (index + Offset(i))) = BytesOf(made, remaining)
      BY <1>1, <1>4, <2>1 DEF BytesOf, MinOf, remaining
    <2> QED BY <1>1, <1>4, <1>5, <1>6, <1>7, <1>9, <2>2 DEF remaining
  <1> QED BY <1>8, <1>9

\* A call of generateSegments, wherever it gives up, leaves a buffer whose
\* segments go on from each other (segment_handler.cpp:32-100).
LEMMA GenerateContinues ==
    ASSUME dataSize' \in UInt32, dataIndex \in UInt32, dataIndex <= dataSize',
           currentSeqNum = dataIndex, spinning \in BOOLEAN,
           NEW cells \in Seq(Segment), NEW len \in 0 .. Len(cells),
           Continues(cells, len, dataIndex),
           generateSegments(cells, len)
    PROVE  /\ segmentCells' \in Seq(Segment)
           /\ bufLen' \in 0 .. Len(segmentCells')
           /\ dataIndex' \in UInt32 /\ dataIndex' <= dataSize'
           /\ currentSeqNum' = dataIndex'
           /\ spinning' \in BOOLEAN
           /\ Continues(segmentCells', bufLen', dataIndex')
  <1> DEFINE remaining == dataSize' - dataIndex
             n         == NumSegments(remaining)
  <1>1. CASE ~(dataIndex < dataSize' /\ len < WindowSize % 255)
    <2>1. segmentCells' = cells /\ bufLen' = len
          /\ UNCHANGED <<dataIndex, currentSeqNum, spinning>>
      BY <1>1, Zenon DEF generateSegments
    <2> QED BY <2>1
  <1>2. CASE dataIndex < dataSize' /\ len < WindowSize % 255 /\ n = 0
    <2>1. segmentCells' = cells /\ bufLen' = len /\ spinning' = TRUE
          /\ UNCHANGED <<dataIndex, currentSeqNum>>
      BY <1>2, Zenon DEF generateSegments
    <2> QED BY <2>1
  <1>3. CASE dataIndex < dataSize' /\ len < WindowSize % 255 /\ n # 0
    <2> DEFINE cut(i, flags) == CutSegment(i, dataIndex, currentSeqNum, dataSize', flags[i])
    <2>1. PICK made \in Made(n) :
            /\ \E flags \in [1 .. made -> DataFlags] :
                 segmentCells' = PushBack(cells, len,
                   [i \in 1 .. made |-> IF made < n THEN Freed(cut(i, flags)) ELSE cut(i, flags)])
            /\ bufLen' = len + made
            /\ dataIndex' = dataIndex + BytesOf(made, remaining)
            /\ currentSeqNum' = currentSeqNum + BytesOf(made, remaining)
            /\ UNCHANGED spinning
      BY <1>3, Zenon DEF generateSegments
    <2>2. PICK flags \in [1 .. made -> DataFlags] :
            segmentCells' = PushBack(cells, len,
              [i \in 1 .. made |-> IF made < n THEN Freed(cut(i, flags)) ELSE cut(i, flags)])
      BY <2>1
    <2>3. /\ remaining \in UInt32 /\ remaining > 0 /\ remaining \in Nat
          /\ dataIndex \in Nat /\ dataSize' \in Nat /\ MSS \in Nat /\ MSS > 0
      <3>1. MSS \in Nat /\ MSS > 0
        BY SegmentAssumption
      <3> QED BY <1>3, <3>1, RemainingUInt32
    <2>4. n \in Nat /\ made \in 0 .. n /\ made \in Nat /\ len \in Nat
      BY <1>3, <2>1, <2>3, NumSegmentsBounds DEF Made
    <2> DEFINE new == [i \in 1 .. made |->
                         IF made < n THEN Freed(cut(i, flags)) ELSE cut(i, flags)]
    <2> HIDE DEF n, remaining
    <2>5. ASSUME NEW i \in 1 .. made
          PROVE  /\ new[i] \in Segment
                 /\ new[i].data \in {new[i].seqNum, JunkData}
                 /\ new[i].seqNum = dataIndex + Offset(i)
                 /\ new[i].payloadSize \in 1 .. MSS
                 /\ new[i].seqNum + new[i].payloadSize =
                      dataIndex + (IF i < made THEN Offset(i + 1) ELSE BytesOf(made, remaining))
      <3> DEFINE s == CutSegment(i, dataIndex, dataIndex, dataSize', flags[i])
      <3>1. flags[i] \in SUBSET Flag
        BY HandlerAssumption
      <3>2. /\ s \in Segment /\ Freed(s) \in Segment
            /\ s.data = s.seqNum
            /\ s.seqNum = dataIndex + Offset(i)
            /\ s.payloadSize \in 1 .. MSS
            /\ s.seqNum + s.payloadSize =
                 dataIndex + (IF i < made THEN Offset(i + 1) ELSE BytesOf(made, remaining))
        BY <1>3, <2>4, <3>1, CutSegmentContinues DEF n, remaining
      <3>3. new[i] \in {s, Freed(s)}
        OBVIOUS
      <3> HIDE DEF s, new
      <3>4. /\ Freed(s).data = JunkData
            /\ Freed(s).seqNum = s.seqNum
            /\ Freed(s).payloadSize = s.payloadSize
        BY <3>2 DEF Freed, Segment
      <3> QED BY <3>2, <3>3, <3>4
    <2> HIDE DEF new
    <2>6. new \in Seq(Segment) /\ Len(new) = made
      BY <2>4, <2>5 DEF new
    <2>7. /\ segmentCells' \in Seq(Segment)
          /\ len + made \in 0 .. Len(segmentCells')
          /\ \A j \in 1 .. len + made :
               segmentCells'[j] = IF j <= len THEN cells[j] ELSE new[j - len]
      <3>1. segmentCells' = PushBack(cells, len, new)
        BY <2>2 DEF new
      <3> QED BY <2>6, <3>1, PushBackCells
    <2>8. BytesOf(made, remaining) \in Nat /\ BytesOf(made, remaining) <= remaining
      <3>1. made * MSS \in Nat
        BY <2>3, <2>4
      <3> QED BY <2>3, <3>1 DEF BytesOf, MinOf
    <2>9. /\ dataIndex' \in UInt32 /\ dataIndex' <= dataSize' /\ currentSeqNum' = dataIndex'
          /\ dataIndex' = dataIndex + BytesOf(made, remaining)
      BY <2>1, <2>3, <2>8, SegmentAssumption DEF UInt32, remaining
    <2>10. Continues(segmentCells', bufLen', dataIndex')
      <3> SUFFICES ASSUME NEW j \in 1 .. len + made
                   PROVE  /\ segmentCells'[j].data \in {segmentCells'[j].seqNum, JunkData}
                          /\ segmentCells'[j].payloadSize \in 1 .. MSS
                          /\ segmentCells'[j].seqNum + segmentCells'[j].payloadSize =
                               IF j < len + made THEN segmentCells'[j + 1].seqNum ELSE dataIndex'
        BY <2>1 DEF Continues
      <3>1. made > 0 => new[1].seqNum = dataIndex
        BY <2>3, <2>4, <2>5 DEF Offset
      <3>2. made = 0 => dataIndex' = dataIndex
        BY <2>3, <2>9 DEF BytesOf, MinOf
      <3>3. CASE j < len
        <4>1. /\ j \in 1 .. len /\ j + 1 \in 1 .. len + made
              /\ j + 1 <= len /\ j < len + made
          BY <2>4, <3>3
        <4>2. /\ segmentCells'[j] = cells[j]
              /\ segmentCells'[j + 1] = cells[j + 1]
          <5>1. \A k \in 1 .. len + made : k <= len => segmentCells'[k] = cells[k]
            BY <2>7
          <5> QED BY <4>1, <5>1
        <4>3. /\ cells[j].data \in {cells[j].seqNum, JunkData}
              /\ cells[j].payloadSize \in 1 .. MSS
              /\ cells[j].seqNum + cells[j].payloadSize = cells[j + 1].seqNum
          BY <3>3, <4>1 DEF Continues
        <4> QED BY <4>1, <4>2, <4>3
      <3>4. CASE j = len
        <4>1. segmentCells'[j] = cells[j] /\ j \in 1 .. len
          BY <2>4, <2>7, <3>4
        <4>2. made > 0 => segmentCells'[j + 1] = new[1]
          BY <2>4, <2>7, <3>4
        <4> QED BY <2>4, <3>1, <3>2, <3>4, <4>1, <4>2 DEF Continues
      <3>5. CASE j > len
        <4> DEFINE i == j - len
        <4>1. i \in 1 .. made /\ segmentCells'[j] = new[i]
          BY <2>4, <2>7, <3>5
        <4>2. j < len + made => i + 1 \in 1 .. made /\ segmentCells'[j + 1] = new[i + 1]
          BY <2>4, <2>7, <3>5
        <4>3. j < len + made <=> i < made
          BY <2>4
        <4> HIDE DEF i
        <4> QED BY <2>4, <2>5, <2>9, <4>1, <4>2, <4>3
      <3>6. j < len \/ j = len \/ j > len
        BY <2>4
      <3> QED BY <3>3, <3>4, <3>5, <3>6
    <2> QED BY <2>1, <2>7, <2>9, <2>10
  <1> QED BY <1>1, <1>2, <1>3

\* Erasing at the front leaves segments that go on from each other.
LEMMA EraseContinues ==
    ASSUME NEW cells \in Seq(Segment), NEW len \in 0 .. Len(cells), NEW k \in 0 .. len,
           NEW end, Continues(cells, len, end)
    PROVE  Continues(EraseFront(cells, len, k), len - k, end)
  <1> DEFINE erased == EraseFront(cells, len, k)
  <1>1. Len(cells) \in Nat /\ len \in Nat /\ k \in Nat
    OBVIOUS
  <1>2. ASSUME NEW j \in 1 .. len - k
        PROVE  erased[j] = cells[j + k] /\ j + k \in 1 .. len
    <2>1. MinOf(j + k, len) = j + k /\ j <= len /\ j \in 1 .. Len(cells)
      BY <1>1 DEF MinOf
    <2> QED BY <1>1, <2>1, EraseFrontCells
  <1> HIDE DEF erased
  <1>3. ASSUME NEW j \in 1 .. len - k
        PROVE  /\ erased[j].data \in {erased[j].seqNum, JunkData}
               /\ erased[j].payloadSize \in 1 .. MSS
               /\ erased[j].seqNum + erased[j].payloadSize =
                    IF j < len - k THEN erased[j + 1].seqNum ELSE end
    <2>1. CASE j < len - k
      <3>1. erased[j + 1] = cells[(j + k) + 1] /\ j + k < len
        BY <1>1, <1>2, <2>1
      <3> QED BY <1>2, <2>1, <3>1 DEF Continues
    <2>2. CASE ~(j < len - k)
      <3>1. ~(j + k < len)
        BY <1>1, <2>2
      <3> QED BY <1>2, <2>2, <3>1 DEF Continues
    <2> QED BY <2>1, <2>2
  <1> QED BY <1>3 DEF Continues, erased

\* Every step keeps what remains true when allocations fail.
LEMMA FailingStep == FailingInv /\ [HandlerNext]_handlerVars => FailingInv'
  <1> SUFFICES ASSUME FailingInv, [HandlerNext]_handlerVars
               PROVE  FailingInv'
    OBVIOUS
  <1> USE DEF FailingInv
  <1>1. dataIndex \in Nat /\ dataSize \in Nat /\ 0 \in UInt32
    BY SegmentAssumption DEF HandlerTypeOK, UInt32
  <1>2. CASE SetDataStream
    <2>1. PICK size \in UInt32 : setDataStream(size)
      BY <1>2 DEF SetDataStream
    <2>2. LAR' = LAR /\ window' = window
      BY <2>1 DEF setDataStream
    <2>3. CASE size = 0
      BY <2>1, <2>2, <2>3
      DEF setDataStream, bufferVars, HandlerTypeOK, CutContinues, Continues
    <2>4. CASE size # 0
      <3>1. dataSize' = size /\ generateSegments(segmentCells, bufLen)
        BY <2>1, <2>4 DEF setDataStream
      <3>2. dataIndex = 0 /\ size \in Nat
        BY <1>1, <1>2, SegmentAssumption DEF SetDataStream, CutContinues, UInt32
      <3>3. dataIndex <= dataSize'
        BY <3>1, <3>2
      <3> QED
        BY <2>2, <3>1, <3>3, GenerateContinues DEF HandlerTypeOK, CutContinues
    <2> QED BY <2>3, <2>4
  <1>3. CASE HandleAck
    <2>1. PICK ackNum \in UInt32 : handleAck(ackNum)
      BY <1>3 DEF HandleAck
    <2>2. CASE ~IsNewAck(ackNum)
      BY <2>1, <2>2 DEF handleAck, bufferVars, HandlerTypeOK, CutContinues, Continues
    <2>3. CASE IsNewAck(ackNum)
      <3>1. PICK k \in 0 .. bufLen :
              generateSegments(EraseFront(segmentCells, bufLen, k), bufLen - k)
        BY <2>1, <2>3 DEF handleAck
      <3>2. LAR' = ackNum /\ dataSize' = dataSize /\ window' = window
        BY <2>1, <2>3 DEF handleAck
      <3> DEFINE cells == EraseFront(segmentCells, bufLen, k)
      <3>3. cells \in Seq(Segment) /\ bufLen - k \in 0 .. Len(cells)
        BY EraseFrontCells DEF HandlerTypeOK
      <3>4. Continues(cells, bufLen - k, dataIndex)
        BY EraseContinues DEF HandlerTypeOK, CutContinues
      <3> HIDE DEF cells
      <3>5. generateSegments(cells, bufLen - k)
        BY <3>1 DEF cells
      <3> QED
        BY <3>2, <3>3, <3>4, <3>5, GenerateContinues DEF HandlerTypeOK, CutContinues
    <2> QED BY <2>2, <2>3
  <1>4. CASE AdvanceWindow
    <2>1. PICK helper \in {0, 1} : advanceWindow(helper)
      BY <1>4 DEF AdvanceWindow
    <2>2. UNCHANGED <<segmentCells, bufLen, dataIndex, currentSeqNum, spinning, dataSize, LAR>>
      BY <2>1 DEF advanceWindow, bufferVars
    <2>3. CASE bufLen = 0
      BY <2>1, <2>2, <2>3 DEF advanceWindow, HandlerTypeOK, CutContinues, Continues
    <2>4. CASE bufLen # 0
      <3>1. PICK heap \in [1 .. WindowSize -> HeapSegments] :
              window' = [i \in 1 .. WindowSize |-> CellAt(Index(helper, i), heap[i])]
        BY <2>1, <2>4 DEF advanceWindow
      <3>2. ASSUME NEW i \in 1 .. WindowSize
            PROVE  CellAt(Index(helper, i), heap[i]) \in Segment
        <4>1. Index(helper, i) \in Nat
          BY DEF Index
        <4>2. heap[i] \in Segment
          BY HandlerAssumption
        <4> QED BY <4>1, <4>2 DEF CellAt, HandlerTypeOK
      <3>3. window' \in [1 .. WindowSize -> Segment]
        BY <3>1, <3>2
      <3> QED BY <2>2, <3>3 DEF HandlerTypeOK, CutContinues, Continues
    <2> QED BY <2>3, <2>4
  <1>5. CASE UNCHANGED handlerVars
    BY <1>5 DEF handlerVars, bufferVars, HandlerTypeOK, CutContinues, Continues
  <1> QED BY <1>2, <1>3, <1>4, <1>5 DEF HandlerNext, Spin

\* A new handler satisfies it.
LEMMA FailingInit == HandlerInit => FailingInv
  <1>1. HandlerInit => HandlerTypeOK
    BY InvInit DEF HandlerInv
  <1>2. HandlerInit => CutContinues
    BY DEF HandlerInit, CutContinues, Continues
  <1> QED BY <1>1, <1>2 DEF FailingInv

\* With and without failures, the numbers in the buffer go on from each other to
\* where the data will be cut next (segment_handler.cpp:32-100, 162-171).
THEOREM CutAlwaysContinues == HandlerSpec => []CutContinues
  <1>1. FailingInv => CutContinues
    BY DEF FailingInv
  <1> QED BY <1>1, FailingInit, FailingStep, PTL DEF HandlerSpec

\* With and without failures, no index, size or number of the handler leaves its
\* range, and what it sends is a segment.
THEOREM HandlerTyped == HandlerSpec => []HandlerTypeOK
  <1>1. FailingInv => HandlerTypeOK
    BY DEF FailingInv
  <1> QED BY <1>1, FailingInit, FailingStep, PTL DEF HandlerSpec

-----------------------------------------------------------------------------
(***************************************************************************)
(* The flags of what is sent.  The code never sets those of a data         *)
(* segment, so a window carries what lay in memory, and nothing else.      *)
(***************************************************************************)
FlagsAsCut ==
    /\ \A j \in DOMAIN segmentCells : segmentCells[j].flags \in DataFlags
    /\ window # <<>> =>
         \A i \in 1 .. WindowSize :
             window[i].flags \in DataFlags \/ window[i] \in HeapSegments

\* Pushing adds nothing but what is pushed.
LEMMA PushBackSeq ==
    ASSUME NEW S, NEW cells \in Seq(S), NEW len \in 0 .. Len(cells), NEW new \in Seq(S)
    PROVE  PushBack(cells, len, new) \in Seq(S)
  <1> DEFINE live == SubSeq(cells, 1, len)
             left == SubSeq(cells, len + Len(new) + 1, Len(cells))
  <1>1. live \in Seq(S) /\ left \in Seq(S)
    OBVIOUS
  <1> HIDE DEF live, left
  <1>2. (live \o new) \o left \in Seq(S)
    BY <1>1
  <1> QED BY <1>2 DEF PushBack, live, left

\* generateSegments gives a new segment the flags it finds.
LEMMA GenerateFlags ==
    ASSUME dataSize' \in UInt32, dataIndex \in UInt32,
           NEW cells \in Seq(Segment), NEW len \in 0 .. Len(cells),
           \A j \in DOMAIN cells : cells[j].flags \in DataFlags,
           generateSegments(cells, len)
    PROVE  \A j \in DOMAIN segmentCells' : segmentCells'[j].flags \in DataFlags
  <1> DEFINE n == NumSegments(dataSize' - dataIndex)
  <1>1. CASE segmentCells' = cells
    BY <1>1
  <1>2. CASE segmentCells' # cells
    <2> DEFINE cut(i, flags) == CutSegment(i, dataIndex, currentSeqNum, dataSize', flags[i])
    <2>1. PICK made \in Made(n) : \E flags \in [1 .. made -> DataFlags] :
            segmentCells' = PushBack(cells, len,
              [i \in 1 .. made |-> IF made < n THEN Freed(cut(i, flags)) ELSE cut(i, flags)])
      BY <1>2, Zenon DEF generateSegments
    <2>2. PICK flags \in [1 .. made -> DataFlags] :
            segmentCells' = PushBack(cells, len,
              [i \in 1 .. made |-> IF made < n THEN Freed(cut(i, flags)) ELSE cut(i, flags)])
      BY <2>1
    <2> DEFINE new == [i \in 1 .. made |->
                         IF made < n THEN Freed(cut(i, flags)) ELSE cut(i, flags)]
    <2>3. ASSUME NEW i \in 1 .. made
          PROVE  new[i].flags \in DataFlags
      BY DEF CutSegment, Freed
    <2>4. segmentCells' = PushBack(cells, len, new)
      BY <2>2
    <2>5. made \in Nat
      <3>1. dataIndex < dataSize'
        BY <1>2, Zenon DEF generateSegments
      <3>2. n \in Nat
        BY <3>1, RemainingUInt32, NumSegmentsBounds
      <3> HIDE DEF n
      <3> QED BY <2>1, <3>2 DEF Made
    <2> DEFINE S == {cells[j] : j \in DOMAIN cells} \cup {new[i] : i \in 1 .. made}
    <2>6. cells \in Seq(S)
      OBVIOUS
    <2>7. new \in Seq(S)
      BY <2>5
    <2>8. \A s \in S : s.flags \in DataFlags
      BY <2>3
    <2> HIDE DEF new, S
    <2>9. segmentCells' \in Seq(S)
      BY <2>4, <2>6, <2>7, PushBackSeq
    <2> QED BY <2>8, <2>9
  <1> QED BY <1>1, <1>2

\* Whatever the handler does, its cells keep the flags they were cut with.
LEMMA FlagsStep ==
    ASSUME FailingInv, FlagsAsCut, [HandlerNext]_handlerVars
    PROVE  FlagsAsCut'
  <1> USE DEF FailingInv
  <1>0. FailingInv'
    BY FailingStep
  <1>1. dataSize' \in UInt32 /\ dataIndex \in UInt32
    BY <1>0 DEF HandlerTypeOK
  <1>2. CASE SetDataStream
    <2>1. PICK size \in UInt32 : setDataStream(size)
      BY <1>2 DEF SetDataStream
    <2>2. window' = window
      BY <2>1 DEF setDataStream
    <2>3. CASE size = 0
      BY <2>1, <2>2, <2>3 DEF setDataStream, bufferVars, FlagsAsCut
    <2>4. CASE size # 0
      <3>1. generateSegments(segmentCells, bufLen)
        BY <2>1, <2>4 DEF setDataStream
      <3> QED BY <1>1, <2>2, <3>1, GenerateFlags DEF HandlerTypeOK, FlagsAsCut
    <2> QED BY <2>3, <2>4
  <1>3. CASE HandleAck
    <2>1. PICK ackNum \in UInt32 : handleAck(ackNum)
      BY <1>3 DEF HandleAck
    <2>2. window' = window
      BY <2>1 DEF handleAck
    <2>3. CASE ~IsNewAck(ackNum)
      BY <2>1, <2>2, <2>3 DEF handleAck, bufferVars, FlagsAsCut
    <2>4. CASE IsNewAck(ackNum)
      <3>1. PICK k \in 0 .. bufLen :
              generateSegments(EraseFront(segmentCells, bufLen, k), bufLen - k)
        BY <2>1, <2>4 DEF handleAck
      <3> DEFINE cells == EraseFront(segmentCells, bufLen, k)
      <3>2. cells \in Seq(Segment) /\ bufLen - k \in 0 .. Len(cells)
        BY EraseFrontCells DEF HandlerTypeOK
      <3>3. \A j \in DOMAIN cells : cells[j].flags \in DataFlags
        <4>1. /\ DOMAIN segmentCells = 1 .. Len(segmentCells)
              /\ bufLen \in Nat /\ k \in Nat /\ Len(segmentCells) \in Nat
              /\ bufLen <= Len(segmentCells)
          BY DEF HandlerTypeOK
        <4>2. ASSUME NEW j \in DOMAIN cells
              PROVE  \E i \in DOMAIN segmentCells : cells[j] = segmentCells[i]
          <5>1. j \in 1 .. Len(segmentCells)
            BY <4>1 DEF EraseFront
          <5>2. cells[j] = IF j <= bufLen THEN segmentCells[MinOf(j + k, bufLen)]
                                          ELSE segmentCells[j]
            BY <5>1 DEF EraseFront
          <5>3. j <= bufLen => MinOf(j + k, bufLen) \in DOMAIN segmentCells
            BY <4>1, <5>1 DEF MinOf
          <5> QED BY <4>1, <5>1, <5>2, <5>3
        <4> HIDE DEF cells
        <4> QED BY <4>2 DEF FlagsAsCut
      <3> HIDE DEF cells
      <3>4. generateSegments(cells, bufLen - k)
        BY <3>1 DEF cells
      <3> QED BY <1>1, <2>2, <3>2, <3>3, <3>4, GenerateFlags DEF FlagsAsCut
    <2> QED BY <2>3, <2>4
  <1>4. CASE AdvanceWindow
    <2>1. PICK helper \in {0, 1} : advanceWindow(helper)
      BY <1>4 DEF AdvanceWindow
    <2>2. segmentCells' = segmentCells
      BY <2>1 DEF advanceWindow, bufferVars
    <2>3. CASE bufLen = 0
      BY <2>1, <2>2, <2>3 DEF advanceWindow, FlagsAsCut
    <2>4. CASE bufLen # 0
      <3>1. PICK heap \in [1 .. WindowSize -> HeapSegments] :
              window' = [i \in 1 .. WindowSize |-> CellAt(Index(helper, i), heap[i])]
        BY <2>1, <2>4 DEF advanceWindow
      <3>2. ASSUME NEW i \in 1 .. WindowSize
            PROVE  \/ CellAt(Index(helper, i), heap[i]).flags \in DataFlags
                   \/ CellAt(Index(helper, i), heap[i]) \in HeapSegments
        <4>1. Index(helper, i) \in Nat
          BY DEF Index
        <4> QED BY <4>1 DEF CellAt, HandlerTypeOK, FlagsAsCut
      <3> QED BY <2>2, <3>1, <3>2 DEF FlagsAsCut
    <2> QED BY <2>3, <2>4
  <1>5. CASE UNCHANGED handlerVars
    BY <1>5 DEF handlerVars, bufferVars, FlagsAsCut
  <1> QED BY <1>2, <1>3, <1>4, <1>5 DEF HandlerNext, Spin

\* In every cell and every window the flags are those the memory had when the
\* segment was cut, or the segment is whatever lies behind the buffer
\* (segment_handler.cpp:55-70, 136-143).
THEOREM FlagsAlwaysAsCut == HandlerSpec => []FlagsAsCut
  <1>1. HandlerInit => FlagsAsCut
    BY DEF HandlerInit, FlagsAsCut
  <1>2. FailingInv /\ FlagsAsCut /\ [HandlerNext]_handlerVars => FlagsAsCut'
    BY FlagsStep
  <1> QED BY <1>1, <1>2, FailingInit, FailingStep, PTL DEF HandlerSpec
=============================================================================
