--------------------------- MODULE SegmentHandler ---------------------------
(***************************************************************************)
(* The class SegmentHandler of src/segment_handler.cpp: the sender's       *)
(* buffer of segments, its window and the handling of acknowledgments.     *)
(*                                                                         *)
(* segmentBuffer is a std::vector that the code reads past its end, so the *)
(* model keeps the vector's storage: segmentCells holds every cell that    *)
(* was ever written and the first bufLen of them are the live elements.    *)
(* Erasing the front shifts the live cells down and leaves the last one    *)
(* behind, and a read behind the written cells returns whatever the heap   *)
(* holds, one of HeapSegments.                                             *)
(*                                                                         *)
(* segmentTimers is never filled by the code, so that checkTimeouts and    *)
(* markAcknowledged, which only touch its elements, change nothing: they   *)
(* have no action here.                                                    *)
(***************************************************************************)
EXTENDS Segment

CONSTANTS
    WindowSize,    \* the constructor's wSize (3 in the code)
    DataFlags,     \* what the flags of a data segment, never initialised, may be
    HeapSegments,  \* what a cell that was never written may hold
    MayFail        \* an allocation may fail

ASSUME HandlerAssumption ==
    /\ WindowSize \in 1 .. 254
    /\ DataFlags \subseteq SUBSET Flag
    /\ DataFlags # {}
    /\ HeapSegments \subseteq Segment
    /\ HeapSegments # {}
    /\ MayFail \in BOOLEAN

VARIABLES
    segmentCells,   \* the storage of segmentBuffer
    bufLen,         \* segmentBuffer.size()
    dataSize,       \* 0 as long as dataStream is null
    dataIndex,
    currentSeqNum,
    LAR,            \* the last acknowledgment received
    spinning,       \* TRUE when the loop of generateSegments cannot end
    window          \* the array the last advanceWindow returned, <<>> for nullptr

bufferVars  == <<segmentCells, bufLen, dataIndex, currentSeqNum, spinning>>
handlerVars == <<bufferVars, dataSize, LAR, window>>

HandlerInit ==
    /\ segmentCells = <<>>
    /\ bufLen = 0
    /\ dataSize = 0
    /\ dataIndex = 0
    /\ currentSeqNum = 0
    /\ LAR = 0
    /\ spinning = FALSE
    /\ window = <<>>

-----------------------------------------------------------------------------
\* Mutations of definitions below, each a slip the code could have had: TLC must
\* find that it breaks the property it is named with in PROJECT.json.
NumSegmentsDown(remaining) == remaining \div MSS

CutSegmentFromOne(i, index, seqNum, size, flags) ==
    [flags |-> flags, seqNum |-> seqNum + (i - 1) * MSS, ackNum |-> 0,
     payloadSize |-> IF size - index < MSS THEN size - (index + i * MSS) ELSE MSS,
     data |-> index + (i - 1) * MSS]

BytesOfAll(made, remaining) == remaining

setDataStreamOnly(size) ==
    /\ dataSize' = size
    /\ UNCHANGED <<bufferVars, LAR, window>>

EraseBack(cells, len, k) ==
    [j \in 1 .. Len(cells) |-> IF j <= len - k THEN cells[j] ELSE cells[Len(cells)]]

ErasesAcked(k, ackNum) ==
    /\ \A j \in 1 .. k : segmentCells[j].seqNum <= ackNum
    /\ k < bufLen => segmentCells[k + 1].seqNum > ackNum

ErasesAtMostOne(k, ackNum) ==
    k = IF bufLen > 0 /\ segmentCells[1].seqNum < ackNum THEN 1 ELSE 0

IsOtherAck(ackNum) == ackNum # LAR

IndexByWindows(helper, i) == helper * WindowSize + i - 1
IndexSkipping(helper, i)  == IF helper # 0 THEN i + 1 ELSE i - 1

-----------------------------------------------------------------------------
\* The division, rounding up, in uint32_t: the addition may wrap.
NumSegments(remaining) == ((remaining + MSS - 1) % U32) \div MSS

MinOf(a, b) == IF a <= b THEN a ELSE b

\* The i-th segment cut from the data at index, numbered from seqNum on.
CutSegment(i, index, seqNum, size, flags) ==
    LET before == (i - 1) * MSS
    IN  [flags |-> flags, seqNum |-> seqNum + before, ackNum |-> 0,
         payloadSize |-> MinOf(MSS, size - (index + before)),
         data |-> index + before]

\* How many of n segments have a payload before an allocation fails.
Made(n) == IF MayFail THEN 0 .. n ELSE {n}

BytesOf(made, remaining) == MinOf(made * MSS, remaining)

\* The failure frees the payloads of the segments already in segmentBuffer, and
\* the first bytes of a freed block are overwritten.
Freed(segment) == [segment EXCEPT !.data = JunkData]

\* The storage after new segments are pushed behind len elements: what the
\* erases left behind them stays.
PushBack(cells, len, new) ==
    SubSeq(cells, 1, len) \o new \o SubSeq(cells, len + Len(new) + 1, Len(cells))

(***************************************************************************)
(* generateSegments, called with the storage cells and len live elements.  *)
(* Its outer loop tests the window, its inner loop cuts ALL the remaining  *)
(* data: one round fills the buffer, unless numSegments is 0 although data *)
(* remains, and then the outer loop has nothing that ends it.  When an     *)
(* allocation fails the call returns, with what was pushed until then.     *)
(***************************************************************************)
generateSegments(cells, len) ==
    LET remaining == dataSize' - dataIndex
        n         == NumSegments(remaining)
    IN  IF dataIndex < dataSize' /\ len < WindowSize % 255
        THEN IF n = 0
             THEN /\ segmentCells' = cells
                  /\ bufLen' = len
                  /\ spinning' = TRUE
                  /\ UNCHANGED <<dataIndex, currentSeqNum>>
             ELSE \E made \in Made(n) :
                  /\ \E flags \in [1 .. made -> DataFlags] :
                       LET cut(i) == CutSegment(i, dataIndex, currentSeqNum, dataSize', flags[i])
                       IN  segmentCells' =
                             PushBack(cells, len, [i \in 1 .. made |->
                                        IF made < n THEN Freed(cut(i)) ELSE cut(i)])
                  /\ bufLen' = len + made
                  /\ dataIndex' = dataIndex + BytesOf(made, remaining)
                  /\ currentSeqNum' = currentSeqNum + BytesOf(made, remaining)
                  /\ UNCHANGED spinning
        ELSE /\ segmentCells' = cells
             /\ bufLen' = len
             /\ UNCHANGED <<dataIndex, currentSeqNum, spinning>>

setDataStream(size) ==
    /\ IF size = 0
       THEN UNCHANGED <<bufferVars, dataSize>>
       ELSE /\ dataSize' = size
            /\ generateSegments(segmentCells, bufLen)
    /\ UNCHANGED <<LAR, window>>

\* The storage after k erases at the front of a vector with len elements.
EraseFront(cells, len, k) ==
    [j \in 1 .. Len(cells) |-> IF j <= len THEN cells[MinOf(j + k, len)] ELSE cells[j]]

\* The loop of handleAck erases k segments.
Erases(k, ackNum) ==
    /\ \A j \in 1 .. k : segmentCells[j].seqNum < ackNum
    /\ k < bufLen => segmentCells[k + 1].seqNum >= ackNum

IsNewAck(ackNum) == ackNum > LAR

handleAck(ackNum) ==
    /\ IF IsNewAck(ackNum)
       THEN /\ LAR' = ackNum
            /\ UNCHANGED dataSize
            /\ \E k \in 0 .. bufLen :
                 /\ Erases(k, ackNum)
                 /\ generateSegments(EraseFront(segmentCells, bufLen, k), bufLen - k)
       ELSE UNCHANGED <<bufferVars, dataSize, LAR>>
    /\ UNCHANGED window

\* The cell that index j (counted from 0) of segmentBuffer refers to, inside
\* the live elements or not; heap is what lies behind the written cells.
CellAt(j, heap) == IF j < Len(segmentCells) THEN segmentCells[j + 1] ELSE heap

\* The index of the i-th segment of a window; helper counts the calls made
\* before this one, and is only compared with 0.
Index(helper, i) == IF helper # 0 THEN i ELSE i - 1

advanceWindow(helper) ==
    /\ IF bufLen = 0
       THEN window' = <<>>
       ELSE \E heap \in [1 .. WindowSize -> HeapSegments] :
              window' = [i \in 1 .. WindowSize |->
                           CellAt(Index(helper, i), heap[i])]
    /\ UNCHANGED <<bufferVars, dataSize, LAR>>

-----------------------------------------------------------------------------
(***************************************************************************)
(* The class on its own: one setDataStream, as TCPSocket::send makes it,   *)
(* then any windows and acknowledgments.  A handler whose loop spins never *)
(* returns to its caller.                                                  *)
(***************************************************************************)
SetDataStream == ~spinning /\ dataSize = 0 /\ \E size \in UInt32 : setDataStream(size)
HandleAck     == ~spinning /\ dataSize # 0 /\ \E ackNum \in UInt32 : handleAck(ackNum)
AdvanceWindow == ~spinning /\ \E helper \in {0, 1} : advanceWindow(helper)
Spin          == spinning /\ UNCHANGED handlerVars

HandlerNext == SetDataStream \/ HandleAck \/ AdvanceWindow \/ Spin

HandlerSpec == HandlerInit /\ [][HandlerNext]_handlerVars

-----------------------------------------------------------------------------
HandlerTypeOK ==
    /\ segmentCells \in Seq(Segment)
    /\ bufLen \in 0 .. Len(segmentCells)
    /\ dataSize \in UInt32
    /\ dataIndex \in UInt32
    /\ currentSeqNum \in UInt32
    /\ LAR \in UInt32
    /\ spinning \in BOOLEAN
    /\ window \in {<<>>} \cup [1 .. WindowSize -> Segment]

\* The number of segments that have left the buffer.
Dropped == Len(segmentCells) - bufLen

\* How the file is cut: the k-th segment starts at Offset(k).
Offset(k) == (k - 1) * MSS

\* Segment s is the k-th segment of the data.
IsPiece(s, k) ==
    /\ s.seqNum = Offset(k)
    /\ s.data = Offset(k)
    /\ s.payloadSize = MinOf(MSS, dataSize - Offset(k))

\* The storage is the rest of the file, in order and without a gap, followed
\* by copies of its last segment: erasing at the front of segmentBuffer never
\* loses or reorders the segments behind it (segment_handler.cpp:162-171).
StorageShape ==
    \A j \in 1 .. Len(segmentCells) :
        IsPiece(segmentCells[j], MinOf(Dropped + j, Len(segmentCells)))

\* Only setDataStream cuts: it cuts all the data, and the generateSegments of
\* handleAck finds nothing left to cut, so that no byte is numbered twice
\* (segment_handler.cpp:41-99, 169).
CutOnce ==
    /\ dataSize = 0 =>
         /\ segmentCells = <<>> /\ bufLen = 0 /\ window = <<>>
         /\ dataIndex = 0 /\ currentSeqNum = 0 /\ LAR = 0 /\ ~spinning
    /\ spinning => segmentCells = <<>> /\ bufLen = 0 /\ window = <<>>
    /\ (dataSize # 0 /\ ~spinning) =>
         /\ Len(segmentCells) = NumSegments(dataSize)
         /\ dataIndex = dataSize /\ currentSeqNum = dataSize

\* The first len cells number the bytes from one to the next and up to end.
Continues(cells, len, end) ==
    \A j \in 1 .. len :
        /\ cells[j].data \in {cells[j].seqNum, JunkData}
        /\ cells[j].payloadSize \in 1 .. MSS
        /\ cells[j].seqNum + cells[j].payloadSize =
             IF j < len THEN cells[j + 1].seqNum ELSE end

\* Whatever allocations fail, the numbers in the buffer go on from each other to
\* where the next call of generateSegments cuts: a call that gave up in the
\* middle, and another after some acknowledgments, leave no gap and number no
\* byte twice; and a payload is what was cut, or has been freed
\* (segment_handler.cpp:41-99).
CutContinues ==
    /\ currentSeqNum = dataIndex
    /\ dataIndex <= dataSize
    /\ Continues(segmentCells, bufLen, dataIndex)

\* As long as acknowledgments name the start of a segment, every byte from the
\* acknowledged one on lies in a live cell (segment_handler.cpp:162-171).
NothingLost ==
    (~spinning /\ LAR % MSS = 0) =>
        \A byte \in LAR .. dataSize - 1 :
            \E j \in 1 .. bufLen :
                byte \in segmentCells[j].data ..
                           segmentCells[j].data + segmentCells[j].payloadSize - 1

\* The offset after d in the file, the last one being its own successor.
NextOffset(d) == IF d + MSS < dataSize THEN d + MSS ELSE d

\* A window holds consecutive segments of the file, or the last one again,
\* although advanceWindow reads as far as cell WindowSize of a buffer that may
\* have a single live one (segment_handler.cpp:136-143): it suffices that the
\* file had more segments than the window.
WindowConsecutive ==
    (window # <<>> /\ Len(segmentCells) > WindowSize) =>
        \A i \in 1 .. WindowSize - 1 :
            window[i + 1].data = NextOffset(window[i].data)

\* Where sending goes on: every window but the first begins with the segment
\* behind the one that LAR names, or with the last one again.  Whatever came
\* before, no segment behind LAR is skipped, and none up to LAR but the last is
\* sent again (segment_handler.cpp:138-139, 163-168).
WindowFollowsAck ==
    [][(advanceWindow(1) /\ window' # <<>> /\ LAR % MSS = 0 /\ Len(segmentCells) > 1)
         => window'[1].data = NextOffset(LAR)]_handlerVars

\* LAR only grows, and what was acknowledged never returns to the buffer.
OnlyForward == [][LAR' >= LAR /\ (dataSize # 0 => bufLen' <= bufLen)]_handlerVars

\* setDataStream cuts every byte, or its loop never ends: it spins exactly when
\* rounding up the number of segments wraps around in uint32_t, that is for the
\* last MSS - 1 sizes (segment_handler.cpp:41-46).
SpinsOnlyOnWrap ==
    dataSize # 0 => /\ spinning <=> dataSize > U32 - MSS
                    /\ ~spinning => dataIndex = dataSize

\* The comments of segment_handler.cpp:132 and socket.cpp:223: a window is made
\* of segments, as many as there really are.
WindowOfSegments ==
    window # <<>> =>
        \A i \in 1 .. WindowSize :
            \E j \in 1 .. Len(segmentCells) : window[i] = segmentCells[j]
=============================================================================
