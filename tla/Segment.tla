------------------------------ MODULE Segment ------------------------------
(***************************************************************************)
(* The segments of src/header/segment.hpp and src/segment.cpp, reduced to  *)
(* the fields that the sockets and the segment handler look at, and the    *)
(* datagrams that TCPSocket::sendSegment turns a segment into.             *)
(*                                                                         *)
(* A segment's payload is identified by its byte offset in the data the    *)
(* sender was given (data |-> 0, MSS, 2*MSS, ...).  NoData stands for a    *)
(* payload pointer that is null or that the kernel refuses to read, and    *)
(* JunkData for readable bytes that are not what the segment was cut with. *)
(***************************************************************************)
EXTENDS Integers, Sequences

CONSTANTS
    MSS,   \* MAX_PAYLOAD_SIZE, the largest payload (1460 in the code)
    U32    \* how many values a uint32_t has (2^32 in the code)

ASSUME SegmentAssumption ==
    /\ MSS \in Nat \ {0}
    /\ U32 \in Nat
    /\ MSS < U32

NoData   == -1
JunkData == -2

\* The flags that some statement of the program tests.
Flag == {"fin", "syn", "ack"}

UInt32 == 0 .. U32 - 1

Segment == [flags : SUBSET Flag, seqNum : UInt32, ackNum : UInt32,
            payloadSize : UInt32, data : UInt32 \cup {NoData, JunkData}]

-----------------------------------------------------------------------------
\* Mutations of definitions below, each a slip the code could have had: TLC must
\* find that it breaks the property it is named with in PROJECT.json.
SuccUnbounded(seqNum) == seqNum + 1

-----------------------------------------------------------------------------
\* A segment without payload, as every constructor below builds it.
ControlSegment(flags, seqNum, ackNum) ==
    [flags |-> flags, seqNum |-> seqNum, ackNum |-> ackNum,
     payloadSize |-> 0, data |-> NoData]

syn(seqNum)         == ControlSegment({"syn"}, seqNum, 0)
ack(seqNum, ackNum) == ControlSegment({"ack"}, seqNum, ackNum)
fin                 == ControlSegment({"fin"}, 0, 0)
finAck              == ControlSegment({"fin", "ack"}, 0, 0)

\* What doHandshake makes of a syn(): its flags and ackNum are set afterwards.
SynAck(seqNum, ackNum) ==
    [syn(seqNum) EXCEPT !.flags = @ \cup {"ack"}, !.ackNum = ackNum]

\* seqNum + 1 in uint32_t.
Succ(seqNum) == (seqNum + 1) % U32

-----------------------------------------------------------------------------
(***************************************************************************)
(* Datagrams.  sendSegment sends the header, then, when there is a payload *)
(* the kernel can read, the payload as a datagram of its own.              *)
(***************************************************************************)
Header(s)  == [kind |-> "header", segment |-> [s EXCEPT !.data = NoData]]
Payload(s) == [kind |-> "payload", size |-> s.payloadSize, data |-> s.data]

Datagram == [kind : {"header"}, segment : {s \in Segment : s.data = NoData}]
              \cup [kind : {"payload"}, size : UInt32,
                    data : UInt32 \cup {JunkData}]

HasPayload(s) == s.payloadSize > 0 /\ s.data # NoData

\* What a call of sendSegment puts on the wire when no sendto fails.
Wire(s) == IF HasPayload(s) THEN <<Header(s), Payload(s)>> ELSE <<Header(s)>>

\* What it may put there when a sendto may fail: it stops at the first failure.
PartialWire(s) == IF HasPayload(s) THEN {<<>>, <<Header(s)>>} ELSE {<<>>}
=============================================================================
