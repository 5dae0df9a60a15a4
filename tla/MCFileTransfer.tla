--------------------------- MODULE MCFileTransfer ---------------------------
(***************************************************************************)
(* Small instances of FileTransfer for TLC.                                *)
(***************************************************************************)
EXTENDS FileTransfer

\* The flags of a data segment: none.
MCNoFlags == {{}}

\* The heap behind the buffer: zeroes, or also a header that claims a payload.
MCZeroHeap == {ControlSegment({}, 0, 0)}
MCAnyHeap  ==
    MCZeroHeap \cup
    {[flags |-> {"fin", "ack"}, seqNum |-> 1, ackNum |-> 0, payloadSize |-> 1,
      data |-> NoData]}

\* The sizes of the run in which the network makes faults; 19 bytes are more than
\* a uint32_t counts, and become 3.
MCFaultySizes == {0, 8, 19}

\* Four segments, the last one full or not.
MCOneSize  == {7}
MCFullSize == {8}
=============================================================================
