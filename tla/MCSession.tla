----------------------------- MODULE MCSession -----------------------------
(***************************************************************************)
(* Small instances of Session for TLC.                                     *)
(***************************************************************************)
EXTENDS Session

\* The flags of a data segment: none, or a bit pattern that reads as FIN-ACK.
MCNoFlags  == {{}}
MCAnyFlags == {{}, {"fin", "ack"}}

\* The heap behind the buffer.
MCZeroHeap == {ControlSegment({}, 0, 0)}

\* One segment, as many as the window has or more, the last one never full.
MCReliableSizes == {1, 5, 7, 9, 11, 13}

\* Four segments.
MCOneSize == {7}

\* No data, or as many segments as a window of two.
MCShortSizes == {0, 3}

\* An ACK of it would, as an acknowledgment of data, release the first segments.
MCISN == {2}
=============================================================================
