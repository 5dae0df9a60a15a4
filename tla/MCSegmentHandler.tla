-------------------------- MODULE MCSegmentHandler --------------------------
(***************************************************************************)
(* Small instances of SegmentHandler for TLC.                              *)
(***************************************************************************)
EXTENDS SegmentHandler

\* The heap behind the buffer: zeroes, or a header that claims a payload.
MCHeapSegments ==
    {ControlSegment({}, 0, 0),
     [flags |-> {}, seqNum |-> 1, ackNum |-> 0, payloadSize |-> 1, data |-> NoData]}

\* The handler never looks at the flags.
MCOneFlag == {{}}
=============================================================================
