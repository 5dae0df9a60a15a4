---------------------------- MODULE MCHandshake ----------------------------
(***************************************************************************)
(* Small instances of Handshake for TLC.                                   *)
(***************************************************************************)
EXTENDS Handshake

\* Two numbers, one of which wraps around when it is acknowledged.
MCISN == {0, 3}
=============================================================================
