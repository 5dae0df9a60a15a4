----------------------------- MODULE MCChecksum -----------------------------
(***************************************************************************)
(* Small instances of Checksum for TLC: words of two bits, and a header of *)
(* four of them, the flags and the checksum among them.                    *)
(***************************************************************************)
EXTENDS Checksum
=============================================================================
