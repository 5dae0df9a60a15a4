-------------------------------- MODULE Sums --------------------------------
(***************************************************************************)
(* The sum of a sequence of numbers, as the loops of the code compute it:  *)
(* of the words of a segment, and of the bytes that recv has stored.       *)
(***************************************************************************)
EXTENDS Integers, Sequences

Total(words) ==
    LET total[n \in 0 .. Len(words)] == IF n = 0 THEN 0 ELSE total[n - 1] + words[n]
    IN  total[Len(words)]
=============================================================================
