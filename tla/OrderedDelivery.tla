--------------------------- MODULE OrderedDelivery ---------------------------
(***************************************************************************)
(* What a transfer promises on a network without faults, with no word of   *)
(* datagrams, windows of cells or statuses: the pieces of the data reach   *)
(* the receiver one by one and in order, the sender lets go of a piece     *)
(* only when the receiver has it, it is never more than a window ahead,    *)
(* and what the receiver saves as a file holds every piece.                *)
(*                                                                         *)
(* The promise is as weak as the code needs it: behind the last piece the  *)
(* receiver may be given further copies of it.                             *)
(***************************************************************************)
EXTENDS Integers, Sequences

CONSTANTS WindowSize

VARIABLES
    pieces,      \* how many pieces the data has, 0 before there is any
    delivered,   \* the numbers of the pieces the receiver has, in its order
    released,    \* how many pieces the sender has let go of
    saved        \* the receiver has saved the file

deliveryVars == <<pieces, delivered, released, saved>>

DeliveryInit ==
    /\ pieces = 0
    /\ delivered = <<>>
    /\ released = 0
    /\ saved = FALSE

Offer ==
    /\ pieces = 0
    /\ pieces' \in Nat \ {0}
    /\ UNCHANGED <<delivered, released, saved>>

\* The window starts behind the last acknowledged piece, which is kept.
InWindow(piece) == piece <= released + 1 + WindowSize

Deliver ==
    /\ ~saved
    /\ \E piece \in 1 .. pieces :
         /\ InWindow(piece)
         /\ piece = Len(delivered) + 1 \/ (piece = pieces /\ Len(delivered) >= pieces)
         /\ delivered' = Append(delivered, piece)
         /\ saved' \in {FALSE, piece = pieces}
    /\ UNCHANGED <<pieces, released>>

Release ==
    /\ released' \in released + 1 .. pieces - 1
    /\ released' <= Len(delivered)
    /\ UNCHANGED <<pieces, delivered, saved>>

\* The receiver may also save when no further piece comes.
Save ==
    /\ pieces > 0
    /\ Len(delivered) >= pieces
    /\ saved' = TRUE
    /\ UNCHANGED <<pieces, delivered, released>>

DeliveryNext == Offer \/ Deliver \/ Release \/ Save

DeliverySpec == DeliveryInit /\ [][DeliveryNext]_deliveryVars
=============================================================================
