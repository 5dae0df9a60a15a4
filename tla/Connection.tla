----------------------------- MODULE Connection -----------------------------
(***************************************************************************)
(* What connecting promises, with no word of datagrams or numbers: the     *)
(* sender takes one receiver for its peer and keeps it, no other receiver  *)
(* considers itself connected, and the sender starts to send only when the *)
(* peer has connected, or was stopped by then.                             *)
(***************************************************************************)
CONSTANTS Receivers, NoPeer

VARIABLES
    peer,        \* the receiver that the sender has taken
    connected,   \* the receivers that consider themselves connected
    gone,        \* the receivers that were stopped
    sending      \* the sender has started to send

connectionVars == <<peer, connected, gone, sending>>

ConnectionInit ==
    /\ peer = NoPeer
    /\ connected = {}
    /\ gone = {}
    /\ sending = FALSE

Choose ==
    /\ peer = NoPeer
    /\ peer' \in Receivers
    /\ UNCHANGED <<connected, gone, sending>>

Join ==
    /\ connected = {}
    /\ peer \in Receivers \ gone
    /\ connected' = {peer}
    /\ UNCHANGED <<peer, gone, sending>>

Leave(r) ==
    /\ gone' = gone \cup {r}
    /\ connected' = connected \ {r}
    /\ UNCHANGED <<peer, sending>>

Start ==
    /\ peer \in connected \cup gone
    /\ sending' = TRUE
    /\ UNCHANGED <<peer, connected, gone>>

ConnectionNext == Choose \/ Join \/ (\E r \in Receivers : Leave(r)) \/ Start

ConnectionSpec == ConnectionInit /\ [][ConnectionNext]_connectionVars
=============================================================================
