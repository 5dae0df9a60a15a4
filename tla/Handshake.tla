----------------------------- MODULE Handshake -----------------------------
(***************************************************************************)
(* TCPSocket::listen and TCPSocket::doHandshake of src/socket.cpp: one     *)
(* sender, which listens, and the receivers that try to connect to it,     *)
(* over a network that may lose, duplicate, delay and reorder datagrams.   *)
(*                                                                         *)
(* A receiver that is started again has a new ephemeral port, because only *)
(* the sender binds its socket: to the sender it is another receiver.      *)
(* The statuses are those of TCPStatusEnum, and two more for a process     *)
(* that is gone: FAILED when it gave up by itself, CRASHED when it was     *)
(* stopped from outside.                                                   *)
(***************************************************************************)
EXTENDS Segment

CONSTANTS
    Sender,         \* the address of the sender
    Receivers,      \* the addresses of the receivers
    NoPeer,         \* the value of peerAddr while peerAddrSet is false
    ISN,            \* the results of generateSecureSequenceNumber
    MayLose,        \* the network may lose a datagram
    MayDuplicate,   \* the network may deliver a datagram more than once
    MayFail,        \* bind and sendto may fail
    MayCrash        \* a receiver may be stopped from outside

ASSUME HandshakeAssumption ==
    /\ Sender \notin Receivers
    /\ NoPeer \notin Receivers
    /\ ISN \subseteq UInt32
    /\ {MayLose, MayDuplicate, MayFail, MayCrash} \subseteq BOOLEAN

VARIABLES
    senderStatus,
    senderPeer,       \* the sender's peerAddr
    receiverStatus,   \* the status of each receiver
    net               \* the datagrams in flight; equal ones are one element

handshakeVars == <<senderStatus, senderPeer, receiverStatus, net>>

Message == [src : Receivers \cup {Sender}, dst : Receivers \cup {Sender},
            segment : Segment]

HandshakeInit ==
    /\ senderStatus = "CLOSED"
    /\ senderPeer = NoPeer
    /\ receiverStatus = [r \in Receivers |-> "CLOSED"]
    /\ net = {}

-----------------------------------------------------------------------------
\* Mutations of definitions below, each a slip the code could have had: TLC must
\* find that it breaks the property it is named with in PROJECT.json.
PeerOverwritten(m) == m.src
PeerForgotten(m)   == senderPeer

ConnectAtOnce(r) ==
    /\ receiverStatus[r] = "CLOSED"
    /\ receiverStatus' = [receiverStatus EXCEPT ![r] = "ESTABLISHED"]
    /\ \E seqNum \in ISN :
         net' = net \cup {[src |-> r, dst |-> Sender, segment |-> syn(seqNum)]}
    /\ UNCHANGED <<senderStatus, senderPeer>>

-----------------------------------------------------------------------------
\* The outcomes of a call of bind or sendSegment.
Outcomes == IF MayFail THEN BOOLEAN ELSE {TRUE}

\* What may be left in flight when m is delivered.
Delivered(m) == IF MayDuplicate THEN {net, net \ {m}} ELSE {net \ {m}}

Mail(from, to, segment) == [src |-> from, dst |-> to, segment |-> segment]

-----------------------------------------------------------------------------
\* The sender.

listen ==
    /\ senderStatus = "CLOSED"
    /\ \E ok \in Outcomes : senderStatus' = IF ok THEN "LISTEN" ELSE "FAILED"
    /\ UNCHANGED <<senderPeer, receiverStatus, net>>

\* Until there is a peer, its address is the source of the SYN; after that
\* receiveSegment overwrites the source with the peer it already has.
PeerAfter(m) == IF senderPeer = NoPeer THEN m.src ELSE senderPeer

SenderOnSyn(m) ==
    /\ senderStatus \in {"LISTEN", "SYN_RECEIVED"}
    /\ m.dst = Sender
    /\ "syn" \in m.segment.flags
    /\ senderPeer' = PeerAfter(m)
    /\ \E rest \in Delivered(m), seqNum \in ISN, ok \in Outcomes :
         IF ok
         THEN /\ net' = rest \cup {Mail(Sender, senderPeer',
                                        SynAck(seqNum, Succ(m.segment.seqNum)))}
              /\ senderStatus' = "SYN_RECEIVED"
         ELSE net' = rest /\ UNCHANGED senderStatus
    /\ UNCHANGED receiverStatus

SenderOnAck(m) ==
    /\ senderStatus \in {"LISTEN", "SYN_RECEIVED"}
    /\ m.dst = Sender
    /\ "syn" \notin m.segment.flags
    /\ "ack" \in m.segment.flags
    /\ senderStatus' = IF senderStatus = "SYN_RECEIVED" THEN "ESTABLISHED" ELSE senderStatus
    /\ net' \in Delivered(m)
    /\ UNCHANGED <<senderPeer, receiverStatus>>

-----------------------------------------------------------------------------
\* A receiver.

\* The SYN is sent once: when its sendto fails the receiver gives up, and when
\* it is lost nothing sends it again.
Connect(r) ==
    /\ receiverStatus[r] = "CLOSED"
    /\ \E seqNum \in ISN, ok \in Outcomes :
         /\ receiverStatus' = [receiverStatus EXCEPT ![r] = IF ok THEN "SYN_SENT" ELSE "FAILED"]
         /\ net' = IF ok THEN net \cup {Mail(r, Sender, syn(seqNum))} ELSE net
    /\ UNCHANGED <<senderStatus, senderPeer>>

ReceiverOnSynAck(r, m) ==
    /\ receiverStatus[r] = "SYN_SENT"
    /\ m.dst = r
    /\ {"syn", "ack"} \subseteq m.segment.flags
    /\ \E rest \in Delivered(m), ok \in Outcomes :
         IF ok
         THEN /\ net' = rest \cup {Mail(r, Sender, ack(m.segment.ackNum,
                                                       Succ(m.segment.seqNum)))}
              /\ receiverStatus' = [receiverStatus EXCEPT ![r] = "ESTABLISHED"]
         ELSE net' = rest /\ UNCHANGED receiverStatus
    /\ UNCHANGED <<senderStatus, senderPeer>>

Crash(r) ==
    /\ MayCrash
    /\ receiverStatus[r] \in {"SYN_SENT", "ESTABLISHED"}
    /\ receiverStatus' = [receiverStatus EXCEPT ![r] = "CRASHED"]
    /\ UNCHANGED <<senderStatus, senderPeer, net>>

-----------------------------------------------------------------------------
\* The network drops a datagram, or the host does because no socket is bound
\* to the port it is sent to.
Lose(m) ==
    /\ \/ MayLose
       \/ m.dst = Sender /\ senderStatus \in {"CLOSED", "FAILED"}
    /\ net' = net \ {m}
    /\ UNCHANGED <<senderStatus, senderPeer, receiverStatus>>

HandshakeNext ==
    \/ listen
    \/ \E m \in net : SenderOnSyn(m)
    \/ \E m \in net : SenderOnAck(m)
    \/ \E r \in Receivers : Connect(r)
    \/ \E r \in Receivers, m \in net : ReceiverOnSynAck(r, m)
    \/ \E r \in Receivers : Crash(r)
    \/ \E m \in net : Lose(m)

HandshakeSpec == HandshakeInit /\ [][HandshakeNext]_handshakeVars

\* A process keeps running and a datagram that stays deliverable is delivered;
\* nothing makes a datagram arrive that was lost.
HandshakeFairness ==
    /\ WF_handshakeVars(listen)
    /\ WF_handshakeVars(\E m \in net : SenderOnSyn(m))
    /\ WF_handshakeVars(\E m \in net : SenderOnAck(m))
    /\ \A r \in Receivers :
         /\ WF_handshakeVars(Connect(r))
         /\ WF_handshakeVars(\E m \in net : ReceiverOnSynAck(r, m))

HandshakeFairSpec == HandshakeSpec /\ HandshakeFairness

-----------------------------------------------------------------------------
HandshakeTypeOK ==
    /\ senderStatus \in {"CLOSED", "FAILED", "LISTEN", "SYN_RECEIVED", "ESTABLISHED"}
    /\ senderPeer \in Receivers \cup {NoPeer}
    /\ receiverStatus \in
         [Receivers -> {"CLOSED", "FAILED", "SYN_SENT", "ESTABLISHED", "CRASHED"}]
    /\ net \in SUBSET Message

\* Neither a lost, duplicated or late datagram nor the SYN of another receiver
\* makes the sender start to send to a receiver that does not expect it: its
\* peer has completed the handshake (socket.cpp:131-152).
PeerIsReady ==
    senderStatus = "ESTABLISHED" =>
        /\ senderPeer \in Receivers
        /\ receiverStatus[senderPeer] \in {"ESTABLISHED", "CRASHED"}

\* A receiver that considers itself connected is the sender's peer, and the
\* sender knows of it.  So two receivers are never both connected
\* (socket.cpp:60-62, 131-147, 177-188).
ConnectedToPeer ==
    \A r \in Receivers :
        receiverStatus[r] = "ESTABLISHED" =>
            /\ senderPeer = r
            /\ senderStatus \in {"SYN_RECEIVED", "ESTABLISHED"}

\* Why the two above hold: what is in flight says who has agreed to what.
\* A SYN-ACK in flight was sent to the peer by a sender that has answered, and
\* an ACK in flight comes from the peer, which was connected when it sent it.
InFlightAgrees ==
    /\ senderStatus \in {"SYN_RECEIVED", "ESTABLISHED"} => senderPeer \in Receivers
    /\ \A m \in net :
         /\ m.dst \in Receivers =>
              senderStatus \in {"SYN_RECEIVED", "ESTABLISHED"} /\ m.dst = senderPeer
         /\ m.dst = Sender => m.src \in Receivers
         /\ (m.dst = Sender /\ "ack" \in m.segment.flags) =>
              /\ "syn" \notin m.segment.flags
              /\ m.src = senderPeer
              /\ receiverStatus[m.src] \in {"ESTABLISHED", "CRASHED"}

\* The handshake keeps the promise of module Connection, whatever the network
\* does (socket.cpp:124-194).
Agreement ==
    INSTANCE Connection WITH
        peer      <- senderPeer,
        connected <- {r \in Receivers : receiverStatus[r] = "ESTABLISHED"},
        gone      <- {r \in Receivers : receiverStatus[r] = "CRASHED"},
        sending   <- senderStatus = "ESTABLISHED"

ConnectsAsAgreed == Agreement!ConnectionSpec

\* README.md, "Three-Way Handshake": a handshake that fails is retried or
\* reported.  A receiver that has sent its SYN connects or reports a failure.
HandshakeRetriedOrReported ==
    \A r \in Receivers :
        receiverStatus[r] = "SYN_SENT" ~> receiverStatus[r] \in {"ESTABLISHED", "FAILED"}
=============================================================================
