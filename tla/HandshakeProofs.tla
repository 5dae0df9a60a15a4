--------------------------- MODULE HandshakeProofs ---------------------------
(***************************************************************************)
(* Proofs about Handshake, for any receivers and any initial sequence      *)
(* numbers, on a network that may lose, duplicate and reorder datagrams.   *)
(*                                                                         *)
(* The invariant HandshakeInv is inductive because it says of every        *)
(* SYN-ACK and ACK in flight which agreement it stands for.                *)
(***************************************************************************)
EXTENDS Handshake, TLAPS

HandshakeInv ==
    /\ HandshakeTypeOK
    /\ PeerIsReady
    /\ ConnectedToPeer
    /\ InFlightAgrees

-----------------------------------------------------------------------------
\* The segments the handshake sends are segments: sequence numbers wrap around.
LEMMA SegmentsTyped ==
    ASSUME NEW seqNum \in UInt32, NEW ackNum \in UInt32
    PROVE  /\ syn(seqNum) \in Segment
           /\ ack(seqNum, ackNum) \in Segment
           /\ SynAck(seqNum, ackNum) \in Segment
           /\ Succ(seqNum) \in UInt32
  <1>1. 0 \in UInt32 /\ U32 \in Nat /\ U32 > 0
    BY SegmentAssumption DEF UInt32
  <1>2. Succ(seqNum) \in UInt32
    BY <1>1 DEF Succ, UInt32
  <1>3. syn(seqNum) \in Segment /\ ack(seqNum, ackNum) \in Segment
    BY <1>1 DEF syn, ack, ControlSegment, Segment, Flag
  <1>4. SynAck(seqNum, ackNum) \in Segment
    BY <1>1 DEF SynAck, syn, ControlSegment, Segment, Flag
  <1> QED BY <1>2, <1>3, <1>4

\* Which flags they carry.
LEMMA SegmentsFlagged ==
    ASSUME NEW seqNum, NEW ackNum
    PROVE  /\ syn(seqNum).flags = {"syn"}
           /\ ack(seqNum, ackNum).flags = {"ack"}
           /\ SynAck(seqNum, ackNum).flags = {"syn", "ack"}
  BY DEF syn, ack, SynAck, ControlSegment

\* A datagram stays in flight or leaves it, and others are only added on purpose.
LEMMA DeliveredIsSubset ==
    ASSUME NEW m, NEW rest \in Delivered(m)
    PROVE  rest \subseteq net
  BY DEF Delivered

\* What is sent between two nodes is a message.
LEMMA MailTyped ==
    ASSUME NEW from \in Receivers \cup {Sender}, NEW to \in Receivers \cup {Sender},
           NEW segment \in Segment
    PROVE  Mail(from, to, segment) \in Message
  BY DEF Mail, Message

-----------------------------------------------------------------------------
\* Before anything is sent.
LEMMA InvInit == HandshakeInit => HandshakeInv
  BY HandshakeAssumption
     DEF HandshakeInit, HandshakeInv, HandshakeTypeOK, PeerIsReady, ConnectedToPeer,
         InFlightAgrees

\* Every step of the sender, of a receiver or of the network keeps the invariant.
LEMMA InvStep == HandshakeInv /\ [HandshakeNext]_handshakeVars => HandshakeInv'
  <1> SUFFICES ASSUME HandshakeInv, [HandshakeNext]_handshakeVars
               PROVE  HandshakeInv'
    OBVIOUS
  <1> USE HandshakeAssumption DEF HandshakeInv
  <1>1. CASE listen
    BY <1>1 DEF listen, HandshakeTypeOK, PeerIsReady, ConnectedToPeer, InFlightAgrees
  <1>2. ASSUME NEW m \in net, SenderOnSyn(m)
        PROVE  HandshakeInv'
    <2> USE <1>2 DEF SenderOnSyn, PeerAfter
    <2>1. /\ m \in Message /\ m.segment \in Segment /\ m.src \in Receivers
          /\ m.segment.seqNum \in UInt32
      BY DEF HandshakeTypeOK, Message, InFlightAgrees, Segment
    <2>2. senderPeer' \in Receivers
      BY <2>1 DEF HandshakeTypeOK
    <2>3. PICK rest \in Delivered(m), seqNum \in ISN, ok \in Outcomes :
             IF ok
             THEN /\ net' = rest \cup {Mail(Sender, senderPeer',
                                            SynAck(seqNum, Succ(m.segment.seqNum)))}
                  /\ senderStatus' = "SYN_RECEIVED"
             ELSE net' = rest /\ UNCHANGED senderStatus
      OBVIOUS
    <2>4. rest \subseteq net
      BY DeliveredIsSubset
    <2> DEFINE answer == Mail(Sender, senderPeer', SynAck(seqNum, Succ(m.segment.seqNum)))
    <2>5. answer \in Message
      <3>1. Succ(m.segment.seqNum) \in UInt32
        BY <2>1, SegmentsTyped
      <3>2. SynAck(seqNum, Succ(m.segment.seqNum)) \in Segment
        BY <3>1, SegmentsTyped
      <3> QED BY <2>2, <3>2, MailTyped
    <2>6. answer.dst = senderPeer'
      BY DEF Mail
    <2>7. \A x \in net : x.dst \in Receivers => senderPeer # NoPeer
      BY DEF InFlightAgrees, HandshakeTypeOK
    <2>8. HandshakeTypeOK'
      BY <2>2, <2>3, <2>4, <2>5 DEF HandshakeTypeOK
    <2>9. PeerIsReady'
      BY <2>3 DEF PeerIsReady, HandshakeTypeOK
    <2>10. ConnectedToPeer'
      BY <2>3 DEF ConnectedToPeer, HandshakeTypeOK
    <2>11. InFlightAgrees'
      <3>1. ASSUME NEW x \in net'
            PROVE  x \in net \/ (x = answer /\ senderStatus' = "SYN_RECEIVED")
        BY <2>3, <2>4
      <3>2. senderStatus' \in {senderStatus, "SYN_RECEIVED"}
        BY <2>3
      <3>3. senderPeer # NoPeer => senderPeer' = senderPeer
        OBVIOUS
      <3> QED
        BY <2>2, <2>6, <2>7, <3>1, <3>2, <3>3 DEF InFlightAgrees, HandshakeTypeOK
    <2> QED BY <2>8, <2>9, <2>10, <2>11
  <1>3. ASSUME NEW m \in net, SenderOnAck(m)
        PROVE  HandshakeInv'
    <2> USE <1>3 DEF SenderOnAck
    <2>1. net' \subseteq net
      BY DeliveredIsSubset
    <2>2. senderPeer = m.src /\ m.src \in Receivers
          /\ receiverStatus[m.src] \in {"ESTABLISHED", "CRASHED"}
      BY DEF InFlightAgrees
    <2>3. HandshakeTypeOK'
      BY <2>1 DEF HandshakeTypeOK
    <2>4. PeerIsReady' /\ ConnectedToPeer'
      BY <2>2 DEF PeerIsReady, ConnectedToPeer
    <2>5. InFlightAgrees'
      BY <2>1, <2>2 DEF InFlightAgrees
    <2> QED BY <2>3, <2>4, <2>5
  <1>4. ASSUME NEW r \in Receivers, Connect(r)
        PROVE  HandshakeInv'
    <2> USE <1>4 DEF Connect
    <2>1. PICK seqNum \in ISN, ok \in Outcomes :
            /\ receiverStatus' =
                 [receiverStatus EXCEPT ![r] = IF ok THEN "SYN_SENT" ELSE "FAILED"]
            /\ net' = IF ok THEN net \cup {Mail(r, Sender, syn(seqNum))} ELSE net
      OBVIOUS
    <2>2. Mail(r, Sender, syn(seqNum)) \in Message
      BY SegmentsTyped, MailTyped, SegmentAssumption DEF UInt32
    <2>3. receiverStatus[r] = "CLOSED"
          /\ \A q \in Receivers \ {r} : receiverStatus'[q] = receiverStatus[q]
      BY <2>1 DEF HandshakeTypeOK
    <2>4. HandshakeTypeOK'
      BY <2>1, <2>2 DEF HandshakeTypeOK
    <2>5. PeerIsReady' /\ ConnectedToPeer'
      BY <2>1, <2>3 DEF PeerIsReady, ConnectedToPeer, HandshakeTypeOK
    <2>6. InFlightAgrees'
      <3>1. ASSUME NEW x \in net'
            PROVE  x \in net \/ (x.src = r /\ x.dst = Sender /\ x.segment.flags = {"syn"})
        BY <2>1, SegmentsFlagged DEF Mail
      <3> QED BY <2>3, <3>1 DEF InFlightAgrees
    <2> QED BY <2>4, <2>5, <2>6
  <1>5. ASSUME NEW r \in Receivers, NEW m \in net, ReceiverOnSynAck(r, m)
        PROVE  HandshakeInv'
    <2> USE <1>5 DEF ReceiverOnSynAck
    <2>1. /\ m.segment \in Segment
          /\ m.segment.seqNum \in UInt32 /\ m.segment.ackNum \in UInt32
      BY DEF HandshakeTypeOK, Message, Segment
    <2>2. senderPeer = r /\ senderStatus \in {"SYN_RECEIVED", "ESTABLISHED"}
      BY DEF InFlightAgrees
    <2> DEFINE reply == Mail(r, Sender, ack(m.segment.ackNum, Succ(m.segment.seqNum)))
    <2>3. PICK rest \in Delivered(m), ok \in Outcomes :
             IF ok
             THEN /\ net' = rest \cup {reply}
                  /\ receiverStatus' = [receiverStatus EXCEPT ![r] = "ESTABLISHED"]
             ELSE net' = rest /\ UNCHANGED receiverStatus
      OBVIOUS
    <2>4. rest \subseteq net
      BY DeliveredIsSubset
    <2>5. reply \in Message
      <3>1. Succ(m.segment.seqNum) \in UInt32
        BY <2>1, SegmentsTyped
      <3>2. ack(m.segment.ackNum, Succ(m.segment.seqNum)) \in Segment
        BY <2>1, <3>1, SegmentsTyped
      <3> QED BY <3>2, MailTyped
    <2>6. /\ \A q \in Receivers \ {r} : receiverStatus'[q] = receiverStatus[q]
          /\ receiverStatus'[r] \in {receiverStatus[r], "ESTABLISHED"}
      BY <2>3 DEF HandshakeTypeOK
    <2>7. HandshakeTypeOK'
      BY <2>3, <2>4, <2>5 DEF HandshakeTypeOK
    <2>8. PeerIsReady' /\ ConnectedToPeer'
      BY <2>2, <2>6 DEF PeerIsReady, ConnectedToPeer
    <2>9. InFlightAgrees'
      <3>1. ASSUME NEW x \in net'
            PROVE  \/ x \in net
                   \/ /\ receiverStatus'[r] = "ESTABLISHED"
                      /\ x.src = r /\ x.dst = Sender /\ x.segment.flags = {"ack"}
        BY <2>3, <2>4, SegmentsFlagged DEF Mail, HandshakeTypeOK
      <3> QED BY <2>2, <2>6, <3>1 DEF InFlightAgrees
    <2> QED BY <2>7, <2>8, <2>9
  <1>6. ASSUME NEW r \in Receivers, Crash(r)
        PROVE  HandshakeInv'
    BY <1>6
    DEF Crash, HandshakeTypeOK, PeerIsReady, ConnectedToPeer, InFlightAgrees
  <1>7. ASSUME NEW m \in net, Lose(m)
        PROVE  HandshakeInv'
    BY <1>7 DEF Lose, HandshakeTypeOK, PeerIsReady, ConnectedToPeer, InFlightAgrees
  <1>8. CASE UNCHANGED handshakeVars
    BY <1>8 DEF handshakeVars, HandshakeTypeOK, PeerIsReady, ConnectedToPeer, InFlightAgrees
  <1> QED
    BY <1>1, <1>2, <1>3, <1>4, <1>5, <1>6, <1>7, <1>8 DEF HandshakeNext

-----------------------------------------------------------------------------
\* In every reachable state the inductive invariant holds.
THEOREM HandshakeInvariant == HandshakeSpec => []HandshakeInv
  BY InvInit, InvStep, PTL DEF HandshakeSpec

\* The type invariant of the handshake.
THEOREM HandshakeTyped == HandshakeSpec => []HandshakeTypeOK
  <1>1. HandshakeInv => HandshakeTypeOK
    BY DEF HandshakeInv
  <1> QED BY <1>1, HandshakeInvariant, PTL

\* The sender never starts to send to a receiver that has not completed the
\* handshake (TCPSocket::doHandshake, socket.cpp:124-154).
THEOREM PeerAlwaysReady == HandshakeSpec => []PeerIsReady
  <1>1. HandshakeInv => PeerIsReady
    BY DEF HandshakeInv
  <1> QED BY <1>1, HandshakeInvariant, PTL

\* A connected receiver is the sender's peer (socket.cpp:156-191).
THEOREM AlwaysConnectedToPeer == HandshakeSpec => []ConnectedToPeer
  <1>1. HandshakeInv => ConnectedToPeer
    BY DEF HandshakeInv
  <1> QED BY <1>1, HandshakeInvariant, PTL

\* At most one receiver is connected, however many try to connect.
THEOREM OneConnection ==
    HandshakeSpec =>
        [](\A q, r \in Receivers :
              (receiverStatus[q] = "ESTABLISHED" /\ receiverStatus[r] = "ESTABLISHED")
                  => q = r)
  <1>1. ConnectedToPeer =>
          \A q, r \in Receivers :
              (receiverStatus[q] = "ESTABLISHED" /\ receiverStatus[r] = "ESTABLISHED")
                  => q = r
    BY DEF ConnectedToPeer
  <1> QED BY <1>1, AlwaysConnectedToPeer, PTL

-----------------------------------------------------------------------------
(***************************************************************************)
(* The refinement: every step of the handshake chooses a peer, joins it,   *)
(* loses it or starts to send as module Connection allows, or changes      *)
(* nothing that Connection sees.                                           *)
(***************************************************************************)
Connected == {r \in Receivers : receiverStatus[r] = "ESTABLISHED"}
Crashed   == {r \in Receivers : receiverStatus[r] = "CRASHED"}
Unseen    == UNCHANGED <<senderPeer, Connected, Crashed, senderStatus = "ESTABLISHED">>

\* A step of Connection, in the terms of the handshake.
LEMMA AgreementSteps ==
    /\ (Unseen => UNCHANGED Agreement!connectionVars)
    /\ Agreement!Choose <=>
         /\ senderPeer = NoPeer /\ senderPeer' \in Receivers
         /\ UNCHANGED <<Connected, Crashed, senderStatus = "ESTABLISHED">>
    /\ Agreement!Join <=>
         /\ Connected = {} /\ senderPeer \in Receivers \ Crashed
         /\ Connected' = {senderPeer}
         /\ UNCHANGED <<senderPeer, Crashed, senderStatus = "ESTABLISHED">>
    /\ \A r : Agreement!Leave(r) <=>
         /\ Crashed' = Crashed \cup {r} /\ Connected' = Connected \ {r}
         /\ UNCHANGED <<senderPeer, senderStatus = "ESTABLISHED">>
    /\ Agreement!Start <=>
         /\ senderPeer \in Connected \cup Crashed
         /\ (senderStatus = "ESTABLISHED")' = TRUE
         /\ UNCHANGED <<senderPeer, Connected, Crashed>>
  BY Zenon DEF Unseen, Connected, Crashed, Agreement!connectionVars, Agreement!Choose,
               Agreement!Join, Agreement!Leave, Agreement!Start

\* Before anything is sent there is no peer and nobody is connected or stopped.
LEMMA AgreementInit == HandshakeInit => Agreement!ConnectionInit
  BY DEF HandshakeInit, Agreement!ConnectionInit

\* A step of the handshake is a step of Connection, or one it does not see.
LEMMA AgreementStep ==
    HandshakeInv /\ [HandshakeNext]_handshakeVars
        => [Agreement!ConnectionNext]_Agreement!connectionVars
  <1> SUFFICES ASSUME HandshakeInv, [HandshakeNext]_handshakeVars
               PROVE  Agreement!ConnectionNext \/ UNCHANGED Agreement!connectionVars
    BY DEF Agreement!ConnectionNext
  <1>1. CASE listen
    <2>1. Unseen
      BY <1>1 DEF listen, Unseen, Connected, Crashed
    <2> QED BY <2>1, AgreementSteps
  <1>2. ASSUME NEW m \in net, SenderOnSyn(m)
        PROVE  Agreement!Choose \/ Unseen
    <2>1. m.src \in Receivers
      BY <1>2 DEF SenderOnSyn, HandshakeInv, InFlightAgrees
    <2>2. UNCHANGED <<Connected, Crashed, senderStatus = "ESTABLISHED">>
      BY <1>2 DEF SenderOnSyn, Connected, Crashed
    <2>3. CASE senderPeer = NoPeer
      <3>1. senderPeer' \in Receivers
        BY <1>2, <2>1, <2>3 DEF SenderOnSyn, PeerAfter
      <3> QED BY <2>2, <2>3, <3>1, AgreementSteps
    <2>4. CASE senderPeer # NoPeer
      <3>1. UNCHANGED senderPeer
        BY <1>2, <2>4 DEF SenderOnSyn, PeerAfter
      <3> QED BY <2>2, <3>1 DEF Unseen
    <2> QED BY <2>3, <2>4
  <1>3. ASSUME NEW m \in net, SenderOnAck(m)
        PROVE  Agreement!Start \/ Unseen
    <2>1. UNCHANGED <<senderPeer, Connected, Crashed>>
      BY <1>3 DEF SenderOnAck, Connected, Crashed
    <2>2. senderPeer \in Connected \cup Crashed
      BY <1>3 DEF SenderOnAck, HandshakeInv, InFlightAgrees, Connected, Crashed
    <2>3. CASE senderStatus = "SYN_RECEIVED"
      <3>1. (senderStatus = "ESTABLISHED")' = TRUE
        BY <1>3, <2>3 DEF SenderOnAck
      <3> QED BY <2>1, <2>2, <3>1, AgreementSteps
    <2>4. CASE senderStatus # "SYN_RECEIVED"
      <3>1. UNCHANGED senderStatus
        BY <1>3, <2>4 DEF SenderOnAck
      <3> QED BY <2>1, <3>1 DEF Unseen
    <2> QED BY <2>3, <2>4
  <1>4. ASSUME NEW r \in Receivers, Connect(r)
        PROVE  Unseen
    <2>1. /\ receiverStatus[r] = "CLOSED" /\ receiverStatus'[r] \in {"SYN_SENT", "FAILED"}
          /\ \A q \in Receivers \ {r} : receiverStatus'[q] = receiverStatus[q]
      BY <1>4 DEF Connect, HandshakeInv, HandshakeTypeOK
    <2>2. UNCHANGED <<Connected, Crashed>>
      BY <2>1 DEF Connected, Crashed
    <2> QED BY <1>4, <2>2 DEF Connect, Unseen
  <1>5. ASSUME NEW r \in Receivers, NEW m \in net, ReceiverOnSynAck(r, m)
        PROVE  Agreement!Join \/ Unseen
    <2>1. UNCHANGED <<senderStatus, senderPeer>> /\ receiverStatus[r] = "SYN_SENT"
      BY <1>5 DEF ReceiverOnSynAck
    <2>2. senderPeer = r
      BY <1>5 DEF ReceiverOnSynAck, HandshakeInv, InFlightAgrees
    <2>3. Connected = {} /\ senderPeer \in Receivers \ Crashed
      BY <2>1, <2>2 DEF HandshakeInv, ConnectedToPeer, Connected, Crashed
    <2>4. CASE UNCHANGED receiverStatus
      BY <2>1, <2>4 DEF Unseen, Connected, Crashed
    <2>5. CASE receiverStatus' = [receiverStatus EXCEPT ![r] = "ESTABLISHED"]
      <3>1. receiverStatus'[r] = "ESTABLISHED"
            /\ \A q \in Receivers \ {r} : receiverStatus'[q] = receiverStatus[q]
        BY <2>5 DEF HandshakeInv, HandshakeTypeOK
      <3>2. Connected' = {senderPeer} /\ UNCHANGED Crashed
        BY <2>1, <2>2, <2>3, <3>1 DEF Connected, Crashed
      <3> QED BY <2>1, <2>3, <3>2, AgreementSteps
    <2> QED BY <1>5, <2>4, <2>5 DEF ReceiverOnSynAck
  <1>6. ASSUME NEW r \in Receivers, Crash(r)
        PROVE  Agreement!Leave(r)
    <2>1. /\ receiverStatus'[r] = "CRASHED"
          /\ \A q \in Receivers \ {r} : receiverStatus'[q] = receiverStatus[q]
      BY <1>6 DEF Crash, HandshakeInv, HandshakeTypeOK
    <2>2. Crashed' = Crashed \cup {r} /\ Connected' = Connected \ {r}
      BY <2>1 DEF Connected, Crashed
    <2> QED BY <1>6, <2>2, AgreementSteps DEF Crash
  <1>7. ASSUME NEW m \in net, Lose(m)
        PROVE  Unseen
    BY <1>7 DEF Lose, Unseen, Connected, Crashed
  <1>8. CASE UNCHANGED handshakeVars
    <2>1. Unseen
      BY <1>8 DEF handshakeVars, Unseen, Connected, Crashed
    <2> QED BY <2>1, AgreementSteps
  <1> QED
    BY <1>1, <1>2, <1>3, <1>4, <1>5, <1>6, <1>7, <1>8, AgreementSteps, Zenon
    DEF HandshakeNext, Agreement!ConnectionNext

\* What is in flight says who has agreed to what, on any network: the invariant
\* behind the other ones (socket.cpp:131-188).
THEOREM InFlightAlwaysAgrees == HandshakeSpec => []InFlightAgrees
  <1>1. HandshakeInv => InFlightAgrees
    BY DEF HandshakeInv
  <1> QED BY <1>1, HandshakeInvariant, PTL

\* The handshake implements Connection, for any number of receivers and whatever
\* is lost, duplicated, delayed or fails: one peer that stays, nobody else
\* connected, and nothing sent before the peer has connected
\* (socket.cpp:124-194).
THEOREM HandshakeConnectsAsAgreed == HandshakeSpec => ConnectsAsAgreed
  BY AgreementInit, AgreementStep, HandshakeInvariant, PTL
  DEF HandshakeSpec, ConnectsAsAgreed, Agreement!ConnectionSpec
=============================================================================
