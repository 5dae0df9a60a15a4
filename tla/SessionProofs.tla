---------------------------- MODULE SessionProofs ----------------------------
(***************************************************************************)
(* Proofs about Session, the whole program from its menus to the closed    *)
(* sockets, for any receivers, numbers and faults of the network: what is  *)
(* proved of a transfer holds from the first prompt on.                    *)
(***************************************************************************)
EXTENDS Session, FileTransferProofs

\* A sender that waits for the handshake's ACK knows whom it waits for.
AcceptInv ==
    pc[Sender] = "accept" /\ status[Sender] = "SYN_RECEIVED" => peerAddr[Sender] \in Receivers

SessionInv == TransferInv /\ AcceptInv

-----------------------------------------------------------------------------
\* The segments of the handshake.

\* They are segments without payload.
LEMMA HandshakeTyped ==
    ASSUME NEW seqNum \in UInt32, NEW ackNum \in UInt32
    PROVE  /\ syn(seqNum) \in Segment /\ syn(seqNum).payloadSize = 0
           /\ SynAck(seqNum, ackNum) \in Segment /\ SynAck(seqNum, ackNum).payloadSize = 0
           /\ Succ(seqNum) \in UInt32
  <1>1. 0 \in UInt32 /\ (seqNum + 1) % U32 \in UInt32
    BY SegmentAssumption DEF UInt32
  <1> QED
    BY <1>1 DEF syn, SynAck, ControlSegment, Segment, Flag, Succ

-----------------------------------------------------------------------------
\* What the actions of the handshake do to the processes.

\* Nothing is received, stored or collected; a process moves.
LEMMA LocalMoved ==
    ASSUME LocalInv, UNCHANGED <<recvVars, sendVars, faults>>, isFile' \in BOOLEAN,
           NEW n \in Node, NEW p \in Place, NEW v \in Status,
           pc' = [pc EXCEPT ![n] = p], status' = [status EXCEPT ![n] = v],
           n # Sender => p \notin {"sendWindow", "recv", "finWait"},
           n # Sender => v \notin {"ESTABLISHED", "FIN_WAIT_1", "LAST_ACK"} \/ v = status[n]
    PROVE  LocalInv'
  <1>1. pc' \in [Node -> Place] /\ status' \in [Node -> Status]
    BY DEF LocalInv
  <1>2. ASSUME NEW r \in Receivers
        PROVE  pc'[r] # "sendWindow" /\ (Engaged(r)' => Engaged(r))
    BY Nodes DEF LocalInv, Engaged
  <1> QED BY <1>1, <1>2 DEF LocalInv, recvVars, sendVars

\* The sender goes on before it has any data.
LEMMA SenderMoved ==
    ASSUME SenderInv, UNCHANGED handlerVars, pc[Sender] \in {"menu", "listen", "accept"},
           pc'[Sender] \notin {"sendWindow", "awaitAcks"}
    PROVE  SenderInv'
  <1>1. FailingInv'
    BY FailingStep DEF SenderInv
  <1> QED BY <1>1 DEF SenderInv, handlerVars, bufferVars

\* The sender's receives before it has a peer.
LEMMA AcceptChannels ==
    ASSUME Channels, pc[Sender] = "accept", inbox[Sender] # <<>>,
           NEW wire \in Seq(Datagram), AnswerTo(Sender, PeerOfSyn, wire),
           \A r \in Receivers : pc'[r] = pc[r]
    PROVE  Channels' /\ peerAddr'[Sender] \in Receivers
  <1>1. Head(inbox[Sender]) \in Expected(Sender) /\ Sender \in Node
    BY Nodes, HeadTailSeq DEF Channels, QueuesOK
  <1>2. PeerOfSyn \in Receivers
    BY <1>1 DEF PeerOfSyn, Expected, Channels
  <1>3. PeerOfSyn \in Node /\ PeerOfSyn # Sender
    BY <1>2, Nodes
  <1>4. peerAddr'[Sender] = PeerOfSyn
    BY <1>1 DEF AnswerTo, Channels
  <1> QED BY <1>1, <1>2, <1>3, <1>4, AnswerChannels


-----------------------------------------------------------------------------
\* The steps of the handshake keep the invariant and ask nothing of the handler.

\* The sender, from its menu to its peer's ACK.
LEMMA SenderOpens ==
    ASSUME SessionInv,
           \/ RunSender \/ listen \/ SynDuringAccept \/ NumberThrows
           \/ AckDuringAccept \/ OtherDuringAccept
    PROVE  SessionInv' /\ UNCHANGED handlerVars
  <1> USE DEF SessionInv, TransferInv
  <1>1. Sender \in Node /\ pc \in [Node -> Place] /\ status \in [Node -> Status]
    BY Nodes DEF LocalInv
  <1>2. CASE RunSender
    <2>1. /\ pc[Sender] = "menu" /\ isFile' \in BOOLEAN
          /\ UNCHANGED <<handlerVars, sendVars, recvVars, status, peerAddr, inbox, pending, faults>>
      BY <1>2 DEF RunSender, socketVars
    <2>2. PICK p \in {"listen", "done"} : pc' = [pc EXCEPT ![Sender] = p]
      BY <1>2 DEF RunSender
    <2>3. pc'[Sender] = p /\ \A r \in Receivers : pc'[r] = pc[r]
      BY <1>1, <2>2, Nodes
    <2>4. LocalInv'
      <3>1. status' = [status EXCEPT ![Sender] = status[Sender]] /\ p \in Place
        BY <1>1, <2>1 DEF Place
      <3> QED BY <1>1, <2>1, <2>2, <3>1, LocalMoved
    <2>5. SenderInv'
      BY <2>1, <2>3, SenderMoved
    <2>6. Channels'
      BY <2>1, <2>3 DEF Channels, QueuesOK, Unpaired
    <2> QED BY <2>1, <2>3, <2>4, <2>5, <2>6 DEF AcceptInv
  <1>3. CASE listen
    <2>1. /\ pc[Sender] = "listen"
          /\ UNCHANGED <<handlerVars, sendVars, recvVars, peerAddr, inbox, pending, isFile, faults>>
      BY <1>3 DEF listen
    <2>2. PICK p \in {"accept", "done"}, v \in {"LISTEN", status[Sender]} :
            /\ pc' = [pc EXCEPT ![Sender] = p]
            /\ status' = [status EXCEPT ![Sender] = v]
            /\ p = "accept" => v = "LISTEN"
      <3>1. PICK ok \in Outcomes :
              /\ status' = IF ok THEN [status EXCEPT ![Sender] = "LISTEN"] ELSE status
              /\ pc' = [pc EXCEPT ![Sender] = IF ok THEN "accept" ELSE "done"]
        BY <1>3 DEF listen
      <3>2. CASE ok
        BY <3>1, <3>2
      <3>3. CASE ~ok
        <4>1. status' = [status EXCEPT ![Sender] = status[Sender]]
          BY <1>1, <3>1, <3>3
        <4> QED BY <3>1, <3>3, <4>1
      <3> QED BY <3>2, <3>3
    <2>3. pc'[Sender] = p /\ status'[Sender] = v /\ \A r \in Receivers : pc'[r] = pc[r]
      BY <1>1, <2>2, Nodes
    <2>4. LocalInv'
      <3>1. v \in Status /\ p \in Place
        BY <1>1 DEF Place, Status
      <3> QED BY <1>1, <2>1, <2>2, <3>1, LocalMoved DEF LocalInv
    <2>5. SenderInv'
      BY <2>1, <2>3, SenderMoved
    <2>6. Channels'
      BY <2>1, <2>3 DEF Channels, QueuesOK, Unpaired
    <2> QED BY <2>1, <2>2, <2>3, <2>4, <2>5, <2>6 DEF AcceptInv
  <1>4. CASE SynDuringAccept
    <2>1. PICK s \in Returned(Sender), seqNum \in ISN :
            \E result \in SendResults(SynAck(seqNum, Succ(s.seqNum))) :
              /\ AnswerTo(Sender, PeerOfSyn, result.wire)
              /\ status' = IF result.ok THEN [status EXCEPT ![Sender] = "SYN_RECEIVED"]
                                        ELSE status
      BY <1>4 DEF SynDuringAccept
    <2>2. PICK result \in SendResults(SynAck(seqNum, Succ(s.seqNum))) :
            /\ AnswerTo(Sender, PeerOfSyn, result.wire)
            /\ status' = IF result.ok THEN [status EXCEPT ![Sender] = "SYN_RECEIVED"]
                                      ELSE status
      BY <2>1
    <2>3. /\ pc[Sender] = "accept" /\ pc' = pc
          /\ UNCHANGED <<handlerVars, sendVars, recvVars, isFile, faults>>
      BY <1>4 DEF SynDuringAccept
    <2>4. inbox[Sender] # <<>> /\ s \in Segment /\ s.seqNum \in UInt32 /\ seqNum \in UInt32
      BY ReturnedToSender, SessionAssumption DEF Segment
    <2>5. result.wire \in Seq(Datagram)
      <3>1. SynAck(seqNum, Succ(s.seqNum)) \in Segment
        BY <2>4, HandshakeTyped
      <3> QED BY <3>1, SendResultsTyped
    <2>6. Channels' /\ peerAddr'[Sender] \in Receivers
      BY <2>2, <2>3, <2>4, <2>5, AcceptChannels
    <2>7. LocalInv'
      <3>1. PICK v \in Status : status' = [status EXCEPT ![Sender] = v]
        <4>1. status = [status EXCEPT ![Sender] = status[Sender]] /\ "SYN_RECEIVED" \in Status
          BY <1>1 DEF Status
        <4> QED BY <1>1, <2>2, <4>1
      <3>2. pc' = [pc EXCEPT ![Sender] = pc[Sender]] /\ pc[Sender] \in Place
        BY <1>1, <2>3
      <3> QED BY <1>1, <2>3, <3>1, <3>2, LocalMoved DEF LocalInv
    <2>8. SenderInv'
      BY <2>3, SenderMoved
    <2> QED BY <2>3, <2>6, <2>7, <2>8 DEF AcceptInv
  <1>5. CASE NumberThrows
    <2>1. /\ pc[Sender] = "accept" /\ pc' = [pc EXCEPT ![Sender] = "close"]
          /\ UNCHANGED <<handlerVars, sendVars, recvVars, status, isFile, faults>>
          /\ AnswerTo(Sender, PeerOfSyn, <<>>)
      BY <1>5 DEF NumberThrows
    <2>2. inbox[Sender] # <<>>
      BY <1>5, ReturnedToSender DEF NumberThrows
    <2>3. pc'[Sender] = "close" /\ \A r \in Receivers : pc'[r] = pc[r]
      BY <1>1, <2>1, Nodes
    <2>4. Channels' /\ peerAddr'[Sender] \in Receivers
      <3>1. <<>> \in Seq(Datagram)
        OBVIOUS
      <3> QED BY <2>1, <2>2, <2>3, <3>1, AcceptChannels
    <2>5. LocalInv'
      <3>1. status' = [status EXCEPT ![Sender] = status[Sender]] /\ status[Sender] \in Status
        BY <1>1, <2>1
      <3> QED BY <1>1, <2>1, <3>1, LocalMoved DEF LocalInv, Place
    <2>6. SenderInv'
      BY <2>1, <2>3, SenderMoved
    <2> QED BY <2>1, <2>3, <2>4, <2>5, <2>6 DEF AcceptInv
  <1>6. CASE AckDuringAccept
    <2>1. /\ pc[Sender] = "accept" /\ pc' = [pc EXCEPT ![Sender] = "setup"]
          /\ status' = [status EXCEPT ![Sender] = "ESTABLISHED"]
          /\ UNCHANGED <<handlerVars, sendVars, recvVars, isFile, faults>>
          /\ Consume(Sender)
      BY <1>6 DEF AckDuringAccept
    <2>2. inbox[Sender] # <<>> /\ status[Sender] = "SYN_RECEIVED"
      BY <1>6, ReturnedToSender DEF AckDuringAccept, CompletesHandshake
    <2>3. pc'[Sender] = "setup" /\ \A r \in Receivers : pc'[r] = pc[r]
      BY <1>1, <2>1, Nodes
    <2>4. AnswerTo(Sender, PeerOfSyn, <<>>)
      <3>1. PeerOfSyn = PeerAfterReceive(Sender)
        BY <2>1, <2>2, Nodes DEF AcceptInv, PeerOfSyn, PeerAfterReceive
      <3> QED BY <2>1, <3>1 DEF Consume, Answer
    <2>5. Channels'
      <3>1. <<>> \in Seq(Datagram)
        OBVIOUS
      <3> QED BY <2>1, <2>2, <2>3, <2>4, <3>1, AcceptChannels
    <2>6. LocalInv'
      BY <1>1, <2>1, LocalMoved DEF LocalInv, Place, Status
    <2>7. SenderInv'
      BY <2>1, <2>3, SenderMoved
    <2> QED BY <2>1, <2>3, <2>5, <2>6, <2>7 DEF AcceptInv
  <1>7. CASE OtherDuringAccept
    <2>1. /\ pc[Sender] = "accept" /\ pc' = pc /\ status' = status
          /\ UNCHANGED <<handlerVars, sendVars, recvVars, isFile, faults>>
          /\ Consume(Sender)
      BY <1>7 DEF OtherDuringAccept
    <2>2. inbox[Sender] # <<>>
      BY <1>7, ReturnedToSender DEF OtherDuringAccept
    <2>3. /\ inbox' = [inbox EXCEPT ![Sender] = Tail(@)]
          /\ peerAddr' = peerAddr /\ pending' = [pending EXCEPT ![Sender] = NoSegment]
      BY <1>1, <2>1 DEF Consume, Answer, AnswerTo, Sent, PeerAfterReceive, Channels
    <2>4. Channels'
      <3>1. QueuesOK(inbox')
        BY <1>1, <2>2, <2>3, TailChannels DEF Channels
      <3>2. NoSegment \in Segment
        BY ControlTyped, SegmentAssumption DEF UInt32
      <3>3. pending' \in [Node -> Segment] /\ pending'[Sender] = NoSegment
        BY <1>1, <2>3, <3>2 DEF Channels
      <3> QED BY <2>1, <2>3, <3>1, <3>3 DEF Channels
    <2>5. LocalInv' /\ SenderInv'
      BY <2>1, SenderMoved DEF LocalInv, Engaged, recvVars, sendVars
    <2> QED BY <2>1, <2>3, <2>4, <2>5 DEF AcceptInv
  <1> QED BY <1>2, <1>3, <1>4, <1>5, <1>6, <1>7


\* A receiver, from its menu to its first recv.
LEMMA ReceiverOpens ==
    ASSUME SessionInv, NEW r \in Receivers,
           \/ Connect(r) \/ OnSynAck(r) \/ OtherInHandshake(r) \/ TimeoutInHandshake(r)
    PROVE  SessionInv' /\ UNCHANGED handlerVars
  <1> USE DEF SessionInv, TransferInv
  <1>1. /\ r \in Node /\ r # Sender /\ Sender \in Node
        /\ pc \in [Node -> Place] /\ status \in [Node -> Status]
        /\ peerAddr \in [Node -> Node \cup {NoPeer}]
    BY Nodes DEF LocalInv, Channels
  <1>2. CASE Connect(r)
    <2>1. PICK seqNum \in ISN : \E result \in SendResults(syn(seqNum)) :
            /\ inbox' = Sent(inbox, r, Sender, result.wire)
            /\ status' = IF result.ok THEN [status EXCEPT ![r] = "SYN_SENT"] ELSE status
            /\ pc' = [pc EXCEPT ![r] = IF result.ok THEN "awaitSynAck" ELSE "done"]
      BY <1>2 DEF Connect
    <2>2. PICK result \in SendResults(syn(seqNum)) :
            /\ inbox' = Sent(inbox, r, Sender, result.wire)
            /\ status' = IF result.ok THEN [status EXCEPT ![r] = "SYN_SENT"] ELSE status
            /\ pc' = [pc EXCEPT ![r] = IF result.ok THEN "awaitSynAck" ELSE "done"]
      BY <2>1
    <2>3. /\ peerAddr' = [peerAddr EXCEPT ![r] = Sender]
          /\ UNCHANGED <<handlerVars, sendVars, recvVars, pending, isFile, faults>>
      BY <1>2 DEF Connect
    <2>4. PICK p \in {"awaitSynAck", "done"} : pc' = [pc EXCEPT ![r] = p]
      BY <2>2
    <2>5. PICK v \in {"SYN_SENT", status[r]} : status' = [status EXCEPT ![r] = v]
      <3>1. status = [status EXCEPT ![r] = status[r]]
        BY <1>1
      <3> QED BY <2>2, <3>1
    <2>6. /\ pc'[Sender] = pc[Sender] /\ status'[Sender] = status[Sender]
          /\ peerAddr'[Sender] = peerAddr[Sender] /\ peerAddr'[r] = Sender
          /\ \A q \in Receivers \ {r} : pc'[q] = pc[q] /\ peerAddr'[q] = peerAddr[q]
      BY <1>1, <2>3, <2>4, <2>5, Nodes
    <2>7. result.wire \in Seq(Datagram) /\ result.wire \in Seq(ReplyBody)
      <3>1. seqNum \in UInt32 /\ 0 \in UInt32
        BY SessionAssumption, SegmentAssumption DEF UInt32
      <3> QED BY <3>1, HandshakeTyped, SendResultsTyped
    <2>8. QueuesOK(inbox')
      BY <1>1, <2>2, <2>7, SentChannels DEF Channels
    <2>9. Channels'
      <3>1. peerAddr' \in [Node -> Node \cup {NoPeer}]
        BY <1>1, <2>3
      <3>2. \A q \in Receivers : pc'[q] # "menu" => peerAddr'[q] = Sender
        BY <2>6 DEF Channels
      <3> QED BY <2>3, <2>6, <2>8, <3>1, <3>2 DEF Channels
    <2>10. LocalInv'
      <3>1. p \in Place /\ v \in Status
        BY <1>1 DEF Place, Status
      <3>2. /\ p \notin {"sendWindow", "recv", "finWait"}
            /\ v \notin {"ESTABLISHED", "FIN_WAIT_1", "LAST_ACK"} \/ v = status[r]
        OBVIOUS
      <3>3. isFile' \in BOOLEAN
        BY <2>3 DEF LocalInv
      <3> QED BY <1>1, <2>3, <2>4, <2>5, <3>1, <3>2, <3>3, LocalMoved
    <2>11. SenderInv'
      BY <2>3, <2>6, SenderKept
    <2> QED BY <2>3, <2>6, <2>9, <2>10, <2>11 DEF AcceptInv
  <1>3. CASE OnSynAck(r)
    <2>1. PICK s \in Returned(r) :
            \E result \in SendResults(ack(s.ackNum, Succ(s.seqNum))) :
              /\ Answer(r, result.wire)
              /\ IF result.ok
                 THEN /\ status' = [status EXCEPT ![r] = "ESTABLISHED"]
                      /\ pc' = [pc EXCEPT ![r] = "recv"]
                      /\ length' = [length EXCEPT ![r] = Capacity]
                 ELSE UNCHANGED <<status, pc, length>>
      BY <1>3 DEF OnSynAck
    <2>2. PICK result \in SendResults(ack(s.ackNum, Succ(s.seqNum))) :
            /\ Answer(r, result.wire)
            /\ IF result.ok
               THEN /\ status' = [status EXCEPT ![r] = "ESTABLISHED"]
                    /\ pc' = [pc EXCEPT ![r] = "recv"]
                    /\ length' = [length EXCEPT ![r] = Capacity]
               ELSE UNCHANGED <<status, pc, length>>
      BY <2>1
    <2>3. /\ pc[r] = "awaitSynAck"
          /\ UNCHANGED <<handlerVars, sendVars, totalReceived, buffer, totalBuffer, saved,
                         isFile, faults>>
      BY <1>3 DEF OnSynAck
    <2>4. inbox[r] # <<>> /\ s.ackNum \in UInt32 /\ s.seqNum \in UInt32
      BY ReturnedToReceiver DEF Segment
    <2>5. result.wire \in Seq(Datagram) /\ result.wire \in Seq(ReplyBody)
      BY <2>4, HandshakeTyped, ControlTyped, SendResultsTyped
    <2>6. /\ pc'[Sender] = pc[Sender] /\ status'[Sender] = status[Sender]
          /\ \A q \in Receivers \ {r} : pc'[q] = pc[q] /\ status'[q] = status[q]
          /\ pc'[r] \in {"awaitSynAck", "recv"}
          /\ pc' \in [Node -> Place] /\ status' \in [Node -> Status]
      BY <1>1, <2>2, <2>3, Nodes DEF Place, Status
    <2>7. NobodyBegins
      BY <2>3, <2>6 DEF NobodyBegins
    <2>8. Channels'
      BY <1>1, <2>2, <2>3, <2>4, <2>5, <2>7, AnswerKeeps DEF Paired
    <2>9. LocalInv'
      <3>1. CASE result.ok
        <4>1. Capacity \in 0 .. Capacity /\ Capacity \in Nat /\ Capacity # 0
          BY TransferAssumption, SegmentAssumption DEF UInt32
        <4>2. /\ length' \in [Receivers -> 0 .. Capacity] /\ length'[r] = Capacity
              /\ \A q \in Receivers \ {r} : length'[q] = length[q]
          BY <2>2, <3>1, <4>1 DEF LocalInv
        <4>3. totalReceived[r] <= Capacity
          <5>1. totalReceived[r] \in Nat /\ length[r] \in 0 .. Capacity
            BY SegmentAssumption DEF LocalInv, UInt32
          <5> QED BY <4>1, <5>1 DEF LocalInv
        <4>4. ASSUME NEW q \in Receivers
              PROVE  /\ totalReceived'[q] <= length'[q]
                     /\ Engaged(q)' => length'[q] # 0
                     /\ pc'[q] # "sendWindow"
          <5>1. CASE q = r
            BY <2>3, <2>6, <4>1, <4>2, <4>3, <5>1
          <5>2. CASE q # r
            BY <2>3, <2>6, <4>2, <5>2 DEF LocalInv, Engaged
          <5> QED BY <5>1, <5>2
        <4> QED BY <2>3, <2>6, <4>2, <4>4 DEF LocalInv, sendVars
      <3>2. CASE ~result.ok
        BY <2>2, <2>3, <3>2 DEF LocalInv, Engaged, sendVars
      <3> QED BY <3>1, <3>2
    <2>10. SenderInv'
      BY <2>3, <2>6, SenderKept
    <2>11. peerAddr'[Sender] = peerAddr[Sender]
      BY <1>1, <2>2 DEF Answer, AnswerTo
    <2> QED BY <2>3, <2>6, <2>8, <2>9, <2>10, <2>11 DEF AcceptInv
  <1>4. CASE OtherInHandshake(r) \/ TimeoutInHandshake(r)
    <2>1. /\ pc[r] = "awaitSynAck"
          /\ UNCHANGED <<handlerVars, sendVars, recvVars, status, pc, isFile, faults>>
      BY <1>4 DEF OtherInHandshake, TimeoutInHandshake, socketVars
    <2>2. NobodyBegins
      BY <2>1 DEF NobodyBegins
    <2>3. Channels' /\ peerAddr'[Sender] = peerAddr[Sender]
      <3>1. CASE OtherInHandshake(r)
        <4>1. Consume(r) /\ inbox[r] # <<>>
          BY <3>1, ReturnedToReceiver DEF OtherInHandshake
        <4>2. Channels'
          BY <1>1, <2>1, <2>2, <4>1, ConsumeKeeps DEF Paired
        <4> QED BY <1>1, <4>1, <4>2 DEF Consume, Answer, AnswerTo
      <3>2. CASE TimeoutInHandshake(r)
        <4>1. UNCHANGED <<inbox, peerAddr>> /\ pending' = [pending EXCEPT ![r] = NoSegment]
          BY <3>2 DEF TimeoutInHandshake, PayloadTimeout, socketVars
        <4> QED BY <1>1, <2>2, <4>1, QuietKeeps
      <3> QED BY <1>4, <3>1, <3>2
    <2>4. LocalInv' /\ SenderInv'
      BY <2>1, SenderKept DEF LocalInv, Engaged, recvVars, sendVars
    <2> QED BY <2>1, <2>3, <2>4 DEF AcceptInv
  <1> QED BY <1>2, <1>3, <1>4

-----------------------------------------------------------------------------
\* The transfer goes on where the handshake has ended.

\* Where the sender is until its handshake is over.
Choosing == {"menu", "listen", "accept"}

\* It does not go back there.
LEMMA SenderPastAccept ==
    ASSUME LocalInv, SenderNext
    PROVE  pc[Sender] \notin Choosing /\ pc'[Sender] \notin Choosing
  <1>1. pc[Sender] \notin Choosing
    BY DEF Choosing, SenderNext, StartSend, SendThrows, NextWindow, SendSegment, ReplyDuringSend,
        FinDuringSend, CloseNext, CloseActive, ClosePassive, CloseAtOnce,
        FinAckInFinWait, AckInCloseWait, OtherInClose, TimeoutInClose
  <1>2. \/ pc' = pc
        \/ \E p \in {"advance", "close", "sendWindow", "awaitAcks", "finWait", "closeWait",
                     "done"} : pc' = [pc EXCEPT ![Sender] = p]
    BY DEF SenderNext, StartSend, SendThrows, NextWindow, SendSegment, ReplyDuringSend,
        CountReply, FinDuringSend, CloseNext, CloseActive, ClosePassive, CloseAtOnce,
        FinAckInFinWait, AckInCloseWait, OtherInClose, TimeoutInClose, Closed, WaitOn
  <1> QED BY <1>1, <1>2, Nodes DEF LocalInv, Choosing

\* What a receiver does after its handshake leaves the sender's process alone.
LEMMA ReceiverApart ==
    ASSUME LocalInv, Channels, NEW r \in Receivers, ReceiverNext(r)
    PROVE  /\ pc'[Sender] = pc[Sender] /\ status'[Sender] = status[Sender]
           /\ peerAddr'[Sender] = peerAddr[Sender]
  <1>1. r \in Node /\ r # Sender /\ Sender \in Node
    BY Nodes
  <1>2. pc' = pc \/ \E p : pc' = [pc EXCEPT ![r] = p]
    BY DEF ReceiverNext, AwaitPayload, PayloadThrows, RecvThrows, StoreSegment, RecvReturns,
        FinDuringRecv, IgnoreDuringRecv, TimeoutDuringRecv, CloseNext, CloseActive,
        ClosePassive, CloseAtOnce, FinAckInFinWait, AckInCloseWait, OtherInClose,
        TimeoutInClose, Closed, WaitOn
  <1>3. status' = status \/ \E v : status' = [status EXCEPT ![r] = v]
    BY DEF ReceiverNext, AwaitPayload, PayloadThrows, TakeHeader, RecvThrows, StoreSegment,
        FinDuringRecv, IgnoreDuringRecv, TimeoutDuringRecv, CloseNext, CloseActive,
        ClosePassive, CloseAtOnce, FinAckInFinWait, AckInCloseWait, OtherInClose,
        TimeoutInClose, Closed, WaitOn, socketVars
  <1>4. peerAddr' = peerAddr \/ \E a : peerAddr' = [peerAddr EXCEPT ![r] = a]
    BY DEF ReceiverNext, AwaitPayload, PayloadThrows, TakeHeader, RecvThrows, StoreSegment,
        FinDuringRecv, IgnoreDuringRecv, TimeoutDuringRecv, CloseNext, CloseActive,
        ClosePassive, CloseAtOnce, FinAckInFinWait, AckInCloseWait, OtherInClose,
        TimeoutInClose, Consume, Answer, AnswerTo, Post, socketVars
  <1> QED BY <1>1, <1>2, <1>3, <1>4 DEF LocalInv, Channels

\* Nor do faults and processes that are stopped.
LEMMA OutsideApart ==
    ASSUME LocalInv, OutsideNext
    PROVE  /\ pc'[Sender] = pc[Sender] \/ pc'[Sender] = "stopped"
           /\ status' = status /\ peerAddr' = peerAddr
  <1>1. PICK n \in Node : Lose(n) \/ Duplicate(n) \/ Reorder(n) \/ Stop(n)
    BY DEF OutsideNext
  <1> QED
    BY <1>1, Nodes DEF Lose, Duplicate, Reorder, Fault, Stop, socketVars, LocalInv

\* Before anybody has chosen anything.
LEMMA SessionStarts == SessionInit => SessionInv
  <1> SUFFICES ASSUME SessionInit
               PROVE  SessionInv
    OBVIOUS
  <1>1. 0 \in UInt32 /\ 0 \in 0 .. Capacity
    BY SegmentAssumption, TransferAssumption DEF UInt32
  <1>2. Channels
    <2>1. NoSegment \in Segment
      BY <1>1, ControlTyped
    <2>2. QueuesOK(inbox)
      BY DEF SessionInit, NothingSent, QueuesOK
    <2>3. pending \in [Node -> Segment] /\ pending[Sender] = NoSegment
      BY <2>1, Nodes DEF SessionInit, NothingSent
    <2>4. /\ peerAddr \in [Node -> Node \cup {NoPeer}]
          /\ peerAddr[Sender] = NoPeer /\ pc[Sender] \in Unpaired
          /\ \A r \in Receivers : pc[r] = "menu"
      BY Nodes DEF SessionInit, Unpaired
    <2> QED BY <2>2, <2>3, <2>4 DEF Channels
  <1>3. LocalInv
    <2>1. status \in [Node -> Status] /\ pc \in [Node -> Place]
      BY DEF SessionInit, Status, Place
    <2>2. length \in [Receivers -> 0 .. Capacity]
      BY <1>1 DEF SessionInit
    <2>3. helper \in {0, 1} /\ turn \in 1 .. WindowSize /\ isFile \in BOOLEAN
      <3>1. helper = 0 /\ turn = 1 /\ isFile = FALSE
        BY DEF SessionInit, NothingSent
      <3>2. 1 \in 1 .. WindowSize
        BY HandlerAssumption
      <3> QED BY <3>1, <3>2
    <2>4. faults \in 0 .. MaxFaults
      BY TransferAssumption DEF SessionInit, NothingSent
    <2>5. totalReceived \in [Receivers -> UInt32] /\ saved \in [Receivers -> BOOLEAN]
      BY <1>1 DEF SessionInit, NothingSent
    <2>6. buffer \in [Receivers -> Seq(Chunk)] /\ totalBuffer \in [Receivers -> Seq(Chunk)]
      BY DEF SessionInit, NothingSent
    <2>7. ASSUME NEW r \in Receivers
          PROVE  /\ totalReceived[r] <= length[r]
                 /\ Engaged(r) => length[r] # 0
                 /\ pc[r] # "sendWindow"
      BY Nodes DEF SessionInit, NothingSent, Engaged
    <2> QED BY <2>1, <2>2, <2>3, <2>4, <2>5, <2>6, <2>7 DEF LocalInv
  <1>4. SenderInv
    <2>1. FailingInv
      BY FailingInit DEF SessionInit, NothingSent
    <2>2. pc[Sender] = "menu" /\ dataSize = 0 /\ ~spinning
      BY Nodes DEF SessionInit, NothingSent, HandlerInit
    <2> QED BY <2>1, <2>2 DEF SenderInv
  <1>5. AcceptInv
    BY Nodes DEF SessionInit, AcceptInv
  <1> QED BY <1>2, <1>3, <1>4, <1>5 DEF SessionInv, TransferInv

\* Every step of the program keeps the invariant, and is a step of the handler
\* or leaves it alone.
LEMMA SessionStep ==
    ASSUME SessionInv, [SessionNext]_vars
    PROVE  SessionInv' /\ [HandlerNext]_handlerVars
  <1> USE DEF SessionInv
  <1>1. CASE SenderNext
    BY <1>1, SenderKeeps, SenderPastAccept DEF AcceptInv, TransferInv, Choosing
  <1>2. ASSUME NEW r \in Receivers, ReceiverNext(r)
        PROVE  SessionInv' /\ [HandlerNext]_handlerVars
    BY <1>2, ReceiverKeeps, ReceiverApart DEF AcceptInv, TransferInv
  <1>3. CASE OutsideNext
    BY <1>3, OutsideKeeps, OutsideApart DEF AcceptInv, TransferInv
  <1>4. CASE UNCHANGED vars
    <2>1. TransferInv' /\ [HandlerNext]_handlerVars
      BY <1>4, TransferStep
    <2> QED BY <1>4, <2>1 DEF AcceptInv, vars, socketVars
  <1> QED
    BY <1>1, <1>2, <1>3, <1>4, SenderOpens, ReceiverOpens
    DEF SessionNext, UserNext, SenderThread, ReceiverThread

\* Through the whole program the channels carry what they should, the counts and
\* places are in range, and the sender only asks its handler when it can answer.
THEOREM SessionInvariant == SessionSpec => []SessionInv
  BY SessionStarts, SessionStep, PTL DEF SessionSpec

\* From the first prompt on, whatever the network does and whatever fails, every
\* variable of the program keeps its type (main.cpp:55-246, socket.cpp:124-408).
THEOREM SessionTyped == SessionSpec => []TypeOK
  <1>1. SessionInv => TypeOK
    BY DEF SessionInv, TransferInv, TypeOK, SenderInv, FailingInv, LocalInv, Channels, QueuesOK
  <1> QED BY <1>1, SessionInvariant, PTL

\* The program uses the segment handler as module SegmentHandler allows: one
\* setDataStream, after the handshake, then windows and acknowledgments of 32
\* bits (main.cpp:90-143, socket.cpp:212-264).
THEOREM SessionUsesHandler == SessionSpec => HandlerSpec
  <1>1. SessionInit => HandlerInit
    BY DEF SessionInit, NothingSent
  <1>2. SessionInv /\ [SessionNext]_vars => [HandlerNext]_handlerVars
    BY SessionStep
  <1> QED BY <1>1, <1>2, SessionInvariant, PTL DEF SessionSpec, HandlerSpec

\* So in the whole program, whatever allocations fail, no byte is numbered twice.
THEOREM SessionContinues == SessionSpec => []CutContinues
  BY SessionUsesHandler, CutAlwaysContinues, PTL

\* And as long as none fails, the windows of a file with more segments than a
\* window are consecutive segments of that file.
THEOREM SessionWindows ==
    ASSUME ~MayFail
    PROVE  SessionSpec => []WindowConsecutive
  BY SessionUsesHandler, WindowsConsecutive, PTL


-----------------------------------------------------------------------------
(***************************************************************************)
(* What the sender believes, in the whole program.                         *)
(***************************************************************************)

\* A receiver whose handshake is not over has not called recv.
FreshInv == \A r \in Receivers : pc[r] \in {"menu", "awaitSynAck"} => length[r] = 0

\* What one step may do to the receivers' processes and lengths.
LEMMA FreshStep ==
    ASSUME SessionInv, FreshInv, [SessionNext]_vars
    PROVE  FreshInv'
  <1> USE DEF SessionInv, TransferInv
  <1>1. /\ pc \in [Node -> Place] /\ length \in [Receivers -> 0 .. Capacity]
        /\ Sender \in Node /\ Receivers \subseteq Node /\ Sender \notin Receivers
    BY Nodes DEF LocalInv
  <1>2. SUFFICES \A r \in Receivers : pc'[r] \in {"menu", "awaitSynAck"} =>
                    pc[r] \in {"menu", "awaitSynAck"} /\ length'[r] = length[r]
    BY DEF FreshInv
  <1>3. CASE \/ RunSender \/ SenderThread
    <2>1. length' = length
      BY <1>3 DEF RunSender, SenderThread, listen, SynDuringAccept, NumberThrows,
          AckDuringAccept, OtherDuringAccept, SenderNext, StartSend, SendThrows, NextWindow,
          SendSegment, ReplyDuringSend, FinDuringSend, CloseNext, CloseActive, ClosePassive,
          CloseAtOnce, FinAckInFinWait, AckInCloseWait, OtherInClose, TimeoutInClose, recvVars
    <2>2. pc' = pc \/ \E p : pc' = [pc EXCEPT ![Sender] = p]
      BY <1>3 DEF RunSender, SenderThread, listen, SynDuringAccept, NumberThrows,
          AckDuringAccept, OtherDuringAccept, SenderNext, StartSend, SendThrows, NextWindow,
          SendSegment, ReplyDuringSend, FinDuringSend, CountReply, CloseNext, CloseActive,
          ClosePassive, CloseAtOnce, FinAckInFinWait, AckInCloseWait, OtherInClose,
          TimeoutInClose, Closed, WaitOn
    <2> QED BY <1>1, <2>1, <2>2
  <1>4. ASSUME NEW q \in Receivers, Connect(q) \/ ReceiverThread(q)
        PROVE  \A r \in Receivers : pc'[r] \in {"menu", "awaitSynAck"} =>
                  pc[r] \in {"menu", "awaitSynAck"} /\ length'[r] = length[r]
    <2>1. /\ pc' = pc \/ \E p : pc' = [pc EXCEPT ![q] = p]
          /\ length' = length \/ \E l : length' = [length EXCEPT ![q] = l]
      <3>1. CASE ReceiverNext(q)
        BY <3>1 DEF ReceiverNext, AwaitPayload, PayloadThrows, TakeHeader, RecvThrows,
            StoreSegment, RecvReturns, FinDuringRecv, IgnoreDuringRecv, TimeoutDuringRecv,
            CloseNext, CloseActive, ClosePassive, CloseAtOnce, FinAckInFinWait,
            AckInCloseWait, OtherInClose, TimeoutInClose, Closed, WaitOn, recvVars
      <3>2. CASE ~ReceiverNext(q)
        BY <1>4, <3>2 DEF Connect, ReceiverThread, OnSynAck, OtherInHandshake,
            TimeoutInHandshake, recvVars
      <3> QED BY <3>1, <3>2
    <2>2. pc'[q] \in {"menu", "awaitSynAck"} =>
             pc[q] \in {"menu", "awaitSynAck"} /\ length'[q] = length[q]
      <3>1. CASE \/ AwaitPayload(q) \/ IgnoreDuringRecv(q) \/ Connect(q)
                 \/ OtherInHandshake(q) \/ TimeoutInHandshake(q)
        BY <1>1, <3>1 DEF AwaitPayload, IgnoreDuringRecv, TakeHeader, Connect,
            OtherInHandshake, TimeoutInHandshake, recvVars
      <3>2. CASE PayloadThrows(q) \/ RecvThrows(q)
        BY <1>1, <3>2 DEF PayloadThrows, RecvThrows
      <3>3. CASE StoreSegment(q) \/ FinDuringRecv(q) \/ TimeoutDuringRecv(q)
        <4>1. pc[q] = "recv" /\ (pc' = pc \/ pc' = [pc EXCEPT ![q] = "close"])
          BY <3>3 DEF StoreSegment, FinDuringRecv, TimeoutDuringRecv, RecvReturns
        <4> QED BY <1>1, <4>1
      <3>4. CASE OnSynAck(q)
        <4>1. \/ length' = length /\ pc' = pc
              \/ pc' = [pc EXCEPT ![q] = "recv"]
          BY <3>4 DEF OnSynAck
        <4> QED BY <1>1, <4>1
      <3>5. CASE CloseNext(q)
        <4>1. length' = length
          BY <3>5 DEF CloseNext, CloseActive, ClosePassive, CloseAtOnce, FinAckInFinWait,
              AckInCloseWait, OtherInClose, TimeoutInClose, recvVars
        <4>2. \/ pc' = pc
              \/ \E p \in {"finWait", "closeWait", "done"} : pc' = [pc EXCEPT ![q] = p]
          BY <3>5 DEF CloseNext, CloseActive, ClosePassive, CloseAtOnce, FinAckInFinWait,
              AckInCloseWait, OtherInClose, TimeoutInClose, Closed, WaitOn
        <4> QED BY <1>1, <4>1, <4>2
      <3> QED BY <1>4, <3>1, <3>2, <3>3, <3>4, <3>5 DEF ReceiverThread, ReceiverNext
    <2> QED BY <1>1, <2>1, <2>2
  <1>5. CASE OutsideNext
    <2>1. PICK n \in Node : Lose(n) \/ Duplicate(n) \/ Reorder(n) \/ Stop(n)
      BY <1>5 DEF OutsideNext
    <2>2. length' = length /\ (pc' = pc \/ pc' = [pc EXCEPT ![n] = "stopped"])
      BY <2>1 DEF Lose, Duplicate, Reorder, Fault, Stop, recvVars
    <2> QED BY <1>1, <2>2
  <1>6. CASE UNCHANGED vars
    BY <1>6 DEF vars, recvVars
  <1> QED BY <1>3, <1>4, <1>5, <1>6 DEF SessionNext, UserNext

\* The handshake's own steps make nobody hear what is not true.
LEMMA HandshakeReplies ==
    ASSUME NEW others, SessionInv, SessionInv', RepliesInv(others),
           \/ RunSender \/ listen \/ SynDuringAccept \/ NumberThrows
           \/ AckDuringAccept \/ OtherDuringAccept
    PROVE  RepliesInv(others)'
  <1> USE DEF SessionInv, TransferInv
  <1>1. Sender \in Node /\ status \in [Node -> Status]
    BY Nodes DEF LocalInv
  <1>2. UNCHANGED recvVars /\ LAR' = LAR
    BY DEF RunSender, listen, SynDuringAccept, NumberThrows, AckDuringAccept,
        OtherDuringAccept, handlerVars
  <1>3. \/ status' = status
        \/ \E v \in {"LISTEN", "SYN_RECEIVED", "ESTABLISHED"} :
             status' = [status EXCEPT ![Sender] = v]
    BY DEF RunSender, listen, SynDuringAccept, NumberThrows, AckDuringAccept,
        OtherDuringAccept, socketVars
  <1>4. status'[Sender] = "CLOSE_WAIT" => status[Sender] = "CLOSE_WAIT"
    BY <1>1, <1>3
  <1>5. Grows
    BY <1>1, <1>2, <1>3, QuietGrows DEF Status
  <1>6. \/ inbox'[Sender] = inbox[Sender]
        \/ inbox[Sender] # <<>> /\ inbox'[Sender] = Tail(inbox[Sender])
    <2>1. CASE RunSender \/ listen
      BY <2>1 DEF RunSender, listen
    <2>2. CASE SynDuringAccept \/ NumberThrows \/ AckDuringAccept \/ OtherDuringAccept
      <3>1. PICK addr, wire : AnswerTo(Sender, addr, wire) /\ (wire = <<>> \/ addr = PeerOfSyn)
        BY <2>2 DEF SynDuringAccept, NumberThrows, AckDuringAccept, OtherDuringAccept,
            Consume, Answer
      <3>2. inbox[Sender] # <<>>
        BY <2>2, ReturnedToSender DEF SynDuringAccept, NumberThrows, AckDuringAccept,
            OtherDuringAccept
      <3> DEFINE rest == [inbox EXCEPT ![Sender] = Tail(@)]
      <3>3. QueuesOK(rest) /\ rest[Sender] = Tail(inbox[Sender])
        BY <1>1, <3>2, TailChannels DEF Channels, QueuesOK
      <3>4. inbox' = Sent(rest, Sender, addr, wire)
        BY <3>1 DEF AnswerTo
      <3>5. Head(inbox[Sender]) \in Expected(Sender)
        BY <1>1, <3>2, HeadTailSeq DEF Channels, QueuesOK
      <3>6. PeerOfSyn # Sender
        BY <3>5, Nodes DEF PeerOfSyn, Expected, Channels
      <3> HIDE DEF rest
      <3>7. inbox'[Sender] = rest[Sender]
        <4>1. CASE wire = <<>>
          BY <3>4, <4>1 DEF Sent
        <4>2. CASE wire # <<>>
          BY <3>1, <3>3, <3>4, <3>6, <4>2, SentElsewhere
        <4> QED BY <4>1, <4>2
      <3> QED BY <3>2, <3>3, <3>7
    <2> QED BY <2>1, <2>2
  <1> QED BY <1>2, <1>4, <1>5, <1>6, HeardKept, RepliesFrom


\* Nor do those of a receiver, when others has the numbers that a SYN-ACK asks
\* a receiver to acknowledge.
LEMMA OpeningReplies ==
    ASSUME NEW others, SessionInv, SessionInv', FreshInv, RepliesInv(others),
           NEW r \in Receivers,
           \/ Connect(r) \/ OnSynAck(r) \/ OtherInHandshake(r) \/ TimeoutInHandshake(r),
           pc[r] = "awaitSynAck" =>
               \A s \in Returned(r) : IsSynAck(s) => Succ(s.seqNum) \in others
    PROVE  RepliesInv(others)'
  <1> USE DEF SessionInv, TransferInv
  <1>1. /\ r \in Node /\ r # Sender /\ Sender \in Node /\ Receivers \subseteq Node
        /\ LAR' = LAR /\ status \in [Node -> Status] /\ length[r] = 0
    <2>1. LAR' = LAR
      BY ReceiverOpens DEF handlerVars
    <2>2. pc[r] \in {"menu", "awaitSynAck"}
      BY DEF Connect, OnSynAck, OtherInHandshake, TimeoutInHandshake
    <2> QED BY <2>1, <2>2, Nodes DEF LocalInv, FreshInv
  <1>2. /\ totalReceived' = totalReceived /\ buffer' = buffer /\ totalBuffer' = totalBuffer
        /\ status' = status \/ \E v : status' = [status EXCEPT ![r] = v]
        /\ length' = length \/ length' = [length EXCEPT ![r] = Capacity]
    BY DEF Connect, OnSynAck, OtherInHandshake, TimeoutInHandshake, recvVars, socketVars
  <1>3. Grows
    <2>1. ASSUME NEW q \in Receivers
          PROVE  /\ length[q] # 0 => length'[q] # 0
                 /\ \/ status'[q] # "ESTABLISHED" \/ status'[q] = status[q]
                    \/ length[q] = 0
                 /\ \E extra \in Seq(Chunk) : Received(q)' = Received(q) \o extra
      <3>1. <<>> \in Seq(Chunk) /\ Received(q)' = Received(q) \o <<>>
        <4>1. Received(q) \in Seq(Chunk) /\ Received(q)' = Received(q)
          BY <1>2 DEF LocalInv, Received
        <4> QED BY <4>1
      <3>2. CASE q = r
        BY <1>1, <3>1, <3>2
      <3>3. CASE q # r
        BY <1>1, <1>2, <3>1, <3>3 DEF LocalInv
      <3> QED BY <3>2, <3>3
    <2> QED BY <2>1, GrowsFrom
  <1>4. status'[Sender] = status[Sender]
    BY <1>1, <1>2
  <1>5. CASE Connect(r)
    <2>1. PICK seqNum \in ISN : \E result \in SendResults(syn(seqNum)) :
            inbox' = Sent(inbox, r, Sender, result.wire)
      BY <1>5 DEF Connect
    <2>2. PICK result \in SendResults(syn(seqNum)) : inbox' = Sent(inbox, r, Sender, result.wire)
      BY <2>1
    <2>3. syn(seqNum) \in Segment /\ syn(seqNum).payloadSize = 0 /\ syn(seqNum).flags = {"syn"}
      <3>1. seqNum \in UInt32 /\ 0 \in UInt32
        BY SessionAssumption, SegmentAssumption DEF UInt32
      <3> QED BY <3>1, HandshakeTyped DEF syn, ControlSegment
    <2>4. /\ result.wire \in Seq(ReplyBody)
          /\ result.wire = <<>> \/ result.wire = <<Header(syn(seqNum))>>
      BY <2>3, ControlSent
    <2>5. ASSUME NEW i \in DOMAIN result.wire
          PROVE  [from |-> r, body |-> result.wire[i]] \in Heard(others)'
      <3>1. result.wire[i] = Header(syn(seqNum)) /\ result.wire[i] \in ReplyBody
        BY <2>4
      <3>2. result.wire[i].segment.flags = {"syn"}
        BY <2>3, <3>1 DEF Header, Segment
      <3> QED BY <3>1, <3>2 DEF Heard, Expected
    <2>6. inbox'[Sender] \in Seq(Heard(others)')
      BY <1>3, <2>2, <2>4, <2>5, ReplySent DEF Channels
    <2> QED BY <1>1, <1>3, <1>4, <2>6, RepliesFrom
  <1>6. CASE OnSynAck(r)
    <2>1. PICK s \in Returned(r) :
            /\ IsSynAck(s)
            /\ \E result \in SendResults(ack(s.ackNum, Succ(s.seqNum))) : Answer(r, result.wire)
      BY <1>6 DEF OnSynAck
    <2>2. PICK result \in SendResults(ack(s.ackNum, Succ(s.seqNum))) : Answer(r, result.wire)
      BY <2>1
    <2>3. pc[r] = "awaitSynAck" /\ inbox[r] # <<>> /\ s \in Segment
      BY <1>6, ReturnedToReceiver DEF OnSynAck
    <2> DEFINE answer == ack(s.ackNum, Succ(s.seqNum))
    <2>4. /\ answer \in Segment /\ answer.payloadSize = 0
          /\ answer.flags = {"ack"} /\ answer.ackNum = Succ(s.seqNum)
      <3>1. s.ackNum \in UInt32 /\ s.seqNum \in UInt32
        BY <2>3 DEF Segment
      <3> QED BY <3>1, HandshakeTyped, ControlTyped DEF ack, ControlSegment
    <2>5. /\ result.wire \in Seq(ReplyBody)
          /\ result.wire = <<>> \/ result.wire = <<Header(answer)>>
      BY <2>2, <2>4, ControlSent
    <2>6. Succ(s.seqNum) \in others
      BY <2>1, <2>3
    <2> HIDE DEF answer
    <2>7. ASSUME NEW i \in DOMAIN result.wire
          PROVE  [from |-> r, body |-> result.wire[i]] \in Heard(others)'
      <3>1. result.wire[i] = Header(answer) /\ result.wire[i] \in ReplyBody
        BY <2>5
      <3>2. /\ result.wire[i].segment.flags = {"ack"}
            /\ result.wire[i].segment.ackNum \in others
        BY <2>4, <2>6, <3>1 DEF Header, Segment
      <3> QED BY <3>1, <3>2 DEF Heard, Expected, Known
    <2>8. inbox'[Sender] \in Seq(Heard(others)')
      BY <1>3, <2>2, <2>3, <2>5, <2>7, ReceiverSends
    <2> QED BY <1>1, <1>3, <1>4, <2>8, RepliesFrom
  <1>7. CASE OtherInHandshake(r) \/ TimeoutInHandshake(r)
    <2>1. \/ inbox' = inbox
          \/ inbox[r] # <<>> /\ Answer(r, <<>>)
      BY <1>7, ReturnedToReceiver DEF OtherInHandshake, TimeoutInHandshake, Consume
    <2>2. pc[r] # "menu"
      BY <1>7 DEF OtherInHandshake, TimeoutInHandshake
    <2> QED BY <1>1, <1>3, <1>4, <2>1, <2>2, SilentReplies
  <1> QED BY <1>5, <1>6, <1>7

\* Every step of the program keeps what is said of the replies.
LEMMA SessionReplies ==
    ASSUME NEW others, SessionInv, SessionInv', FreshInv, RepliesInv(others),
           [SessionNext]_vars,
           \A r \in Receivers : pc[r] = "awaitSynAck" =>
               \A s \in Returned(r) : IsSynAck(s) => Succ(s.seqNum) \in others
    PROVE  RepliesInv(others)'
  <1>1. CASE UNCHANGED vars
    <2>1. [Next]_vars
      BY <1>1
    <2> QED BY <2>1, RepliesStep DEF SessionInv
  <1>2. CASE SenderNext \/ OutsideNext
    BY <1>2, SenderReplies, OutsideReplies DEF SessionInv, TransferInv
  <1>3. ASSUME NEW r \in Receivers, Connect(r) \/ ReceiverThread(r)
        PROVE  RepliesInv(others)'
    BY <1>3, OpeningReplies, ReceiverReplies DEF ReceiverThread, SessionInv
  <1> QED
    BY <1>1, <1>2, <1>3, HandshakeReplies DEF SessionNext, UserNext, SenderThread

\* In the whole program, too, the sender is in CLOSE_WAIT only when a receiver
\* has begun to close: neither the handshake's segments nor those of receivers
\* that are turned away look like the end of the transfer (socket.cpp:124-257).
THEOREM SessionCloseWaitIsTrue == SessionSpec => []CloseWaitMeansPeerCloses
  <1> DEFINE Inv == SessionInv /\ FreshInv /\ RepliesInv(UInt32)
  <1>1. SessionInit => Inv
    <2> SUFFICES ASSUME SessionInit
                 PROVE  Inv
      OBVIOUS
    <2>1. FreshInv
      BY DEF SessionInit, FreshInv
    <2>2. inbox[Sender] = <<>> /\ LAR = 0 /\ status[Sender] = "CLOSED"
      BY Nodes DEF SessionInit, NothingSent, HandlerInit
    <2>3. <<>> \in Seq(Heard(UInt32))
      OBVIOUS
    <2>4. RepliesInv(UInt32)
      BY <2>2, <2>3, BeliefsRestated DEF RepliesInv
    <2> QED BY <2>1, <2>4, SessionStarts
  <1>2. Inv /\ [SessionNext]_vars => Inv'
    <2> SUFFICES ASSUME Inv, [SessionNext]_vars
                 PROVE  Inv'
      OBVIOUS
    <2>1. SessionInv' /\ FreshInv'
      BY SessionStep, FreshStep
    <2>2. \A r \in Receivers : pc[r] = "awaitSynAck" =>
             \A s \in Returned(r) : IsSynAck(s) => Succ(s.seqNum) \in UInt32
      BY ReturnedToReceiver, HandshakeTyped, SegmentAssumption
      DEF Segment, UInt32, SessionInv, TransferInv
    <2> QED BY <2>1, <2>2, SessionReplies
  <1>3. Inv => CloseWaitMeansPeerCloses
    BY DEF RepliesInv
  <1> QED BY <1>1, <1>2, <1>3, PTL DEF SessionSpec

-----------------------------------------------------------------------------
(***************************************************************************)
(* Whom the sender chooses.  As soon as it has a peer, its SYN-ACKs go to  *)
(* that peer only, so nobody else gets over its handshake.  ChosenInv(p)   *)
(* says so of the chosen p, or of NoPeer as long as there is none.  What   *)
(* the code does not exclude is a data segment that looks like a SYN-ACK:  *)
(* its flags are whatever lay in memory, and it may reach a receiver that  *)
(* still waits.  NoFalseSynAck says that they never do.                    *)
(***************************************************************************)
NoFalseSynAck ==
    /\ \A flags \in DataFlags : ~({"syn", "ack"} \subseteq flags)
    /\ \A s \in HeapSegments : ~IsSynAck(s)

\* The packets that may be under way to r when p is chosen.
Arriving(r, p) ==
    {m \in Packet : m.body.kind = "header" /\ IsSynAck(m.body.segment) =>
        /\ r = p
        /\ m.body.segment.payloadSize = 0
        /\ m.body.segment.seqNum \in ISN}

ChosenInv(p) ==
    /\ pc[Sender] \in Choosing => peerAddr[Sender] = p
    /\ \A r \in Receivers :
         /\ inbox[r] \in Seq(Arriving(r, p))
         /\ ~IsSynAck(pending[r])
         /\ r # p => length[r] = 0

\* What is sent that is not a SYN-ACK.
Plain == {d \in Datagram : d.kind = "header" => ~IsSynAck(d.segment)}

LEMMA PlainSent ==
    ASSUME NEW s \in Segment, ~IsSynAck(s)
    PROVE  /\ \A result \in SendResults(s) : result.wire \in Seq(Plain)
           /\ \A wire \in PartialWire(s) : wire \in Seq(Plain)
  <1>1. Header(s) \in Datagram /\ Payload(s).kind = "payload"
    BY DEF Header, Payload, Segment, Datagram
  <1>2. Header(s) \in Plain
    <2>1. Header(s).segment.flags = s.flags
      BY DEF Header, Segment
    <2> QED BY <1>1, <2>1 DEF Plain, IsSynAck
  <1>3. HasPayload(s) => Payload(s) \in Plain
    <2>1. HasPayload(s) => Payload(s) \in Datagram
      BY DEF Payload, Segment, Datagram, HasPayload, JunkData
    <2> QED BY <1>1, <2>1 DEF Plain
  <1> DEFINE head == Header(s)
             load == Payload(s)
  <1>4. /\ <<head>> \in Seq(Plain) /\ <<>> \in Seq(Plain)
        /\ HasPayload(s) => <<head, load>> \in Seq(Plain)
    <2>1. head \in Plain /\ (HasPayload(s) => load \in Plain)
      BY <1>2, <1>3
    <2> HIDE DEF head, load
    <2> QED BY <2>1
  <1>5. Wire(s) \in Seq(Plain) /\ \A wire \in PartialWire(s) : wire \in Seq(Plain)
    BY <1>4 DEF Wire, PartialWire
  <1>6. ASSUME NEW result \in SendResults(s)
        PROVE  result.wire \in Seq(Plain)
    <2>1. CASE result = [wire |-> Wire(s), ok |-> TRUE]
      BY <1>5, <2>1
    <2>2. CASE result \in [wire : PartialWire(s), ok : {FALSE}]
      BY <1>5, <2>2
    <2> QED BY <2>1, <2>2 DEF SendResults
  <1> QED BY <1>5, <1>6

\* The sender's own closing segments are none.
LEMMA PlainControl ==
    ASSUME NEW s \in Segment
    PROVE  /\ fin \in Segment /\ ~IsSynAck(fin)
           /\ finAck \in Segment /\ ~IsSynAck(finAck)
           /\ LastAck(s) \in Segment /\ ~IsSynAck(LastAck(s))
           /\ ~IsSynAck(NoSegment)
  <1>1. /\ fin.flags = {"fin"} /\ finAck.flags = {"fin", "ack"}
        /\ LastAck(s).flags = {"ack"} /\ NoSegment.flags = {}
    BY DEF fin, finAck, LastAck, ack, ControlSegment, NoSegment
  <1>2. 0 \in UInt32
    BY SegmentAssumption DEF UInt32
  <1>3. fin \in Segment /\ finAck \in Segment
    BY <1>2, ControlTyped
  <1> QED BY <1>1, <1>3, AcksTyped DEF IsSynAck

\* A data segment is none.
LEMMA PlainOutgoing ==
    ASSUME TransferInv, FlagsAsCut, NoFalseSynAck, pc[Sender] = "sendWindow"
    PROVE  Outgoing \in Segment /\ ~IsSynAck(Outgoing)
  <1>1. Outgoing \in Segment
    BY OutgoingTyped
  <1>2. window # <<>> /\ turn \in 1 .. WindowSize
    BY DEF TransferInv, SenderInv, LocalInv
  <1> QED BY <1>1, <1>2 DEF FlagsAsCut, NoFalseSynAck, Outgoing, IsSynAck

\* A queue with what is sent to it, or elsewhere.
LEMMA SentWithin ==
    ASSUME NEW queues, QueuesOK(queues), NEW n, NEW dst, NEW r \in Node,
           NEW S, queues[r] \in Seq(S), NEW body, NEW wire \in Seq(body),
           dst = r => \A d \in body : [from |-> n, body |-> d] \in S
    PROVE  Sent(queues, n, dst, wire)[r] \in Seq(S)
  <1> DEFINE new == [i \in DOMAIN wire |-> [from |-> n, body |-> wire[i]]]
  <1>1. CASE wire = <<>> \/ Deaf(dst) \/ dst # r
    BY <1>1 DEF Sent, QueuesOK
  <1>2. CASE ~(wire = <<>> \/ Deaf(dst) \/ dst # r)
    <2>1. new \in Seq(S)
      BY <1>2
    <2> HIDE DEF new
    <2>2. Sent(queues, n, dst, wire)[r] = queues[r] \o new
      BY <1>2 DEF Sent, QueuesOK, new
    <2> QED BY <2>1, <2>2
  <1> QED BY <1>1, <1>2

\* What may be under way when there is no peer may be under way to any peer.
LEMMA ArrivingGrows ==
    ASSUME NEW r \in Receivers, NEW p
    PROVE  Arriving(r, NoPeer) \subseteq Arriving(r, p)
  BY Nodes DEF Arriving

\* What the sender sends is not taken for a SYN-ACK of somebody else's.
LEMMA SenderArrives ==
    ASSUME Channels, NEW p, NEW r \in Receivers, inbox[r] \in Seq(Arriving(r, p)),
           NEW wire \in Seq(Plain),
           \/ inbox' = inbox
           \/ Post(Sender, wire)
           \/ inbox[Sender] # <<>> /\ \E addr : AnswerTo(Sender, addr, wire)
    PROVE  inbox'[r] \in Seq(Arriving(r, p))
  <1>1. QueuesOK(inbox) /\ Sender \in Node /\ r \in Node /\ r # Sender
    BY Nodes DEF Channels
  <1>2. \A d \in Plain : [from |-> Sender, body |-> d] \in Arriving(r, p)
    BY <1>1 DEF Plain, Arriving, Packet
  <1>3. CASE inbox' = inbox
    BY <1>3
  <1>4. CASE Post(Sender, wire)
    BY <1>1, <1>2, <1>4, SentWithin DEF Post
  <1>5. CASE inbox[Sender] # <<>> /\ \E addr : AnswerTo(Sender, addr, wire)
    <2> DEFINE rest == [inbox EXCEPT ![Sender] = Tail(@)]
    <2>1. PICK addr : inbox' = Sent(rest, Sender, addr, wire)
      BY <1>5 DEF AnswerTo
    <2>2. QueuesOK(rest) /\ rest[r] = inbox[r]
      BY <1>1, <1>5, TailChannels DEF QueuesOK
    <2> HIDE DEF rest
    <2> QED BY <1>1, <1>2, <2>1, <2>2, SentWithin
  <1> QED BY <1>3, <1>4, <1>5


\* The sender goes on without a SYN-ACK.
LEMMA ChosenKept ==
    ASSUME SessionInv, NEW p, ChosenInv(p), NEW wire \in Seq(Plain),
           \/ inbox' = inbox
           \/ Post(Sender, wire)
           \/ inbox[Sender] # <<>> /\ \E addr : AnswerTo(Sender, addr, wire),
           pending' = pending \/ pending' = [pending EXCEPT ![Sender] = NoSegment],
           length' = length,
           pc'[Sender] \in Choosing =>
               pc[Sender] \in Choosing /\ peerAddr'[Sender] = peerAddr[Sender]
    PROVE  ChosenInv(p)'
  <1> USE DEF SessionInv, TransferInv
  <1>1. \A r \in Receivers : pending'[r] = pending[r]
    BY Nodes DEF Channels
  <1>2. \A r \in Receivers : inbox'[r] \in Seq(Arriving(r, p))
    BY SenderArrives DEF ChosenInv
  <1> QED BY <1>1, <1>2 DEF ChosenInv, Arriving

\* The steps of send and close keep to the peer that is chosen.
LEMMA SenderChosen ==
    ASSUME SessionInv, FlagsAsCut, NoFalseSynAck, NEW p, ChosenInv(p), SenderNext
    PROVE  ChosenInv(p)'
  <1> USE DEF SessionInv, TransferInv
  <1>1. pc'[Sender] \notin Choosing /\ <<>> \in Seq(Plain) /\ NoSegment \in Segment
    BY SenderPastAccept, PlainControl, ControlTyped, SegmentAssumption DEF UInt32
  <1>2. length' = length
    BY DEF SenderNext, StartSend, SendThrows, NextWindow, SendSegment, ReplyDuringSend,
        FinDuringSend, CloseNext, CloseActive, ClosePassive, CloseAtOnce,
        FinAckInFinWait, AckInCloseWait, OtherInClose, TimeoutInClose, recvVars
  <1>3. CASE \/ StartSend \/ SendThrows \/ NextWindow \/ ClosePassive(Sender)
             \/ CloseAtOnce(Sender) \/ TimeoutInClose(Sender)
    <2>1. inbox' = inbox
          /\ (pending' = pending \/ pending' = [pending EXCEPT ![Sender] = NoSegment])
      BY <1>3 DEF StartSend, SendThrows, NextWindow, ClosePassive, CloseAtOnce,
          TimeoutInClose, PayloadTimeout
    <2> QED BY <1>1, <1>2, <2>1, ChosenKept
  <1>4. CASE SendSegment
    <2>1. PICK result \in SendResults(Outgoing) : Post(Sender, result.wire)
      BY <1>4 DEF SendSegment
    <2>2. Outgoing \in Segment /\ ~IsSynAck(Outgoing)
      BY <1>4, PlainOutgoing DEF SendSegment
    <2>3. result.wire \in Seq(Plain)
      BY <2>2, PlainSent
    <2>4. pending' = pending
      BY <2>1 DEF Post
    <2> QED BY <1>1, <1>2, <2>1, <2>3, <2>4, ChosenKept
  <1>5. CASE CloseActive(Sender)
    <2>1. PICK result \in SendResults(fin) : Post(Sender, result.wire)
      BY <1>5 DEF CloseActive
    <2>2. result.wire \in Seq(Plain)
      BY <1>1, PlainControl, PlainSent
    <2>3. pending' = pending
      BY <2>1 DEF Post
    <2> QED BY <1>1, <1>2, <2>1, <2>2, <2>3, ChosenKept
  <1>6. CASE \/ ReplyDuringSend \/ FinDuringSend \/ FinAckInFinWait(Sender)
             \/ AckInCloseWait(Sender) \/ OtherInClose(Sender)
    <2>1. PICK s \in Returned(Sender), wire \in Seq(Plain) : Answer(Sender, wire)
      <3>1. CASE FinDuringSend
        <4>1. PICK s \in Returned(Sender), result \in SendResults(finAck) :
                Answer(Sender, result.wire)
          BY <3>1 DEF FinDuringSend
        <4>2. result.wire \in Seq(Plain)
          BY <1>1, PlainControl, PlainSent
        <4> QED BY <4>1, <4>2
      <3>2. CASE FinAckInFinWait(Sender)
        <4>1. PICK s \in Returned(Sender) :
                \E result \in SendResults(LastAck(s)) : Answer(Sender, result.wire)
          BY <3>2 DEF FinAckInFinWait
        <4>2. PICK result \in SendResults(LastAck(s)) : Answer(Sender, result.wire)
          BY <4>1
        <4>3. s \in Segment
          BY ReturnedToSender
        <4>4. result.wire \in Seq(Plain)
          BY <4>3, PlainControl, PlainSent
        <4> QED BY <4>2, <4>4
      <3>3. CASE ReplyDuringSend \/ AckInCloseWait(Sender) \/ OtherInClose(Sender)
        BY <1>1, <3>3 DEF ReplyDuringSend, AckInCloseWait, OtherInClose, Consume
      <3> QED BY <1>6, <3>1, <3>2, <3>3
    <2>2. inbox[Sender] # <<>> /\ \E addr : AnswerTo(Sender, addr, wire)
      BY <2>1, ReturnedToSender DEF Answer
    <2>3. pending' = [pending EXCEPT ![Sender] = NoSegment]
      BY <2>1 DEF Answer, AnswerTo
    <2> QED BY <1>1, <1>2, <2>2, <2>3, ChosenKept
  <1> QED BY <1>3, <1>4, <1>5, <1>6 DEF SenderNext, CloseNext

\* A sequence of one element, or none.
LEMMA OnlySeq ==
    ASSUME NEW e, NEW s, s = <<>> \/ s = <<e>>
    PROVE  s \in Seq({e})
  <1>1. <<>> \in Seq({e}) /\ <<e>> \in Seq({e})
    OBVIOUS
  <1> QED BY <1>1

\* In its handshake the sender chooses the first receiver whose SYN comes, and
\* answers nobody else.
LEMMA OpeningChosen ==
    ASSUME SessionInv, NEW p \in Receivers \cup {NoPeer}, ChosenInv(p),
           \/ RunSender \/ listen \/ SynDuringAccept \/ NumberThrows
           \/ AckDuringAccept \/ OtherDuringAccept
    PROVE  \E q \in Receivers \cup {NoPeer} : ChosenInv(q)'
  <1> USE DEF SessionInv, TransferInv
  <1>1. /\ Sender \in Node /\ pc \in [Node -> Place] /\ <<>> \in Seq(Plain)
        /\ peerAddr \in [Node -> Node \cup {NoPeer}]
    BY Nodes DEF LocalInv, Channels
  <1>2. length' = length
    BY DEF RunSender, listen, SynDuringAccept, NumberThrows, AckDuringAccept,
        OtherDuringAccept, recvVars
  <1>3. CASE RunSender \/ listen
    <2>1. UNCHANGED <<inbox, pending, peerAddr>> /\ pc[Sender] \in Choosing
      BY <1>3 DEF RunSender, listen, socketVars, Choosing
    <2> QED BY <1>1, <1>2, <2>1, ChosenKept
  <1>4. CASE NumberThrows \/ AckDuringAccept
    <2>1. inbox[Sender] # <<>> /\ \E addr : AnswerTo(Sender, addr, <<>>)
      BY <1>4, ReturnedToSender DEF NumberThrows, AckDuringAccept, Consume, Answer
    <2>2. pending' = [pending EXCEPT ![Sender] = NoSegment]
      BY <2>1 DEF AnswerTo
    <2>3. pc'[Sender] \notin Choosing
      BY <1>1, <1>4 DEF NumberThrows, AckDuringAccept, Choosing
    <2> QED BY <1>1, <1>2, <2>1, <2>2, <2>3, ChosenKept
  <1>5. CASE OtherDuringAccept
    <2>1. inbox[Sender] # <<>> /\ AnswerTo(Sender, peerAddr[Sender], <<>>)
      BY <1>5, ReturnedToSender DEF OtherDuringAccept, Consume, Answer, PeerAfterReceive
    <2>2. /\ pending' = [pending EXCEPT ![Sender] = NoSegment]
          /\ peerAddr'[Sender] = peerAddr[Sender]
      BY <1>1, <2>1 DEF AnswerTo
    <2>3. pc' = pc
      BY <1>5 DEF OtherDuringAccept
    <2> QED BY <1>1, <1>2, <2>1, <2>2, <2>3, ChosenKept
  <1>6. CASE SynDuringAccept
    <2>1. PICK s \in Returned(Sender), seqNum \in ISN :
            \E result \in SendResults(SynAck(seqNum, Succ(s.seqNum))) :
              AnswerTo(Sender, PeerOfSyn, result.wire)
      BY <1>6 DEF SynDuringAccept
    <2> DEFINE answer == SynAck(seqNum, Succ(s.seqNum))
               rest   == [inbox EXCEPT ![Sender] = Tail(@)]
    <2>2. PICK result \in SendResults(answer) : AnswerTo(Sender, PeerOfSyn, result.wire)
      BY <2>1
    <2>3. /\ pc[Sender] = "accept" /\ pc[Sender] \in Choosing /\ pc' = pc
          /\ inbox[Sender] # <<>> /\ Head(inbox[Sender]) \in Expected(Sender)
          /\ s.seqNum \in UInt32 /\ seqNum \in UInt32
      BY <1>6, ReturnedToSender, SessionAssumption DEF SynDuringAccept, Segment, Choosing
    <2>4. /\ answer \in Segment /\ answer.payloadSize = 0 /\ answer.seqNum = seqNum
      BY <2>3, HandshakeTyped DEF SynAck, syn, ControlSegment
    <2>5. PICK q \in Receivers : q = PeerOfSyn /\ (p = NoPeer \/ p = q)
      BY <2>3, Nodes DEF PeerOfSyn, Expected, Channels, ChosenInv
    <2>6. /\ peerAddr'[Sender] = q /\ inbox' = Sent(rest, Sender, q, result.wire)
          /\ \A r \in Receivers : pending'[r] = pending[r]
      BY <1>1, <2>2, <2>5, Nodes DEF AnswerTo, Channels
    <2>7. QueuesOK(rest) /\ \A r \in Receivers : rest[r] = inbox[r]
      BY <1>1, <2>3, TailChannels, Nodes DEF Channels, QueuesOK
    <2> HIDE DEF answer, rest
    <2>8. \A r \in Receivers : inbox[r] \in Seq(Arriving(r, q))
      <3>1. CASE p = q
        BY <3>1 DEF ChosenInv
      <3>2. CASE p = NoPeer
        BY <3>2, ArrivingGrows, SeqMonotone DEF ChosenInv
      <3> QED BY <2>5, <3>1, <3>2
    <2>9. result.wire = <<>> \/ result.wire = <<Header(answer)>>
      BY <2>2, <2>4, ControlSent
    <2>10. [from |-> Sender, body |-> Header(answer)] \in Arriving(q, q)
      <3>1. /\ Header(answer) \in Datagram
            /\ Header(answer).segment.payloadSize = 0
            /\ Header(answer).segment.seqNum = seqNum
        BY <2>4 DEF Header, Segment, Datagram
      <3> QED BY <1>1, <3>1 DEF Arriving, Packet
    <2>11. ASSUME NEW r \in Receivers
           PROVE  inbox'[r] \in Seq(Arriving(r, q))
      <3>1. result.wire \in Seq({Header(answer)})
        BY <2>9, OnlySeq
      <3>2. r \in Node /\ rest[r] \in Seq(Arriving(r, q))
        BY <2>7, <2>8, Nodes
      <3>3. q = r => \A d \in {Header(answer)} : [from |-> Sender, body |-> d] \in Arriving(r, q)
        BY <2>10
      <3> QED BY <2>6, <2>7, <3>1, <3>2, <3>3, SentWithin
    <2>12. \A r \in Receivers : r # q => length[r] = 0
      BY <2>5, Nodes DEF ChosenInv
    <2>13. ChosenInv(q)'
      BY <1>2, <2>6, <2>11, <2>12 DEF ChosenInv, Arriving
    <2> QED BY <2>5, <2>13
  <1> QED BY <1>3, <1>4, <1>5, <1>6


\* What a receiver reads as a SYN-ACK is one, and it is chosen.
LEMMA SynAckChosen ==
    ASSUME NoFalseSynAck, NEW p, ChosenInv(p), NEW r \in Receivers, inbox[r] # <<>>,
           NEW s \in AsHeader(Head(inbox[r]).body), IsSynAck(s)
    PROVE  r = p /\ s.payloadSize = 0 /\ s.seqNum \in ISN
  <1>1. Head(inbox[r]) \in Arriving(r, p)
    BY HeadTailSeq DEF ChosenInv
  <1>2. CASE Head(inbox[r]).body.kind = "header"
    BY <1>1, <1>2 DEF AsHeader, Arriving
  <1>3. CASE Head(inbox[r]).body.kind # "header"
    <2>1. PICK t \in HeapSegments : s = [t EXCEPT !.data = NoData]
      BY <1>3 DEF AsHeader
    <2>2. s.flags = t.flags
      BY <2>1, HandlerAssumption DEF Segment
    <2> QED BY <2>1, <2>2 DEF NoFalseSynAck, IsSynAck
  <1> QED BY <1>2, <1>3

\* And so does receiveSegment.
LEMMA ReturnedSynAck ==
    ASSUME Channels, NoFalseSynAck, NEW p, ChosenInv(p), NEW r \in Receivers,
           NEW s \in Returned(r), IsSynAck(s)
    PROVE  r = p /\ s.seqNum \in ISN
  <1>1. CASE pending[r] = NoSegment
    <2>1. inbox[r] # <<>> /\ s \in AsHeader(Head(inbox[r]).body)
      BY <1>1 DEF Returned
    <2> QED BY <2>1, SynAckChosen
  <1>2. CASE pending[r] # NoSegment
    <2>1. s.flags = pending[r].flags
      BY <1>2, Nodes DEF Returned, Channels, Segment
    <2> QED BY <2>1 DEF ChosenInv, IsSynAck
  <1> QED BY <1>1, <1>2

\* Only the first packet of its own queue is taken away.
LEMMA ReceiverQueues ==
    ASSUME Channels, NEW r \in Receivers, Connect(r) \/ ReceiverThread(r), NEW q \in Receivers
    PROVE  \/ inbox'[q] = inbox[q]
           \/ inbox[q] # <<>> /\ inbox'[q] = Tail(inbox[q])
  <1>1. /\ QueuesOK(inbox) /\ Sender \in Node /\ r \in Node /\ r # Sender
        /\ q \in Node /\ q # Sender
    BY Nodes DEF Channels
  <1>2. \A queues, wire : QueuesOK(queues) => Sent(queues, r, Sender, wire)[q] = queues[q]
    BY <1>1 DEF Sent, QueuesOK
  <1>3. CASE inbox' = inbox
    BY <1>3
  <1>4. CASE \E wire : inbox' = Sent(inbox, r, Sender, wire)
    BY <1>1, <1>2, <1>4
  <1>5. CASE pc[r] # "menu" /\ \E wire : Post(r, wire)
    BY <1>1, <1>2, <1>5 DEF Post, Channels
  <1>6. CASE TakeHeader(r)
    BY <1>1, <1>6 DEF TakeHeader, Announced, QueuesOK
  <1>7. CASE pc[r] # "menu" /\ inbox[r] # <<>> /\ \E wire : Answer(r, wire)
    <2> DEFINE rest == [inbox EXCEPT ![r] = Tail(@)]
    <2>1. PeerAfterReceive(r) = Sender
      BY <1>1, <1>7, AnswerableSource DEF Paired
    <2>2. PICK wire : inbox' = Sent(rest, r, Sender, wire)
      BY <1>7, <2>1 DEF Answer, AnswerTo
    <2>3. /\ QueuesOK(rest)
          /\ rest[q] = IF q = r THEN Tail(inbox[r]) ELSE inbox[q]
      BY <1>1, <1>7, TailChannels DEF QueuesOK
    <2> HIDE DEF rest
    <2> QED BY <1>2, <1>7, <2>2, <2>3
  <1>8. CASE Connect(r)
    BY <1>4, <1>8 DEF Connect
  <1>9. CASE \/ TimeoutInHandshake(r) \/ RecvThrows(r) \/ TimeoutDuringRecv(r)
             \/ ClosePassive(r) \/ CloseAtOnce(r) \/ TimeoutInClose(r)
    BY <1>3, <1>9 DEF TimeoutInHandshake, RecvThrows, TimeoutDuringRecv, ClosePassive,
        CloseAtOnce, TimeoutInClose
  <1>10. CASE AwaitPayload(r) \/ PayloadThrows(r)
    BY <1>6, <1>10 DEF AwaitPayload, PayloadThrows
  <1>11. CASE CloseActive(r)
    BY <1>5, <1>11 DEF CloseActive
  <1>12. CASE \/ OnSynAck(r) \/ OtherInHandshake(r) \/ StoreSegment(r) \/ FinDuringRecv(r)
              \/ IgnoreDuringRecv(r) \/ FinAckInFinWait(r) \/ AckInCloseWait(r)
              \/ OtherInClose(r)
    <2>1. \E s \in Returned(r) : TRUE
      BY <1>12 DEF OnSynAck, OtherInHandshake, StoreSegment, FinDuringRecv,
          IgnoreDuringRecv, FinAckInFinWait, AckInCloseWait, OtherInClose
    <2>2. pc[r] # "menu" /\ inbox[r] # <<>>
      BY <2>1, ReturnedToReceiver
    <2>3. \E wire : Answer(r, wire)
      BY <1>12 DEF OnSynAck, OtherInHandshake, StoreSegment, FinDuringRecv,
          IgnoreDuringRecv, FinAckInFinWait, AckInCloseWait, OtherInClose, Consume
    <2> QED BY <1>7, <2>2, <2>3
  <1> QED
    BY <1>8, <1>9, <1>10, <1>11, <1>12 DEF ReceiverThread, ReceiverNext, CloseNext

\* Only a header with a payload to come is kept pending.
LEMMA ReceiverPending ==
    ASSUME NEW r \in Receivers, Connect(r) \/ ReceiverThread(r)
    PROVE  \/ pending' = pending
           \/ pending' = [pending EXCEPT ![r] = NoSegment]
           \/ inbox[r] # <<>> /\ \E s \in Announced(r) : pending' = [pending EXCEPT ![r] = s]
  <1>1. CASE \/ Connect(r) \/ PayloadThrows(r) \/ RecvThrows(r) \/ CloseActive(r)
             \/ ClosePassive(r) \/ CloseAtOnce(r)
    BY <1>1 DEF Connect, PayloadThrows, RecvThrows, CloseActive, ClosePassive, CloseAtOnce, Post
  <1>2. CASE TimeoutInHandshake(r) \/ TimeoutDuringRecv(r) \/ TimeoutInClose(r)
    BY <1>2 DEF TimeoutInHandshake, TimeoutDuringRecv, TimeoutInClose, PayloadTimeout
  <1>3. CASE AwaitPayload(r)
    BY <1>3 DEF AwaitPayload, Announced
  <1>4. CASE \/ OnSynAck(r) \/ OtherInHandshake(r) \/ StoreSegment(r) \/ FinDuringRecv(r)
             \/ IgnoreDuringRecv(r) \/ FinAckInFinWait(r) \/ AckInCloseWait(r)
             \/ OtherInClose(r)
    <2>1. \E wire : Answer(r, wire)
      BY <1>4 DEF OnSynAck, OtherInHandshake, StoreSegment, FinDuringRecv,
          IgnoreDuringRecv, FinAckInFinWait, AckInCloseWait, OtherInClose, Consume
    <2> QED BY <2>1 DEF Answer, AnswerTo
  <1> QED
    BY <1>1, <1>2, <1>3, <1>4 DEF ReceiverThread, ReceiverNext, CloseNext

\* recv gets its first length from a SYN-ACK, and others from itself.
LEMMA ReceiverLength ==
    ASSUME NEW r \in Receivers, Connect(r) \/ ReceiverThread(r)
    PROVE  \/ length' = length
           \/ /\ \/ pc[r] = "recv"
                 \/ pc[r] = "awaitSynAck" /\ \E s \in Returned(r) : IsSynAck(s)
              /\ \E l : length' = [length EXCEPT ![r] = l]
  <1>1. CASE ReceiverNext(r)
    BY <1>1 DEF ReceiverNext, AwaitPayload, PayloadThrows, TakeHeader, RecvThrows,
        StoreSegment, RecvReturns, FinDuringRecv, IgnoreDuringRecv, TimeoutDuringRecv,
        CloseNext, CloseActive, ClosePassive, CloseAtOnce, FinAckInFinWait,
        AckInCloseWait, OtherInClose, TimeoutInClose, recvVars
  <1>2. CASE ~ReceiverNext(r)
    BY <1>2 DEF Connect, ReceiverThread, OnSynAck, OtherInHandshake,
        TimeoutInHandshake, recvVars
  <1> QED BY <1>1, <1>2

\* A receiver that is not chosen does not get over its handshake.
LEMMA ReceiverChosen ==
    ASSUME SessionInv, NoFalseSynAck, NEW p, ChosenInv(p),
           NEW r \in Receivers, Connect(r) \/ ReceiverThread(r)
    PROVE  ChosenInv(p)'
  <1> USE DEF SessionInv, TransferInv
  <1>1. /\ r \in Node /\ r # Sender /\ Receivers \subseteq Node
        /\ pc'[Sender] = pc[Sender] /\ peerAddr'[Sender] = peerAddr[Sender]
    <2>1. CASE ReceiverNext(r)
      BY <2>1, Nodes, ReceiverApart
    <2>2. CASE ~ReceiverNext(r)
      <3>1. pc' = pc \/ \E c : pc' = [pc EXCEPT ![r] = c]
        BY <2>2 DEF Connect, ReceiverThread, OnSynAck, OtherInHandshake, TimeoutInHandshake
      <3>2. peerAddr' = peerAddr \/ \E a : peerAddr' = [peerAddr EXCEPT ![r] = a]
        BY <2>2 DEF Connect, ReceiverThread, OnSynAck, OtherInHandshake,
            TimeoutInHandshake, socketVars, Consume, Answer, AnswerTo
      <3> QED BY <3>1, <3>2, Nodes DEF LocalInv, Channels
    <2> QED BY <2>1, <2>2
  <1>2. ASSUME NEW q \in Receivers
        PROVE  inbox'[q] \in Seq(Arriving(q, p))
    <2>1. inbox[q] \in Seq(Arriving(q, p))
      BY DEF ChosenInv
    <2> QED BY <2>1, ReceiverQueues, HeadTailSeq
  <1>3. ASSUME NEW q \in Receivers
        PROVE  ~IsSynAck(pending'[q])
    <2>1. ~IsSynAck(NoSegment)
      BY DEF NoSegment, ControlSegment, IsSynAck
    <2>2. \A s \in Announced(r) : inbox[r] # <<>> => ~IsSynAck(s)
      <3> SUFFICES ASSUME NEW s \in Announced(r), inbox[r] # <<>>, IsSynAck(s)
                   PROVE  FALSE
        OBVIOUS
      <3>1. s \in AsHeader(Head(inbox[r]).body) /\ s.payloadSize > 0
        BY DEF Announced
      <3> QED BY <3>1, SynAckChosen
    <2> QED BY <1>1, <2>1, <2>2, ReceiverPending DEF ChosenInv, Channels
  <1>4. ASSUME NEW q \in Receivers, q # p
        PROVE  length'[q] = 0
    <2>1. length[q] = 0 /\ length \in [Receivers -> 0 .. Capacity]
      BY <1>4 DEF ChosenInv, LocalInv
    <2>2. pc[q] # "recv"
      BY <2>1 DEF LocalInv, Engaged
    <2>3. \A s \in Returned(q) : ~IsSynAck(s)
      BY <1>4, ReturnedSynAck
    <2> QED BY <2>1, <2>2, <2>3, ReceiverLength
  <1> QED BY <1>1, <1>2, <1>3, <1>4 DEF ChosenInv, Arriving

\* Nor does a fault of the network, or a process that is stopped, change it.
LEMMA OutsideChosen ==
    ASSUME SessionInv, FlagsAsCut, NoFalseSynAck, NEW p, ChosenInv(p), OutsideNext
    PROVE  ChosenInv(p)'
  <1> USE DEF SessionInv, TransferInv
  <1>1. PICK n \in Node : Lose(n) \/ Duplicate(n) \/ Reorder(n) \/ Stop(n)
    BY DEF OutsideNext
  <1>2. /\ length' = length /\ peerAddr' = peerAddr
        /\ pc'[Sender] = pc[Sender] \/ pc'[Sender] = "stopped"
    BY <1>1, OutsideApart DEF Lose, Duplicate, Reorder, Fault, Stop, recvVars
  <1>3. /\ inbox \in [Node -> Seq(Packet)] /\ QueuesOK(inbox)
        /\ Sender \in Node /\ Receivers \subseteq Node /\ Sender \notin Receivers
        /\ \A r \in Receivers : inbox[r] \in Seq(Arriving(r, p))
    BY Nodes DEF Channels, QueuesOK, ChosenInv
  <1>4. CASE Lose(n) \/ Duplicate(n) \/ Reorder(n)
    <2>1. PICK queue : /\ inbox' = [inbox EXCEPT ![n] = queue]
                       /\ n \in Receivers => queue \in Seq(Arriving(n, p))
      <3>1. CASE Lose(n)
        BY <1>3, <3>1, RemoveAtSeq DEF Lose, Fault
      <3>2. CASE Duplicate(n)
        <4>1. PICK i \in 1 .. Len(inbox[n]) : Fault(n, InsertAt(inbox[n], i, inbox[n][i]))
          BY <3>2 DEF Duplicate
        <4>2. n \in Receivers => inbox[n][i] \in Arriving(n, p)
          BY <1>3
        <4> QED BY <1>3, <4>1, <4>2, InsertAtSeq DEF Fault
      <3>3. CASE Reorder(n)
        BY <1>3, <3>3, SwapSeq DEF Reorder, Fault
      <3> QED BY <1>4, <3>1, <3>2, <3>3
    <2>2. pending' = pending
      BY <1>4 DEF Lose, Duplicate, Reorder, Fault
    <2>3. \A r \in Receivers : inbox'[r] \in Seq(Arriving(r, p))
      BY <1>3, <2>1
    <2> QED BY <1>2, <2>2, <2>3 DEF ChosenInv, Arriving, Choosing
  <1>5. CASE Stop(n)
    <2> DEFINE rest == [inbox EXCEPT ![n] = <<>>]
    <2>1. PICK wire \in IF pc[n] = "sendWindow" THEN PartialWire(Outgoing) ELSE {<<>>} :
            inbox' = Sent(rest, n, peerAddr[n], wire)
      BY <1>5 DEF Stop
    <2>2. QueuesOK(rest)
      <3>1. <<>> \in Seq(Packet) /\ <<>> \in Seq(Expected(n))
        OBVIOUS
      <3> QED BY <3>1, <1>3, ReplacedChannels
    <2>3. \A r \in Receivers : rest[r] \in Seq(Arriving(r, p))
      <3>1. \A r \in Receivers : <<>> \in Seq(Arriving(r, p))
        OBVIOUS
      <3> QED BY <1>3, <3>1
    <2> HIDE DEF rest
    <2>4. wire = <<>> \/ (n = Sender /\ wire \in Seq(Plain))
      <3>1. CASE n = Sender /\ pc[n] = "sendWindow"
        BY <2>1, <3>1, PlainOutgoing, PlainSent
      <3>2. CASE ~(n = Sender /\ pc[n] = "sendWindow")
        BY <2>1, <3>2, Nodes DEF LocalInv
      <3> QED BY <3>1, <3>2
    <2>5. ASSUME NEW r \in Receivers
          PROVE  inbox'[r] \in Seq(Arriving(r, p))
      <3>1. CASE wire = <<>>
        BY <2>1, <2>3, <3>1 DEF Sent
      <3>2. CASE n = Sender /\ wire \in Seq(Plain)
        <4>1. \A d \in Plain : [from |-> n, body |-> d] \in Arriving(r, p)
          BY <1>3, <3>2 DEF Plain, Arriving, Packet
        <4> QED BY <1>3, <2>1, <2>2, <2>3, <3>2, <4>1, SentWithin
      <3> QED BY <2>4, <3>1, <3>2
    <2>6. \A r \in Receivers : ~IsSynAck(pending'[r])
      <3>1. ~IsSynAck(NoSegment)
        BY DEF NoSegment, ControlSegment, IsSynAck
      <3>2. pending' = [pending EXCEPT ![n] = NoSegment]
        BY <1>5 DEF Stop
      <3> QED BY <1>3, <3>1, <3>2 DEF ChosenInv, Channels
    <2> QED BY <1>2, <2>5, <2>6 DEF ChosenInv, Arriving, Choosing
  <1> QED BY <1>1, <1>4, <1>5

\* There is somebody that is chosen, or nobody yet, after every step.
LEMMA ChosenStep ==
    ASSUME SessionInv, FlagsAsCut, NoFalseSynAck, NEW p \in Receivers \cup {NoPeer},
           ChosenInv(p), [SessionNext]_vars
    PROVE  \E q \in Receivers \cup {NoPeer} : ChosenInv(q)'
  <1>1. CASE UNCHANGED vars
    BY <1>1 DEF vars, recvVars, socketVars, ChosenInv, Arriving
  <1> QED
    BY <1>1, SenderChosen, OpeningChosen, ReceiverChosen, OutsideChosen
    DEF SessionNext, UserNext, SenderThread

Chosen == \E p \in Receivers \cup {NoPeer} : ChosenInv(p)

\* As long as nothing that lies in memory looks like a SYN-ACK, all SYN-ACKs go
\* to one receiver, whatever the network does and however many receivers ask.
THEOREM OneIsChosen ==
    ASSUME NoFalseSynAck
    PROVE  SessionSpec => []Chosen
  <1>1. SessionInit => Chosen
    <2> SUFFICES ASSUME SessionInit
                 PROVE  ChosenInv(NoPeer)
      BY DEF Chosen
    <2>1. ~IsSynAck(NoSegment)
      BY DEF NoSegment, ControlSegment, IsSynAck
    <2>2. \A r \in Receivers : <<>> \in Seq(Arriving(r, NoPeer))
      OBVIOUS
    <2> QED BY <2>1, <2>2, Nodes DEF SessionInit, NothingSent, ChosenInv
  <1>2. SessionInv /\ FlagsAsCut /\ Chosen /\ [SessionNext]_vars => Chosen'
    <2> SUFFICES ASSUME SessionInv, FlagsAsCut, Chosen, [SessionNext]_vars
                 PROVE  Chosen'
      OBVIOUS
    <2>1. PICK p \in Receivers \cup {NoPeer} : ChosenInv(p)
      BY DEF Chosen
    <2>2. PICK q \in Receivers \cup {NoPeer} : ChosenInv(q)'
      BY <2>1, ChosenStep
    <2> QED BY <2>2 DEF Chosen
  <1>3. SessionSpec => []FlagsAsCut
    BY SessionUsesHandler, FlagsAlwaysAsCut, PTL
  <1> QED BY <1>1, <1>2, <1>3, SessionInvariant, PTL DEF SessionSpec

\* However many receivers ask and however often or late their segments come, at
\* most one considers itself connected (socket.cpp:131-147, 177-188), provided
\* that no data segment's flags, which the code does not set, and nothing in the
\* heap look like a SYN-ACK.
THEOREM AtMostOneReceives ==
    ASSUME NoFalseSynAck
    PROVE  SessionSpec => []OneReceives
  <1>1. Chosen => OneReceives
    BY DEF Chosen, ChosenInv, OneReceives, Connected
  <1> QED BY <1>1, OneIsChosen, PTL

\* Then what the sender takes for an acknowledgment, until a receiver starts to
\* close, is the number of a segment that is stored or the one after a number of
\* the handshake, whose ACK may come twice (socket.cpp:177-184, 258-264).
THEOREM AcksAreStoredOrOfHandshake ==
    ASSUME NoFalseSynAck
    PROVE  SessionSpec => []AckStoredOrOfHandshake
  <1> DEFINE others == {Succ(seqNum) : seqNum \in ISN}
             Inv    == SessionInv /\ FreshInv /\ RepliesInv(others)
  <1>1. SessionInit => Inv
    <2> SUFFICES ASSUME SessionInit
                 PROVE  Inv
      OBVIOUS
    <2>1. FreshInv
      BY DEF SessionInit, FreshInv
    <2>2. inbox[Sender] = <<>> /\ LAR = 0 /\ status[Sender] = "CLOSED"
      BY Nodes DEF SessionInit, NothingSent, HandlerInit
    <2>3. <<>> \in Seq(Heard(others))
      OBVIOUS
    <2>4. RepliesInv(others)
      BY <2>2, <2>3, BeliefsRestated DEF RepliesInv
    <2> QED BY <2>1, <2>4, SessionStarts
  <1>2. Inv /\ Chosen /\ [SessionNext]_vars => Inv'
    <2> SUFFICES ASSUME Inv, Chosen, [SessionNext]_vars
                 PROVE  Inv'
      OBVIOUS
    <2>1. SessionInv' /\ FreshInv'
      BY SessionStep, FreshStep
    <2>2. PICK p \in Receivers \cup {NoPeer} : ChosenInv(p)
      BY DEF Chosen
    <2>3. \A r \in Receivers : pc[r] = "awaitSynAck" =>
             \A s \in Returned(r) : IsSynAck(s) => Succ(s.seqNum) \in others
      BY <2>2, ReturnedSynAck DEF SessionInv, TransferInv
    <2> HIDE DEF others
    <2>4. RepliesInv(others)'
      BY <2>1, <2>3, SessionReplies
    <2> QED BY <2>1, <2>4
  <1>3. Inv => AckStoredOrOfHandshake
    BY DEF RepliesInv, AckStoredOrOfHandshake, NobodyCloses, Known, IsStored
  <1> QED BY <1>1, <1>2, <1>3, OneIsChosen, PTL DEF SessionSpec

-----------------------------------------------------------------------------
(***************************************************************************)
(* The whole program keeps the promise of Connection.  With two receivers  *)
(* it does not; and a sender that finds no number for its SYN-ACK closes   *)
(* without ever having had a peer.                                         *)
(***************************************************************************)
OneReceiver == Receivers = {Receiver} /\ ~MayFail

\* What Connection says, of the variables of the program.
Joined  == {r \in Receivers : Connected(r) /\ pc[r] # "stopped"}
Left    == {r \in Receivers : pc[r] = "stopped"}
Sending == peerAddr[Sender] # NoPeer /\ status[Sender] \notin {"LISTEN", "SYN_RECEIVED"}

\* A packet that is no acknowledgment.
NoAck == {p \in Packet : p.body.kind = "header" => "ack" \notin p.body.segment.flags}

\* Where the receiver may be before it is connected.
Outside == {"menu", "awaitSynAck", "done", "stopped"}

\* Until the sender has a peer it has sent nothing; until the receiver is
\* connected it has acknowledged nothing; and a sender past its accept has been
\* acknowledged.
AgreedInv ==
    /\ peerAddr[Sender] = NoPeer => inbox[Receiver] = <<>> /\ pending[Receiver] = NoSegment
    /\ length[Receiver] = 0 => inbox[Sender] \in Seq(NoAck) /\ pc[Receiver] \in Outside
    /\ Sending => length[Receiver] # 0
    /\ pc[Sender] \in {"menu", "listen"} => peerAddr[Sender] = NoPeer
    /\ pc[Sender] = "accept" => status[Sender] \in {"LISTEN", "SYN_RECEIVED"}
    /\ pc[Sender] \notin Unpaired => status[Sender] \notin {"LISTEN", "SYN_RECEIVED"}

\* The steps of Connection, and the steps it does not see, in these words.
LEMMA AgreedSteps ==
    /\ /\ peerAddr'[Sender] = peerAddr[Sender]
       /\ Joined' = Joined /\ Left' = Left /\ (Sending' <=> Sending)
       => UNCHANGED Agreement!connectionVars
    /\ /\ peerAddr[Sender] = NoPeer /\ peerAddr'[Sender] \in Receivers
       /\ Joined' = Joined /\ Left' = Left /\ (Sending' <=> Sending)
       => Agreement!Choose
    /\ /\ Joined = {} /\ peerAddr[Sender] \in Receivers \ Left
       /\ Joined' = {peerAddr[Sender]}
       /\ peerAddr'[Sender] = peerAddr[Sender] /\ Left' = Left /\ (Sending' <=> Sending)
       => Agreement!Join
    /\ \A r : /\ Left' = Left \cup {r} /\ Joined' = Joined \ {r}
              /\ peerAddr'[Sender] = peerAddr[Sender] /\ (Sending' <=> Sending)
              => Agreement!Leave(r)
    /\ /\ peerAddr[Sender] \in Joined \cup Left /\ Sending'
       /\ peerAddr'[Sender] = peerAddr[Sender] /\ Joined' = Joined /\ Left' = Left
       => Agreement!Start
  <1>1. Sending \in BOOLEAN /\ Sending' \in BOOLEAN
    BY DEF Sending
  <1>2. (Sending' <=> Sending) => Sending' = Sending
    BY <1>1
  <1>3. Sending' => Sending' = TRUE
    BY <1>1
  <1> QED
    BY <1>2, <1>3, Zenon
    DEF Joined, Left, Sending, Agreement!connectionVars, Agreement!Choose,
        Agreement!Join, Agreement!Leave, Agreement!Start

\* With one receiver the sets are known from its length and its place.
LEMMA AgreedSets ==
    ASSUME OneReceiver
    PROVE  /\ Receiver \in Receivers /\ Receiver \in Node /\ Receiver # Sender
           /\ Sender \in Node /\ Receiver # NoPeer
           /\ \A r \in Receivers : r = Receiver
           /\ Joined = IF length[Receiver] # 0 /\ pc[Receiver] # "stopped" THEN {Receiver} ELSE {}
           /\ Left = IF pc[Receiver] = "stopped" THEN {Receiver} ELSE {}
           /\ \A s : SendResults(s) = {[wire |-> Wire(s), ok |-> TRUE]}
           /\ Outcomes = {TRUE}
  <1>1. Receiver \in Receivers /\ \A r \in Receivers : r = Receiver
    BY DEF OneReceiver
  <1>2. /\ Joined = IF length[Receiver] # 0 /\ pc[Receiver] # "stopped" THEN {Receiver} ELSE {}
        /\ Left = IF pc[Receiver] = "stopped" THEN {Receiver} ELSE {}
    BY DEF OneReceiver, Joined, Left, Connected
  <1>3. (\A s : SendResults(s) = {[wire |-> Wire(s), ok |-> TRUE]}) /\ Outcomes = {TRUE}
    BY DEF OneReceiver, SendResults, Outcomes
  <1> QED BY <1>1, <1>2, <1>3, Nodes

\* At the menus nothing has been sent.
LEMMA AgreedStarts ==
    ASSUME OneReceiver, SessionInit
    PROVE  AgreedInv /\ Agreement!ConnectionInit
  <1>1. <<>> \in Seq(NoAck)
    OBVIOUS
  <1>2. AgreedInv
    BY <1>1, AgreedSets DEF AgreedInv, SessionInit, NothingSent, Sending, Outside, Unpaired
  <1>3. /\ peerAddr[Sender] = NoPeer /\ \A r \in Receivers : length[r] = 0 /\ pc[r] = "menu"
    BY AgreedSets, Nodes DEF SessionInit
  <1>4. Agreement!ConnectionInit
    BY <1>3 DEF Agreement!ConnectionInit, Connected
  <1> QED BY <1>2, <1>4

\* What the sender takes from its queue leaves one without acknowledgments.
LEMMA NoAckLeft ==
    ASSUME inbox[Sender] \in Seq(NoAck),
           \/ inbox'[Sender] = inbox[Sender]
           \/ inbox[Sender] # <<>> /\ inbox'[Sender] = Tail(inbox[Sender])
    PROVE  inbox'[Sender] \in Seq(NoAck)
  BY HeadTailSeq

\* What the sender receives and answers before it has a peer.
LEMMA AcceptAnswered ==
    ASSUME Channels, inbox[Sender] # <<>>, pc[Sender] = "accept",
           NEW addr, addr \in {PeerOfSyn, peerAddr[Sender]}, NEW wire,
           addr = PeerOfSyn \/ wire = <<>>,
           AnswerTo(Sender, addr, wire)
    PROVE  /\ inbox'[Sender] = Tail(inbox[Sender])
           /\ peerAddr'[Sender] = addr
           /\ \A r \in Receivers : pending'[r] = pending[r]
           /\ wire = <<>> => \A r \in Receivers : inbox'[r] = inbox[r]
           /\ PeerOfSyn \in Receivers
  <1>1. Sender \in Node /\ Head(inbox[Sender]) \in Expected(Sender)
    BY Nodes, HeadTailSeq DEF Channels, QueuesOK
  <1>2. PeerOfSyn \in Receivers /\ PeerOfSyn # Sender
    BY <1>1, Nodes DEF PeerOfSyn, Expected, Channels
  <1> DEFINE rest == [inbox EXCEPT ![Sender] = Tail(@)]
  <1>3. QueuesOK(rest) /\ rest[Sender] = Tail(inbox[Sender])
        /\ \A r \in Receivers : rest[r] = inbox[r]
    BY <1>1, TailChannels, Nodes DEF Channels, QueuesOK
  <1>4. inbox' = Sent(rest, Sender, addr, wire)
    BY DEF AnswerTo
  <1> HIDE DEF rest
  <1>5. wire = <<>> => inbox' = rest
    BY <1>4 DEF Sent
  <1>6. inbox'[Sender] = rest[Sender]
    BY <1>2, <1>4, <1>5, <1>3, SentElsewhere
  <1>7. peerAddr'[Sender] = addr /\ \A r \in Receivers : pending'[r] = pending[r]
    BY <1>1, Nodes DEF AnswerTo, Channels
  <1> QED BY <1>2, <1>3, <1>5, <1>6, <1>7

\* The sender, from its menu to its peer's ACK.
LEMMA SenderAgrees ==
    ASSUME OneReceiver, SessionInv, AgreedInv,
           \/ RunSender \/ listen \/ SynDuringAccept \/ NumberThrows
           \/ AckDuringAccept \/ OtherDuringAccept
    PROVE  /\ AgreedInv'
           /\ [Agreement!ConnectionNext]_Agreement!connectionVars
  <1> USE DEF SessionInv, TransferInv
  <1>1. /\ Receiver \in Receivers /\ Receiver \in Node /\ Receiver # Sender
        /\ Sender \in Node /\ pc \in [Node -> Place] /\ status \in [Node -> Status]
        /\ Receiver # NoPeer /\ \A r \in Receivers : r = Receiver
    BY AgreedSets DEF LocalInv
  <1>2. length' = length /\ (pc' = pc \/ \E p : pc' = [pc EXCEPT ![Sender] = p])
    BY DEF RunSender, listen, SynDuringAccept, NumberThrows, AckDuringAccept,
        OtherDuringAccept, recvVars
  <1>3. pc'[Receiver] = pc[Receiver]
    BY <1>1, <1>2
  <1>4. Joined' = Joined /\ Left' = Left
    BY <1>1, <1>2, <1>3 DEF Joined, Left, Connected
  <1>5. ASSUME inbox' = inbox, pending' = pending, peerAddr' = peerAddr,
               peerAddr[Sender] = NoPeer,
               pc'[Sender] \in Unpaired, pc'[Sender] = "accept" => status'[Sender] = "LISTEN"
        PROVE  AgreedInv' /\ UNCHANGED Agreement!connectionVars
    <2>1. ~Sending /\ ~Sending'
      BY <1>5 DEF Sending
    <2>2. UNCHANGED Agreement!connectionVars
      BY <1>4, <1>5, <2>1, AgreedSteps
    <2>3. NoAck' = NoAck
      BY DEF NoAck
    <2> QED BY <1>2, <1>3, <1>5, <2>1, <2>2, <2>3 DEF AgreedInv
  <1>6. CASE RunSender
    <2>1. /\ pc[Sender] = "menu" /\ inbox' = inbox /\ pending' = pending /\ peerAddr' = peerAddr
          /\ pc'[Sender] \in {"listen", "done"}
      BY <1>1, <1>6 DEF RunSender, socketVars
    <2> QED BY <1>5, <2>1 DEF AgreedInv, Unpaired
  <1>7. CASE listen
    <2>1. PICK ok \in Outcomes :
            /\ status' = IF ok THEN [status EXCEPT ![Sender] = "LISTEN"] ELSE status
            /\ pc' = [pc EXCEPT ![Sender] = IF ok THEN "accept" ELSE "done"]
      BY <1>7 DEF listen
    <2>2. /\ status' = [status EXCEPT ![Sender] = "LISTEN"]
          /\ pc' = [pc EXCEPT ![Sender] = "accept"]
      <3>1. ok = TRUE
        BY <2>1, AgreedSets
      <3> QED BY <2>1, <3>1
    <2>3. /\ pc[Sender] = "listen" /\ inbox' = inbox /\ pending' = pending
          /\ peerAddr' = peerAddr
      BY <1>7 DEF listen
    <2> QED BY <1>1, <1>5, <2>2, <2>3 DEF AgreedInv, Unpaired
  <1>8. CASE SynDuringAccept
    <2>1. PICK s \in Returned(Sender), seqNum \in ISN :
            \E result \in SendResults(SynAck(seqNum, Succ(s.seqNum))) :
              /\ AnswerTo(Sender, PeerOfSyn, result.wire)
              /\ status' = IF result.ok THEN [status EXCEPT ![Sender] = "SYN_RECEIVED"]
                                        ELSE status
      BY <1>8 DEF SynDuringAccept
    <2>2. PICK wire : AnswerTo(Sender, PeerOfSyn, wire)
      BY <2>1
    <2>3. status' = [status EXCEPT ![Sender] = "SYN_RECEIVED"]
      BY <2>1, AgreedSets
    <2>4. status'[Sender] = "SYN_RECEIVED" /\ pc' = pc /\ pc[Sender] = "accept"
      BY <1>1, <1>8, <2>3 DEF SynDuringAccept
    <2>5. inbox[Sender] # <<>>
      BY <2>1, ReturnedToSender
    <2>6. /\ inbox'[Sender] = Tail(inbox[Sender]) /\ peerAddr'[Sender] = PeerOfSyn
          /\ PeerOfSyn \in Receivers
      BY <2>2, <2>4, <2>5, AcceptAnswered
    <2>7. ~Sending /\ ~Sending'
      BY <2>4 DEF Sending, AgreedInv
    <2>8. length[Receiver] = 0 => inbox'[Sender] \in Seq(NoAck)
      BY <2>5, <2>6, NoAckLeft DEF AgreedInv
    <2>9. AgreedInv'
      <3>1. peerAddr'[Sender] # NoPeer
        BY <1>1, <2>6
      <3>2. NoAck' = NoAck
        BY DEF NoAck
      <3> QED BY <1>2, <1>3, <2>4, <2>7, <2>8, <3>1, <3>2 DEF AgreedInv, Unpaired
    <2>10. CASE peerAddr[Sender] = NoPeer
      BY <1>4, <2>6, <2>7, <2>9, <2>10, AgreedSteps DEF Agreement!ConnectionNext
    <2>11. CASE peerAddr[Sender] # NoPeer
      <3>1. peerAddr'[Sender] = peerAddr[Sender]
        BY <2>6, <2>11 DEF PeerOfSyn
      <3> QED BY <1>4, <2>7, <2>9, <3>1, AgreedSteps
    <2> QED BY <2>10, <2>11
  <1>9. CASE AckDuringAccept \/ OtherDuringAccept
    <2>1. pc[Sender] = "accept" /\ Consume(Sender) /\ \E s \in Returned(Sender) : TRUE
      BY <1>9 DEF AckDuringAccept, OtherDuringAccept
    <2>2. AnswerTo(Sender, peerAddr[Sender], <<>>) /\ inbox[Sender] # <<>>
      BY <2>1, ReturnedToSender DEF Consume, Answer, PeerAfterReceive
    <2>3. /\ inbox'[Sender] = Tail(inbox[Sender]) /\ peerAddr'[Sender] = peerAddr[Sender]
          /\ pending'[Receiver] = pending[Receiver] /\ inbox'[Receiver] = inbox[Receiver]
      <3>1. peerAddr[Sender] \in {PeerOfSyn, peerAddr[Sender]}
        OBVIOUS
      <3> QED BY <1>1, <2>1, <2>2, <3>1, AcceptAnswered
    <2>4. length[Receiver] = 0 => inbox'[Sender] \in Seq(NoAck)
      BY <2>2, <2>3, NoAckLeft DEF AgreedInv
    <2>5. NoAck' = NoAck /\ ~Sending
      BY <2>1 DEF NoAck, Sending, AgreedInv
    <2>6. CASE OtherDuringAccept
      <3>1. pc' = pc /\ status' = status
        BY <2>6 DEF OtherDuringAccept
      <3>2. ~Sending'
        BY <2>3, <2>5, <3>1 DEF Sending
      <3>3. AgreedInv'
        BY <1>2, <2>1, <2>3, <2>4, <2>5, <3>1, <3>2 DEF AgreedInv, Unpaired
      <3> QED BY <1>4, <2>3, <2>5, <3>2, <3>3, AgreedSteps
    <2>7. CASE AckDuringAccept
      <3>1. /\ pc'[Sender] = "setup" /\ status'[Sender] = "ESTABLISHED"
            /\ status[Sender] = "SYN_RECEIVED"
            /\ \E s \in Returned(Sender) : "ack" \in s.flags
        BY <1>1, <2>7 DEF AckDuringAccept, CompletesHandshake
      <3>2. peerAddr[Sender] \in Receivers
        BY <2>1, <3>1 DEF AcceptInv
      <3>3. length[Receiver] # 0
        <4> SUFFICES ASSUME length[Receiver] = 0
                     PROVE  FALSE
          OBVIOUS
        <4>1. Head(inbox[Sender]) \in NoAck
          BY <2>2, HeadTailSeq DEF AgreedInv
        <4>2. PICK s \in Returned(Sender) : "ack" \in s.flags
          BY <3>1
        <4>3. s = Head(inbox[Sender]).body.segment /\ Head(inbox[Sender]) \in Expected(Sender)
          BY <4>2, ReturnedToSender
        <4>4. Head(inbox[Sender]).body.kind = "header"
          BY <4>3 DEF Expected, ReplyBody
        <4> QED BY <4>1, <4>2, <4>3, <4>4 DEF NoAck
      <3>4. Sending' = TRUE
        BY <1>1, <2>3, <3>1, <3>2 DEF Sending
      <3>5. AgreedInv'
        BY <1>1, <1>2, <1>3, <2>3, <3>1, <3>2, <3>3 DEF AgreedInv, Unpaired
      <3>6. peerAddr[Sender] \in Joined \cup Left
        BY <1>1, <3>2, <3>3, AgreedSets
      <3> QED BY <1>4, <2>3, <3>4, <3>5, <3>6, AgreedSteps DEF Agreement!ConnectionNext
    <2> QED BY <1>9, <2>6, <2>7
  <1>10. ~NumberThrows
    BY DEF NumberThrows, OneReceiver
  <1> QED BY <1>6, <1>7, <1>8, <1>9, <1>10


\* A sender past its accept keeps to its peer, and sends on.
LEMMA TransferAgrees ==
    ASSUME OneReceiver, SessionInv, AgreedInv, SenderNext
    PROVE  AgreedInv' /\ UNCHANGED Agreement!connectionVars
  <1> USE DEF SessionInv, TransferInv
  <1>1. /\ Receiver \in Receivers /\ Receiver \in Node /\ Receiver # Sender
        /\ Sender \in Node /\ pc \in [Node -> Place] /\ status \in [Node -> Status]
        /\ Receiver # NoPeer /\ \A r \in Receivers : r = Receiver
    BY AgreedSets DEF LocalInv
  <1>2. pc[Sender] \notin Unpaired /\ pc'[Sender] \notin Choosing
    <2>1. pc[Sender] \notin {"done", "stopped"}
      BY ReturnedToSender, <1>1
      DEF SenderNext, StartSend, SendThrows, NextWindow, SendSegment, ReplyDuringSend,
          FinDuringSend, CloseNext, CloseActive, ClosePassive, CloseAtOnce,
          FinAckInFinWait, AckInCloseWait, OtherInClose, TimeoutInClose
    <2> QED BY <2>1, SenderPastAccept DEF Choosing, Unpaired
  <1>3. /\ peerAddr[Sender] = Receiver /\ Sending /\ length[Receiver] # 0
        /\ status[Sender] \notin {"LISTEN", "SYN_RECEIVED"}
    BY <1>1, <1>2 DEF Channels, AgreedInv, Sending
  <1>4. \/ peerAddr' = peerAddr
        \/ /\ inbox[Sender] # <<>>
           /\ peerAddr' = [peerAddr EXCEPT ![Sender] = PeerAfterReceive(Sender)]
    BY ReturnedToSender
    DEF SenderNext, StartSend, SendThrows, NextWindow, SendSegment, ReplyDuringSend,
        FinDuringSend, CloseNext, CloseActive, ClosePassive, CloseAtOnce,
        FinAckInFinWait, AckInCloseWait, OtherInClose, TimeoutInClose,
        Consume, Answer, AnswerTo, Post, socketVars
  <1>5. peerAddr'[Sender] = Receiver
    <2>1. CASE peerAddr' = peerAddr
      BY <1>3, <2>1
    <2>2. CASE /\ inbox[Sender] # <<>>
               /\ peerAddr' = [peerAddr EXCEPT ![Sender] = PeerAfterReceive(Sender)]
      <3>1. Head(inbox[Sender]) \in Expected(Sender)
        BY <1>1, <2>2, HeadTailSeq DEF Channels, QueuesOK
      <3>2. PeerAfterReceive(Sender) = Receiver
        BY <1>1, <1>3, <3>1 DEF PeerAfterReceive, Expected
      <3> QED BY <1>1, <2>2, <3>2 DEF Channels
    <2> QED BY <1>4, <2>1, <2>2
  <1>6. \/ status' = status
        \/ \E v \in {"FIN_WAIT_1", "CLOSE_WAIT", "CLOSED"} :
             status' = [status EXCEPT ![Sender] = v]
    BY DEF SenderNext, StartSend, SendThrows, NextWindow, SendSegment, ReplyDuringSend,
        FinDuringSend, CloseNext, CloseActive, ClosePassive, CloseAtOnce,
        FinAckInFinWait, AckInCloseWait, OtherInClose, TimeoutInClose, Closed, WaitOn,
        socketVars
  <1>7. status'[Sender] \notin {"LISTEN", "SYN_RECEIVED"}
    BY <1>1, <1>3, <1>6
  <1>8. length' = length
    BY DEF SenderNext, StartSend, SendThrows, NextWindow, SendSegment, ReplyDuringSend,
        FinDuringSend, CloseNext, CloseActive, ClosePassive, CloseAtOnce,
        FinAckInFinWait, AckInCloseWait, OtherInClose, TimeoutInClose, recvVars
  <1>9. pc' = pc \/ \E p : pc' = [pc EXCEPT ![Sender] = p]
    BY DEF SenderNext, StartSend, SendThrows, NextWindow, SendSegment, ReplyDuringSend,
        CountReply, FinDuringSend, CloseNext, CloseActive, ClosePassive, CloseAtOnce,
        FinAckInFinWait, AckInCloseWait, OtherInClose, TimeoutInClose, Closed, WaitOn
  <1>10. pc'[Receiver] = pc[Receiver]
    BY <1>1, <1>9
  <1>11. Sending' /\ Joined' = Joined /\ Left' = Left
    BY <1>1, <1>5, <1>7, <1>8, <1>10 DEF Sending, Joined, Left, Connected
  <1>12. AgreedInv'
    BY <1>1, <1>2, <1>3, <1>5, <1>7, <1>8 DEF AgreedInv, Choosing
  <1> QED BY <1>3, <1>5, <1>11, <1>12, AgreedSteps

\* A receiver that has been sent nothing reads nothing.
LEMMA NothingRead ==
    ASSUME OneReceiver, SessionInv, Connect(Receiver) \/ ReceiverThread(Receiver),
           inbox[Receiver] = <<>>, pending[Receiver] = NoSegment
    PROVE  inbox'[Receiver] = <<>> /\ pending'[Receiver] = NoSegment
  <1>1. /\ Receiver \in Receivers /\ Receiver \in Node
        /\ Channels /\ pending \in [Node -> Segment]
    BY AgreedSets DEF SessionInv, TransferInv, Channels
  <1> QED BY <1>1, ReceiverQueues, ReceiverPending

\* What a receiver that is not connected sends to the sender is no acknowledgment.
LEMMA NoAckSent ==
    ASSUME OneReceiver, SessionInv, inbox[Sender] \in Seq(NoAck), Connect(Receiver)
    PROVE  inbox'[Sender] \in Seq(NoAck)
  <1> USE DEF SessionInv, TransferInv
  <1>1. /\ QueuesOK(inbox) /\ Sender \in Node /\ Receiver \in Node
    BY AgreedSets DEF Channels
  <1>2. PICK seqNum \in ISN :
          inbox' = Sent(inbox, Receiver, Sender, Wire(syn(seqNum)))
    <2>1. PICK seqNum \in ISN :
            \E result \in SendResults(syn(seqNum)) :
                inbox' = Sent(inbox, Receiver, Sender, result.wire)
      BY DEF Connect
    <2>2. SendResults(syn(seqNum)) = {[wire |-> Wire(syn(seqNum)), ok |-> TRUE]}
      BY AgreedSets
    <2> QED BY <2>1, <2>2
  <1>3. syn(seqNum) \in Segment /\ syn(seqNum).payloadSize = 0 /\ syn(seqNum).flags = {"syn"}
    <2>1. seqNum \in UInt32 /\ 0 \in UInt32
      BY SessionAssumption, SegmentAssumption DEF UInt32
    <2> QED BY <2>1, HandshakeTyped DEF syn, ControlSegment
  <1>4. PICK d : d = Header(syn(seqNum))
    OBVIOUS
  <1>5. PICK wire : wire = Wire(syn(seqNum)) /\ wire = <<d>>
    <2>1. Wire(syn(seqNum)) = <<d>>
      BY <1>3, <1>4 DEF Wire, HasPayload
    <2> QED BY ONLY <2>1
  <1>6. wire \in Seq({d})
    BY ONLY <1>5
  <1>7. [from |-> Receiver, body |-> d] \in NoAck
    <2>1. d \in Datagram /\ d.segment.flags = {"syn"}
      BY <1>3, <1>4 DEF Header, Segment, Datagram
    <2> QED BY <1>1, <2>1 DEF NoAck, Packet
  <1> QED BY <1>1, <1>2, <1>5, <1>6, <1>7, SentWithin

\* A receiver joins by the answer to a SYN-ACK, and only then acknowledges.
LEMMA ReceiverAgrees ==
    ASSUME OneReceiver, SessionInv, FreshInv, AgreedInv,
           Connect(Receiver) \/ ReceiverThread(Receiver)
    PROVE  AgreedInv' /\ (Agreement!Join \/ UNCHANGED Agreement!connectionVars)
  <1> USE DEF SessionInv, TransferInv
  <1>1. /\ Receiver \in Receivers /\ Receiver \in Node /\ Receiver # Sender
        /\ Sender \in Node /\ pc \in [Node -> Place] /\ status \in [Node -> Status]
        /\ Receiver # NoPeer /\ length \in [Receivers -> 0 .. Capacity]
        /\ Capacity # 0 /\ \A r \in Receivers : r = Receiver
    BY AgreedSets, TransferAssumption DEF LocalInv
  <1>2. /\ pc'[Sender] = pc[Sender] /\ status'[Sender] = status[Sender]
        /\ peerAddr'[Sender] = peerAddr[Sender]
    <2>1. CASE ReceiverNext(Receiver)
      BY <1>1, <2>1, ReceiverApart
    <2>2. CASE ~ReceiverNext(Receiver)
      <3>1. pc' = pc \/ \E c : pc' = [pc EXCEPT ![Receiver] = c]
        BY <2>2 DEF Connect, ReceiverThread, OnSynAck, OtherInHandshake, TimeoutInHandshake
      <3>2. status' = status \/ \E v : status' = [status EXCEPT ![Receiver] = v]
        BY <2>2 DEF Connect, ReceiverThread, OnSynAck, OtherInHandshake,
            TimeoutInHandshake, socketVars
      <3>3. peerAddr' = peerAddr \/ \E a : peerAddr' = [peerAddr EXCEPT ![Receiver] = a]
        BY <2>2 DEF Connect, ReceiverThread, OnSynAck, OtherInHandshake,
            TimeoutInHandshake, socketVars, Consume, Answer, AnswerTo
      <3> QED BY <1>1, <3>1, <3>2, <3>3 DEF Channels
    <2> QED BY <2>1, <2>2
  <1>3. (Sending' <=> Sending) /\ NoAck' = NoAck
    BY <1>2 DEF Sending, NoAck
  <1>4. peerAddr[Sender] = NoPeer => inbox'[Receiver] = <<>> /\ pending'[Receiver] = NoSegment
    BY NothingRead DEF AgreedInv
  <1>5. pc[Receiver] # "stopped" /\ pc'[Receiver] # "stopped"
    <2>1. pc[Receiver] # "stopped"
      BY <1>1, ReturnedToReceiver DEF Connect, ReceiverThread, OnSynAck, OtherInHandshake,
          TimeoutInHandshake, ReceiverNext, AwaitPayload, PayloadThrows, RecvThrows,
          TakeHeader, Waiting, StoreSegment, FinDuringRecv, IgnoreDuringRecv,
          TimeoutDuringRecv, CloseNext, CloseActive, ClosePassive, CloseAtOnce,
          FinAckInFinWait, AckInCloseWait, OtherInClose, TimeoutInClose
    <2>2. \/ pc' = pc
          \/ \E p \in {"awaitSynAck", "done", "recv", "close", "finWait", "closeWait"} :
               pc' = [pc EXCEPT ![Receiver] = p]
      <3>1. CASE ReceiverNext(Receiver)
        BY <3>1 DEF ReceiverNext, AwaitPayload, PayloadThrows, RecvThrows, StoreSegment,
            RecvReturns, FinDuringRecv, IgnoreDuringRecv, TimeoutDuringRecv, CloseNext,
            CloseActive, ClosePassive, CloseAtOnce, FinAckInFinWait, AckInCloseWait,
            OtherInClose, TimeoutInClose, Closed, WaitOn
      <3>2. CASE ~ReceiverNext(Receiver)
        BY <3>2 DEF Connect, ReceiverThread, OnSynAck, OtherInHandshake, TimeoutInHandshake
      <3> QED BY <3>1, <3>2
    <2> QED BY <1>1, <2>1, <2>2
  <1>6. CASE length[Receiver] # 0
    <2>1. length'[Receiver] # 0
      <3>1. CASE StoreSegment(Receiver) \/ FinDuringRecv(Receiver) \/ TimeoutDuringRecv(Receiver)
        <4>1. \/ length' = length
              \/ \E total : length' = [length EXCEPT ![Receiver] = total] /\ total >= MSS
          BY <3>1 DEF StoreSegment, FinDuringRecv, TimeoutDuringRecv, RecvReturns
        <4> QED BY <1>1, <1>6, <4>1, SegmentAssumption
      <3>2. CASE OnSynAck(Receiver)
        BY <1>1, <1>6, <3>2 DEF OnSynAck, FreshInv
      <3>3. CASE CloseNext(Receiver)
        BY <1>6, <3>3 DEF CloseNext, CloseActive, ClosePassive, CloseAtOnce,
            FinAckInFinWait, AckInCloseWait, OtherInClose, TimeoutInClose, recvVars
      <3>4. CASE \/ AwaitPayload(Receiver) \/ PayloadThrows(Receiver) \/ RecvThrows(Receiver)
                 \/ IgnoreDuringRecv(Receiver) \/ Connect(Receiver)
                 \/ OtherInHandshake(Receiver) \/ TimeoutInHandshake(Receiver)
        BY <1>6, <3>4 DEF AwaitPayload, PayloadThrows, TakeHeader, RecvThrows,
            IgnoreDuringRecv, Connect, OtherInHandshake, TimeoutInHandshake, recvVars
      <3> QED BY <3>1, <3>2, <3>3, <3>4 DEF ReceiverThread, ReceiverNext
    <2>2. Joined' = Joined /\ Left' = Left
      BY <1>1, <1>5, <1>6, <2>1 DEF Joined, Left, Connected
    <2>3. AgreedInv'
      BY <1>2, <1>3, <1>4, <2>1 DEF AgreedInv
    <2> QED BY <1>2, <1>3, <2>2, <2>3, AgreedSteps
  <1>7. CASE length[Receiver] = 0
    <2>1. /\ pc[Receiver] \in Outside /\ inbox[Sender] \in Seq(NoAck) /\ ~Sending
      BY <1>7 DEF AgreedInv
    <2>2. CASE OnSynAck(Receiver)
      <3>1. PICK s \in Returned(Receiver) :
              \E result \in SendResults(ack(s.ackNum, Succ(s.seqNum))) :
                 result.ok => length' = [length EXCEPT ![Receiver] = Capacity]
        BY <2>2 DEF OnSynAck
      <3>2. length' = [length EXCEPT ![Receiver] = Capacity]
        <4>1. \A result \in SendResults(ack(s.ackNum, Succ(s.seqNum))) : result.ok
          BY AgreedSets
        <4> QED BY <3>1, <4>1
      <3>3. length'[Receiver] # 0 /\ inbox[Receiver] # <<>>
        BY <1>1, <3>1, <3>2, ReturnedToReceiver
      <3>4. peerAddr[Sender] = Receiver
        BY <1>1, <3>3 DEF AgreedInv, Channels
      <3>5. Joined = {} /\ Left = {} /\ Joined' = {Receiver} /\ Left' = {}
        BY <1>1, <1>5, <1>7, <3>3 DEF Joined, Left, Connected
      <3>6. AgreedInv'
        BY <1>2, <1>3, <1>4, <3>3 DEF AgreedInv
      <3> QED BY <1>1, <1>2, <1>3, <3>4, <3>5, <3>6, AgreedSteps
    <2>3. CASE ~OnSynAck(Receiver)
      <3>1. ~PayloadThrows(Receiver) /\ ~RecvThrows(Receiver)
        BY DEF PayloadThrows, RecvThrows, OneReceiver
      <3>2. /\ ~StoreSegment(Receiver) /\ ~FinDuringRecv(Receiver)
            /\ ~IgnoreDuringRecv(Receiver) /\ ~TimeoutDuringRecv(Receiver)
        BY <2>1 DEF StoreSegment, FinDuringRecv, IgnoreDuringRecv, TimeoutDuringRecv, Outside
      <3>3. ~CloseNext(Receiver)
        BY <2>1 DEF Outside, CloseNext, CloseActive, ClosePassive, CloseAtOnce,
            FinAckInFinWait, AckInCloseWait, OtherInClose, TimeoutInClose
      <3>4. \/ Connect(Receiver) \/ AwaitPayload(Receiver)
            \/ OtherInHandshake(Receiver) \/ TimeoutInHandshake(Receiver)
        BY <2>3, <3>1, <3>2, <3>3 DEF ReceiverThread, ReceiverNext
      <3>5. length' = length
        BY <3>4 DEF Connect, AwaitPayload, TakeHeader, OtherInHandshake,
            TimeoutInHandshake, recvVars
      <3>6. pc'[Receiver] \in Outside
        <4>1. pc' = pc \/ \E p \in {"awaitSynAck", "done"} : pc' = [pc EXCEPT ![Receiver] = p]
          BY <3>4 DEF Connect, AwaitPayload, OtherInHandshake, TimeoutInHandshake
        <4> QED BY <1>1, <2>1, <4>1 DEF Outside
      <3>7. inbox'[Sender] \in Seq(NoAck)
        <4>1. CASE Connect(Receiver)
          BY <2>1, <4>1, NoAckSent
        <4>2. CASE ~Connect(Receiver)
          <5>1. inbox' = inbox \/ inbox' = [inbox EXCEPT ![Receiver] = Tail(@)]
            BY <3>4, <4>2 DEF AwaitPayload, TakeHeader, OtherInHandshake,
                TimeoutInHandshake, Consume, Answer, AnswerTo, Sent
          <5> QED BY <1>1, <2>1, <5>1 DEF Channels, QueuesOK
        <4> QED BY <4>1, <4>2
      <3>8. Joined' = Joined /\ Left' = Left
        BY <1>1, <1>5, <3>5 DEF Joined, Left, Connected
      <3>9. AgreedInv'
        BY <1>2, <1>3, <1>4, <2>1, <3>6, <3>7 DEF AgreedInv
      <3> QED BY <1>2, <1>3, <3>8, <3>9, AgreedSteps
    <2> QED BY <2>2, <2>3
  <1> QED BY <1>6, <1>7


\* A fault finds nothing in the queue of a receiver without a peer, and makes no
\* acknowledgment; a receiver that is stopped leaves.
LEMMA OutsideAgrees ==
    ASSUME OneReceiver, SessionInv, AgreedInv, OutsideNext
    PROVE  AgreedInv' /\ (Agreement!Leave(Receiver) \/ UNCHANGED Agreement!connectionVars)
  <1> USE DEF SessionInv, TransferInv
  <1>1. /\ Receiver \in Receivers /\ Receiver \in Node /\ Receiver # Sender
        /\ Sender \in Node /\ pc \in [Node -> Place]
        /\ \A n \in Node : n = Sender \/ n = Receiver
        /\ QueuesOK(inbox) /\ inbox \in [Node -> Seq(Packet)]
        /\ pending \in [Node -> Segment] /\ \A r \in Receivers : r = Receiver
    BY AgreedSets, Nodes DEF LocalInv, Channels, QueuesOK
  <1>2. PICK n \in Node : Lose(n) \/ Duplicate(n) \/ Reorder(n) \/ Stop(n)
    BY DEF OutsideNext
  <1>3. /\ length' = length /\ status' = status /\ peerAddr' = peerAddr
        /\ pc'[Sender] = pc[Sender] \/ pc'[Sender] = "stopped"
    BY <1>2, OutsideApart DEF Lose, Duplicate, Reorder, Fault, Stop, recvVars
  <1>4. /\ peerAddr'[Sender] = peerAddr[Sender] /\ status'[Sender] = status[Sender]
        /\ (Sending' <=> Sending) /\ NoAck' = NoAck
    BY <1>3 DEF Sending, NoAck
  <1>5. CASE Lose(n) \/ Duplicate(n) \/ Reorder(n)
    <2>1. pc' = pc /\ pending' = pending
      BY <1>5 DEF Lose, Duplicate, Reorder, Fault
    <2>2. PICK queue : /\ inbox' = [inbox EXCEPT ![n] = queue] /\ inbox[n] # <<>>
                       /\ inbox[n] \in Seq(NoAck) => queue \in Seq(NoAck)
      <3>1. inbox[n] \in Seq(Packet)
        BY <1>1
      <3>2. CASE Lose(n)
        <4>1. PICK i \in 1 .. Len(inbox[n]) : Fault(n, RemoveAt(inbox[n], i))
          BY <3>2 DEF Lose
        <4>2. PICK queue : queue = RemoveAt(inbox[n], i)
          OBVIOUS
        <4>3. inbox[n] # <<>> /\ (inbox[n] \in Seq(NoAck) => queue \in Seq(NoAck))
          BY <3>1, <4>1, <4>2, RemoveAtSeq
        <4> QED BY <4>1, <4>2, <4>3 DEF Fault
      <3>3. CASE Duplicate(n)
        <4>1. PICK i \in 1 .. Len(inbox[n]) : Fault(n, InsertAt(inbox[n], i, inbox[n][i]))
          BY <3>3 DEF Duplicate
        <4>2. inbox[n] \in Seq(NoAck) => inbox[n][i] \in NoAck
          BY <4>1
        <4>3. inbox[n] # <<>>
          BY <3>1, <4>1
        <4> QED BY <4>1, <4>2, <4>3, InsertAtSeq DEF Fault
      <3>4. CASE Reorder(n)
        <4>1. PICK i \in 1 .. Len(inbox[n]) - 1 :
                Fault(n, [inbox[n] EXCEPT ![i] = inbox[n][i + 1], ![i + 1] = inbox[n][i]])
          BY <3>4 DEF Reorder
        <4>2. PICK queue :
                queue = [inbox[n] EXCEPT ![i] = inbox[n][i + 1], ![i + 1] = inbox[n][i]]
          OBVIOUS
        <4>3. inbox[n] \in Seq(NoAck) => queue \in Seq(NoAck)
          BY <4>1, <4>2, SwapSeq
        <4>4. inbox[n] # <<>>
          BY <3>1, <4>1
        <4> QED BY <4>1, <4>2, <4>3, <4>4 DEF Fault
      <3> QED BY <1>5, <3>2, <3>3, <3>4
    <2>3. Joined' = Joined /\ Left' = Left
      BY <1>3, <2>1 DEF Joined, Left, Connected
    <2>4. peerAddr[Sender] = NoPeer => inbox'[Receiver] = <<>>
      BY <1>1, <2>2 DEF AgreedInv
    <2>5. length[Receiver] = 0 => inbox'[Sender] \in Seq(NoAck)
      BY <1>1, <2>2 DEF AgreedInv
    <2>6. AgreedInv'
      BY <1>3, <1>4, <2>1, <2>4, <2>5 DEF AgreedInv
    <2> QED BY <1>4, <2>3, <2>6, AgreedSteps
  <1>6. CASE Stop(n)
    <2>1. /\ pc' = [pc EXCEPT ![n] = "stopped"]
          /\ pending' = [pending EXCEPT ![n] = NoSegment]
      BY <1>6 DEF Stop
    <2>2. PICK wire \in IF pc[n] = "sendWindow" THEN PartialWire(Outgoing) ELSE {<<>>} :
            inbox' = Sent([inbox EXCEPT ![n] = <<>>], n, peerAddr[n], wire)
      BY <1>6 DEF Stop
    <2>3. pc[Receiver] # "sendWindow"
      BY <1>1 DEF LocalInv
    <2>4. wire = <<>> => inbox' = [inbox EXCEPT ![n] = <<>>]
      BY <2>2 DEF Sent
    <2>5. <<>> \in Seq(NoAck)
      OBVIOUS
    <2>6. CASE n = Receiver
      <3>1. inbox' = [inbox EXCEPT ![Receiver] = <<>>]
        BY <2>2, <2>3, <2>4, <2>6
      <3>2. /\ inbox'[Receiver] = <<>> /\ inbox'[Sender] = inbox[Sender]
            /\ pending'[Receiver] = NoSegment
            /\ pc'[Receiver] = "stopped" /\ pc'[Sender] = pc[Sender]
        BY <1>1, <2>1, <2>6, <3>1
      <3>3. Left' = Left \cup {Receiver} /\ Joined' = Joined \ {Receiver}
        BY <1>1, <3>2 DEF Left, Joined
      <3>4. AgreedInv'
        BY <1>3, <1>4, <3>2 DEF AgreedInv, Outside
      <3> QED BY <1>4, <3>3, <3>4, AgreedSteps
    <2>7. CASE n = Sender
      <3>1. pc'[Sender] = "stopped" /\ pc'[Receiver] = pc[Receiver]
            /\ pending'[Receiver] = pending[Receiver]
        BY <1>1, <2>1, <2>7
      <3>2. PICK queues : queues = [inbox EXCEPT ![Sender] = <<>>]
        OBVIOUS
      <3>3. /\ queues[Sender] = <<>> /\ queues[Receiver] = inbox[Receiver]
            /\ QueuesOK(queues)
        <4>1. <<>> \in Seq(Packet) /\ <<>> \in Seq(Expected(Sender))
          OBVIOUS
        <4> QED BY <1>1, <3>2, <4>1, ReplacedChannels
      <3>4. inbox' = Sent(queues, Sender, peerAddr[Sender], wire)
        BY <2>2, <2>7, <3>2
      <3>5. peerAddr[Sender] # Sender /\ (peerAddr[Sender] = NoPeer => wire = <<>>)
        BY <2>2, <2>7, Nodes DEF Channels, Unpaired
      <3>6. inbox'[Sender] = <<>>
        BY <3>3, <3>4, <3>5, SentElsewhere
      <3>7. peerAddr[Sender] = NoPeer => inbox'[Receiver] = inbox[Receiver]
        BY <3>3, <3>4, <3>5 DEF Sent
      <3>8. Joined' = Joined /\ Left' = Left
        BY <1>1, <1>3, <3>1 DEF Joined, Left, Connected
      <3>9. AgreedInv'
        BY <1>3, <1>4, <2>5, <3>1, <3>6, <3>7 DEF AgreedInv, Unpaired
      <3> QED BY <1>4, <3>8, <3>9, AgreedSteps
    <2> QED BY <1>1, <2>6, <2>7
  <1> QED BY <1>2, <1>5, <1>6

\* Every step of the program is one of Connection, or one it does not see.
LEMMA AgreedStep ==
    ASSUME OneReceiver, SessionInv, FreshInv, AgreedInv, [SessionNext]_vars
    PROVE  AgreedInv' /\ [Agreement!ConnectionNext]_Agreement!connectionVars
  <1>1. CASE UNCHANGED vars
    <2>1. AgreedInv'
      BY <1>1 DEF vars, recvVars, socketVars, AgreedInv, Sending, NoAck
    <2>2. UNCHANGED Agreement!connectionVars
      BY <1>1, AgreedSteps DEF vars, recvVars, socketVars, Joined, Left, Connected, Sending
    <2> QED BY <2>1, <2>2
  <1>2. CASE SenderNext
    BY <1>2, TransferAgrees
  <1>3. CASE \E r \in Receivers : Connect(r) \/ ReceiverThread(r)
    <2>1. Connect(Receiver) \/ ReceiverThread(Receiver)
      BY <1>3, AgreedSets
    <2> QED BY <2>1, ReceiverAgrees DEF Agreement!ConnectionNext
  <1>4. CASE OutsideNext
    BY <1>4, OutsideAgrees, AgreedSets DEF Agreement!ConnectionNext
  <1>5. CASE \/ RunSender \/ listen \/ SynDuringAccept \/ NumberThrows
             \/ AckDuringAccept \/ OtherDuringAccept
    BY <1>5, SenderAgrees
  <1> QED
    BY <1>1, <1>2, <1>3, <1>4, <1>5 DEF SessionNext, UserNext, SenderThread

\* The whole program with one receiver implements Connection, whatever the network
\* loses, repeats or delays, whatever lies in memory, and whoever is stopped: the
\* receiver considers itself connected only when the sender has taken it for its
\* peer, and the sender sends only to a receiver that is connected, or was stopped
\* by then, and to nobody else until both are closed (socket.cpp:124-408).
THEOREM SessionConnectsAsAgreed ==
    ASSUME OneReceiver
    PROVE  SessionSpec => ConnectsAsAgreed
  <1> DEFINE Inv == SessionInv /\ FreshInv /\ AgreedInv
  <1>1. SessionInit => Inv /\ Agreement!ConnectionInit
    <2> SUFFICES ASSUME SessionInit
                 PROVE  Inv /\ Agreement!ConnectionInit
      OBVIOUS
    <2>1. FreshInv
      BY DEF SessionInit, FreshInv
    <2> QED BY <2>1, AgreedStarts, SessionStarts
  <1>2. Inv /\ [SessionNext]_vars => Inv' /\ [Agreement!ConnectionNext]_Agreement!connectionVars
    BY SessionStep, FreshStep, AgreedStep
  <1> QED
    BY <1>1, <1>2, PTL DEF SessionSpec, ConnectsAsAgreed, Agreement!ConnectionSpec
=============================================================================
