------------------------- MODULE FileTransferProofs -------------------------
(***************************************************************************)
(* Proofs about FileTransfer, for any receivers, sizes and faults of the   *)
(* network: what its variables hold, and that it uses the segment handler  *)
(* as module SegmentHandler says, so that what is proved of the handler    *)
(* holds in every transfer.                                                *)
(*                                                                         *)
(* The invariant TransferInv is inductive because it says what may be      *)
(* under way to whom: only headers without payload reach the sender, and   *)
(* nothing but the sender's segments reaches a receiver.  RepliesInv says  *)
(* what the replies under way mean, and with it what the sender believes   *)
(* of its receivers is shown to be true.                                   *)
(***************************************************************************)
EXTENDS FileTransfer, SegmentHandlerProofs, SumsProofs

\* What a receiver sends.
ReplyBody == {d \in Datagram : d.kind = "header" /\ d.segment.payloadSize = 0}

\* What may be in the inbox of n.
Expected(n) == IF n = Sender THEN [from : Receivers, body : ReplyBody]
                             ELSE [from : {Sender}, body : Datagram]

QueuesOK(queues) ==
    /\ queues \in [Node -> Seq(Packet)]
    /\ \A n \in Node : queues[n] \in Seq(Expected(n))

\* Where the sender may be as long as it has no peer.
Unpaired == {"menu", "listen", "accept", "done", "stopped"}

Channels ==
    /\ QueuesOK(inbox)
    /\ pending \in [Node -> Segment]
    /\ pending[Sender] = NoSegment
    /\ peerAddr \in [Node -> Node \cup {NoPeer}]
    /\ \/ peerAddr[Sender] \in Receivers
       \/ peerAddr[Sender] = NoPeer /\ pc[Sender] \in Unpaired
    /\ \A r \in Receivers : pc[r] # "menu" => peerAddr[r] = Sender

\* What a receiver only does when its handshake is over.
Engaged(r) ==
    \/ pc[r] \in {"recv", "finWait"}
    \/ status[r] \in {"ESTABLISHED", "FIN_WAIT_1", "LAST_ACK"}

LocalInv ==
    /\ status \in [Node -> Status]
    /\ pc \in [Node -> Place]
    /\ helper \in {0, 1}
    /\ turn \in 1 .. WindowSize
    /\ isFile \in BOOLEAN
    /\ length \in [Receivers -> 0 .. Capacity]
    /\ totalReceived \in [Receivers -> UInt32]
    /\ buffer \in [Receivers -> Seq(Chunk)]
    /\ totalBuffer \in [Receivers -> Seq(Chunk)]
    /\ saved \in [Receivers -> BOOLEAN]
    /\ faults \in 0 .. MaxFaults
    /\ \A r \in Receivers :
         /\ totalReceived[r] <= length[r]
         /\ Engaged(r) => length[r] # 0
         /\ pc[r] # "sendWindow"

SenderInv ==
    /\ FailingInv
    /\ dataSize # 0 /\ ~spinning => dataSize <= U32 - MSS
    /\ pc[Sender] \in {"menu", "listen", "accept", "setup"} => dataSize = 0 /\ ~spinning
    /\ pc[Sender] \in {"sendWindow", "awaitAcks"} =>
         dataSize # 0 /\ ~spinning /\ window # <<>>

TransferInv == Channels /\ LocalInv /\ SenderInv

-----------------------------------------------------------------------------
\* Sequences.

\* A lost packet leaves the others (Lose).
LEMMA RemoveAtSeq ==
    ASSUME NEW S, NEW s \in Seq(S), NEW i \in 1 .. Len(s)
    PROVE  RemoveAt(s, i) \in Seq(S)
  BY DEF RemoveAt

\* A packet that comes twice is one of the others (Duplicate).
LEMMA InsertAtSeq ==
    ASSUME NEW S, NEW s \in Seq(S), NEW i \in 1 .. Len(s), NEW e \in S
    PROVE  InsertAt(s, i, e) \in Seq(S)
  BY DEF InsertAt

\* Two packets that change places (Reorder).
LEMMA SwapSeq ==
    ASSUME NEW S, NEW s \in Seq(S), NEW i \in 1 .. Len(s) - 1
    PROVE  [s EXCEPT ![i] = s[i + 1], ![i + 1] = s[i]] \in Seq(S)
  OBVIOUS

\* The first packet of a queue and the rest of it.
LEMMA HeadTailSeq ==
    ASSUME NEW S, NEW s \in Seq(S), s # <<>>
    PROVE  Head(s) \in S /\ Tail(s) \in Seq(S)
  OBVIOUS

\* A sequence over a set is one over any larger set.
LEMMA SeqMonotone ==
    ASSUME NEW S, NEW T, S \subseteq T
    PROVE  Seq(S) \subseteq Seq(T)
  OBVIOUS

\* What is appended comes behind the rest.
LEMMA AppendSeq ==
    ASSUME NEW S, NEW s \in Seq(S), NEW e \in S
    PROVE  Append(s, e) = s \o <<e>>
  OBVIOUS

\* The addresses.
LEMMA Nodes ==
    /\ Sender \in Node /\ Receivers \subseteq Node /\ Sender \notin Receivers
    /\ NoPeer \notin Node
    /\ \A n \in Node : n = Sender \/ n \in Receivers
  BY TransferAssumption DEF Node

-----------------------------------------------------------------------------
\* Segments and datagrams.

\* Constructed segments carry no payload.
LEMMA ControlTyped ==
    ASSUME NEW seqNum \in UInt32, NEW ackNum \in UInt32
    PROVE  /\ NoSegment \in Segment
           /\ fin \in Segment /\ fin.payloadSize = 0
           /\ finAck \in Segment /\ finAck.payloadSize = 0
           /\ ack(seqNum, ackNum) \in Segment /\ ack(seqNum, ackNum).payloadSize = 0
  <1>1. 0 \in UInt32
    BY SegmentAssumption DEF UInt32
  <1> QED
    BY <1>1 DEF NoSegment, fin, finAck, ack, ControlSegment, Segment, Flag

\* The acknowledgments that recv and close build.
LEMMA AcksTyped ==
    ASSUME NEW s \in Segment
    PROVE  /\ AckOf(s) \in Segment /\ AckOf(s).payloadSize = 0
           /\ LastAck(s) \in Segment /\ LastAck(s).payloadSize = 0
  <1>1. s.seqNum \in UInt32 /\ s.payloadSize \in UInt32
    BY DEF Segment
  <1>2. (s.seqNum + s.payloadSize) % U32 \in UInt32 /\ (s.seqNum + 1) % U32 \in UInt32
    BY <1>1, SegmentAssumption DEF UInt32
  <1> QED
    BY <1>1, <1>2, ControlTyped DEF AckOf, LastAck

\* What a call of sendSegment puts on the wire.
LEMMA WireTyped ==
    ASSUME NEW s \in Segment
    PROVE  /\ Wire(s) \in Seq(Datagram)
           /\ PartialWire(s) \subseteq Seq(Datagram)
           /\ s.payloadSize = 0 => /\ Wire(s) \in Seq(ReplyBody)
                                   /\ PartialWire(s) \subseteq Seq(ReplyBody)
  <1>1. Header(s) \in Datagram /\ (s.payloadSize = 0 => Header(s) \in ReplyBody)
    BY DEF Header, Datagram, Segment, ReplyBody
  <1>2. HasPayload(s) => Payload(s) \in Datagram
    BY SegmentAssumption DEF Payload, Datagram, Segment, HasPayload, UInt32
  <1>3. s.payloadSize = 0 => ~HasPayload(s)
    BY DEF HasPayload
  <1>4. CASE HasPayload(s)
    <2>1. Wire(s) = <<Header(s), Payload(s)>> /\ PartialWire(s) = {<<>>, <<Header(s)>>}
      BY <1>4 DEF Wire, PartialWire
    <2>2. <<Header(s), Payload(s)>> \in Seq(Datagram) /\ <<Header(s)>> \in Seq(Datagram)
      BY <1>1, <1>2, <1>4
    <2> QED BY <2>1, <2>2, <1>3, <1>4
  <1>5. CASE ~HasPayload(s)
    <2>1. Wire(s) = <<Header(s)>> /\ PartialWire(s) = {<<>>}
      BY <1>5 DEF Wire, PartialWire
    <2> QED BY <2>1, <1>1
  <1> QED BY <1>4, <1>5

\* The same for every way the call may end.
LEMMA SendResultsTyped ==
    ASSUME NEW s \in Segment, NEW result \in SendResults(s)
    PROVE  /\ result.wire \in Seq(Datagram)
           /\ s.payloadSize = 0 => result.wire \in Seq(ReplyBody)
           /\ result.ok \in BOOLEAN
           /\ ~result.ok => result.wire \in PartialWire(s)
  <1>1. CASE result = [wire |-> Wire(s), ok |-> TRUE]
    BY <1>1, WireTyped
  <1>2. CASE result \in [wire : PartialWire(s), ok : {FALSE}]
    BY <1>2, WireTyped
  <1> QED BY <1>1, <1>2 DEF SendResults

\* What receiveSegment returns to the sender: a header, just as it was sent.
LEMMA ReturnedToSender ==
    ASSUME Channels, NEW s \in Returned(Sender)
    PROVE  /\ inbox[Sender] # <<>>
           /\ Head(inbox[Sender]) \in Expected(Sender)
           /\ s = Head(inbox[Sender]).body.segment
           /\ s \in Segment
  <1>1. inbox[Sender] # <<>> /\ s \in AsHeader(Head(inbox[Sender]).body)
    BY DEF Returned, Channels
  <1>2. Head(inbox[Sender]) \in Expected(Sender)
    BY <1>1, Nodes, HeadTailSeq DEF Channels, QueuesOK
  <1> QED
    BY <1>1, <1>2 DEF Expected, AsHeader, ReplyBody, Datagram

\* A datagram is a header, whatever it was sent as.
LEMMA AsHeaderTyped ==
    ASSUME NEW d \in Datagram, NEW s \in AsHeader(d)
    PROVE  s \in Segment
  BY HandlerAssumption DEF AsHeader, Datagram, Segment

\* What receiveSegment returns to a receiver.
LEMMA ReturnedToReceiver ==
    ASSUME Channels, NEW r \in Receivers, NEW s \in Returned(r)
    PROVE  /\ inbox[r] # <<>>
           /\ Head(inbox[r]) \in Expected(r)
           /\ pc[r] # "menu"
           /\ s \in Segment
           /\ s.payloadSize > 0 => s.data \in UInt32 \cup {JunkData}
  <1>1. inbox[r] # <<>> /\ pc[r] # "menu"
    BY DEF Returned, Waiting
  <1>2. Head(inbox[r]) \in Expected(r)
    BY <1>1, Nodes, HeadTailSeq DEF Channels, QueuesOK
  <1>3. Head(inbox[r]).body \in Datagram
    BY <1>2, Nodes DEF Expected
  <1>4. CASE pending[r] = NoSegment
    <2>1. s \in AsHeader(Head(inbox[r]).body) /\ s.payloadSize = 0
      BY <1>4 DEF Returned
    <2> QED BY <2>1, <1>1, <1>2, <1>3, AsHeaderTyped
  <1>5. CASE pending[r] # NoSegment
    <2> DEFINE d == Head(inbox[r]).body
    <2>1. s = [pending[r] EXCEPT !.data = AsPayload(pending[r], d)]
      BY <1>5 DEF Returned
    <2>2. AsPayload(pending[r], d) \in UInt32 \cup {JunkData}
      BY <1>3 DEF AsPayload, Datagram
    <2>3. pending[r] \in Segment
      BY Nodes DEF Channels
    <2> QED BY <2>1, <2>2, <2>3, <1>1, <1>2 DEF Segment
  <1> QED BY <1>4, <1>5

-----------------------------------------------------------------------------
\* What the actions do to the channels.

\* Nobody leaves the menu, the sender does not get to sending without a peer, and
\* no receiver begins to send windows.
NobodyBegins ==
    /\ pc[Sender] \in Unpaired => pc'[Sender] \in Unpaired
    /\ \A r \in Receivers :
         /\ pc[r] = "menu" => pc'[r] = "menu"
         /\ pc'[r] = "sendWindow" => pc[r] = "sendWindow"

\* A process that knows whom it talks to.
Paired(n) == pc[n] # "menu" /\ (n = Sender => pc[n] \notin Unpaired)

\* Sending: the sender sends to a receiver, or a receiver to the sender.
LEMMA SentChannels ==
    ASSUME NEW queues, QueuesOK(queues),
           NEW n \in Node, NEW dst \in Node, n = Sender <=> dst # Sender,
           NEW wire \in Seq(Datagram), n # Sender => wire \in Seq(ReplyBody)
    PROVE  QueuesOK(Sent(queues, n, dst, wire))
  <1> DEFINE new == [i \in DOMAIN wire |-> [from |-> n, body |-> wire[i]]]
  <1>1. CASE wire = <<>> \/ Deaf(dst)
    BY <1>1 DEF Sent
  <1>2. CASE ~(wire = <<>> \/ Deaf(dst))
    <2>1. Sent(queues, n, dst, wire) = [queues EXCEPT ![dst] = @ \o new]
      BY <1>2 DEF Sent
    <2>2. new \in Seq(Packet)
      <3>1. \A i \in DOMAIN wire : [from |-> n, body |-> wire[i]] \in Packet
        BY DEF Packet
      <3> QED BY <3>1
    <2>3. new \in Seq(Expected(dst))
      <3>1. CASE n = Sender
        <4>1. \A i \in DOMAIN wire : [from |-> n, body |-> wire[i]] \in Expected(dst)
          BY <3>1 DEF Expected
        <4> QED BY <4>1
      <3>2. CASE n # Sender
        <4>1. dst = Sender /\ n \in Receivers /\ wire \in Seq(ReplyBody)
          BY <3>2, Nodes
        <4>2. \A i \in DOMAIN wire : wire[i] \in ReplyBody
          BY <4>1
        <4>3. \A i \in DOMAIN wire : [from |-> n, body |-> wire[i]] \in Expected(dst)
          BY <4>1, <4>2 DEF Expected
        <4> QED BY <4>3
      <3> QED BY <3>1, <3>2
    <2>4. queues[dst] \in Seq(Packet) /\ queues[dst] \in Seq(Expected(dst))
      BY DEF QueuesOK
    <2>5. queues[dst] \o new \in Seq(Packet) /\ queues[dst] \o new \in Seq(Expected(dst))
      BY <2>2, <2>3, <2>4
    <2> HIDE DEF new
    <2> QED BY <2>1, <2>5 DEF QueuesOK
  <1> QED BY <1>1, <1>2

\* Receiving takes the first packet of a queue.
LEMMA TailChannels ==
    ASSUME QueuesOK(inbox), NEW n \in Node, inbox[n] # <<>>
    PROVE  QueuesOK([inbox EXCEPT ![n] = Tail(@)])
  <1>1. Tail(inbox[n]) \in Seq(Packet) /\ Tail(inbox[n]) \in Seq(Expected(n))
    BY HeadTailSeq DEF QueuesOK
  <1> QED BY <1>1 DEF QueuesOK

\* Any queue may be replaced by one of the same kind.
LEMMA ReplacedChannels ==
    ASSUME QueuesOK(inbox), NEW n \in Node, NEW queue,
           queue \in Seq(Packet), queue \in Seq(Expected(n))
    PROVE  QueuesOK([inbox EXCEPT ![n] = queue])
  BY DEF QueuesOK

\* A receive and the answer to it.
LEMMA AnswerChannels ==
    ASSUME Channels, NEW n \in Node, inbox[n] # <<>>,
           NEW addr \in Node, n = Sender <=> addr # Sender,
           NEW wire \in Seq(Datagram), n # Sender => wire \in Seq(ReplyBody),
           AnswerTo(n, addr, wire),
           \A r \in Receivers : pc[r] = "menu" => pc'[r] = "menu",
           n # Sender /\ pc[Sender] \in Unpaired => pc'[Sender] \in Unpaired
    PROVE  Channels'
  <1>1. QueuesOK(inbox')
    BY TailChannels, SentChannels DEF Channels, AnswerTo
  <1>2. pending' \in [Node -> Segment] /\ pending'[Sender] = NoSegment
    <2>1. NoSegment \in Segment
      BY ControlTyped, SegmentAssumption DEF UInt32
    <2> QED BY <2>1 DEF Channels, AnswerTo
  <1>3. /\ peerAddr' \in [Node -> Node \cup {NoPeer}]
        /\ \/ peerAddr'[Sender] \in Receivers
           \/ peerAddr'[Sender] = NoPeer /\ pc'[Sender] \in Unpaired
        /\ \A r \in Receivers : pc'[r] # "menu" => peerAddr'[r] = Sender
    BY Nodes DEF Channels, AnswerTo
  <1> QED BY <1>1, <1>2, <1>3 DEF Channels


\* Sending to the peer.
LEMMA PostChannels ==
    ASSUME Channels, NEW n \in Node, Paired(n),
           NEW wire \in Seq(Datagram), n # Sender => wire \in Seq(ReplyBody),
           Post(n, wire), NobodyBegins
    PROVE  Channels'
  <1>1. peerAddr[n] \in Node /\ (n = Sender <=> peerAddr[n] # Sender)
    BY Nodes DEF Channels, Paired
  <1>2. QueuesOK(inbox')
    BY <1>1, SentChannels DEF Channels, Post
  <1> QED BY <1>2 DEF Channels, Post, NobodyBegins

\* The source of what a socket receives is somebody it may answer.
LEMMA AnswerableSource ==
    ASSUME Channels, NEW n \in Node, inbox[n] # <<>>, Paired(n)
    PROVE  /\ PeerAfterReceive(n) \in Node
           /\ n = Sender <=> PeerAfterReceive(n) # Sender
           /\ Head(inbox[n]).from \in Node
  <1>1. Head(inbox[n]) \in Expected(n)
    BY HeadTailSeq DEF Channels, QueuesOK
  <1>2. CASE n = Sender
    BY <1>1, <1>2, Nodes DEF Expected, PeerAfterReceive, Channels, Paired
  <1>3. CASE n # Sender
    BY <1>1, <1>3, Nodes DEF Expected, PeerAfterReceive, Channels, Paired
  <1> QED BY <1>2, <1>3

\* A receive and the answer to its source.
LEMMA AnswerKeeps ==
    ASSUME Channels, NEW n \in Node, inbox[n] # <<>>, Paired(n),
           NEW wire \in Seq(Datagram), n # Sender => wire \in Seq(ReplyBody),
           Answer(n, wire), NobodyBegins
    PROVE  Channels'
  BY AnswerableSource, AnswerChannels DEF Answer, NobodyBegins

\* A receive without an answer.
LEMMA ConsumeKeeps ==
    ASSUME Channels, NEW n \in Node, inbox[n] # <<>>, Paired(n),
           Consume(n), NobodyBegins
    PROVE  Channels'
  <1>1. <<>> \in Seq(Datagram) /\ <<>> \in Seq(ReplyBody)
    OBVIOUS
  <1> QED BY <1>1, AnswerKeeps DEF Consume

\* Nothing is sent and nothing received.
LEMMA QuietKeeps ==
    ASSUME Channels, NEW n \in Node, UNCHANGED <<inbox, peerAddr>>, NobodyBegins,
           pending' = pending \/ pending' = [pending EXCEPT ![n] = NoSegment]
    PROVE  Channels'
  <1>1. NoSegment \in Segment
    BY ControlTyped, SegmentAssumption DEF UInt32
  <1> QED BY <1>1, Nodes DEF Channels, QueuesOK, NobodyBegins

\* A receiver takes a header and waits for its payload.
LEMMA TakeHeaderKeeps ==
    ASSUME Channels, NEW r \in Receivers, pc[r] # "menu", TakeHeader(r), NobodyBegins,
           pending' = pending \/ \E s \in Announced(r) : pending' = [pending EXCEPT ![r] = s]
    PROVE  Channels'
  <1>1. inbox[r] # <<>>
    BY DEF TakeHeader, Announced
  <1>2. QueuesOK(inbox')
    BY <1>1, TailChannels, Nodes DEF TakeHeader, Channels
  <1>3. PeerAfterReceive(r) = Sender
    BY <1>1, AnswerableSource, Nodes DEF Paired
  <1>4. Announced(r) \subseteq Segment
    <2>1. Head(inbox[r]) \in Packet
      BY <1>1, HeadTailSeq, Nodes DEF Channels, QueuesOK
    <2> QED BY <2>1, <1>1, AsHeaderTyped DEF Announced, Packet
  <1>5. pending' \in [Node -> Segment] /\ pending'[Sender] = NoSegment
    BY <1>4, Nodes DEF Channels
  <1>6. peerAddr' = [peerAddr EXCEPT ![r] = Sender]
    BY <1>3 DEF TakeHeader
  <1> QED BY <1>2, <1>5, <1>6, Nodes DEF Channels, NobodyBegins

\* The faults of the network.
LEMMA FaultKeeps ==
    ASSUME Channels, NEW n \in Node, Lose(n) \/ Duplicate(n) \/ Reorder(n)
    PROVE  Channels'
  <1> DEFINE q == inbox[n]
  <1>1. /\ q \in Seq(Packet) /\ q \in Seq(Expected(n))
        /\ \A i \in 1 .. Len(q) : q[i] \in Packet /\ q[i] \in Expected(n)
        /\ Len(q) \in Nat
    BY DEF Channels, QueuesOK
  <1>2. PICK queue : Fault(n, queue) /\ queue \in Seq(Packet) /\ queue \in Seq(Expected(n))
    <2>1. CASE Lose(n)
      BY <2>1, <1>1, RemoveAtSeq DEF Lose
    <2>2. CASE Duplicate(n)
      BY <2>2, <1>1, InsertAtSeq DEF Duplicate
    <2>3. CASE Reorder(n)
      BY <2>3, <1>1, SwapSeq DEF Reorder
    <2> QED BY <2>1, <2>2, <2>3
  <1>3. QueuesOK(inbox')
    BY <1>2, ReplacedChannels DEF Fault, Channels
  <1> QED BY <1>2, <1>3 DEF Fault, socketVars, Channels

-----------------------------------------------------------------------------
\* What the actions do to the processes.

\* Nothing is received, stored or collected: the receivers' counts are left alone.
LEMMA LocalKept ==
    ASSUME LocalInv, UNCHANGED <<recvVars, isFile>>, NobodyBegins,
           faults' \in 0 .. MaxFaults, helper' \in {0, 1}, turn' \in 1 .. WindowSize,
           status' \in [Node -> Status], pc' \in [Node -> Place],
           \A r \in Receivers : Engaged(r)' => Engaged(r)
    PROVE  LocalInv'
  BY DEF LocalInv, recvVars, NobodyBegins

\* One process goes on.
LEMMA OneGoesOn ==
    ASSUME pc \in [Node -> Place], NEW n \in Node, NEW p \in Place,
           pc' = [pc EXCEPT ![n] = p],
           n # Sender => p # "sendWindow",
           n = Sender => Paired(n) \/ p \in Unpaired,
           pc[n] # "menu"
    PROVE  NobodyBegins /\ pc' \in [Node -> Place]
  <1>1. pc' \in [Node -> Place] /\ pc'[n] = p /\ \A m \in Node \ {n} : pc'[m] = pc[m]
    OBVIOUS
  <1>2. pc[Sender] \in Unpaired => pc'[Sender] \in Unpaired
    BY <1>1, Nodes DEF Paired
  <1>3. ASSUME NEW r \in Receivers
        PROVE  /\ pc[r] = "menu" => pc'[r] = "menu"
               /\ pc'[r] = "sendWindow" => pc[r] = "sendWindow"
    BY <1>1, Nodes
  <1> QED BY <1>1, <1>2, <1>3 DEF NobodyBegins

\* The same when it may also stay where it is.
LEMMA PlaceKept ==
    ASSUME LocalInv, NEW n \in Node, pc[n] # "menu", NEW P \in SUBSET Place,
           pc' = pc \/ \E p \in P : pc' = [pc EXCEPT ![n] = p],
           n # Sender => "sendWindow" \notin P,
           n = Sender => Paired(n) \/ P \subseteq Unpaired
    PROVE  NobodyBegins /\ pc' \in [Node -> Place]
  <1>1. pc \in [Node -> Place]
    BY DEF LocalInv
  <1>2. CASE pc' = pc
    BY <1>1, <1>2 DEF NobodyBegins
  <1>3. CASE \E p \in P : pc' = [pc EXCEPT ![n] = p]
    <2>1. PICK p \in P : pc' = [pc EXCEPT ![n] = p]
      BY <1>3
    <2>2. p \in Place /\ (n # Sender => p # "sendWindow")
      OBVIOUS
    <2>3. n = Sender => Paired(n) \/ p \in Unpaired
      OBVIOUS
    <2> QED BY <1>1, <2>1, <2>2, <2>3, OneGoesOn
  <1> QED BY <1>2, <1>3

\* It suffices that this process does not become engaged.
LEMMA EngagedKept ==
    ASSUME LocalInv, NEW n \in Node,
           status' = status \/ \E v \in Status : status' = [status EXCEPT ![n] = v],
           pc' = pc \/ \E p \in Place : pc' = [pc EXCEPT ![n] = p],
           n # Sender => (Engaged(n)' => Engaged(n))
    PROVE  \A r \in Receivers : Engaged(r)' => Engaged(r)
  BY Nodes DEF LocalInv, Engaged

\* The handler is left alone, and the sender goes where it asks nothing of it.
LEMMA SenderKept ==
    ASSUME SenderInv, UNCHANGED handlerVars,
           \/ pc'[Sender] = pc[Sender]
           \/ pc'[Sender] \notin {"menu", "listen", "accept", "setup", "sendWindow",
                                  "awaitAcks"}
           \/ pc[Sender] = "sendWindow" /\ pc'[Sender] = "awaitAcks"
    PROVE  SenderInv'
  <1>1. FailingInv'
    BY FailingStep DEF SenderInv
  <1> QED BY <1>1 DEF SenderInv, handlerVars, bufferVars

\* What receiveSegment returns to anybody.
LEMMA ReturnedTyped ==
    ASSUME Channels, NEW n \in Node, NEW s \in Returned(n)
    PROVE  inbox[n] # <<>> /\ s \in Segment
  BY Nodes, ReturnedToSender, ReturnedToReceiver

\* The steps of close, of either side.
LEMMA CloseKeeps ==
    ASSUME TransferInv, NEW n \in Node, CloseNext(n)
    PROVE  TransferInv' /\ UNCHANGED handlerVars
  <1> USE DEF TransferInv
  <1>1. Paired(n) /\ pc[n] \in {"close", "finWait", "closeWait"}
    BY DEF CloseNext, CloseActive, ClosePassive, CloseAtOnce, FinAckInFinWait,
           AckInCloseWait, OtherInClose, TimeoutInClose, Paired, Unpaired
  <1>2. UNCHANGED <<handlerVars, sendVars, recvVars, isFile, faults>>
    BY DEF CloseNext, CloseActive, ClosePassive, CloseAtOnce, FinAckInFinWait,
           AckInCloseWait, OtherInClose, TimeoutInClose
  <1>3. /\ status' = status \/ \E v \in Status : status' = [status EXCEPT ![n] = v]
        /\ \/ pc' = pc
           \/ \E p \in {"done", "finWait", "closeWait"} : pc' = [pc EXCEPT ![n] = p]
    BY DEF CloseNext, CloseActive, ClosePassive, CloseAtOnce, FinAckInFinWait,
           AckInCloseWait, OtherInClose, TimeoutInClose, Closed, WaitOn, Status, socketVars
  <1>4. NobodyBegins /\ pc' \in [Node -> Place]
    <2>1. pc[n] # "menu"
      BY <1>1
    <2> QED BY <1>1, <1>3, <2>1, PlaceKept DEF Place
  <1>5. status' \in [Node -> Status]
    BY <1>3 DEF LocalInv
  <1>6. LocalInv'
    <2>1. \/ status[n] = "ESTABLISHED"
          \/ /\ status' = status \/ status' = [status EXCEPT ![n] = "CLOSED"]
             /\ pc' = pc \/ \E p \in {"done", "closeWait"} : pc' = [pc EXCEPT ![n] = p]
      BY DEF CloseNext, CloseActive, ClosePassive, CloseAtOnce, FinAckInFinWait,
             AckInCloseWait, OtherInClose, TimeoutInClose, Closed, WaitOn, socketVars
    <2>2. Engaged(n)' => Engaged(n)
      BY <2>1 DEF Engaged, LocalInv
    <2>3. \A r \in Receivers : Engaged(r)' => Engaged(r)
      BY <1>3, <2>2, EngagedKept DEF Place
    <2> QED BY <1>2, <1>4, <1>5, <2>3, LocalKept DEF LocalInv, sendVars
  <1>7. SenderInv'
    BY <1>1, <1>2, <1>3, SenderKept, Nodes DEF LocalInv
  <1>8. Channels'
    <2>1. CASE CloseActive(n)
      <3>1. PICK result \in SendResults(fin) : Post(n, result.wire)
        BY <2>1 DEF CloseActive
      <3>2. result.wire \in Seq(Datagram) /\ result.wire \in Seq(ReplyBody)
        BY ControlTyped, SendResultsTyped, SegmentAssumption DEF UInt32
      <3> QED BY <1>1, <1>4, <3>1, <3>2, PostChannels
    <2>2. CASE ClosePassive(n) \/ CloseAtOnce(n) \/ TimeoutInClose(n)
      <3>1. UNCHANGED <<inbox, peerAddr>>
        BY <2>2 DEF ClosePassive, CloseAtOnce, TimeoutInClose, socketVars
      <3>2. pending' = pending \/ pending' = [pending EXCEPT ![n] = NoSegment]
        BY <2>2 DEF ClosePassive, CloseAtOnce, TimeoutInClose, PayloadTimeout
      <3> QED BY <3>1, <3>2, <1>4, QuietKeeps
    <2>3. CASE FinAckInFinWait(n)
      <3>1. PICK s \in Returned(n) : \E result \in SendResults(LastAck(s)) :
                                       Answer(n, result.wire)
        BY <2>3 DEF FinAckInFinWait
      <3>2. PICK result \in SendResults(LastAck(s)) : Answer(n, result.wire)
        BY <3>1
      <3>3. inbox[n] # <<>> /\ s \in Segment
        BY ReturnedTyped
      <3>4. result.wire \in Seq(Datagram) /\ result.wire \in Seq(ReplyBody)
        BY <3>3, AcksTyped, SendResultsTyped
      <3> QED BY <1>1, <1>4, <3>2, <3>3, <3>4, AnswerKeeps
    <2>4. CASE AckInCloseWait(n) \/ OtherInClose(n)
      <3>1. Consume(n) /\ inbox[n] # <<>>
        BY <2>4, ReturnedTyped DEF AckInCloseWait, OtherInClose
      <3> QED BY <1>1, <1>4, <3>1, ConsumeKeeps
    <2> QED BY <2>1, <2>2, <2>3, <2>4 DEF CloseNext
  <1> QED BY <1>2, <1>6, <1>7, <1>8

-----------------------------------------------------------------------------
\* The steps of a receiver.

\* Where recv returns to runReceiver.
LEMMA RecvReturnsKeeps ==
    ASSUME LocalInv, NEW r \in Receivers, pc[r] = "recv",
           NEW chunks \in Seq(Chunk), NEW total \in 0 .. length[r],
           RecvReturns(r, chunks, total),
           \/ status' = status
           \/ status' = [status EXCEPT ![r] = "LAST_ACK"],
           UNCHANGED <<sendVars, isFile, faults>>
    PROVE  LocalInv' /\ NobodyBegins /\ pc'[Sender] = pc[Sender]
  <1>1. /\ totalBuffer' = [totalBuffer EXCEPT ![r] = totalBuffer[r] \o chunks]
        /\ buffer' = [buffer EXCEPT ![r] = <<>>]
        /\ totalReceived' = [totalReceived EXCEPT ![r] = 0]
        /\ \E b \in BOOLEAN : saved' = [saved EXCEPT ![r] = b]
        /\ \/ length' = [length EXCEPT ![r] = total] /\ pc' = pc /\ total >= MSS
           \/ length' = length /\ pc' = [pc EXCEPT ![r] = "close"]
    BY DEF RecvReturns, Outcomes, HasMetadata
  <1>2. totalBuffer[r] \o chunks \in Seq(Chunk) /\ <<>> \in Seq(Chunk)
    BY DEF LocalInv
  <1>3. 0 \in UInt32 /\ MSS \in Nat /\ MSS > 0 /\ Capacity \in Nat
    BY SegmentAssumption, TransferAssumption DEF UInt32
  <1>4. length[r] \in 0 .. Capacity /\ total \in 0 .. Capacity /\ total \in Nat
    BY <1>3 DEF LocalInv
  <1>5. /\ totalBuffer' \in [Receivers -> Seq(Chunk)]
        /\ buffer' \in [Receivers -> Seq(Chunk)]
        /\ totalReceived' \in [Receivers -> UInt32]
        /\ saved' \in [Receivers -> BOOLEAN]
    BY <1>1, <1>2, <1>3 DEF LocalInv
  <1>6. /\ length' \in [Receivers -> 0 .. Capacity]
        /\ \A q \in Receivers : /\ totalReceived'[q] <= length'[q]
                                /\ Engaged(q)' => length'[q] # 0
    <2>1. length' \in [Receivers -> 0 .. Capacity]
      BY <1>1, <1>4 DEF LocalInv
    <2>2. /\ totalReceived'[r] = 0 /\ length'[r] \in Nat /\ length'[r] # 0
      BY <1>1, <1>3, <1>4 DEF LocalInv, Engaged
    <2>3. ASSUME NEW q \in Receivers, q # r
          PROVE  /\ totalReceived'[q] = totalReceived[q] /\ length'[q] = length[q]
                 /\ pc'[q] = pc[q] /\ status'[q] = status[q]
      BY <1>1, <2>3, Nodes DEF LocalInv
    <2>4. ASSUME NEW q \in Receivers
          PROVE  totalReceived'[q] <= length'[q] /\ (Engaged(q)' => length'[q] # 0)
      <3>1. CASE q = r
        BY <3>1, <2>2
      <3>2. CASE q # r
        BY <3>2, <2>3 DEF LocalInv, Engaged
      <3> QED BY <3>1, <3>2
    <2> QED BY <2>1, <2>4
  <1>7. NobodyBegins /\ pc' \in [Node -> Place] /\ pc'[Sender] = pc[Sender]
    BY <1>1, Nodes DEF NobodyBegins, LocalInv, Place
  <1>8. status' \in [Node -> Status]
    BY DEF LocalInv, Status
  <1> QED BY <1>5, <1>6, <1>7, <1>8 DEF LocalInv, sendVars, NobodyBegins

\* recv stores a payload and answers it.
LEMMA StoreKeeps ==
    ASSUME TransferInv, NEW r \in Receivers, StoreSegment(r)
    PROVE  TransferInv' /\ UNCHANGED handlerVars
  <1> USE DEF TransferInv
  <1>1. PICK s \in Returned(r) :
          LET stored == Append(buffer[r], [seqNum |-> s.seqNum, size |-> s.payloadSize,
                                           data |-> s.data])
              total  == totalReceived[r] + s.payloadSize
          IN  /\ Fits(r, s)
              /\ \E result \in SendResults(AckOf(s)) : Answer(r, result.wire)
              /\ UNCHANGED status
              /\ IF s.payloadSize < MSS
                 THEN RecvReturns(r, stored, total)
                 ELSE /\ buffer' = [buffer EXCEPT ![r] = stored]
                      /\ totalReceived' = [totalReceived EXCEPT ![r] = total]
                      /\ UNCHANGED <<pc, length, totalBuffer, saved>>
    BY DEF StoreSegment
  <1> DEFINE chunk  == [seqNum |-> s.seqNum, size |-> s.payloadSize, data |-> s.data]
             stored == Append(buffer[r], chunk)
             total  == totalReceived[r] + s.payloadSize
  <1>2. pc[r] = "recv" /\ UNCHANGED <<handlerVars, sendVars, isFile, faults>>
    BY DEF StoreSegment
  <1>3. inbox[r] # <<>> /\ s \in Segment /\ (s.payloadSize > 0 => s.data \in UInt32 \cup {JunkData})
    BY ReturnedToReceiver
  <1>4. stored \in Seq(Chunk)
    <2>1. chunk \in Chunk
      BY <1>1, <1>3 DEF Fits, Chunk, Segment
    <2> QED BY <2>1 DEF LocalInv
  <1>5. total \in 0 .. length[r] /\ total \in UInt32
    <2>1. /\ totalReceived[r] \in Nat /\ s.payloadSize \in Nat
          /\ length[r] \in 0 .. Capacity /\ Capacity \in Nat /\ Capacity < U32 /\ U32 \in Nat
          /\ totalReceived[r] <= length[r]
      BY <1>3, SegmentAssumption, TransferAssumption DEF LocalInv, Segment, UInt32
    <2> QED BY <1>1, <2>1 DEF Fits, UInt32
  <1> HIDE DEF stored, total
  <1>6. LocalInv' /\ NobodyBegins /\ pc'[Sender] = pc[Sender]
    <2>1. CASE s.payloadSize < MSS
      <3>1. RecvReturns(r, stored, total) /\ status' = status
        BY <1>1, <2>1 DEF stored, total
      <3> QED BY <1>2, <1>4, <1>5, <3>1, RecvReturnsKeeps DEF LocalInv
    <2>2. CASE ~(s.payloadSize < MSS)
      <3>1. /\ buffer' = [buffer EXCEPT ![r] = stored]
            /\ totalReceived' = [totalReceived EXCEPT ![r] = total]
            /\ UNCHANGED <<pc, length, totalBuffer, saved, status>>
        BY <1>1, <2>2 DEF stored, total
      <3> QED BY <1>2, <1>4, <1>5, <3>1 DEF LocalInv, NobodyBegins, sendVars, Engaged
    <2> QED BY <2>1, <2>2
  <1>7. Channels'
    <2>1. PICK result \in SendResults(AckOf(s)) : Answer(r, result.wire)
      BY <1>1
    <2>2. result.wire \in Seq(Datagram) /\ result.wire \in Seq(ReplyBody)
      BY <1>3, AcksTyped, SendResultsTyped
    <2>3. Paired(r) /\ r \in Node
      BY <1>2, Nodes DEF Paired
    <2> QED BY <1>3, <1>6, <2>1, <2>2, <2>3, AnswerKeeps
  <1>8. SenderInv'
    BY <1>2, <1>6, SenderKept
  <1> QED BY <1>2, <1>6, <1>7, <1>8

\* Every other step of a receiver.
LEMMA ReceiverKeeps ==
    ASSUME TransferInv, NEW r \in Receivers, ReceiverNext(r)
    PROVE  TransferInv' /\ UNCHANGED handlerVars
  <1> USE DEF TransferInv
  <1>1. /\ r \in Node /\ r # Sender /\ (pc[r] # "menu" => Paired(r))
        /\ buffer[r] \in Seq(Chunk) /\ totalReceived[r] \in 0 .. length[r]
    BY Nodes, SegmentAssumption, TransferAssumption DEF LocalInv, UInt32, Paired
  <1>2. CASE AwaitPayload(r) \/ PayloadThrows(r)
    <2>1. /\ TakeHeader(r) /\ pc[r] # "menu"
          /\ UNCHANGED <<handlerVars, sendVars, recvVars, status, isFile, faults>>
          /\ pc' = pc \/ \E p \in {"close"} : pc' = [pc EXCEPT ![r] = p]
          /\ pending' = pending \/ \E s \in Announced(r) : pending' = [pending EXCEPT ![r] = s]
      BY <1>2 DEF AwaitPayload, PayloadThrows, TakeHeader, Waiting
    <2>2. NobodyBegins /\ pc' \in [Node -> Place] /\ pc'[Sender] = pc[Sender]
      <3>1. NobodyBegins /\ pc' \in [Node -> Place]
        BY <1>1, <2>1, PlaceKept DEF Place
      <3> QED BY <1>1, <2>1, <3>1, Nodes DEF LocalInv
    <2>3. Channels'
      BY <2>1, <2>2, TakeHeaderKeeps
    <2>4. LocalInv'
      <3>1. Engaged(r)' => Engaged(r)
        BY <1>1, <2>1 DEF Engaged, LocalInv
      <3>2. \A q \in Receivers : Engaged(q)' => Engaged(q)
        BY <1>1, <2>1, <3>1, EngagedKept DEF Place
      <3> QED BY <2>1, <2>2, <3>2, LocalKept DEF LocalInv, sendVars
    <2> QED BY <2>1, <2>2, <2>3, <2>4, SenderKept
  <1>3. CASE RecvThrows(r)
    <2>1. /\ pc[r] = "recv" /\ pc' = [pc EXCEPT ![r] = "close"]
          /\ UNCHANGED <<handlerVars, sendVars, recvVars, status, peerAddr, inbox, pending,
                         isFile, faults>>
      BY <1>3 DEF RecvThrows, socketVars
    <2>2. NobodyBegins /\ pc' \in [Node -> Place] /\ pc'[Sender] = pc[Sender]
      BY <1>1, <2>1, PlaceKept, Nodes DEF Place, LocalInv
    <2>3. Channels'
      BY <1>1, <2>1, <2>2, QuietKeeps
    <2>4. LocalInv'
      <3>1. Engaged(r)' => Engaged(r)
        BY <1>1, <2>1 DEF Engaged, LocalInv
      <3>2. \A q \in Receivers : Engaged(q)' => Engaged(q)
        BY <1>1, <2>1, <3>1, EngagedKept DEF Place
      <3> QED BY <2>1, <2>2, <3>2, LocalKept DEF LocalInv, sendVars
    <2> QED BY <2>1, <2>2, <2>3, <2>4, SenderKept
  <1>4. CASE StoreSegment(r)
    BY <1>4, StoreKeeps
  <1>5. CASE FinDuringRecv(r)
    <2>1. /\ pc[r] = "recv" /\ RecvReturns(r, buffer[r], totalReceived[r])
          /\ UNCHANGED <<handlerVars, sendVars, isFile, faults>>
      BY <1>5 DEF FinDuringRecv
    <2>2. PICK result \in SendResults(finAck) :
            /\ Answer(r, result.wire)
            /\ status' = IF result.ok THEN [status EXCEPT ![r] = "LAST_ACK"] ELSE status
      BY <1>5 DEF FinDuringRecv
    <2>3. inbox[r] # <<>>
      BY <1>5, ReturnedToReceiver DEF FinDuringRecv
    <2>4. status' = status \/ status' = [status EXCEPT ![r] = "LAST_ACK"]
      BY <2>2
    <2>5. LocalInv' /\ NobodyBegins /\ pc'[Sender] = pc[Sender]
      BY <1>1, <2>1, <2>4, RecvReturnsKeeps
    <2>6. result.wire \in Seq(Datagram) /\ result.wire \in Seq(ReplyBody)
      BY ControlTyped, SendResultsTyped, SegmentAssumption DEF UInt32
    <2>7. Channels'
      BY <1>1, <2>1, <2>2, <2>3, <2>5, <2>6, AnswerKeeps
    <2> QED BY <2>1, <2>5, <2>7, SenderKept
  <1>6. CASE IgnoreDuringRecv(r)
    <2>1. /\ pc[r] = "recv" /\ Consume(r)
          /\ UNCHANGED <<handlerVars, sendVars, recvVars, status, pc, isFile, faults>>
      BY <1>6 DEF IgnoreDuringRecv
    <2>2. inbox[r] # <<>> /\ NobodyBegins
      BY <1>6, <2>1, ReturnedToReceiver DEF IgnoreDuringRecv, NobodyBegins
    <2>3. Channels'
      BY <1>1, <2>1, <2>2, ConsumeKeeps
    <2>4. LocalInv'
      BY <2>1, <2>2, LocalKept DEF LocalInv, sendVars, Engaged
    <2> QED BY <2>1, <2>3, <2>4, SenderKept
  <1>7. CASE TimeoutDuringRecv(r)
    <2>1. /\ pc[r] = "recv" /\ RecvReturns(r, buffer[r], totalReceived[r])
          /\ UNCHANGED <<handlerVars, sendVars, status, peerAddr, inbox, isFile, faults>>
          /\ pending' = [pending EXCEPT ![r] = NoSegment]
      BY <1>7 DEF TimeoutDuringRecv, PayloadTimeout, socketVars
    <2>2. LocalInv' /\ NobodyBegins /\ pc'[Sender] = pc[Sender]
      BY <1>1, <2>1, RecvReturnsKeeps DEF LocalInv
    <2>3. Channels'
      BY <1>1, <2>1, <2>2, QuietKeeps
    <2> QED BY <2>1, <2>2, <2>3, SenderKept
  <1>8. CASE CloseNext(r)
    BY <1>1, <1>8, CloseKeeps
  <1> QED
    BY <1>2, <1>3, <1>4, <1>5, <1>6, <1>7, <1>8 DEF ReceiverNext

-----------------------------------------------------------------------------
\* The steps of the sender, and what they are to the handler.

\* Before there are data nothing is buffered, and when something is there are data.
LEMMA BufferedMeansData ==
    ASSUME FailingInv
    PROVE  dataSize = 0 => bufLen = 0 /\ dataIndex = 0
  <1>1. /\ segmentCells \in Seq(Segment) /\ bufLen \in 0 .. Len(segmentCells)
        /\ dataSize \in Nat /\ dataIndex \in Nat /\ dataIndex <= dataSize
        /\ Continues(segmentCells, bufLen, dataIndex)
    BY SegmentAssumption DEF FailingInv, HandlerTypeOK, CutContinues, UInt32
  <1>2. ASSUME dataSize = 0, bufLen # 0
        PROVE  FALSE
    <2>1. bufLen \in 1 .. Len(segmentCells) /\ dataIndex = 0
      BY <1>1, <1>2
    <2>2. segmentCells[bufLen] \in Segment
      BY <1>1, <2>1
    <2>3. segmentCells[bufLen].seqNum \in Nat /\ segmentCells[bufLen].payloadSize \in 1 .. MSS
      BY <2>1, <2>2, <1>1, SegmentAssumption DEF Continues, Segment, UInt32
    <2>4. segmentCells[bufLen].seqNum + segmentCells[bufLen].payloadSize = dataIndex
      BY <2>1, <1>1 DEF Continues
    <2> QED BY <2>1, <2>3, <2>4, SegmentAssumption
  <1> QED BY <1>1, <1>2

\* setDataStream cuts data that can be cut, or spins.
LEMMA StartKeeps ==
    ASSUME TransferInv, StartSend
    PROVE  SetDataStream /\ SenderInv'
  <1> USE DEF TransferInv
  <1>1. dataSize = 0 /\ ~spinning
    BY DEF StartSend, SenderInv
  <1>2. PICK size \in Sizes : setDataStream(size % U32)
    BY DEF StartSend
  <1>3. size % U32 \in UInt32 /\ U32 \in Nat /\ WindowSize % 255 > 0
    BY SegmentAssumption, TransferAssumption, HandlerAssumption DEF UInt32
  <1>4. SetDataStream
    BY <1>1, <1>2, <1>3 DEF SetDataStream
  <1>5. FailingInv'
    BY <1>4, FailingStep DEF SenderInv, HandlerNext
  <1>6. pc'[Sender] = "advance"
    BY Nodes DEF StartSend, LocalInv
  <1>7. dataSize' # 0 /\ ~spinning' => dataSize' <= U32 - MSS
    <2>1. CASE size % U32 = 0
      BY <1>1, <1>2, <2>1 DEF setDataStream
    <2>2. CASE size % U32 # 0
      <3>1. /\ dataSize' = size % U32 /\ generateSegments(segmentCells, bufLen)
            /\ dataSize' \in UInt32 /\ dataSize' > 0
        BY <1>2, <1>3, <2>2 DEF setDataStream, UInt32
      <3>2. bufLen = 0 /\ dataIndex = 0
        BY <1>1, BufferedMeansData DEF SenderInv
      <3>3. NumSegments(dataSize') = 0 => spinning'
        BY <1>3, <3>1, <3>2, SegmentAssumption DEF generateSegments, UInt32
      <3>4. NumSegments(dataSize') # 0 => dataSize' <= U32 - MSS
        BY <3>1, NumSegmentsBounds, SegmentAssumption DEF UInt32
      <3> QED BY <3>3, <3>4
    <2> QED BY <2>1, <2>2
  <1> QED BY <1>4, <1>5, <1>6, <1>7 DEF SenderInv

\* An acknowledgment never makes generateSegments spin.
LEMMA AckNeverSpins ==
    ASSUME SenderInv, dataSize # 0, ~spinning, NEW ackNum \in UInt32, handleAck(ackNum)
    PROVE  HandleAck /\ dataSize' = dataSize /\ ~spinning' /\ window' = window
  <1>1. HandleAck
    BY DEF HandleAck
  <1>2. CASE ~IsNewAck(ackNum)
    BY <1>1, <1>2 DEF handleAck, bufferVars
  <1>3. CASE IsNewAck(ackNum)
    <2>1. PICK cells, len : generateSegments(cells, len)
      BY <1>3 DEF handleAck
    <2>2. dataSize' = dataSize /\ window' = window
      BY <1>3 DEF handleAck
    <2>3. dataSize \in UInt32 /\ dataIndex \in UInt32 /\ dataSize <= U32 - MSS
      BY DEF SenderInv, FailingInv, HandlerTypeOK
    <2>4. dataIndex < dataSize => NumSegments(dataSize - dataIndex) # 0
      <3>1. SUFFICES ASSUME dataIndex < dataSize
                     PROVE  NumSegments(dataSize - dataIndex) # 0
        OBVIOUS
      <3> DEFINE rest == dataSize - dataIndex
      <3>2. rest \in UInt32 /\ rest > 0 /\ ~(rest > U32 - MSS)
        BY <2>3, <3>1, SegmentAssumption DEF UInt32
      <3> QED BY <3>2, NumSegmentsBounds
    <2>5. ~spinning'
      BY <2>1, <2>2, <2>4 DEF generateSegments
    <2> QED BY <1>1, <2>2, <2>5
  <1> QED BY <1>2, <1>3

\* A window is taken, and when there is none the sender closes.
LEMMA NextWindowKeeps ==
    ASSUME TransferInv, NextWindow
    PROVE  AdvanceWindow /\ SenderInv'
  <1> USE DEF TransferInv
  <1>1. AdvanceWindow /\ advanceWindow(helper)
    BY DEF NextWindow, AdvanceWindow, LocalInv
  <1>2. FailingInv'
    BY <1>1, FailingStep DEF SenderInv, HandlerNext
  <1>3. /\ dataSize' = dataSize /\ spinning' = spinning /\ ~spinning
        /\ bufLen = 0 => window' = <<>>
    BY <1>1 DEF advanceWindow, bufferVars, NextWindow
  <1>4. pc'[Sender] = IF window' = <<>> THEN "close" ELSE "sendWindow"
    BY Nodes DEF NextWindow, LocalInv
  <1> QED
    BY <1>1, <1>2, <1>3, <1>4, BufferedMeansData DEF SenderInv

\* The window that is being sent holds segments.
LEMMA OutgoingTyped ==
    ASSUME TransferInv, pc[Sender] = "sendWindow"
    PROVE  Outgoing \in Segment
  <1>1. window \in [1 .. WindowSize -> Segment]
    BY DEF TransferInv, SenderInv, FailingInv, HandlerTypeOK
  <1> QED BY <1>1 DEF Outgoing, TransferInv, LocalInv

\* The answers that send counts.
LEMMA CountReplyTyped ==
    ASSUME LocalInv, CountReply
    PROVE  /\ turn' \in 1 .. WindowSize
           /\ pc' = pc \/ pc' = [pc EXCEPT ![Sender] = "advance"]
  BY HandlerAssumption DEF LocalInv, CountReply

\* The steps of the sender.
LEMMA SenderKeeps ==
    ASSUME TransferInv, SenderNext
    PROVE  TransferInv' /\ [HandlerNext]_handlerVars
  <1> USE DEF TransferInv
  <1>0. Sender \in Node /\ pc[Sender] # "menu" /\ Paired(Sender)
    BY Nodes DEF SenderNext, StartSend, SendThrows, NextWindow, SendSegment,
        ReplyDuringSend, FinDuringSend, CloseNext, CloseActive, ClosePassive, CloseAtOnce,
        FinAckInFinWait, AckInCloseWait, OtherInClose, TimeoutInClose, Paired, Unpaired
  <1>1. /\ Sender \in Node /\ pc[Sender] # "menu" /\ Paired(Sender)
        /\ (/\ pc' = pc \/ \E p \in Place : pc' = [pc EXCEPT ![Sender] = p]
            /\ status' = status \/ \E v \in Status : status' = [status EXCEPT ![Sender] = v])
              => \A r \in Receivers : Engaged(r)' => Engaged(r)
    BY <1>0, EngagedKept
  <1>2. 1 \in 1 .. WindowSize /\ WindowSize \in Nat
    BY HandlerAssumption
  <1>3. CASE StartSend
    <2>1. /\ UNCHANGED <<sendVars, recvVars, status, peerAddr, inbox, pending, isFile, faults>>
          /\ pc' = [pc EXCEPT ![Sender] = "advance"]
      BY <1>3 DEF StartSend, socketVars
    <2>2. NobodyBegins /\ pc' \in [Node -> Place]
      BY <1>1, <2>1, OneGoesOn DEF Place, LocalInv
    <2>3. \A r \in Receivers : Engaged(r)' => Engaged(r)
      BY <1>1, <2>1 DEF Place
    <2>4. Channels' /\ LocalInv'
      BY <1>1, <2>1, <2>2, <2>3, QuietKeeps, LocalKept DEF LocalInv, sendVars
    <2> QED BY <1>3, <2>4, StartKeeps DEF HandlerNext
  <1>4. CASE SendThrows
    <2>1. /\ UNCHANGED <<handlerVars, sendVars, recvVars, status, peerAddr, inbox, pending,
                         isFile, faults>>
          /\ pc' = [pc EXCEPT ![Sender] = "close"]
      BY <1>4 DEF SendThrows, socketVars
    <2>2. NobodyBegins /\ pc' \in [Node -> Place] /\ pc'[Sender] = "close"
      BY <1>1, <2>1, OneGoesOn DEF Place, LocalInv
    <2>3. \A r \in Receivers : Engaged(r)' => Engaged(r)
      BY <1>1, <2>1 DEF Place
    <2>4. Channels' /\ LocalInv'
      BY <1>1, <2>1, <2>2, <2>3, QuietKeeps, LocalKept DEF LocalInv, sendVars
    <2> QED BY <2>1, <2>2, <2>4, SenderKept
  <1>5. CASE NextWindow
    <2>1. /\ UNCHANGED <<recvVars, status, peerAddr, inbox, pending, isFile, faults>>
          /\ helper' = 1 /\ turn' = 1
          /\ \E p \in {"close", "sendWindow"} : pc' = [pc EXCEPT ![Sender] = p]
      BY <1>5 DEF NextWindow, socketVars
    <2>2. NobodyBegins /\ pc' \in [Node -> Place]
      BY <1>1, <2>1, PlaceKept DEF Place
    <2>3. \A r \in Receivers : Engaged(r)' => Engaged(r)
      BY <1>1, <2>1 DEF Place
    <2>4. Channels' /\ LocalInv'
      BY <1>1, <1>2, <2>1, <2>2, <2>3, QuietKeeps, LocalKept DEF LocalInv
    <2> QED BY <1>5, <2>4, NextWindowKeeps DEF HandlerNext
  <1>6. CASE SendSegment
    <2>1. /\ UNCHANGED <<handlerVars, helper, recvVars, status, isFile, faults>>
          /\ pc[Sender] = "sendWindow" /\ turn' \in 1 .. WindowSize
          /\ pc' = pc \/ \E p \in {"awaitAcks"} : pc' = [pc EXCEPT ![Sender] = p]
      BY <1>2, <1>6 DEF SendSegment, LocalInv
    <2>2. NobodyBegins /\ pc' \in [Node -> Place]
      BY <1>1, <2>1, PlaceKept DEF Place
    <2>3. PICK result \in SendResults(Outgoing) : Post(Sender, result.wire)
      BY <1>6 DEF SendSegment
    <2>4. result.wire \in Seq(Datagram)
      BY <2>1, OutgoingTyped, SendResultsTyped
    <2>5. Channels'
      BY <1>1, <2>1, <2>2, <2>3, <2>4, PostChannels
    <2>6. \A r \in Receivers : Engaged(r)' => Engaged(r)
      BY <1>1, <2>1 DEF Place
    <2>7. LocalInv'
      BY <2>1, <2>2, <2>6, LocalKept DEF LocalInv
    <2>8. pc'[Sender] = pc[Sender] \/ pc'[Sender] = "awaitAcks"
      BY <1>1, <2>1 DEF LocalInv
    <2> QED BY <2>1, <2>5, <2>7, <2>8, SenderKept
  <1>7. CASE ReplyDuringSend
    <2>1. PICK s \in Returned(Sender) :
            IF "ack" \in s.flags THEN handleAck(s.ackNum) ELSE UNCHANGED handlerVars
      BY <1>7 DEF ReplyDuringSend
    <2>2. inbox[Sender] # <<>> /\ s \in Segment /\ s.ackNum \in UInt32
      BY <1>1, ReturnedTyped DEF Segment
    <2>3. /\ pc[Sender] = "awaitAcks" /\ Consume(Sender)
          /\ UNCHANGED <<helper, recvVars, status, isFile, faults>>
      BY <1>7 DEF ReplyDuringSend
    <2>4. /\ turn' \in 1 .. WindowSize
          /\ pc' = pc \/ \E p \in {"advance", "close"} : pc' = [pc EXCEPT ![Sender] = p]
      BY <1>7, CountReplyTyped DEF ReplyDuringSend, LocalInv
    <2>5. NobodyBegins /\ pc' \in [Node -> Place]
      BY <1>1, <2>4, PlaceKept DEF Place
    <2>11. \A r \in Receivers : Engaged(r)' => Engaged(r)
      BY <1>1, <2>3, <2>4 DEF Place
    <2>6. Channels' /\ LocalInv'
      BY <1>1, <2>2, <2>3, <2>4, <2>5, <2>11, ConsumeKeeps, LocalKept DEF LocalInv
    <2>7. dataSize # 0 /\ ~spinning /\ window # <<>>
      BY <2>3 DEF SenderInv
    <2>8. /\ [HandlerNext]_handlerVars
          /\ dataSize' = dataSize /\ ~spinning' /\ window' = window
      <3>1. CASE "ack" \in s.flags
        BY <2>1, <2>2, <2>7, <3>1, AckNeverSpins DEF HandlerNext
      <3>2. CASE "ack" \notin s.flags
        BY <2>1, <2>7, <3>2 DEF handlerVars, bufferVars
      <3> QED BY <3>1, <3>2
    <2>9. FailingInv'
      BY <2>8, FailingStep DEF SenderInv
    <2>10. pc'[Sender] \in {"awaitAcks", "advance", "close"}
      BY <1>1, <2>3, <2>4 DEF LocalInv
    <2> QED BY <2>6, <2>7, <2>8, <2>9, <2>10 DEF SenderInv
  <1>8. CASE FinDuringSend
    <2>1. PICK result \in SendResults(finAck) :
            /\ Answer(Sender, result.wire)
            /\ IF result.ok
               THEN /\ status' = [status EXCEPT ![Sender] = "CLOSE_WAIT"]
                    /\ pc' = [pc EXCEPT ![Sender] = "close"]
                    /\ UNCHANGED turn
               ELSE CountReply /\ UNCHANGED status
      BY <1>8 DEF FinDuringSend
    <2>2. inbox[Sender] # <<>>
      BY <1>1, <1>8, ReturnedTyped DEF FinDuringSend
    <2>3. /\ pc[Sender] = "awaitAcks"
          /\ UNCHANGED <<handlerVars, helper, recvVars, isFile, faults>>
      BY <1>8 DEF FinDuringSend
    <2>4. /\ turn' \in 1 .. WindowSize
          /\ pc' = pc \/ \E p \in {"advance", "close"} : pc' = [pc EXCEPT ![Sender] = p]
          /\ status' = status \/ \E v \in Status : status' = [status EXCEPT ![Sender] = v]
      BY <1>1, <2>1, CountReplyTyped DEF LocalInv, Status
    <2>5. NobodyBegins /\ pc' \in [Node -> Place]
      BY <1>1, <2>4, PlaceKept DEF Place
    <2>6. result.wire \in Seq(Datagram)
      BY ControlTyped, SendResultsTyped, SegmentAssumption DEF UInt32
    <2>9. (\A r \in Receivers : Engaged(r)' => Engaged(r)) /\ status' \in [Node -> Status]
      BY <1>1, <2>4 DEF Place, LocalInv
    <2>7. Channels' /\ LocalInv'
      BY <1>1, <2>1, <2>2, <2>3, <2>4, <2>5, <2>6, <2>9, AnswerKeeps, LocalKept DEF LocalInv
    <2>8. pc'[Sender] = pc[Sender] \/ pc'[Sender] \in {"advance", "close"}
      BY <1>1, <2>4 DEF LocalInv
    <2> QED BY <2>3, <2>7, <2>8, SenderKept
  <1>9. CASE CloseNext(Sender)
    BY <1>1, <1>9, CloseKeeps
  <1> QED
    BY <1>3, <1>4, <1>5, <1>6, <1>7, <1>8, <1>9 DEF SenderNext

-----------------------------------------------------------------------------
\* The whole system.

\* A process is stopped, and what it was sending is cut off.
LEMMA StopKeeps ==
    ASSUME TransferInv, NEW n \in Node, Stop(n)
    PROVE  TransferInv' /\ UNCHANGED handlerVars
  <1> USE DEF TransferInv
  <1>1. /\ pc[n] # "menu" /\ pc' = [pc EXCEPT ![n] = "stopped"]
        /\ UNCHANGED <<handlerVars, sendVars, recvVars, status, peerAddr, isFile, faults>>
        /\ pending' = [pending EXCEPT ![n] = NoSegment]
    BY DEF Stop, socketVars
  <1>2. NobodyBegins /\ pc' \in [Node -> Place]
    BY <1>1, OneGoesOn DEF Place, Unpaired, LocalInv
  <1>3. LocalInv'
    <2>1. Engaged(n)' => Engaged(n)
      BY <1>1 DEF Engaged, LocalInv
    <2>2. \A r \in Receivers : Engaged(r)' => Engaged(r)
      BY <1>1, <2>1, EngagedKept DEF Place
    <2> QED BY <1>1, <1>2, <2>2, LocalKept DEF LocalInv, sendVars
  <1>4. SenderInv'
    BY <1>1, SenderKept, Nodes DEF LocalInv
  <1>5. PICK wire \in IF pc[n] = "sendWindow" THEN PartialWire(Outgoing) ELSE {<<>>} :
          inbox' = Sent([inbox EXCEPT ![n] = <<>>], n, peerAddr[n], wire)
    BY DEF Stop
  <1>6. QueuesOK([inbox EXCEPT ![n] = <<>>])
    <2>1. <<>> \in Seq(Packet) /\ <<>> \in Seq(Expected(n))
      OBVIOUS
    <2> QED BY <2>1, ReplacedChannels DEF Channels
  <1>7. pc[Sender] = "sendWindow" => peerAddr[Sender] \in Node /\ peerAddr[Sender] # Sender
    BY Nodes DEF Channels, Unpaired
  <1>8. QueuesOK(inbox')
    <2>1. CASE wire = <<>>
      BY <1>5, <1>6, <2>1 DEF Sent
    <2>2. CASE wire # <<>>
      <3>1. pc[n] = "sendWindow" /\ wire \in PartialWire(Outgoing)
        BY <1>5, <2>2
      <3>2. CASE n = Sender
        <4>1. wire \in Seq(Datagram)
          BY <3>1, <3>2, OutgoingTyped, WireTyped
        <4>2. peerAddr[n] \in Node /\ (n = Sender <=> peerAddr[n] # Sender)
          BY <1>7, <3>1, <3>2
        <4> QED BY <1>5, <1>6, <3>2, <4>1, <4>2, SentChannels
      <3>3. CASE n # Sender
        BY <3>1, <3>3, Nodes DEF LocalInv
      <3> QED BY <3>2, <3>3
    <2> QED BY <2>1, <2>2
  <1>9. pending' \in [Node -> Segment] /\ pending'[Sender] = NoSegment
    <2>1. NoSegment \in Segment
      BY ControlTyped, SegmentAssumption DEF UInt32
    <2> QED BY <1>1, <2>1, Nodes DEF Channels
  <1>10. Channels'
    BY <1>1, <1>2, <1>8, <1>9 DEF Channels, NobodyBegins
  <1> QED BY <1>1, <1>3, <1>4, <1>10

\* What is done to the transfer from outside.
LEMMA OutsideKeeps ==
    ASSUME TransferInv, OutsideNext
    PROVE  TransferInv' /\ UNCHANGED handlerVars
  <1> USE DEF TransferInv
  <1>1. PICK n \in Node : Lose(n) \/ Duplicate(n) \/ Reorder(n) \/ Stop(n)
    BY DEF OutsideNext
  <1>2. CASE Lose(n) \/ Duplicate(n) \/ Reorder(n)
    <2>1. /\ UNCHANGED <<handlerVars, sendVars, recvVars, status, pc, isFile>>
          /\ faults' = faults + 1 /\ faults < MaxFaults
      BY <1>2 DEF Lose, Duplicate, Reorder, Fault, socketVars
    <2>2. faults' \in 0 .. MaxFaults /\ NobodyBegins
      BY <2>1, TransferAssumption DEF LocalInv, NobodyBegins
    <2>3. LocalInv'
      BY <2>1, <2>2, LocalKept DEF LocalInv, sendVars, Engaged
    <2>4. Channels'
      BY <1>2, FaultKeeps
    <2> QED BY <2>1, <2>3, <2>4, SenderKept
  <1>3. CASE Stop(n)
    BY <1>3, StopKeeps
  <1> QED BY <1>1, <1>2, <1>3

\* When the handshake is over, everybody is ready.
LEMMA TransferInit == Init => TransferInv
  <1> SUFFICES ASSUME Init
               PROVE  TransferInv
    OBVIOUS
  <1>1. PICK peer \in Receivers :
         /\ status = [n \in Node |-> IF n \in {Sender, peer} THEN "ESTABLISHED" ELSE "CLOSED"]
         /\ peerAddr = [n \in Node |-> CASE n = Sender -> peer [] n = peer -> Sender
                                         [] OTHER -> NoPeer]
         /\ pc = [n \in Node |-> CASE n = Sender -> "setup" [] n = peer -> "recv"
                                   [] OTHER -> "menu"]
         /\ length = [r \in Receivers |-> IF r = peer THEN Capacity ELSE 0]
    BY DEF Init
  <1>2. 0 \in UInt32 /\ 0 \in 0 .. Capacity /\ Capacity \in 0 .. Capacity /\ Capacity # 0
    BY SegmentAssumption, TransferAssumption DEF UInt32
  <1>3. Channels
    <2>1. NoSegment \in Segment
      BY <1>2, ControlTyped
    <2>2. QueuesOK(inbox)
      BY DEF Init, NothingSent, QueuesOK
    <2>3. pending \in [Node -> Segment] /\ pending[Sender] = NoSegment
      BY <2>1, Nodes DEF Init, NothingSent
    <2>4. /\ peerAddr \in [Node -> Node \cup {NoPeer}]
          /\ peerAddr[Sender] \in Receivers
          /\ \A r \in Receivers : pc[r] # "menu" => peerAddr[r] = Sender
      BY <1>1, Nodes
    <2> QED BY <2>2, <2>3, <2>4 DEF Channels
  <1>4. LocalInv
    <2>1. status \in [Node -> Status] /\ pc \in [Node -> Place]
      BY <1>1, Nodes DEF Status, Place
    <2>2. length \in [Receivers -> 0 .. Capacity]
      BY <1>1, <1>2
    <2>3. helper \in {0, 1} /\ turn \in 1 .. WindowSize /\ isFile \in BOOLEAN
      <3>1. helper = 0 /\ turn = 1 /\ isFile \in BOOLEAN
        BY DEF Init, NothingSent
      <3>2. 1 \in 1 .. WindowSize
        BY HandlerAssumption
      <3> QED BY <3>1, <3>2
    <2>4. faults \in 0 .. MaxFaults
      BY TransferAssumption DEF Init, NothingSent
    <2>5. totalReceived \in [Receivers -> UInt32] /\ saved \in [Receivers -> BOOLEAN]
      BY <1>2 DEF Init, NothingSent
    <2>6. buffer \in [Receivers -> Seq(Chunk)] /\ totalBuffer \in [Receivers -> Seq(Chunk)]
      BY DEF Init, NothingSent
    <2>7. \A r \in Receivers :
            /\ totalReceived[r] <= length[r]
            /\ Engaged(r) => length[r] # 0
            /\ pc[r] # "sendWindow"
      <3>1. ASSUME NEW r \in Receivers
            PROVE  /\ totalReceived[r] <= length[r]
                   /\ Engaged(r) => length[r] # 0
                   /\ pc[r] # "sendWindow"
        <4>1. totalReceived[r] = 0
          BY DEF Init, NothingSent
        <4> QED BY <1>1, <1>2, <4>1, Nodes, TransferAssumption DEF UInt32, Engaged
      <3> QED BY <3>1
    <2> QED BY <2>1, <2>2, <2>3, <2>4, <2>5, <2>6, <2>7 DEF LocalInv
  <1>5. SenderInv
    <2>1. FailingInv
      BY FailingInit DEF Init, NothingSent
    <2>2. pc[Sender] = "setup" /\ dataSize = 0 /\ ~spinning
      BY <1>1, Nodes DEF Init, NothingSent, HandlerInit
    <2> QED BY <2>1, <2>2 DEF SenderInv
  <1> QED BY <1>3, <1>4, <1>5 DEF TransferInv

\* Every step keeps the invariant, and is a step of the handler or leaves it alone.
LEMMA TransferStep ==
    ASSUME TransferInv, [Next]_vars
    PROVE  TransferInv' /\ [HandlerNext]_handlerVars
  <1>1. CASE UNCHANGED vars
    BY <1>1, SenderKept
    DEF TransferInv, Channels, QueuesOK, LocalInv, Engaged, vars, sendVars, recvVars,
        socketVars
  <1> QED
    BY <1>1, SenderKeeps, ReceiverKeeps, OutsideKeeps DEF Next, Terminated

\* In every state of a transfer the channels carry what they should, the counts
\* and places are in range, and the sender only asks its handler when it can answer.
THEOREM TransferInvariant == Spec => []TransferInv
  BY TransferInit, TransferStep, PTL DEF Spec

\* Whatever the network does and whatever fails, every variable keeps its type:
\* no turn, count or length leaves its range (socket.cpp:204-342).
THEOREM TransferTyped == Spec => []TypeOK
  <1>1. TransferInv => TypeOK
    BY DEF TransferInv, TypeOK, SenderInv, FailingInv, LocalInv, Channels, QueuesOK
  <1> QED BY <1>1, TransferInvariant, PTL

\* A transfer uses the segment handler as module SegmentHandler allows: one
\* setDataStream, then windows and acknowledgments of 32 bits, and never while
\* generateSegments has not returned (socket.cpp:212-264).
THEOREM TransferUsesHandler == Spec => HandlerSpec
  <1>1. Init => HandlerInit
    BY DEF Init, NothingSent
  <1>2. TransferInv /\ [Next]_vars => [HandlerNext]_handlerVars
    BY TransferStep
  <1> QED BY <1>1, <1>2, TransferInvariant, PTL DEF Spec, HandlerSpec

\* So in every transfer, whatever allocations fail, no byte is numbered twice.
THEOREM TransferContinues == Spec => []CutContinues
  BY TransferUsesHandler, CutAlwaysContinues, PTL

\* And as long as none fails, whatever the network does, the windows of a file
\* with more segments than a window are consecutive segments of that file.
THEOREM TransferWindows ==
    ASSUME ~MayFail
    PROVE  Spec => []WindowConsecutive
  BY TransferUsesHandler, WindowsConsecutive, PTL

-----------------------------------------------------------------------------
(***************************************************************************)
(* What the sender believes.  RepliesInv is inductive because it says of   *)
(* every reply under way what its receiver has done: as long as no         *)
(* receiver closes, there is no FIN, and what an ACK names is stored.      *)
(***************************************************************************)
NobodyCloses == \A r \in Receivers : Connected(r) => status[r] = "ESTABLISHED"

IsStored(seqNum) ==
    \E r \in Receivers : \E i \in DOMAIN Received(r) : Received(r)[i].seqNum = seqNum

\* What an ACK may carry when, besides the segments stored, the numbers others
\* are acknowledged.
Known(seqNum, others) == seqNum \in others \/ IsStored(seqNum)

Heard(others) ==
    {p \in Expected(Sender) :
        NobodyCloses =>
            /\ "fin" \notin p.body.segment.flags
            /\ "ack" \in p.body.segment.flags => Known(p.body.segment.ackNum, others)}

RepliesInv(others) ==
    /\ inbox[Sender] \in Seq(Heard(others))
    /\ NobodyCloses => LAR = 0 \/ Known(LAR, others)
    /\ CloseWaitMeansPeerCloses

\* A receiver does not forget what it has stored, and does not come back.
Grows ==
    /\ NobodyCloses' => NobodyCloses
    /\ \A seqNum \in UInt32 : IsStored(seqNum) => IsStored(seqNum)'

\* The two properties in these words.
LEMMA BeliefsRestated ==
    /\ AckOnlyStored <=> (NobodyCloses => LAR = 0 \/ Known(LAR, {}))
    /\ CloseWaitMeansPeerCloses <=> (status[Sender] = "CLOSE_WAIT" => ~NobodyCloses)
  BY DEF AckOnlyStored, CloseWaitMeansPeerCloses, NobodyCloses, IsStored, Known

\* What was true of a reply stays true.
LEMMA HeardGrows ==
    ASSUME NEW others, Grows
    PROVE  Heard(others) \subseteq Heard(others)'
  <1> SUFFICES ASSUME NEW p \in Heard(others)
               PROVE  p \in Heard(others)'
    OBVIOUS
  <1>1. p \in Expected(Sender) /\ p.body.segment.ackNum \in UInt32
    BY DEF Heard, Expected, ReplyBody, Datagram, Segment
  <1> QED BY <1>1 DEF Heard, Grows, Expected, Known

\* When somebody closes, any reply may be under way.
LEMMA AnythingHeard ==
    ASSUME NEW others, Channels', ~NobodyCloses'
    PROVE  inbox'[Sender] \in Seq(Heard(others)')
  <1>1. inbox'[Sender] \in Seq(Expected(Sender))
    BY Nodes DEF Channels, QueuesOK, Expected
  <1>2. Expected(Sender) \subseteq Heard(others)'
    BY DEF Heard, Expected
  <1> QED BY <1>1, <1>2, SeqMonotone

\* What is not added to a queue is not in it.
LEMMA SentElsewhere ==
    ASSUME NEW queues, QueuesOK(queues), NEW n, NEW dst, dst # Sender, NEW wire
    PROVE  Sent(queues, n, dst, wire)[Sender] = queues[Sender]
  BY Nodes DEF Sent, QueuesOK


-----------------------------------------------------------------------------
\* The receivers only go on.

\* It suffices to look at each receiver.
LEMMA GrowsFrom ==
    ASSUME LocalInv,
           \A r \in Receivers :
               /\ length[r] # 0 => length'[r] # 0
               /\ \/ status'[r] # "ESTABLISHED" \/ status'[r] = status[r]
                  \/ length[r] = 0
               /\ \E extra \in Seq(Chunk) : Received(r)' = Received(r) \o extra
    PROVE  Grows
  <1>1. NobodyCloses' => NobodyCloses
    BY DEF NobodyCloses, Connected
  <1>2. ASSUME NEW seqNum \in UInt32, IsStored(seqNum)
        PROVE  IsStored(seqNum)'
    <2>1. PICK r \in Receivers : \E i \in DOMAIN Received(r) : Received(r)[i].seqNum = seqNum
      BY <1>2 DEF IsStored
    <2>2. PICK i \in DOMAIN Received(r) : Received(r)[i].seqNum = seqNum
      BY <2>1
    <2>3. PICK extra \in Seq(Chunk) : Received(r)' = Received(r) \o extra
      OBVIOUS
    <2>4. Received(r) \in Seq(Chunk)
      BY DEF LocalInv, Received
    <2>5. i \in DOMAIN Received(r)' /\ Received(r)'[i] = Received(r)[i]
      BY <2>2, <2>3, <2>4
    <2> QED BY <2>2, <2>5 DEF IsStored
  <1> QED BY <1>1, <1>2 DEF Grows

\* Nothing is received, and no receiver comes back.
LEMMA QuietGrows ==
    ASSUME LocalInv, UNCHANGED recvVars, NEW n \in Node,
           \/ status' = status
           \/ \E v \in Status : /\ status' = [status EXCEPT ![n] = v]
                                /\ n # Sender => v # "ESTABLISHED"
    PROVE  Grows
  <1>1. \A r \in Receivers : Received(r)' = Received(r) \o <<>>
    BY DEF Received, LocalInv, recvVars
  <1>2. \A r \in Receivers : /\ length'[r] = length[r]
                             /\ status'[r] # "ESTABLISHED" \/ status'[r] = status[r]
    BY Nodes DEF LocalInv, recvVars
  <1>3. <<>> \in Seq(Chunk)
    OBVIOUS
  <1> QED BY <1>1, <1>2, <1>3, GrowsFrom

\* recv stores something more.
LEMMA StoreGrows ==
    ASSUME LocalInv, LocalInv', NEW r \in Receivers, NEW extra \in Seq(Chunk),
           length'[r] # 0,
           totalBuffer'[r] \o buffer'[r] = Received(r) \o extra,
           \A q \in Receivers \ {r} : /\ length'[q] = length[q] /\ status'[q] = status[q]
                                      /\ buffer'[q] = buffer[q]
                                      /\ totalBuffer'[q] = totalBuffer[q],
           status'[r] # "ESTABLISHED" \/ status'[r] = status[r]
    PROVE  Grows
  <1>2. <<>> \in Seq(Chunk) /\ \A q \in Receivers \ {r} : Received(q)' = Received(q) \o <<>>
    <2>1. \A q \in Receivers : Received(q) \in Seq(Chunk)
      BY DEF Received, LocalInv
    <2>2. \A q \in Receivers \ {r} : Received(q)' = Received(q)
      BY DEF Received
    <2> QED BY <2>1, <2>2
  <1>3. Received(r)' = Received(r) \o extra
    BY DEF Received
  <1>4. ASSUME NEW q \in Receivers
        PROVE  /\ length[q] # 0 => length'[q] # 0
               /\ status'[q] # "ESTABLISHED" \/ status'[q] = status[q]
               /\ \E more \in Seq(Chunk) : Received(q)' = Received(q) \o more
    <2>1. CASE q = r
      BY <2>1, <1>3
    <2>2. CASE q # r
      BY <2>2, <1>2
    <2> QED BY <2>1, <2>2
  <1> QED BY <1>4, GrowsFrom

\* recv returns what it has stored, and something more.
LEMMA RecvReturnsGrows ==
    ASSUME LocalInv, LocalInv', NEW r \in Receivers, pc[r] = "recv",
           NEW extra \in Seq(Chunk), NEW total, RecvReturns(r, buffer[r] \o extra, total),
           status' = status \/ \E v \in Status \ {"ESTABLISHED"} :
                                   status' = [status EXCEPT ![r] = v]
    PROVE  Grows
  <1>1. /\ totalBuffer' = [totalBuffer EXCEPT ![r] = totalBuffer[r] \o (buffer[r] \o extra)]
        /\ buffer' = [buffer EXCEPT ![r] = <<>>]
        /\ \/ length' = [length EXCEPT ![r] = total] /\ total >= MSS
           \/ length' = length
    BY DEF RecvReturns
  <1>2. /\ totalBuffer[r] \in Seq(Chunk) /\ buffer[r] \in Seq(Chunk)
        /\ r \in Node /\ Receivers \subseteq Node
    BY Nodes DEF LocalInv
  <1>3. totalBuffer'[r] \o buffer'[r] = Received(r) \o extra
    <2>1. totalBuffer'[r] = totalBuffer[r] \o (buffer[r] \o extra) /\ buffer'[r] = <<>>
      BY <1>1 DEF LocalInv
    <2> DEFINE before == totalBuffer[r]
               now    == buffer[r]
    <2>2. before \in Seq(Chunk) /\ now \in Seq(Chunk)
      BY <1>2
    <2> HIDE DEF before, now
    <2>3. (before \o (now \o extra)) \o <<>> = (before \o now) \o extra
      BY <2>2
    <2> QED BY <2>1, <2>3 DEF before, now, Received
  <1>4. length'[r] # 0
    BY <1>1, <1>2, SegmentAssumption DEF LocalInv, Engaged
  <1>5. \A q \in Receivers \ {r} : /\ length'[q] = length[q] /\ status'[q] = status[q]
                                   /\ buffer'[q] = buffer[q]
                                   /\ totalBuffer'[q] = totalBuffer[q]
    BY <1>1, <1>2 DEF LocalInv
  <1>6. status'[r] # "ESTABLISHED" \/ status'[r] = status[r]
    BY <1>2 DEF LocalInv
  <1> QED BY <1>3, <1>4, <1>5, <1>6, StoreGrows

\* recv has stored a segment: nothing is forgotten, and its number is there.
LEMMA StoreSegmentGrows ==
    ASSUME TransferInv, TransferInv', NEW r \in Receivers, NEW s \in Returned(r),
           pc[r] = "recv", Fits(r, s), status' = status,
           LET stored == Append(buffer[r], [seqNum |-> s.seqNum, size |-> s.payloadSize,
                                            data |-> s.data])
               total  == totalReceived[r] + s.payloadSize
           IN  IF s.payloadSize < MSS
               THEN RecvReturns(r, stored, total)
               ELSE /\ buffer' = [buffer EXCEPT ![r] = stored]
                    /\ totalReceived' = [totalReceived EXCEPT ![r] = total]
                    /\ UNCHANGED <<pc, length, totalBuffer, saved>>
    PROVE  Grows /\ IsStored(s.seqNum)'
  <1> USE DEF TransferInv
  <1> DEFINE chunk == [seqNum |-> s.seqNum, size |-> s.payloadSize, data |-> s.data]
             total == totalReceived[r] + s.payloadSize
  <1>1. chunk \in Chunk /\ <<chunk>> \in Seq(Chunk)
    BY ReturnedToReceiver DEF Fits, Chunk, Segment
  <1>2. /\ totalBuffer[r] \in Seq(Chunk) /\ buffer[r] \in Seq(Chunk)
        /\ r \in Node /\ Receivers \subseteq Node /\ chunk.seqNum = s.seqNum
    BY Nodes DEF LocalInv
  <1>3. Append(buffer[r], chunk) = buffer[r] \o <<chunk>>
    BY <1>1, <1>2, AppendSeq
  <1> HIDE DEF chunk, total
  <1>4. IF s.payloadSize < MSS
        THEN RecvReturns(r, buffer[r] \o <<chunk>>, total)
        ELSE /\ buffer' = [buffer EXCEPT ![r] = buffer[r] \o <<chunk>>]
             /\ UNCHANGED <<pc, length, totalBuffer, saved>>
    BY <1>3 DEF chunk, total
  <1>5. totalBuffer'[r] \o buffer'[r] = Received(r) \o <<chunk>>
    <2> DEFINE before == totalBuffer[r]
               now    == buffer[r]
               new    == <<chunk>>
    <2>0. before \in Seq(Chunk) /\ now \in Seq(Chunk) /\ new \in Seq(Chunk)
      BY <1>1, <1>2
    <2> HIDE DEF before, now, new
    <2>1. /\ before \o (now \o new) = (before \o now) \o new
          /\ (before \o (now \o new)) \o <<>> = (before \o now) \o new
      BY <2>0
    <2>2. CASE s.payloadSize < MSS
      <3>1. totalBuffer'[r] = before \o (now \o new) /\ buffer'[r] = <<>>
        BY <1>4, <2>2 DEF RecvReturns, LocalInv, before, now, new
      <3> QED BY <2>1, <3>1 DEF Received, before, now, new
    <2>3. CASE ~(s.payloadSize < MSS)
      <3>1. totalBuffer'[r] = before /\ buffer'[r] = now \o new
        BY <1>4, <2>3 DEF LocalInv, before, now, new
      <3> QED BY <2>1, <3>1 DEF Received, before, now, new
    <2> QED BY <2>2, <2>3
  <1>6. Grows
    <2>1. CASE s.payloadSize < MSS
      BY <1>1, <1>4, <2>1, RecvReturnsGrows
    <2>2. CASE ~(s.payloadSize < MSS)
      <3>1. /\ \A q \in Receivers \ {r} : /\ length'[q] = length[q] /\ status'[q] = status[q]
                                          /\ buffer'[q] = buffer[q]
                                          /\ totalBuffer'[q] = totalBuffer[q]
            /\ length'[r] # 0
        BY <1>4, <2>2 DEF LocalInv, Engaged
      <3> QED BY <1>1, <1>5, <3>1, StoreGrows
    <2> QED BY <2>1, <2>2
  <1>7. IsStored(s.seqNum)'
    <2> DEFINE after == Received(r) \o <<chunk>>
               last  == Len(Received(r)) + 1
    <2>1. Received(r) \in Seq(Chunk)
      BY <1>2 DEF Received
    <2>2. last \in DOMAIN after /\ after[last] = chunk
      BY <1>1, <2>1
    <2>3. Received(r)' = after
      BY <1>5 DEF Received
    <2> HIDE DEF after, last
    <2>4. \E i \in DOMAIN Received(r)' : Received(r)'[i].seqNum = s.seqNum
      BY <1>2, <2>2, <2>3
    <2> QED BY <2>4 DEF IsStored
  <1> QED BY <1>6, <1>7

-----------------------------------------------------------------------------
\* What the sender hears and believes.

\* RepliesInv after a step, from what the step adds.
LEMMA RepliesFrom ==
    ASSUME NEW others, TransferInv, Channels', RepliesInv(others), Grows,
           NobodyCloses' => inbox'[Sender] \in Seq(Heard(others)'),
           LAR' = LAR \/ (NobodyCloses => Known(LAR', others) /\ LAR' \in UInt32),
           status'[Sender] = "CLOSE_WAIT" => status[Sender] = "CLOSE_WAIT" \/ ~NobodyCloses
    PROVE  RepliesInv(others)'
  <1>1. LAR \in UInt32
    BY DEF TransferInv, SenderInv, FailingInv, HandlerTypeOK
  <1>2. inbox'[Sender] \in Seq(Heard(others)')
    BY AnythingHeard
  <1>3. NobodyCloses' => LAR' = 0 \/ Known(LAR', others)
    BY DEF Grows, RepliesInv
  <1>4. LAR' \in UInt32 \/ ~NobodyCloses'
    BY <1>1 DEF Grows
  <1>5. NobodyCloses' => LAR' = 0 \/ Known(LAR, others)'
    BY <1>3, <1>4 DEF Grows, Known
  <1>6. CloseWaitMeansPeerCloses'
    BY BeliefsRestated DEF Grows, RepliesInv, CloseWaitMeansPeerCloses, NobodyCloses
  <1> QED BY <1>2, <1>5, <1>6 DEF RepliesInv

\* Nothing new reaches the sender.
LEMMA HeardKept ==
    ASSUME NEW others, RepliesInv(others), Grows,
           \/ inbox'[Sender] = inbox[Sender]
           \/ inbox[Sender] # <<>> /\ inbox'[Sender] = Tail(inbox[Sender])
    PROVE  inbox'[Sender] \in Seq(Heard(others)')
  <1>1. inbox'[Sender] \in Seq(Heard(others))
    BY HeadTailSeq DEF RepliesInv
  <1>2. Heard(others) \subseteq Heard(others)'
    BY HeardGrows
  <1> QED BY <1>1, <1>2, SeqMonotone

\* The sender sends nothing to itself.
LEMMA SenderHears ==
    ASSUME Channels, Paired(Sender), NEW wire,
           \/ inbox' = inbox
           \/ Post(Sender, wire)
           \/ inbox[Sender] # <<>> /\ Answer(Sender, wire)
    PROVE  \/ inbox'[Sender] = inbox[Sender]
           \/ inbox[Sender] # <<>> /\ inbox'[Sender] = Tail(inbox[Sender])
  <1>1. QueuesOK(inbox) /\ Sender \in Node
    BY Nodes DEF Channels
  <1>2. CASE inbox' = inbox
    BY <1>2
  <1>3. CASE Post(Sender, wire)
    <2>1. peerAddr[Sender] # Sender
      BY Nodes DEF Channels, Paired
    <2> QED BY <1>1, <1>3, <2>1, SentElsewhere DEF Post
  <1>4. CASE inbox[Sender] # <<>> /\ Answer(Sender, wire)
    <2> DEFINE rest == [inbox EXCEPT ![Sender] = Tail(@)]
    <2>1. PeerAfterReceive(Sender) # Sender
      BY <1>1, <1>4, AnswerableSource
    <2>2. QueuesOK(rest) /\ rest[Sender] = Tail(inbox[Sender])
      BY <1>1, <1>4, TailChannels DEF QueuesOK
    <2>3. inbox' = Sent(rest, Sender, PeerAfterReceive(Sender), wire)
      BY <1>4 DEF Answer, AnswerTo
    <2> HIDE DEF rest
    <2>4. inbox'[Sender] = Tail(inbox[Sender])
      BY <2>1, <2>2, <2>3, SentElsewhere
    <2> QED BY <1>4, <2>4
  <1> QED BY <1>2, <1>3, <1>4

\* The sender believes what it hears.
LEMMA SenderReplies ==
    ASSUME NEW others, TransferInv, Channels', RepliesInv(others), SenderNext
    PROVE  RepliesInv(others)'
  <1> USE DEF TransferInv
  <1>1. Paired(Sender) /\ UNCHANGED recvVars /\ Sender \in Node
    BY Nodes DEF Paired, Unpaired, SenderNext, StartSend, SendThrows, NextWindow, SendSegment,
        ReplyDuringSend, FinDuringSend, CloseNext, CloseActive, ClosePassive, CloseAtOnce,
        FinAckInFinWait, AckInCloseWait, OtherInClose, TimeoutInClose, recvVars, sendVars
  <1>2. ASSUME inbox[Sender] # <<>>, NobodyCloses
        PROVE  LET s == Head(inbox[Sender]).body.segment
               IN  /\ "fin" \notin s.flags
                   /\ "ack" \in s.flags => Known(s.ackNum, others) /\ s.ackNum \in UInt32
    <2>1. Head(inbox[Sender]) \in Heard(others)
      BY <1>2, HeadTailSeq DEF RepliesInv
    <2> QED BY <2>1, <1>2 DEF Heard, Expected, ReplyBody, Datagram, Segment
  <1>3. CASE StartSend \/ SendThrows \/ NextWindow
    <2>1. UNCHANGED <<LAR, status, inbox>>
      BY <1>3 DEF StartSend, SendThrows, NextWindow, setDataStream, advanceWindow,
          handlerVars, socketVars
    <2>2. Grows
      BY <1>1, <2>1, QuietGrows
    <2> QED BY <2>1, <2>2, HeardKept, RepliesFrom
  <1>4. CASE SendSegment
    <2>1. PICK result \in SendResults(Outgoing) : Post(Sender, result.wire)
      BY <1>4 DEF SendSegment
    <2>2. UNCHANGED <<LAR, status>>
      BY <1>4 DEF SendSegment, handlerVars
    <2>3. Grows
      BY <1>1, <2>2, QuietGrows
    <2> QED BY <1>1, <2>1, <2>2, <2>3, SenderHears, HeardKept, RepliesFrom
  <1>5. CASE ReplyDuringSend
    <2>1. PICK s \in Returned(Sender) :
            IF "ack" \in s.flags THEN handleAck(s.ackNum) ELSE UNCHANGED handlerVars
      BY <1>5 DEF ReplyDuringSend
    <2>2. inbox[Sender] # <<>> /\ s = Head(inbox[Sender]).body.segment
      BY ReturnedToSender
    <2>3. LAR' = LAR \/ ("ack" \in s.flags /\ LAR' = s.ackNum)
      BY <2>1 DEF handleAck, handlerVars
    <2>4. Consume(Sender) /\ status' = status
      BY <1>5 DEF ReplyDuringSend
    <2>5. Grows
      BY <1>1, <2>4, QuietGrows
    <2>6. inbox'[Sender] \in Seq(Heard(others)')
      BY <1>1, <2>2, <2>4, <2>5, SenderHears, HeardKept DEF Consume
    <2>7. LAR' = LAR \/ (NobodyCloses => Known(LAR', others) /\ LAR' \in UInt32)
      BY <1>2, <2>2, <2>3
    <2> QED BY <2>4, <2>5, <2>6, <2>7, RepliesFrom
  <1>6. CASE FinDuringSend
    <2>1. PICK result \in SendResults(finAck) : Answer(Sender, result.wire)
      BY <1>6 DEF FinDuringSend
    <2>2. PICK s \in Returned(Sender) : IsFin(s)
      BY <1>6 DEF FinDuringSend
    <2>3. inbox[Sender] # <<>> /\ s = Head(inbox[Sender]).body.segment
      BY ReturnedToSender
    <2>4. ~NobodyCloses
      BY <1>2, <2>2, <2>3 DEF IsFin
    <2>5. LAR' = LAR
      BY <1>6 DEF FinDuringSend, handlerVars
    <2>6. status' = status \/ status' = [status EXCEPT ![Sender] = "CLOSE_WAIT"]
      BY <1>6 DEF FinDuringSend
    <2>7. Grows
      BY <1>1, <2>6, QuietGrows DEF Status
    <2> QED BY <1>1, <2>1, <2>3, <2>4, <2>5, <2>7, SenderHears, HeardKept, RepliesFrom
  <1>7. CASE CloseNext(Sender)
    <2>1. UNCHANGED LAR
      BY <1>7 DEF CloseNext, CloseActive, ClosePassive, CloseAtOnce, FinAckInFinWait,
             AckInCloseWait, OtherInClose, TimeoutInClose, handlerVars
    <2>2. \/ status' = status
          \/ \E v \in {"CLOSED", "FIN_WAIT_1"} : status' = [status EXCEPT ![Sender] = v]
      BY <1>7 DEF CloseNext, CloseActive, ClosePassive, CloseAtOnce, FinAckInFinWait,
             AckInCloseWait, OtherInClose, TimeoutInClose, Closed, WaitOn, socketVars
    <2>3. Grows
      BY <1>1, <2>2, QuietGrows DEF Status
    <2>4. status'[Sender] = "CLOSE_WAIT" => status[Sender] = "CLOSE_WAIT"
      BY <1>1, <2>2 DEF LocalInv
    <2>5. \E wire : \/ inbox' = inbox
                    \/ Post(Sender, wire)
                    \/ inbox[Sender] # <<>> /\ Answer(Sender, wire)
      <3>1. CASE CloseActive(Sender)
        BY <3>1 DEF CloseActive
      <3>2. CASE ClosePassive(Sender) \/ CloseAtOnce(Sender) \/ TimeoutInClose(Sender)
        BY <3>2 DEF ClosePassive, CloseAtOnce, TimeoutInClose
      <3>3. CASE FinAckInFinWait(Sender)
        BY <3>3, ReturnedTyped, <1>1 DEF FinAckInFinWait
      <3>4. CASE AckInCloseWait(Sender) \/ OtherInClose(Sender)
        BY <3>4, ReturnedTyped, <1>1 DEF AckInCloseWait, OtherInClose, Consume
      <3> QED BY <1>7, <3>1, <3>2, <3>3, <3>4 DEF CloseNext
    <2> QED BY <1>1, <2>1, <2>3, <2>4, <2>5, SenderHears, HeardKept, RepliesFrom
  <1> QED BY <1>3, <1>4, <1>5, <1>6, <1>7 DEF SenderNext

\* What is sent to the sender is added to what it hears, or lost.
LEMMA ReplySent ==
    ASSUME NEW others, RepliesInv(others), Grows, NEW r \in Receivers,
           NEW queues, QueuesOK(queues), queues[Sender] = inbox[Sender],
           NEW wire \in Seq(ReplyBody),
           \A i \in DOMAIN wire : [from |-> r, body |-> wire[i]] \in Heard(others)',
           inbox' = queues \/ inbox' = Sent(queues, r, Sender, wire)
    PROVE  inbox'[Sender] \in Seq(Heard(others)')
  <1>1. inbox[Sender] \in Seq(Heard(others)')
    BY HeardGrows, SeqMonotone DEF RepliesInv
  <1> DEFINE new == [i \in DOMAIN wire |-> [from |-> r, body |-> wire[i]]]
  <1>2. new \in Seq(Heard(others)')
    OBVIOUS
  <1> HIDE DEF new
  <1>3. CASE inbox' = Sent(queues, r, Sender, wire)
    <2>1. CASE wire = <<>> \/ Deaf(Sender)
      BY <1>1, <1>3, <2>1 DEF Sent
    <2>2. CASE ~(wire = <<>> \/ Deaf(Sender))
      <3>1. inbox'[Sender] = inbox[Sender] \o new
        BY <1>3, <2>2, Nodes DEF Sent, new, QueuesOK
      <3> QED BY <1>1, <1>2, <3>1
    <2> QED BY <2>1, <2>2
  <1> QED BY <1>1, <1>3

\* A segment without payload is sent as its header, or not at all.
LEMMA ControlSent ==
    ASSUME NEW s \in Segment, s.payloadSize = 0, NEW result \in SendResults(s)
    PROVE  /\ result.wire \in Seq(ReplyBody)
           /\ result.wire = <<>> \/ result.wire = <<Header(s)>>
           /\ ~result.ok => result.wire = <<>>
  <1>1. ~HasPayload(s) /\ result.wire \in Seq(ReplyBody)
    BY SendResultsTyped DEF HasPayload
  <1>2. Wire(s) = <<Header(s)>> /\ PartialWire(s) = {<<>>}
    BY <1>1 DEF Wire, PartialWire
  <1>3. CASE result = [wire |-> Wire(s), ok |-> TRUE]
    BY <1>1, <1>2, <1>3
  <1>4. CASE result \in [wire : PartialWire(s), ok : {FALSE}]
    BY <1>1, <1>2, <1>4
  <1> QED BY <1>3, <1>4 DEF SendResults

\* What a receiver sends is added to what the sender hears.
LEMMA ReceiverSends ==
    ASSUME NEW others, Channels, RepliesInv(others), Grows, NEW r \in Receivers, pc[r] # "menu",
           NEW wire \in Seq(ReplyBody),
           \A i \in DOMAIN wire : [from |-> r, body |-> wire[i]] \in Heard(others)',
           \/ inbox' = inbox
           \/ Post(r, wire)
           \/ inbox[r] # <<>> /\ Answer(r, wire)
    PROVE  inbox'[Sender] \in Seq(Heard(others)')
  <1>1. QueuesOK(inbox) /\ Sender \in Node /\ r \in Node /\ r # Sender /\ Paired(r)
    BY Nodes DEF Channels, Paired
  <1>2. PICK queues : /\ queues[Sender] = inbox[Sender] /\ QueuesOK(queues)
                      /\ inbox' = queues \/ inbox' = Sent(queues, r, Sender, wire)
    <2>1. CASE inbox' = inbox
      BY <1>1, <2>1
    <2>2. CASE Post(r, wire)
      <3>1. peerAddr[r] = Sender
        BY DEF Channels
      <3> QED BY <1>1, <2>2, <3>1 DEF Post
    <2>3. CASE inbox[r] # <<>> /\ Answer(r, wire)
      <3> DEFINE rest == [inbox EXCEPT ![r] = Tail(@)]
      <3>1. PeerAfterReceive(r) = Sender
        BY <1>1, <2>3, AnswerableSource
      <3>2. QueuesOK(rest) /\ rest[Sender] = inbox[Sender]
        BY <1>1, <2>3, TailChannels DEF QueuesOK
      <3>3. inbox' = Sent(rest, r, Sender, wire)
        BY <2>3, <3>1 DEF Answer, AnswerTo
      <3> HIDE DEF rest
      <3> QED BY <3>2, <3>3
    <2> QED BY <2>1, <2>2, <2>3
  <1> QED BY <1>1, <1>2, ReplySent

\* A receiver that does not answer.
LEMMA SilentReplies ==
    ASSUME NEW others, TransferInv, Channels', RepliesInv(others), Grows, NEW r \in Receivers, pc[r] # "menu",
           LAR' = LAR, status'[Sender] = status[Sender],
           \/ inbox' = inbox
           \/ TakeHeader(r)
           \/ inbox[r] # <<>> /\ Answer(r, <<>>)
    PROVE  RepliesInv(others)'
  <1>1. <<>> \in Seq(ReplyBody) /\ r \in Node /\ r # Sender
    BY Nodes
  <1>2. inbox'[Sender] \in Seq(Heard(others)')
    <2>1. CASE TakeHeader(r)
      <3>1. inbox'[Sender] = inbox[Sender]
        BY <1>1, <2>1, Nodes DEF TakeHeader, TransferInv, Channels, QueuesOK
      <3> QED BY <3>1, HeardKept
    <2>2. CASE ~TakeHeader(r)
      <3>1. \A i \in DOMAIN <<>> : [from |-> r, body |-> <<>>[i]] \in Heard(others)'
        OBVIOUS
      <3> QED BY <1>1, <2>2, <3>1, ReceiverSends DEF TransferInv
    <2> QED BY <2>1, <2>2
  <1> QED BY <1>2, RepliesFrom

\* A receiver that closes may send what it likes.
LEMMA ClosingReplies ==
    ASSUME NEW others, TransferInv, TransferInv', RepliesInv(others), Grows, NEW r \in Receivers,
           length'[r] # 0, status'[r] # "ESTABLISHED", status'[Sender] = status[Sender],
           UNCHANGED LAR
    PROVE  RepliesInv(others)'
  <1>1. ~NobodyCloses'
    BY DEF NobodyCloses, Connected
  <1> QED BY <1>1, RepliesFrom DEF TransferInv

\* The answer of recv to a segment names a segment that is stored.
LEMMA StoreReplies ==
    ASSUME NEW others, TransferInv, TransferInv', RepliesInv(others), NEW r \in Receivers, StoreSegment(r)
    PROVE  RepliesInv(others)'
  <1>1. PICK s \in Returned(r) :
          LET stored == Append(buffer[r], [seqNum |-> s.seqNum, size |-> s.payloadSize,
                                           data |-> s.data])
              total  == totalReceived[r] + s.payloadSize
          IN  /\ Fits(r, s)
              /\ \E result \in SendResults(AckOf(s)) : Answer(r, result.wire)
              /\ UNCHANGED status
              /\ IF s.payloadSize < MSS
                 THEN RecvReturns(r, stored, total)
                 ELSE /\ buffer' = [buffer EXCEPT ![r] = stored]
                      /\ totalReceived' = [totalReceived EXCEPT ![r] = total]
                      /\ UNCHANGED <<pc, length, totalBuffer, saved>>
    BY DEF StoreSegment
  <1>2. pc[r] = "recv" /\ LAR' = LAR
    BY DEF StoreSegment, handlerVars
  <1>3. Grows /\ IsStored(s.seqNum)'
    BY <1>1, <1>2, StoreSegmentGrows
  <1>4. inbox[r] # <<>> /\ s \in Segment /\ Channels
    BY ReturnedToReceiver DEF TransferInv
  <1>5. PICK result \in SendResults(AckOf(s)) : Answer(r, result.wire)
    BY <1>1
  <1>6. AckOf(s) \in Segment /\ AckOf(s).payloadSize = 0
    BY <1>4, AcksTyped
  <1>7. result.wire \in Seq(ReplyBody)
    BY <1>5, <1>6, ControlSent
  <1>8. result.wire = <<>> \/ result.wire = <<Header(AckOf(s))>>
    BY <1>5, <1>6, ControlSent
  <1>9. \A i \in DOMAIN result.wire : [from |-> r, body |-> result.wire[i]] \in Heard(others)'
    <2>1. /\ Header(AckOf(s)).segment.flags = {"ack"}
          /\ Header(AckOf(s)).segment.ackNum = s.seqNum
      BY DEF Header, AckOf, ack, ControlSegment
    <2>2. ASSUME NEW i \in DOMAIN result.wire
          PROVE  [from |-> r, body |-> result.wire[i]] \in Heard(others)'
      <3>1. result.wire[i] = Header(AckOf(s))
        BY <1>8
      <3>2. result.wire[i] \in ReplyBody
        BY <1>7
      <3>3. [from |-> r, body |-> result.wire[i]] \in Expected(Sender)
        BY <3>2 DEF Expected
      <3> QED BY <1>3, <2>1, <3>1, <3>3 DEF Heard, Expected, Known
    <2> QED BY <2>2
  <1>10. inbox'[Sender] \in Seq(Heard(others)')
    BY <1>2, <1>3, <1>4, <1>5, <1>7, <1>9, ReceiverSends
  <1> QED BY <1>1, <1>2, <1>3, <1>10, RepliesFrom DEF TransferInv

\* The steps of a receiver's close.
LEMMA CloseReplies ==
    ASSUME NEW others, TransferInv, TransferInv', RepliesInv(others), NEW r \in Receivers,
           CloseNext(r)
    PROVE  RepliesInv(others)'
  <1> USE DEF TransferInv
  <1>1. r \in Node /\ r # Sender /\ pc[r] # "menu" /\ LAR' = LAR
    <2>1. pc[r] # "menu"
      BY DEF CloseNext, CloseActive, ClosePassive, CloseAtOnce, FinAckInFinWait,
             AckInCloseWait, OtherInClose, TimeoutInClose
    <2> QED BY <2>1, Nodes, CloseKeeps DEF handlerVars
  <1>2. UNCHANGED recvVars
    BY DEF CloseNext, CloseActive, ClosePassive, CloseAtOnce, FinAckInFinWait,
           AckInCloseWait, OtherInClose, TimeoutInClose
  <1>3. \/ status' = status
        \/ \E v \in Status \ {"ESTABLISHED"} : status' = [status EXCEPT ![r] = v]
    BY DEF CloseNext, CloseActive, ClosePassive, CloseAtOnce, FinAckInFinWait,
           AckInCloseWait, OtherInClose, TimeoutInClose, Closed, WaitOn, Status, socketVars
  <1>4. Grows /\ status'[Sender] = status[Sender]
    BY <1>1, <1>2, <1>3, QuietGrows, Nodes DEF LocalInv
  <1>5. CASE CloseActive(r) \/ FinAckInFinWait(r)
    <2>1. \E v \in Status \ {"ESTABLISHED"} : status' = [status EXCEPT ![r] = v]
      BY <1>5 DEF CloseActive, FinAckInFinWait, Closed, Status
    <2>2. status'[r] # "ESTABLISHED"
      BY <1>1, <2>1 DEF LocalInv
    <2>3. Engaged(r) /\ length'[r] # 0
      BY <1>2, <1>5 DEF CloseActive, FinAckInFinWait, Engaged, LocalInv, recvVars
    <2> QED BY <1>1, <1>4, <2>2, <2>3, ClosingReplies
  <1>6. CASE ClosePassive(r) \/ CloseAtOnce(r) \/ TimeoutInClose(r)
    <2>1. inbox' = inbox
      BY <1>6 DEF ClosePassive, CloseAtOnce, TimeoutInClose
    <2> QED BY <1>1, <1>4, <2>1, SilentReplies
  <1>7. CASE AckInCloseWait(r) \/ OtherInClose(r)
    <2>1. Answer(r, <<>>) /\ inbox[r] # <<>>
      BY <1>1, <1>7, ReturnedTyped DEF AckInCloseWait, OtherInClose, Consume
    <2> QED BY <1>1, <1>4, <2>1, SilentReplies
  <1> QED BY <1>5, <1>6, <1>7 DEF CloseNext

\* The steps of a receiver.
LEMMA ReceiverReplies ==
    ASSUME NEW others, TransferInv, TransferInv', RepliesInv(others), NEW r \in Receivers, ReceiverNext(r)
    PROVE  RepliesInv(others)'
  <1> USE DEF TransferInv
  <1>1. /\ r \in Node /\ r # Sender /\ pc[r] # "menu" /\ LAR' = LAR
        /\ buffer[r] \in Seq(Chunk) /\ <<>> \in Seq(Chunk) /\ buffer[r] = buffer[r] \o <<>>
    <2>1. pc[r] # "menu" \/ pending[r] # NoSegment
      BY DEF ReceiverNext, AwaitPayload, PayloadThrows, RecvThrows, StoreSegment,
          FinDuringRecv, IgnoreDuringRecv, TimeoutDuringRecv, TakeHeader, Waiting,
          CloseNext, CloseActive, ClosePassive, CloseAtOnce,
          FinAckInFinWait, AckInCloseWait, OtherInClose, TimeoutInClose
    <2>2. pc[r] # "menu"
      BY <2>1 DEF ReceiverNext, AwaitPayload, PayloadThrows, RecvThrows, StoreSegment,
          FinDuringRecv, IgnoreDuringRecv, TimeoutDuringRecv, TakeHeader, Waiting,
          CloseNext, CloseActive, ClosePassive, CloseAtOnce,
          FinAckInFinWait, AckInCloseWait, OtherInClose, TimeoutInClose
    <2>3. LAR' = LAR
      BY ReceiverKeeps DEF handlerVars
    <2>4. buffer[r] \in Seq(Chunk) /\ <<>> \in Seq(Chunk)
      BY DEF LocalInv
    <2> QED BY <2>2, <2>3, <2>4, Nodes
  <1>2. CASE AwaitPayload(r) \/ PayloadThrows(r)
    <2>1. TakeHeader(r) /\ status' = status /\ UNCHANGED recvVars
      BY <1>2 DEF AwaitPayload, PayloadThrows, TakeHeader, recvVars
    <2>2. Grows
      BY <1>1, <2>1, QuietGrows
    <2> QED BY <1>1, <2>1, <2>2, SilentReplies
  <1>3. CASE RecvThrows(r)
    <2>1. status' = status /\ inbox' = inbox /\ UNCHANGED recvVars
      BY <1>3 DEF RecvThrows, socketVars
    <2>2. Grows
      BY <1>1, <2>1, QuietGrows
    <2> QED BY <1>1, <2>1, <2>2, SilentReplies
  <1>4. CASE StoreSegment(r)
    BY <1>4, StoreReplies
  <1>5. CASE FinDuringRecv(r)
    <2>1. PICK result \in SendResults(finAck) :
            /\ Answer(r, result.wire)
            /\ status' = IF result.ok THEN [status EXCEPT ![r] = "LAST_ACK"] ELSE status
      BY <1>5 DEF FinDuringRecv
    <2>2. pc[r] = "recv" /\ RecvReturns(r, buffer[r] \o <<>>, totalReceived[r])
      BY <1>1, <1>5 DEF FinDuringRecv
    <2>3. Grows
      <3>1. status' = status \/ \E v \in Status \ {"ESTABLISHED"} :
                                    status' = [status EXCEPT ![r] = v]
        BY <2>1 DEF Status
      <3> QED BY <1>1, <2>2, <3>1, RecvReturnsGrows
    <2>4. inbox[r] # <<>>
      BY <1>1, <1>5, ReturnedTyped DEF FinDuringRecv
    <2>5. CASE result.ok
      <3>1. status'[r] = "LAST_ACK" /\ status'[Sender] = status[Sender]
        BY <1>1, <2>1, <2>5, Nodes DEF LocalInv
      <3>2. length'[r] # 0
        BY <3>1 DEF LocalInv, Engaged
      <3> QED BY <1>1, <2>3, <3>1, <3>2, ClosingReplies
    <2>6. CASE ~result.ok
      <3>1. result.wire \in PartialWire(finAck) /\ ~HasPayload(finAck)
        BY <2>6, ControlTyped, SendResultsTyped, SegmentAssumption DEF UInt32, HasPayload
      <3>2. result.wire = <<>>
        BY <3>1 DEF PartialWire
      <3> QED BY <1>1, <2>1, <2>3, <2>4, <2>6, <3>2, SilentReplies
    <2> QED BY <2>5, <2>6
  <1>6. CASE IgnoreDuringRecv(r)
    <2>1. Consume(r) /\ status' = status /\ UNCHANGED recvVars
      BY <1>6 DEF IgnoreDuringRecv
    <2>2. Grows
      BY <1>1, <2>1, QuietGrows
    <2>3. inbox[r] # <<>>
      BY <1>1, <1>6, ReturnedTyped DEF IgnoreDuringRecv
    <2> QED BY <1>1, <2>1, <2>2, <2>3, SilentReplies DEF Consume
  <1>7. CASE TimeoutDuringRecv(r)
    <2>1. /\ pc[r] = "recv" /\ RecvReturns(r, buffer[r] \o <<>>, totalReceived[r])
          /\ status' = status /\ inbox' = inbox
      BY <1>1, <1>7 DEF TimeoutDuringRecv, socketVars
    <2>2. Grows
      BY <1>1, <2>1, RecvReturnsGrows
    <2> QED BY <1>1, <2>1, <2>2, SilentReplies
  <1>8. CASE CloseNext(r)
    BY <1>1, <1>8, CloseReplies
  <1> QED
    BY <1>2, <1>3, <1>4, <1>5, <1>6, <1>7, <1>8 DEF ReceiverNext

\* What is done from outside adds nothing to what the sender hears.
LEMMA OutsideReplies ==
    ASSUME NEW others, TransferInv, Channels', RepliesInv(others), OutsideNext
    PROVE  RepliesInv(others)'
  <1> USE DEF TransferInv
  <1>1. PICK n \in Node : Lose(n) \/ Duplicate(n) \/ Reorder(n) \/ Stop(n)
    BY DEF OutsideNext
  <1>2. UNCHANGED <<LAR, status, recvVars>>
    BY <1>1 DEF Lose, Duplicate, Reorder, Fault, Stop, handlerVars, socketVars, recvVars
  <1>3. Grows
    BY <1>2, QuietGrows
  <1>4. Sender \in Node /\ inbox \in [Node -> Seq(Packet)] /\ inbox[Sender] \in Seq(Heard(others))
    BY Nodes DEF Channels, QueuesOK, RepliesInv
  <1>5. CASE Lose(n) \/ Duplicate(n) \/ Reorder(n)
    <2>1. PICK queue : /\ inbox' = [inbox EXCEPT ![n] = queue]
                       /\ n = Sender => queue \in Seq(Heard(others))
      <3>1. CASE Lose(n)
        BY <1>4, <3>1, RemoveAtSeq DEF Lose, Fault
      <3>2. CASE Duplicate(n)
        <4>1. PICK i \in 1 .. Len(inbox[n]) : Fault(n, InsertAt(inbox[n], i, inbox[n][i]))
          BY <3>2 DEF Duplicate
        <4>2. n = Sender => inbox[n][i] \in Heard(others)
          BY <1>4
        <4> QED BY <1>4, <4>1, <4>2, InsertAtSeq DEF Fault
      <3>3. CASE Reorder(n)
        BY <1>4, <3>3, SwapSeq DEF Reorder, Fault
      <3> QED BY <1>5, <3>1, <3>2, <3>3
    <2>2. inbox'[Sender] \in Seq(Heard(others))
      <3>1. CASE n = Sender
        <4>1. inbox'[Sender] = queue
          BY <1>4, <2>1, <3>1
        <4> QED BY <2>1, <3>1, <4>1
      <3>2. CASE n # Sender
        <4>1. inbox'[Sender] = inbox[Sender]
          BY <1>4, <2>1, <3>2
        <4> QED BY <1>4, <4>1
      <3> QED BY <3>1, <3>2
    <2>3. inbox'[Sender] \in Seq(Heard(others)')
      BY <1>3, <2>2, HeardGrows, SeqMonotone
    <2> QED BY <1>2, <1>3, <2>3, RepliesFrom
  <1>6. CASE Stop(n)
    <2> DEFINE rest == [inbox EXCEPT ![n] = <<>>]
    <2>1. PICK wire \in IF pc[n] = "sendWindow" THEN PartialWire(Outgoing) ELSE {<<>>} :
            inbox' = Sent(rest, n, peerAddr[n], wire)
      BY <1>6 DEF Stop
    <2>2. /\ QueuesOK(rest)
          /\ n # Sender => rest[Sender] = inbox[Sender]
          /\ n = Sender => rest[Sender] = <<>>
      <3>1. <<>> \in Seq(Packet) /\ <<>> \in Seq(Expected(n))
        OBVIOUS
      <3> QED BY <1>4, <3>1, ReplacedChannels DEF Channels
    <2> HIDE DEF rest
    <2>3. inbox'[Sender] = rest[Sender]
      <3>1. CASE n = Sender
        <4>1. wire = <<>> \/ peerAddr[n] # Sender
          BY <2>1, <3>1, Nodes DEF Channels, Unpaired
        <4>2. CASE wire = <<>>
          BY <2>1, <4>2 DEF Sent
        <4> QED BY <2>1, <2>2, <4>1, <4>2, SentElsewhere
      <3>2. CASE n # Sender
        <4>1. wire = <<>>
          BY <2>1, <3>2, Nodes DEF LocalInv
        <4> QED BY <2>1, <4>1 DEF Sent
      <3> QED BY <3>1, <3>2
    <2>4. inbox'[Sender] \in Seq(Heard(others))
      <3>1. <<>> \in Seq(Heard(others))
        OBVIOUS
      <3> QED BY <1>4, <2>2, <2>3, <3>1
    <2>5. inbox'[Sender] \in Seq(Heard(others)')
      BY <1>3, <2>4, HeardGrows, SeqMonotone
    <2> QED BY <1>2, <1>3, <2>5, RepliesFrom
  <1> QED BY <1>1, <1>5, <1>6

\* At the start of a transfer nothing is under way.
LEMMA RepliesInit == Init => RepliesInv({})
  <1> SUFFICES ASSUME Init
               PROVE  RepliesInv({})
    OBVIOUS
  <1>1. inbox[Sender] = <<>> /\ LAR = 0
    BY Nodes DEF Init, NothingSent, HandlerInit
  <1>2. status[Sender] = "ESTABLISHED"
    BY Nodes DEF Init
  <1>3. <<>> \in Seq(Heard({}))
    OBVIOUS
  <1> QED BY <1>1, <1>2, <1>3, BeliefsRestated DEF RepliesInv

\* Every step keeps what is said of the replies.
LEMMA RepliesStep ==
    ASSUME NEW others, TransferInv, TransferInv', RepliesInv(others), [Next]_vars
    PROVE  RepliesInv(others)'
  <1>1. CASE UNCHANGED vars
    <2>1. UNCHANGED <<LAR, status, recvVars, inbox>>
      BY <1>1 DEF vars, handlerVars, socketVars
    <2>2. Grows
      BY <2>1, QuietGrows, Nodes DEF TransferInv
    <2> QED BY <2>1, <2>2, HeardKept, RepliesFrom DEF TransferInv
  <1> QED
    BY <1>1, SenderReplies, ReceiverReplies, OutsideReplies
    DEF Next, Terminated, TransferInv

\* The replies under way and what the sender believes are always as RepliesInv says.
THEOREM RepliesTrue == Spec => []RepliesInv({})
  <1>1. TransferInv /\ TransferInv' /\ RepliesInv({}) /\ [Next]_vars => RepliesInv({})'
    BY RepliesStep
  <1> QED BY <1>1, RepliesInit, TransferInvariant, PTL DEF Spec

\* In a transfer on its own the sender's LAR is always the number of a segment
\* that a receiver has stored, whatever is lost, repeated, reordered or stopped,
\* at least until a receiver starts to close (socket.cpp:261-264, 306-307).
THEOREM AcksAreStored == Spec => []AckOnlyStored
  <1>1. RepliesInv({}) => AckOnlyStored
    BY BeliefsRestated DEF RepliesInv
  <1> QED BY <1>1, RepliesTrue, PTL

\* The sender is in CLOSE_WAIT only when a receiver has begun to close, however
\* often and however late its segments come (socket.cpp:244-257, 348-354).
THEOREM CloseWaitIsTrue == Spec => []CloseWaitMeansPeerCloses
  <1>1. RepliesInv({}) => CloseWaitMeansPeerCloses
    BY DEF RepliesInv
  <1> QED BY <1>1, RepliesTrue, PTL


-----------------------------------------------------------------------------
(***************************************************************************)
(* What recv counts is what it has stored.                                 *)
(***************************************************************************)
\* The sizes of the pieces, and what they come to.
SizesOf(chunks) == [i \in DOMAIN chunks |-> chunks[i].size]
StoredBytes(chunks) == Total(SizesOf(chunks))

StoredInv == \A r \in Receivers : totalReceived[r] = StoredBytes(buffer[r])

\* An empty buffer holds no bytes, and a piece adds its size.
LEMMA BytesStored ==
    /\ StoredBytes(<<>>) = 0
    /\ \A chunks \in Seq(Chunk), chunk \in Chunk :
         StoredBytes(Append(chunks, chunk)) = StoredBytes(chunks) + chunk.size
  <1>1. StoredBytes(<<>>) = 0
    <2>1. SizesOf(<<>>) \in [1 .. 0 -> Nat]
      BY DEF SizesOf
    <2> QED BY <2>1, TotalOfNone DEF StoredBytes
  <1>2. ASSUME NEW chunks \in Seq(Chunk), NEW chunk \in Chunk
        PROVE  StoredBytes(Append(chunks, chunk)) = StoredBytes(chunks) + chunk.size
    <2> DEFINE m    == Len(chunks)
               all  == Append(chunks, chunk)
    <2>1. /\ m \in Nat /\ DOMAIN chunks = 1 .. m /\ DOMAIN all = 1 .. m + 1
          /\ \A j \in 1 .. m : all[j] = chunks[j]
          /\ all[m + 1] = chunk
          /\ \A j \in 1 .. m : chunks[j] \in Chunk
      OBVIOUS
    <2> HIDE DEF m, all
    <2>2. \A c \in Chunk : c.size \in Nat
      BY SegmentAssumption DEF Chunk, UInt32
    <2>3. /\ SizesOf(chunks) \in [1 .. m -> Nat]
          /\ SizesOf(all) \in [1 .. m + 1 -> Nat]
          /\ \A j \in 1 .. m : SizesOf(all)[j] = SizesOf(chunks)[j]
          /\ SizesOf(all)[m + 1] = chunk.size
      <3>1. SizesOf(chunks) \in [1 .. m -> Nat]
        BY <2>1, <2>2 DEF SizesOf
      <3>2. \A j \in 1 .. m + 1 : j \in 1 .. m \/ j = m + 1
        BY <2>1
      <3>3. SizesOf(all) \in [1 .. m + 1 -> Nat]
        BY <2>1, <2>2, <3>2 DEF SizesOf
      <3>4. \A j \in 1 .. m : j \in 1 .. m + 1
        BY <2>1
      <3>5. \A j \in 1 .. m : SizesOf(all)[j] = SizesOf(chunks)[j]
        BY <2>1, <3>4 DEF SizesOf
      <3>6. m + 1 \in 1 .. m + 1
        BY <2>1
      <3>7. SizesOf(all)[m + 1] = chunk.size
        BY <2>1, <3>6 DEF SizesOf
      <3> QED BY <3>1, <3>3, <3>5, <3>7
    <2>4. Total(SizesOf(all)) = Total(SizesOf(chunks)) + SizesOf(all)[m + 1]
      BY <2>1, <2>3, TotalAppended
    <2> QED BY <2>3, <2>4 DEF StoredBytes, all
  <1> QED BY <1>1, <1>2

\* What does not change a buffer or its count keeps them equal.
LEMMA StoredKept ==
    ASSUME StoredInv, UNCHANGED <<totalReceived, buffer>>
    PROVE  StoredInv'
  BY DEF StoredInv

\* A call of recv that returns leaves an empty buffer and a count of 0.
LEMMA ReturnStores ==
    ASSUME LocalInv, StoredInv, NEW r \in Receivers, NEW chunks, NEW total,
           RecvReturns(r, chunks, total)
    PROVE  StoredInv'
  <1>1. /\ buffer' = [buffer EXCEPT ![r] = <<>>]
        /\ totalReceived' = [totalReceived EXCEPT ![r] = 0]
    BY DEF RecvReturns
  <1>2. ASSUME NEW q \in Receivers
        PROVE  totalReceived'[q] = StoredBytes(buffer'[q])
    <2>1. CASE q = r
      BY <1>1, <2>1, BytesStored DEF LocalInv
    <2>2. CASE q # r
      BY <1>1, <2>2 DEF LocalInv, StoredInv
    <2> QED BY <2>1, <2>2
  <1> QED BY <1>2 DEF StoredInv

\* A segment that is stored adds its size to both.
LEMMA SegmentStores ==
    ASSUME TransferInv, StoredInv, NEW r \in Receivers, StoreSegment(r)
    PROVE  StoredInv'
  <1>1. PICK s \in Returned(r) :
          /\ Fits(r, s)
          /\ LET stored == Append(buffer[r], [seqNum |-> s.seqNum, size |-> s.payloadSize,
                                              data |-> s.data])
                 total  == totalReceived[r] + s.payloadSize
             IN  IF s.payloadSize < MSS
                 THEN RecvReturns(r, stored, total)
                 ELSE /\ buffer' = [buffer EXCEPT ![r] = stored]
                      /\ totalReceived' = [totalReceived EXCEPT ![r] = total]
    BY DEF StoreSegment
  <1> DEFINE chunk == [seqNum |-> s.seqNum, size |-> s.payloadSize, data |-> s.data]
             total == totalReceived[r] + s.payloadSize
  <1>2. CASE s.payloadSize < MSS
    <2>1. RecvReturns(r, Append(buffer[r], chunk), total)
      BY <1>1, <1>2
    <2> HIDE DEF chunk, total
    <2> QED BY <2>1, ReturnStores DEF TransferInv
  <1>3. CASE ~(s.payloadSize < MSS)
    <2>1. /\ buffer' = [buffer EXCEPT ![r] = Append(buffer[r], chunk)]
          /\ totalReceived' = [totalReceived EXCEPT ![r] = total]
      BY <1>1, <1>3
    <2>2. chunk \in Chunk /\ chunk.size = s.payloadSize
      BY <1>1, ReturnedToReceiver DEF Fits, Chunk, Segment, TransferInv
    <2> HIDE DEF chunk
    <2>3. ASSUME NEW q \in Receivers
          PROVE  totalReceived'[q] = StoredBytes(buffer'[q])
      <3>1. CASE q = r
        <4>1. buffer[r] \in Seq(Chunk) /\ totalReceived[r] = StoredBytes(buffer[r])
          BY DEF TransferInv, LocalInv, StoredInv
        <4>2. StoredBytes(Append(buffer[r], chunk)) = StoredBytes(buffer[r]) + chunk.size
          BY <4>1, <2>2, BytesStored
        <4>3. totalReceived'[q] = total /\ buffer'[q] = Append(buffer[r], chunk)
          BY <2>1, <3>1 DEF TransferInv, LocalInv
        <4> QED BY <4>1, <4>2, <4>3, <2>2
      <3>2. CASE q # r
        BY <2>1, <3>2 DEF TransferInv, LocalInv, StoredInv
      <3> QED BY <3>1, <3>2
    <2> QED BY <2>3 DEF StoredInv
  <1> QED BY <1>2, <1>3

\* Every step keeps the counts equal to what is stored.
LEMMA StoredStep ==
    ASSUME TransferInv, StoredInv, [Next]_vars
    PROVE  StoredInv'
  <1> USE DEF TransferInv
  <1>1. CASE UNCHANGED vars \/ Terminated
    BY <1>1, StoredKept DEF vars, recvVars, Terminated
  <1>2. CASE SenderNext
    BY <1>2, StoredKept
    DEF SenderNext, StartSend, SendThrows, NextWindow, SendSegment, ReplyDuringSend,
        FinDuringSend, CloseNext, CloseActive, ClosePassive, CloseAtOnce,
        FinAckInFinWait, AckInCloseWait, OtherInClose, TimeoutInClose, recvVars
  <1>3. ASSUME NEW r \in Receivers, ReceiverNext(r)
        PROVE  StoredInv'
    <2>1. CASE AwaitPayload(r) \/ PayloadThrows(r) \/ RecvThrows(r) \/ IgnoreDuringRecv(r)
      BY <2>1, StoredKept
      DEF AwaitPayload, PayloadThrows, TakeHeader, RecvThrows, IgnoreDuringRecv, recvVars
    <2>2. CASE StoreSegment(r)
      BY <2>2, SegmentStores
    <2>3. CASE FinDuringRecv(r) \/ TimeoutDuringRecv(r)
      <3>1. RecvReturns(r, buffer[r], totalReceived[r])
        BY <2>3 DEF FinDuringRecv, TimeoutDuringRecv
      <3> QED BY <3>1, ReturnStores
    <2>4. CASE CloseNext(r)
      BY <2>4, StoredKept
      DEF CloseNext, CloseActive, ClosePassive, CloseAtOnce, FinAckInFinWait,
          AckInCloseWait, OtherInClose, TimeoutInClose, recvVars
    <2> QED BY <1>3, <2>1, <2>2, <2>3, <2>4 DEF ReceiverNext
  <1>4. CASE OutsideNext
    BY <1>4, StoredKept
    DEF OutsideNext, Lose, Duplicate, Reorder, Fault, Stop, recvVars
  <1> QED BY <1>1, <1>2, <1>3, <1>4 DEF Next

\* Whatever the network does and whatever fails, recv has counted exactly the
\* bytes it has stored since the call, and they fit in its buffer
\* (socket.cpp:282-303).
THEOREM StoresWithinBuffer == Spec => []StoredFits
  <1>1. Init => StoredInv
    BY BytesStored DEF Init, NothingSent, StoredInv
  <1>2. TransferInv /\ StoredInv /\ [Next]_vars => StoredInv'
    BY StoredStep
  <1>3. TransferInv /\ StoredInv => StoredFits
    BY DEF TransferInv, LocalInv, StoredInv, StoredFits, StoredBytes, SizesOf
  <1> QED BY <1>1, <1>2, <1>3, TransferInvariant, PTL DEF Spec
=============================================================================
