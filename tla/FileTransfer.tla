---------------------------- MODULE FileTransfer ----------------------------
(***************************************************************************)
(* A transfer from its first data segment to the closed sockets: the loops *)
(* of TCPSocket::send, recv and close (src/socket.cpp), the loop of        *)
(* runReceiver around recv (src/main.cpp) and the sender's SegmentHandler, *)
(* over the UDP channels between the sender and the receivers.  Spec       *)
(* starts when the handshake with one receiver is over; module Session     *)
(* puts the handshake before it.                                           *)
(*                                                                         *)
(* A segment with a payload travels as two datagrams, and receiveSegment   *)
(* takes whatever datagram comes first for a header, and whatever comes    *)
(* next for its payload.  The blocking receive of the header has no        *)
(* timeout, the receive of the payload has one of a second.                *)
(***************************************************************************)
EXTENDS SegmentHandler, SequencesExt, Sums

CONSTANTS
    Sender,      \* the address of the sender
    Receivers,   \* the addresses of the receivers
    NoPeer,      \* the value of peerAddr while peerAddrSet is false
    Sizes,       \* the sizes of the sender's input, of any number of bytes
    Capacity,    \* the first recv's length (1460*1460*1007 in the code)
    MaxFaults,   \* bound: how many faults of the network are explored
    MayStop,     \* a process may be stopped from outside
    MayBeLate    \* the clocks run: a payload may take more than a second, and
                 \* five seconds may pass in a loop of close

ASSUME TransferAssumption ==
    /\ Sender \notin Receivers
    /\ NoPeer \notin Receivers \cup {Sender}
    /\ Sizes \subseteq Nat
    /\ Capacity \in UInt32 \ {0}
    /\ MaxFaults \in Nat
    /\ {MayStop, MayBeLate} \subseteq BOOLEAN

VARIABLES
    status,          \* the TCPStatusEnum of each socket
    peerAddr,        \* the peerAddr of each socket
    pc,              \* the loop or call each process is in
    inbox,           \* the packets on their way to each socket, in order
    pending,         \* the header whose payload receiveSegment waits for
    helper,          \* 0 before the first advanceWindow, 1 after it
    turn,            \* the i of the two loops of send
    isFile,          \* the user sends a file, not a line of text
    length,          \* recv's parameter, 0 before the first call
    totalReceived,   \* recv's count of bytes
    buffer,          \* what this recv has stored
    totalBuffer,     \* what runReceiver has collected
    saved,           \* runReceiver has written the file
    faults           \* the faults of the network so far

socketVars == <<status, peerAddr>>
sendVars   == <<helper, turn>>
recvVars   == <<length, totalReceived, buffer, totalBuffer, saved>>
vars       == <<handlerVars, sendVars, recvVars, socketVars, pc, inbox, pending, isFile, faults>>

Node == {Sender} \cup Receivers

NoSegment == ControlSegment({}, 0, 0)

\* A datagram and the address it comes from.
Packet == [from : Node, body : Datagram]

\* A piece of a receiver's buffer: what the header said and what it holds.
Chunk == [seqNum : UInt32, size : UInt32, data : UInt32 \cup {JunkData}]

\* What is the same at the start of a session and at the start of a transfer.
NothingSent ==
    /\ HandlerInit
    /\ inbox = [n \in Node |-> <<>>]
    /\ pending = [n \in Node |-> NoSegment]
    /\ helper = 0
    /\ turn = 1
    /\ totalReceived = [r \in Receivers |-> 0]
    /\ buffer = [r \in Receivers |-> <<>>]
    /\ totalBuffer = [r \in Receivers |-> <<>>]
    /\ saved = [r \in Receivers |-> FALSE]
    /\ faults = 0

Init ==
    /\ NothingSent
    /\ isFile \in BOOLEAN
    /\ \E peer \in Receivers :
         /\ status = [n \in Node |-> IF n \in {Sender, peer} THEN "ESTABLISHED" ELSE "CLOSED"]
         /\ peerAddr = [n \in Node |-> CASE n = Sender -> peer [] n = peer -> Sender
                                         [] OTHER -> NoPeer]
         /\ pc = [n \in Node |-> CASE n = Sender -> "setup" [] n = peer -> "recv"
                                   [] OTHER -> "menu"]
         /\ length = [r \in Receivers |-> IF r = peer THEN Capacity ELSE 0]

-----------------------------------------------------------------------------
(***************************************************************************)
(* sendSegment and receiveSegment.                                         *)
(***************************************************************************)

\* Mutations of definitions below, each a slip the code could have had: TLC must
\* find that it breaks the property it is named with in PROJECT.json.
OutgoingReversed    == window[WindowSize + 1 - turn]
IsFinOrAck(s)       == "ack" \in s.flags
FitsAnything(r, s)  == s.payloadSize > 0
AckOfSwapped(s)     == ack(s.seqNum, (s.seqNum + s.payloadSize) % U32)
LastAckUnflagged(s) == ControlSegment({}, 0, s.seqNum)

CountReplyTwice ==
    IF turn < WindowSize - 1
    THEN turn' = turn + 1 /\ UNCHANGED pc
    ELSE turn' = 1 /\ pc' = [pc EXCEPT ![Sender] = "advance"]

CountReplyBeyond ==
    IF turn <= WindowSize
    THEN turn' = turn + 1 /\ UNCHANGED pc
    ELSE turn' = 1 /\ pc' = [pc EXCEPT ![Sender] = "advance"]

\* How a call of sendSegment may end: what it sent and what it returns.
SendResults(s) ==
    {[wire |-> Wire(s), ok |-> TRUE]} \cup
    IF MayFail THEN [wire : PartialWire(s), ok : {FALSE}] ELSE {}

\* Nothing reaches a socket that has no port yet, or that is closed.
Deaf(n) == pc[n] \in {"menu", "listen", "done", "stopped"}

\* The queues when n has sent wire to dst.
Sent(queues, n, dst, wire) ==
    IF wire = <<>> \/ Deaf(dst) THEN queues
    ELSE [queues EXCEPT ![dst] = @ \o [i \in DOMAIN wire |-> [from |-> n, body |-> wire[i]]]]

Post(n, wire) ==
    /\ inbox' = Sent(inbox, n, peerAddr[n], wire)
    /\ UNCHANGED <<pending, peerAddr>>

Waiting(n) ==
    pc[n] \in {"accept", "awaitSynAck", "awaitAcks", "recv", "finWait", "closeWait"}

\* What the bytes of datagram d are as a header.
AsHeader(d) ==
    IF d.kind = "header" THEN {d.segment}
    ELSE {[s EXCEPT !.data = NoData] : s \in HeapSegments}

\* What the bytes of datagram d are as the payload announced by header h.
AsPayload(h, d) ==
    IF d.kind = "payload" /\ d.size = h.payloadSize THEN d.data ELSE JunkData

\* The segments that receiveSegment at n may return from the next packet.
Returned(n) ==
    IF ~Waiting(n) \/ inbox[n] = <<>> THEN {}
    ELSE IF pending[n] = NoSegment
         THEN {s \in AsHeader(Head(inbox[n]).body) : s.payloadSize = 0}
         ELSE {[pending[n] EXCEPT !.data = AsPayload(pending[n], Head(inbox[n]).body)]}

\* send and close let receiveSegment write the source of each packet over
\* peerAddr; it then copies peerAddr onto itself.
PeerAfterReceive(n) ==
    IF pc[n] \in {"awaitAcks", "finWait", "closeWait"} THEN Head(inbox[n]).from
    ELSE peerAddr[n]

\* receiveSegment at n has returned a segment; n takes addr for its peer and
\* answers it with wire.
AnswerTo(n, addr, wire) ==
    /\ peerAddr' = [peerAddr EXCEPT ![n] = addr]
    /\ inbox' = Sent([inbox EXCEPT ![n] = Tail(@)], n, addr, wire)
    /\ pending' = [pending EXCEPT ![n] = NoSegment]

Answer(n, wire) == AnswerTo(n, PeerAfterReceive(n), wire)

Consume(n) == Answer(n, <<>>)

\* The headers with a payload to come that receiveSegment at n may read next.
Announced(n) ==
    IF inbox[n] = <<>> THEN {}
    ELSE {s \in AsHeader(Head(inbox[n]).body) : s.payloadSize > 0}

TakeHeader(n) ==
    /\ Waiting(n)
    /\ pending[n] = NoSegment
    /\ Announced(n) # {}
    /\ peerAddr' = [peerAddr EXCEPT ![n] = PeerAfterReceive(n)]
    /\ inbox' = [inbox EXCEPT ![n] = Tail(@)]
    /\ UNCHANGED <<handlerVars, sendVars, recvVars, status, isFile, faults>>

AwaitPayload(n) ==
    /\ TakeHeader(n)
    /\ \E s \in Announced(n) : pending' = [pending EXCEPT ![n] = s]
    /\ UNCHANGED pc

\* There is no memory for the payload: the exception leaves the caller, and the
\* destructor of the socket calls close.
PayloadThrows(n) ==
    /\ MayFail
    /\ TakeHeader(n)
    /\ pc' = [pc EXCEPT ![n] = "close"]
    /\ UNCHANGED pending

\* The receive of the payload times out: receiveSegment returns -1.
PayloadTimeout(n) ==
    /\ pending[n] # NoSegment
    /\ inbox[n] = <<>> \/ MayBeLate
    /\ pending' = [pending EXCEPT ![n] = NoSegment]

-----------------------------------------------------------------------------
(***************************************************************************)
(* TCPSocket::send, which only returns through a FIN or an empty buffer.   *)
(***************************************************************************)
\* dataSize is a uint32_t: of a larger input only the rest is sent.
StartSend ==
    /\ pc[Sender] = "setup"
    /\ \E size \in Sizes : (isFile => size > 0) /\ setDataStream(size % U32)
    /\ pc' = [pc EXCEPT ![Sender] = "advance"]
    /\ UNCHANGED <<sendVars, recvVars, socketVars, inbox, pending, isFile, faults>>

\* There is no memory for the segments or for a window of them: the destructor
\* of the socket calls close, and nothing reads the handler again.
SendThrows ==
    /\ MayFail
    /\ \/ pc[Sender] = "setup" /\ \E size \in Sizes : size % U32 # 0
       \/ pc[Sender] = "advance" /\ bufLen > 0 /\ ~spinning
    /\ pc' = [pc EXCEPT ![Sender] = "close"]
    /\ UNCHANGED <<handlerVars, sendVars, recvVars, socketVars, inbox, pending, isFile, faults>>

NextWindow ==
    /\ pc[Sender] = "advance"
    /\ status[Sender] = "ESTABLISHED"
    /\ ~spinning
    /\ advanceWindow(helper)
    /\ helper' = 1
    /\ turn' = 1
    /\ pc' = [pc EXCEPT ![Sender] = IF window' = <<>> THEN "close" ELSE "sendWindow"]
    /\ UNCHANGED <<recvVars, socketVars, inbox, pending, isFile, faults>>

Outgoing == window[turn]

SendSegment ==
    /\ pc[Sender] = "sendWindow"
    /\ \E result \in SendResults(Outgoing) : Post(Sender, result.wire)
    /\ IF turn < WindowSize
       THEN turn' = turn + 1 /\ UNCHANGED pc
       ELSE turn' = 1 /\ pc' = [pc EXCEPT ![Sender] = "awaitAcks"]
    /\ UNCHANGED <<handlerVars, helper, recvVars, status, isFile, faults>>

\* The loop waits for WindowSize segments, whatever they are.
CountReply ==
    IF turn < WindowSize
    THEN turn' = turn + 1 /\ UNCHANGED pc
    ELSE turn' = 1 /\ pc' = [pc EXCEPT ![Sender] = "advance"]

IsFin(s) == "fin" \in s.flags

\* The generateSegments of handleAck still has data to cut, and finds no memory.
HandleAckThrows ==
    /\ MayFail
    /\ LAR' # LAR
    /\ dataIndex' = dataIndex
    /\ dataIndex < dataSize /\ bufLen' < WindowSize

\* Only what the constructors built reaches the sender here, and its checksum
\* is valid.
ReplyDuringSend ==
    /\ pc[Sender] = "awaitAcks"
    /\ \E s \in Returned(Sender) :
         /\ ~IsFin(s)
         /\ IF "ack" \in s.flags THEN handleAck(s.ackNum) ELSE UNCHANGED handlerVars
    /\ Consume(Sender)
    /\ \/ CountReply
       \/ HandleAckThrows /\ pc' = [pc EXCEPT ![Sender] = "close"] /\ UNCHANGED turn
    /\ UNCHANGED <<helper, recvVars, status, isFile, faults>>

FinDuringSend ==
    /\ pc[Sender] = "awaitAcks"
    /\ \E s \in Returned(Sender) : IsFin(s)
    /\ \E result \in SendResults(finAck) :
         /\ Answer(Sender, result.wire)
         /\ IF result.ok
            THEN /\ status' = [status EXCEPT ![Sender] = "CLOSE_WAIT"]
                 /\ pc' = [pc EXCEPT ![Sender] = "close"]
                 /\ UNCHANGED turn
            ELSE CountReply /\ UNCHANGED status
    /\ UNCHANGED <<handlerVars, helper, recvVars, isFile, faults>>

-----------------------------------------------------------------------------
(***************************************************************************)
(* TCPSocket::recv and the loop of runReceiver that calls it.              *)
(***************************************************************************)

\* The name and size of the file are in front of its bytes, in its first segment.
HasMetadata(chunks) == isFile /\ \E i \in 1 .. Len(chunks) : chunks[i].data = 0

Outcomes == IF MayFail THEN BOOLEAN ELSE {TRUE}

(***************************************************************************)
(* recv returns total bytes, the chunks, and leaves the status it has now. *)
(* runReceiver appends them.  When they bring the metadata it parses what  *)
(* precedes the delimiter, which throws when that is not what the sender   *)
(* put there.  Less than a full segment is taken for the end of the data.  *)
(***************************************************************************)
RecvReturns(r, chunks, total) ==
    LET all     == totalBuffer[r] \o chunks
        found   == HasMetadata(all)
        goesOn  == total >= MSS /\ status'[r] = "ESTABLISHED"
        newFile == found /\ ~HasMetadata(totalBuffer[r])
        throws  == IF newFile /\ all[1].data # 0 THEN BOOLEAN ELSE {FALSE}
    IN  /\ totalBuffer' = [totalBuffer EXCEPT ![r] = all]
        /\ buffer' = [buffer EXCEPT ![r] = <<>>]
        /\ totalReceived' = [totalReceived EXCEPT ![r] = 0]
        /\ \E thrown \in throws, written \in Outcomes :
             /\ saved' = [saved EXCEPT ![r] = found /\ total < MSS /\ ~thrown /\ written]
             /\ IF goesOn /\ ~thrown
                THEN length' = [length EXCEPT ![r] = total] /\ UNCHANGED pc
                ELSE pc' = [pc EXCEPT ![r] = "close"] /\ UNCHANGED length

\* The segment has a payload, and there is room for it.
Fits(r, s) == s.payloadSize > 0 /\ s.payloadSize <= length[r] - totalReceived[r]

\* The acknowledgment carries the segment's own number, not the next one's.
AckOf(s) == ack((s.seqNum + s.payloadSize) % U32, s.seqNum)

StoreSegment(r) ==
    /\ pc[r] = "recv"
    /\ \E s \in Returned(r) :
         LET stored == Append(buffer[r], [seqNum |-> s.seqNum, size |-> s.payloadSize,
                                          data |-> s.data])
             total  == totalReceived[r] + s.payloadSize
         IN  /\ Fits(r, s)
             /\ \E result \in SendResults(AckOf(s)) : Answer(r, result.wire)
             /\ UNCHANGED status
             /\ IF s.payloadSize < MSS
                THEN RecvReturns(r, stored, total)
                ELSE /\ buffer' = [buffer EXCEPT ![r] = stored]
                     /\ totalReceived' = [totalReceived EXCEPT ![r] = total]
                     /\ UNCHANGED <<pc, length, totalBuffer, saved>>
    /\ UNCHANGED <<handlerVars, sendVars, isFile, faults>>

FinDuringRecv(r) ==
    /\ pc[r] = "recv"
    /\ \E s \in Returned(r) : ~Fits(r, s) /\ IsFin(s)
    /\ \E result \in SendResults(finAck) :
         /\ Answer(r, result.wire)
         /\ status' = IF result.ok THEN [status EXCEPT ![r] = "LAST_ACK"] ELSE status
    /\ RecvReturns(r, buffer[r], totalReceived[r])
    /\ UNCHANGED <<handlerVars, sendVars, isFile, faults>>

IgnoreDuringRecv(r) ==
    /\ pc[r] = "recv"
    /\ \E s \in Returned(r) : ~Fits(r, s) /\ ~IsFin(s)
    /\ Consume(r)
    /\ UNCHANGED <<handlerVars, sendVars, recvVars, status, pc, isFile, faults>>

\* There is no memory for the room that a call of recv starts with.
RecvThrows(r) ==
    /\ MayFail
    /\ pc[r] = "recv"
    /\ totalReceived[r] = 0
    /\ pending[r] = NoSegment
    /\ pc' = [pc EXCEPT ![r] = "close"]
    /\ UNCHANGED <<handlerVars, sendVars, recvVars, socketVars, inbox, pending, isFile, faults>>

TimeoutDuringRecv(r) ==
    /\ pc[r] = "recv"
    /\ PayloadTimeout(r)
    /\ UNCHANGED socketVars
    /\ RecvReturns(r, buffer[r], totalReceived[r])
    /\ UNCHANGED <<handlerVars, sendVars, inbox, isFile, faults>>

-----------------------------------------------------------------------------
(***************************************************************************)
(* TCPSocket::close, of either socket.  The five seconds are only looked   *)
(* at between two calls of receiveSegment, which clears the timeout that   *)
(* close has set.                                                          *)
(***************************************************************************)
Closed(n) ==
    /\ status' = [status EXCEPT ![n] = "CLOSED"]
    /\ pc' = [pc EXCEPT ![n] = "done"]

\* The loop goes on, unless its time is up.
WaitOn(n) ==
    \/ UNCHANGED <<status, pc>>
    \/ MayBeLate /\ Closed(n)

CloseActive(n) ==
    /\ pc[n] = "close"
    /\ status[n] = "ESTABLISHED"
    /\ \E result \in SendResults(fin) :
         /\ Post(n, result.wire)
         /\ IF result.ok
            THEN /\ status' = [status EXCEPT ![n] = "FIN_WAIT_1"]
                 /\ pc' = [pc EXCEPT ![n] = "finWait"]
            ELSE Closed(n)
    /\ UNCHANGED <<handlerVars, sendVars, recvVars, isFile, faults>>

ClosePassive(n) ==
    /\ pc[n] = "close"
    /\ status[n] = "CLOSE_WAIT"
    /\ pc' = [pc EXCEPT ![n] = "closeWait"]
    /\ UNCHANGED <<handlerVars, sendVars, recvVars, socketVars, inbox, pending, isFile, faults>>

\* A receiver that has answered a FIN does not wait for the last ACK.
CloseAtOnce(n) ==
    /\ pc[n] = "close"
    /\ status[n] \notin {"ESTABLISHED", "CLOSE_WAIT"}
    /\ Closed(n)
    /\ UNCHANGED <<handlerVars, sendVars, recvVars, peerAddr, inbox, pending, isFile, faults>>

LastAck(s) == ack((s.seqNum + 1) % U32, s.seqNum)

\* Whether the last ACK can be sent or not, the loop ends.
FinAckInFinWait(n) ==
    /\ pc[n] = "finWait"
    /\ \E s \in Returned(n) :
         /\ {"fin", "ack"} \subseteq s.flags
         /\ \E result \in SendResults(LastAck(s)) :
              Answer(n, result.wire)
    /\ Closed(n)
    /\ UNCHANGED <<handlerVars, sendVars, recvVars, isFile, faults>>

AckInCloseWait(n) ==
    /\ pc[n] = "closeWait"
    /\ \E s \in Returned(n) : "ack" \in s.flags
    /\ Consume(n)
    /\ Closed(n)
    /\ UNCHANGED <<handlerVars, sendVars, recvVars, isFile, faults>>

OtherInClose(n) ==
    /\ \E s \in Returned(n) :
         \/ pc[n] = "finWait" /\ ~({"fin", "ack"} \subseteq s.flags)
         \/ pc[n] = "closeWait" /\ "ack" \notin s.flags
    /\ Consume(n)
    /\ WaitOn(n)
    /\ UNCHANGED <<handlerVars, sendVars, recvVars, isFile, faults>>

TimeoutInClose(n) ==
    /\ pc[n] \in {"finWait", "closeWait"}
    /\ PayloadTimeout(n)
    /\ WaitOn(n)
    /\ UNCHANGED <<handlerVars, sendVars, recvVars, peerAddr, inbox, isFile, faults>>

-----------------------------------------------------------------------------
(***************************************************************************)
(* The network, processes that are stopped, and the whole system.          *)
(***************************************************************************)
Fault(n, queue) ==
    /\ faults < MaxFaults
    /\ faults' = faults + 1
    /\ inbox' = [inbox EXCEPT ![n] = queue]
    /\ UNCHANGED <<handlerVars, sendVars, recvVars, socketVars, pc, pending, isFile>>

Lose(n)      == \E i \in 1 .. Len(inbox[n]) : Fault(n, RemoveAt(inbox[n], i))
Duplicate(n) == \E i \in 1 .. Len(inbox[n]) : Fault(n, InsertAt(inbox[n], i, inbox[n][i]))
Reorder(n)   ==
    \E i \in 1 .. Len(inbox[n]) - 1 :
        Fault(n, [inbox[n] EXCEPT ![i] = inbox[n][i + 1], ![i + 1] = inbox[n][i]])

\* The process is killed, perhaps between the two datagrams of a segment.
Stop(n) ==
    /\ MayStop
    /\ pc[n] \notin {"menu", "done", "stopped"}
    /\ pc' = [pc EXCEPT ![n] = "stopped"]
    /\ \E wire \in IF pc[n] = "sendWindow" THEN PartialWire(Outgoing) ELSE {<<>>} :
         inbox' = Sent([inbox EXCEPT ![n] = <<>>], n, peerAddr[n], wire)
    /\ pending' = [pending EXCEPT ![n] = NoSegment]
    /\ UNCHANGED <<handlerVars, sendVars, recvVars, socketVars, isFile, faults>>

CloseNext(n) ==
    \/ CloseActive(n) \/ ClosePassive(n) \/ CloseAtOnce(n)
    \/ FinAckInFinWait(n) \/ AckInCloseWait(n) \/ OtherInClose(n)
    \/ TimeoutInClose(n)

SenderNext ==
    \/ StartSend \/ SendThrows \/ NextWindow \/ SendSegment
    \/ ReplyDuringSend \/ FinDuringSend
    \/ CloseNext(Sender)

ReceiverNext(r) ==
    \/ AwaitPayload(r) \/ PayloadThrows(r) \/ RecvThrows(r)
    \/ StoreSegment(r) \/ FinDuringRecv(r) \/ IgnoreDuringRecv(r)
    \/ TimeoutDuringRecv(r)
    \/ CloseNext(r)

OutsideNext == \E n \in Node : Lose(n) \/ Duplicate(n) \/ Reorder(n) \/ Stop(n)

AllDone     == \A n \in Node : pc[n] = "done"
SomeStopped == \E n \in Node : pc[n] = "stopped"

Terminated == (AllDone \/ SomeStopped) /\ UNCHANGED vars

Next == SenderNext \/ (\E r \in Receivers : ReceiverNext(r)) \/ OutsideNext \/ Terminated

Spec == Init /\ [][Next]_vars

\* Each process is one thread that the operating system keeps scheduling.
FairSpec == Spec /\ WF_vars(SenderNext) /\ \A r \in Receivers : WF_vars(ReceiverNext(r))

-----------------------------------------------------------------------------
(***************************************************************************)
(* Properties.                                                             *)
(***************************************************************************)
Status == {"CLOSED", "LISTEN", "SYN_SENT", "SYN_RECEIVED", "ESTABLISHED",
           "FIN_WAIT_1", "CLOSE_WAIT", "LAST_ACK"}

Place == {"menu", "listen", "accept", "awaitSynAck", "setup", "advance", "sendWindow",
          "awaitAcks", "recv", "close", "finWait", "closeWait", "done", "stopped"}

TypeOK ==
    /\ HandlerTypeOK
    /\ status \in [Node -> Status]
    /\ peerAddr \in [Node -> Node \cup {NoPeer}]
    /\ pc \in [Node -> Place]
    /\ \A n \in Node : inbox[n] \in Seq(Packet)
    /\ pending \in [Node -> Segment]
    /\ helper \in {0, 1}
    /\ turn \in 1 .. WindowSize
    /\ isFile \in BOOLEAN
    /\ length \in [Receivers -> 0 .. Capacity]
    /\ totalReceived \in [Receivers -> UInt32]
    /\ \A r \in Receivers : buffer[r] \in Seq(Chunk) /\ totalBuffer[r] \in Seq(Chunk)
    /\ saved \in [Receivers -> BOOLEAN]
    /\ faults \in 0 .. MaxFaults

\* Everything receiver r has stored, in the order of its buffers.
Received(r) == totalBuffer[r] \o buffer[r]

\* A receiver whose handshake is over: it has called recv.
Connected(r) == length[r] # 0

\* The pieces of the data, and how many there are.
Pieces == NumSegments(dataSize)

\* Whatever the network does, recv never writes behind the end of its buffer:
\* the bytes it counts are those it has stored since the call, and they fit in
\* the length it was called with, which is less in the second call than in the
\* first (socket.cpp:282-303, main.cpp:183).
StoredFits ==
    \A r \in Receivers :
        /\ totalReceived[r] = Total([i \in DOMAIN buffer[r] |-> buffer[r][i].size])
        /\ totalReceived[r] <= length[r]

\* The sender's LAR is never ahead of the receiver: whatever the network does,
\* it is the number of a segment that the receiver has stored, at least until
\* the receiver starts to close: the ACK of a FIN-ACK carries whatever number
\* that FIN-ACK had (socket.cpp:261-264, 306-307, 373-374).  This is said of a
\* transfer on its own.  In a session the ACK of the handshake may come a second
\* time, which README.md:71 says the program is designed for.
AckOnlyStored ==
    (\A r \in Receivers : Connected(r) => status[r] = "ESTABLISHED") =>
        LAR = 0 \/ \E r \in Receivers : \E i \in DOMAIN Received(r) :
                       Received(r)[i].seqNum = LAR

\* Neither a datagram that comes twice nor a late one makes the sender believe
\* that the receiver is closing: in CLOSE_WAIT its peer is no longer
\* ESTABLISHED (socket.cpp:244-257, 348-354).
CloseWaitMeansPeerCloses ==
    status[Sender] = "CLOSE_WAIT" =>
        \E r \in Receivers : Connected(r) /\ status[r] # "ESTABLISHED"

\* A saved file holds all the data, from its first segment to its last, and
\* without anything between them.  What follows them is not said.  So a sender
\* that is stopped in the middle leaves no file (README.md:79, main.cpp:220-238).
SavedHoldsFile ==
    \A r \in Receivers : saved[r] =>
        /\ Len(Received(r)) >= Pieces
        /\ \A i \in 1 .. Pieces : Received(r)[i].data = Offset(i)

\* How many headers are in a queue.
HeadersIn(queue) == Cardinality({i \in DOMAIN queue : queue[i].body.kind = "header"})

\* With one receiver: while the sender waits for the acknowledgments of a window
\* and the receiver has not stopped reading, every acknowledgment it waits for
\* is on its way or its segment is: the loop of send that counts to the window's
\* size cannot wait for one answer too many (socket.cpp:238-240).
RepliesAccounted ==
    \A r \in Receivers : (pc[Sender] = "awaitAcks" /\ pc[r] = "recv") =>
        LET halfRead == IF pending[r] # NoSegment THEN 1 ELSE 0
        IN  HeadersIn(inbox[Sender]) + HeadersIn(inbox[r]) + halfRead = WindowSize - turn + 1

\* The sender erases a segment only when a receiver has stored it.
ReleasedIsStored ==
    \A k \in 1 .. Dropped : \E r \in Receivers :
        \E i \in DOMAIN Received(r) : Received(r)[i].data = Offset(k)

\* The receiver, when there is one.
Receiver == CHOOSE r \in Receivers : TRUE

\* With one receiver, the transfer implements the promise of OrderedDelivery.
Promise ==
    INSTANCE OrderedDelivery WITH
        pieces    <- Pieces,
        delivered <- [i \in DOMAIN Received(Receiver) |->
                        Received(Receiver)[i].data \div MSS + 1],
        released  <- Dropped,
        saved     <- saved[Receiver]

DeliversInOrder == Promise!DeliverySpec

\* Every transfer ends, with both sockets closed and both processes gone on.
BothClose == <>(\A n \in Node : status[n] = "CLOSED" /\ pc[n] = "done")

\* README.md, "Sender Mode - File Transfer": the file is sent exactly as it is.
SavedIsFile ==
    \A r \in Receivers : saved[r] =>
        /\ Len(Received(r)) = Pieces
        /\ \A i \in 1 .. Pieces : Received(r)[i].data = Offset(i)
=============================================================================
