------------------------------ MODULE Session ------------------------------
(***************************************************************************)
(* The whole program: the processes that main starts as sender and as      *)
(* receivers (src/main.cpp), from their menus over TCPSocket::listen and   *)
(* doHandshake (src/socket.cpp) into the transfer of module FileTransfer.  *)
(* Module Handshake has the handshake alone, on a worse network.           *)
(***************************************************************************)
EXTENDS FileTransfer

CONSTANTS
    ISN      \* the results of generateSecureSequenceNumber

ASSUME SessionAssumption == ISN \subseteq UInt32

\* The sockets are made, and nobody has chosen anything.
SessionInit ==
    /\ NothingSent
    /\ isFile = FALSE
    /\ status = [n \in Node |-> "CLOSED"]
    /\ peerAddr = [n \in Node |-> NoPeer]
    /\ pc = [n \in Node |-> "menu"]
    /\ length = [r \in Receivers |-> 0]

-----------------------------------------------------------------------------
\* Mutations of definitions below, each a slip the code could have had: TLC must
\* find that it breaks the property it is named with in PROJECT.json.
SourceOfSyn == Head(inbox[Sender]).from

ConnectAtOnce(r) ==
    /\ pc[r] = "menu"
    /\ \E seqNum \in ISN : inbox' = Sent(inbox, r, Sender, Wire(syn(seqNum)))
    /\ status' = [status EXCEPT ![r] = "ESTABLISHED"]
    /\ pc' = [pc EXCEPT ![r] = "recv"]
    /\ length' = [length EXCEPT ![r] = Capacity]
    /\ peerAddr' = [peerAddr EXCEPT ![r] = Sender]
    /\ UNCHANGED <<handlerVars, sendVars, totalReceived, buffer, totalBuffer, saved,
                   pending, isFile, faults>>

-----------------------------------------------------------------------------
\* The sender.

\* The user chooses a line of text or a file, or something that is neither or a
\* file that cannot be read, and then the program ends.
RunSender ==
    /\ pc[Sender] = "menu"
    /\ isFile' \in BOOLEAN
    /\ \E next \in {"listen", "done"} : pc' = [pc EXCEPT ![Sender] = next]
    /\ UNCHANGED <<handlerVars, sendVars, recvVars, socketVars, inbox, pending, faults>>

\* When bind fails, the exception ends the program.
listen ==
    /\ pc[Sender] = "listen"
    /\ \E ok \in Outcomes :
         /\ status' = IF ok THEN [status EXCEPT ![Sender] = "LISTEN"] ELSE status
         /\ pc' = [pc EXCEPT ![Sender] = IF ok THEN "accept" ELSE "done"]
    /\ UNCHANGED <<handlerVars, sendVars, recvVars, peerAddr, inbox, pending, isFile, faults>>

\* Once there is a peer, receiveSegment puts it in the place of the source.
PeerOfSyn == IF peerAddr[Sender] = NoPeer THEN Head(inbox[Sender]).from ELSE peerAddr[Sender]

SynDuringAccept ==
    /\ pc[Sender] = "accept"
    /\ \E s \in Returned(Sender), seqNum \in ISN :
         /\ "syn" \in s.flags
         /\ \E result \in SendResults(SynAck(seqNum, Succ(s.seqNum))) :
              /\ AnswerTo(Sender, PeerOfSyn, result.wire)
              /\ status' = IF result.ok THEN [status EXCEPT ![Sender] = "SYN_RECEIVED"]
                                        ELSE status
    /\ UNCHANGED <<handlerVars, sendVars, recvVars, pc, isFile, faults>>

\* There is no number for the SYN-ACK: generateSecureSequenceNumber throws, and
\* the destructor of the socket calls close.
NumberThrows ==
    /\ MayFail
    /\ pc[Sender] = "accept"
    /\ \E s \in Returned(Sender) : "syn" \in s.flags
    /\ AnswerTo(Sender, PeerOfSyn, <<>>)
    /\ pc' = [pc EXCEPT ![Sender] = "close"]
    /\ UNCHANGED <<handlerVars, sendVars, recvVars, status, isFile, faults>>

CompletesHandshake(s) ==
    /\ status[Sender] = "SYN_RECEIVED"
    /\ "ack" \in s.flags

AckDuringAccept ==
    /\ pc[Sender] = "accept"
    /\ \E s \in Returned(Sender) : "syn" \notin s.flags /\ CompletesHandshake(s)
    /\ Consume(Sender)
    /\ status' = [status EXCEPT ![Sender] = "ESTABLISHED"]
    /\ pc' = [pc EXCEPT ![Sender] = "setup"]
    /\ UNCHANGED <<handlerVars, sendVars, recvVars, isFile, faults>>

OtherDuringAccept ==
    /\ pc[Sender] = "accept"
    /\ \E s \in Returned(Sender) : "syn" \notin s.flags /\ ~CompletesHandshake(s)
    /\ Consume(Sender)
    /\ UNCHANGED <<handlerVars, sendVars, recvVars, status, pc, isFile, faults>>

-----------------------------------------------------------------------------
\* A receiver.

\* The SYN is sent once, to whoever has the address the user gave.  Without it,
\* or without a number for it, the program ends.
Connect(r) ==
    /\ pc[r] = "menu"
    /\ \E seqNum \in ISN : \E result \in SendResults(syn(seqNum)) :
         /\ inbox' = Sent(inbox, r, Sender, result.wire)
         /\ status' = IF result.ok THEN [status EXCEPT ![r] = "SYN_SENT"] ELSE status
         /\ pc' = [pc EXCEPT ![r] = IF result.ok THEN "awaitSynAck" ELSE "done"]
    /\ peerAddr' = [peerAddr EXCEPT ![r] = Sender]
    /\ UNCHANGED <<handlerVars, sendVars, recvVars, pending, isFile, faults>>

IsSynAck(s) == {"syn", "ack"} \subseteq s.flags

\* The ACK is not sent again, unless its sendto fails and another SYN-ACK comes.
OnSynAck(r) ==
    /\ pc[r] = "awaitSynAck"
    /\ \E s \in Returned(r) :
         /\ IsSynAck(s)
         /\ \E result \in SendResults(ack(s.ackNum, Succ(s.seqNum))) :
              /\ Answer(r, result.wire)
              /\ IF result.ok
                 THEN /\ status' = [status EXCEPT ![r] = "ESTABLISHED"]
                      /\ pc' = [pc EXCEPT ![r] = "recv"]
                      /\ length' = [length EXCEPT ![r] = Capacity]
                 ELSE UNCHANGED <<status, pc, length>>
    /\ UNCHANGED <<handlerVars, sendVars, totalReceived, buffer, totalBuffer, saved,
                   isFile, faults>>

OtherInHandshake(r) ==
    /\ pc[r] = "awaitSynAck"
    /\ \E s \in Returned(r) : ~IsSynAck(s)
    /\ Consume(r)
    /\ UNCHANGED <<handlerVars, sendVars, recvVars, status, pc, isFile, faults>>

TimeoutInHandshake(r) ==
    /\ pc[r] = "awaitSynAck"
    /\ PayloadTimeout(r)
    /\ UNCHANGED <<handlerVars, sendVars, recvVars, socketVars, pc, inbox, isFile, faults>>

-----------------------------------------------------------------------------
UserNext == RunSender \/ \E r \in Receivers : Connect(r)

SenderThread ==
    \/ listen \/ SynDuringAccept \/ NumberThrows \/ AckDuringAccept \/ OtherDuringAccept
    \/ SenderNext

ReceiverThread(r) ==
    \/ OnSynAck(r) \/ OtherInHandshake(r) \/ TimeoutInHandshake(r)
    \/ ReceiverNext(r)

SessionNext ==
    \/ UserNext
    \/ SenderThread
    \/ \E r \in Receivers : ReceiverThread(r)
    \/ OutsideNext

SessionSpec == SessionInit /\ [][SessionNext]_vars

\* The threads keep running; the users may never answer a prompt.
SessionFairSpec ==
    SessionSpec /\ WF_vars(SenderThread) /\ \A r \in Receivers : WF_vars(ReceiverThread(r))

-----------------------------------------------------------------------------
\* However many receivers ask, before, during or after the transfer, at most
\* one of them considers itself connected (socket.cpp:131-147, 177-188).
OneReceives == \A q, r \in Receivers : Connected(q) /\ Connected(r) => q = r

\* What a second delivery of the handshake's ACK can do to the acknowledgments of
\* data: until a receiver starts to close, the sender's LAR is the number of a
\* segment that is stored, or the one after a number of the handshake, and no
\* third (socket.cpp:177-184, 258-264, 306-307).
AckStoredOrOfHandshake ==
    (\A r \in Receivers : Connected(r) => status[r] = "ESTABLISHED") =>
        \/ LAR = 0
        \/ \E seqNum \in ISN : LAR = Succ(seqNum)
        \/ \E r \in Receivers : \E i \in DOMAIN Received(r) : Received(r)[i].seqNum = LAR

\* With one receiver, the whole program keeps the promise of Connection: the
\* sender starts to send to a receiver that has called recv, or was stopped by
\* then, and keeps to it (socket.cpp:124-194, 240).
Agreement ==
    INSTANCE Connection WITH
        peer      <- peerAddr[Sender],
        connected <- {r \in Receivers : Connected(r) /\ pc[r] # "stopped"},
        gone      <- {r \in Receivers : pc[r] = "stopped"},
        sending   <- /\ peerAddr[Sender] # NoPeer
                     /\ status[Sender] \notin {"LISTEN", "SYN_RECEIVED"}

ConnectsAsAgreed == Agreement!ConnectionSpec

\* With one receiver and a network without faults: once the SYN of a receiver
\* reaches a sender that listens, the transfer takes place and both programs
\* end, unless somebody stops one of them (socket.cpp:124-408, main.cpp:85-90,
\* 167-246).
SessionEnds ==
    (status[Sender] = "LISTEN" /\ inbox[Sender] # <<>>) ~> (AllDone \/ SomeStopped)
=============================================================================
