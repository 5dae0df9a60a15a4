# Verification of the file transfer over UDP

TLA+ models of the program in `src/`, the TLC configurations that check them on
small instances, and proofs, checked by TLAPS, of what holds for every value of
the constants. Line numbers refer to the files in `src/`.

The program sends a file, or a line of text, from a **sender** to a **receiver**
over UDP, with a protocol written after TCP. The sender is the passive side: it
listens and the receiver connects to it. Each process is one thread.

## 1. The system

### Components

| Component | State it keeps | Operations | Model |
| --- | --- | --- | --- |
| Segment (`header/segment.hpp`, `segment.cpp`) | a packed struct of 38 bytes: ports, numbers, flags, window, checksum, `payload` pointer, `payloadSize` | `syn`, `ack`, `fin`, `finAck` (`synAck` is never called), `calculateChecksum`, `updateChecksum`, `isValidChecksum`, `generateSecureSequenceNumber` | `Segment`, `Checksum` |
| Segment handler (`segment_handler.cpp`) | `segmentBuffer`, `dataStream`, `dataSize`, `dataIndex`, `currentSeqNum`, `LAR`, `windowSize` | `setDataStream`, `generateSegments`, `advanceWindow`, `handleAck` | `SegmentHandler` |
| Socket, handshake (`socket.cpp:87-202`) | `status`, `peerAddr`, `peerAddrSet` | `listen`, `doHandshake` of either side | `Handshake` on any network, `Session` in front of the transfer |
| Socket, transfer (`socket.cpp:21-85, 204-342`) | the above, the handler, `recv`'s count of bytes | `sendSegment`, `receiveSegment`, `send`, `recv` | `FileTransfer` |
| Socket, termination (`socket.cpp:344-408`) | `status` | `close` of either side, the destructor | `FileTransfer` |
| Application (`main.cpp`) | the receiver's buffers, the length it gives `recv`, what the user chose | `main`, `runSender`, `runReceiver` | `Session`, `FileTransfer` |
| Node (`node.cpp`) | a socket | `run` | none: abstract, nothing derives from it |
| Broadcast discovery, `sendFile`, `recvFile`, `sendSegmentMetadata`, `receiveFileMetadata` | - | - | none: named in README.md or declared, but not implemented |

### How they interact

`runSender` calls `listen`, `doHandshake`, `send` and `close` in that order,
`runReceiver` calls `doHandshake`, then `recv` in a loop, then `close`. `send`
gives all the data to the handler, which cuts them into segments at once, and
then repeats: take a window of three segments, send them, wait for three
answers, give each acknowledgment to the handler. `recv` stores each payload
that fits behind the one before, in the order of arrival, answers it, and
returns at the first payload of less than 1460 bytes. A segment with a payload
is two datagrams, its header and its payload, and `receiveSegment` matches them
by their order alone. The peers share nothing but these datagrams. There are no
callbacks and no locks.

The sender has one socket for everybody who writes to its port. Whoever sends a
datagram to it during `send` or `close` becomes its `peerAddr`, because
`receiveSegment` is given that very variable for the source (`socket.cpp:240`).

### What is hard

* **The network.** Losses, duplicates and reorderings act on headers and
  payloads separately. The one loss the code notices is that of a payload, by a
  timeout of a second; it sends nothing again on purpose.
* **Several receivers.** They may come before, during or after a transfer, and
  their SYNs stand in the same queue as the acknowledgments.
* **Blocking.** `receiveSegment` clears the receive timeout (`socket.cpp:49-50`)
  before it waits for a header. So every wait of the program is endless, the five
  seconds of `close` included, which are only looked at between two receives.
* **Reads behind the buffer.** `advanceWindow` copies three cells from the
  second one on, whatever the size of `segmentBuffer`. The program relies on
  what a `std::vector` leaves behind its end after `erase`.
* **Acknowledgments.** An acknowledgment carries the number of the segment
  itself and `handleAck` erases what is *below* it, so that the acknowledged
  segment stays as cell 0, which is why windows start at cell 1, and why the last
  segment of the data never leaves the buffer.
* **Failing calls.** An allocation that fails in `generateSegments` is caught
  there, after freeing payloads that are already in the buffer; any other one is an
  exception, and the destructor of the socket then closes the connection.
* **The end of the data** is a segment that is not full. `recv` is called once
  more after it, with the length of the first answer.
* **Sizes** are `uint32_t`, which an input may exceed, and the number of segments is
  rounded up in it.

### What makes each component correct

* Segment: what is built is valid, and a change on the way is noticed (true of control
  segments; of data segments the first is not, and nobody asks the second).
* Handler: the buffer is the rest of the data, without gap or repetition; a
  window holds consecutive segments; nothing that is not acknowledged is lost and
  nothing acknowledged comes back; it terminates.
* Handshake: the sender is established only with a peer that is, whatever
  arrives late or twice; one receiver at a time.
* Transfer: the saved file has every piece of the data in order; the buffer is
  never overrun; nobody waits for an answer that cannot come.
* Termination: no side takes the other for closing when it is not, and both end.
* The whole: a session that has begun ends, and keeps the promises of its parts.

## 2. The modules

| Module | Extends | Models |
| --- | --- | --- |
| `Segment` | | the fields that are read, the constructors, and the datagrams of a segment |
| `SegmentHandler` | `Segment` | the class, its vector's storage and its failing allocations included |
| `Handshake` | `Segment` | `listen` and `doHandshake` of one sender and any receivers, on an unreliable network |
| `Connection` | | the abstract specification of connecting |
| `Sums` | | the sum of a sequence, as the loops over words and over bytes compute it |
| `FileTransfer` | `SegmentHandler`, `Sums` | `send`, `recv`, `close` and the loop of `runReceiver`, with the handler inside |
| `OrderedDelivery` | | the abstract specification of a transfer |
| `Session` | `FileTransfer` | the programs: menus, `listen` and `doHandshake` in front of the transfer, with any receivers |
| `Checksum` | `Sums` | the sum over the words of a segment |
| `HandshakeProofs`, `SegmentHandlerProofs` | their component and `TLAPS` | theorems about them |
| `SumsProofs` | `Sums` and the library's theorems | lemmas: what a sum of a sequence is, and of one with a word changed |
| `ChecksumProofs` | `Checksum`, `SumsProofs` | theorems about `Checksum` |
| `FileTransferProofs` | `FileTransfer`, `SegmentHandlerProofs`, `SumsProofs` | theorems about a transfer, on any network |
| `SessionProofs` | `Session`, `FileTransferProofs` | theorems about the whole program, on any network |
| `DeliveryProofs` | `SessionProofs` | theorems about both, on a network without faults: the saved file |
| `OrderProofs` | `DeliveryProofs` and the library's theorems | theorems about both, on a network without faults: the refinement of `OrderedDelivery`, the count of the replies |
| `MC*` | their component | the values of constants for TLC |

`Handshake` implements `Connection`, `Session` with one receiver implements both
`Connection` and `OrderedDelivery`; the mappings are the `INSTANCE ... WITH` at the
end of each module.

The first definitions after the rule in a component's module that are said to be
*mutations* are slips the code could have had. No specification uses them; they
show that each property depends on the code it is about: with the slip in place
of the definition it mirrors, TLC finds the property violated.

### How model and code correspond

**Segment.** Flags are the set of those bits some statement reads. A payload is
the offset of its first byte in the data, `NoData` for a null pointer or one the
kernel refuses to read, `JunkData` for bytes that are not a piece of the data.
`Wire` is the sequence of datagrams a `sendSegment` makes, `PartialWire` what is
left of it when a `sendto` fails.

**SegmentHandler.** `segmentCells` is the storage of the vector and `bufLen` its
size. `EraseFront` shifts the live cells down and leaves the last one where it
was, which is what `vector::erase` does for a trivially copyable struct. A read
behind all cells ever written yields any of `HeapSegments`. A data segment's
flags are never initialised, so they are any of `DataFlags`. The loop of
`handleAck` is one step that picks how many segments it erases (`Erases` has
exactly one solution). The outer loop of `generateSegments` has one round,
because the inner one cuts all that remains; when the rounding wraps it has no
end, and `spinning` says so. With `MayFail` an allocation fails after `made`
segments: the call returns, the payloads of those segments are freed (`Freed`: they
read as `JunkData`) although they are in `segmentBuffer`, and `dataIndex` stands behind
the last of them, so that a later acknowledgment cuts on from there.

**Handshake.** `status` and `peerAddr` are as in the code; one action per
datagram a side accepts. The network is a set: a datagram in it may be delivered
late, in any order and, with `MayDuplicate`, again. A receiver that gives up or
is stopped is gone, and when started again has another port, so that it is
another receiver. A datagram that `doHandshake` reads and ignores has no effect
but its disappearance, which is `Lose`. `MayFail` is about `bind` and `sendto`; that
there may be no random number is in `Session` (`NumberThrows`).

**FileTransfer.** `pc` is the loop a process is in. `inbox` is what is under way
to a socket, in order, each packet with its source; `Lose`, `Duplicate` and
`Reorder` change it, at most `MaxFaults` times. `pending` is the header whose payload
`receiveSegment` waits for, so a receive of two datagrams is two steps, and the
others may act between them. `PeerAfterReceive` is what `receiveSegment` leaves in
`peerAddr`. `send` is `StartSend` (the size is taken `% U32`), `NextWindow`,
`SendSegment` for each segment, and `ReplyDuringSend` or `FinDuringSend` for each
answer. `recv` is `StoreSegment`, `FinDuringRecv`, `IgnoreDuringRecv` and
`TimeoutDuringRecv`, and where it returns `RecvReturns` is the rest of
`runReceiver`'s iteration, in the same step, because it has no effect on anybody else.
An exception (`SendThrows`, `HandleAckThrows`, `RecvThrows`, `PayloadThrows`, and of the
parsing of the metadata) unwinds through the destructor of the socket, which is
`close`, with the status the socket has. `close` is `CloseActive`, `ClosePassive` or
`CloseAtOnce` by its status, and then one action per segment. `Stop` kills a process at
any time, between the two datagrams of a segment as well.

**Session.** The same variables, from the menus on. `RunSender` is the user's choice,
`listen` and the `...DuringAccept` actions are the sender's `doHandshake`, `Connect`
and the `...InHandshake` actions the receiver's. A datagram for a socket that has no
port yet is dropped (`Deaf`). Everything after it is `FileTransfer`.

**Checksum.** A segment is its memory, `HeaderWords` words and those of its
payload. A control segment is built from zeroed memory and has no payload
(`ControlSegments`, `segment.cpp:11-70`). A data segment is an element of
`new Segment[n]`, whose checksum field holds anything when `updateChecksum` sums it
(`DataSegments`, `segment_handler.cpp:48-83`). One word of the header may change on the way.

## 3. The runs

Every bound is small because every behaviour of interest depends on how many
segments there are in relation to the window of three, and on whether the last
one is full, and not on how many bytes a segment has. Unless the table says
otherwise, a segment has up to 2 bytes (`MSS`), a `uint32_t` 16 values (`U32`), the
window 3 places, and the receiver's first `recv` room for 15 bytes.

| Run | Asks | Instance |
| --- | --- | --- |
| `handler` | the invariants of the handler, and that it only goes forward | every size from 0 to 15, any acknowledgment, two heap contents, no failing allocation |
| `window_garbage` | is a window made of segments? **No** | the same |
| `handshake` | who may connect to whom; does the handshake implement `Connection`? | two receivers, two numbers, losses, duplicates, failures and stops |
| `handshake_retry` | is a failed handshake retried or reported? **No** | one receiver, nothing is lost but a SYN to an unbound port |
| `transfer` | does a session with one receiver keep its promises, and end? | no faults of the network; inputs of 1, 3, 4, 5, 6 and 7 segments, the last one not full; data flags that read as FIN-ACK or none; either process may be stopped at any time |
| `session` | what holds when several receivers come at any time? | two receivers, window 2, room for 7 bytes, no data or two segments; one fault of the network, failing calls and allocations, late payloads |
| `transfer_faults` | what holds whatever the network does? | inputs of 0, 8 and 19 bytes; one fault anywhere, failing calls and allocations, late payloads, any heap |
| `saved_exact` | is the saved file the file? **No** | four segments, no fault |
| `full_segments` | do both sides close? **No** for a multiple of the segment size | four full segments, no fault |
| `release` | is a segment erased only when it has arrived? **No** | four segments, one fault |
| `second_receiver` | is the saved file complete when another receiver asks? **No** | four segments, two receivers, no fault |
| `checksum` | is a control segment that is built valid, is a change of it noticed, is the folding right? | words of two bits, four in a header, up to two of payload |

### What they show

**`handler`.** For every sequence of calls, `segmentCells` is the rest of the
data in order, followed by copies of the last segment (`StorageShape`). Because
of that the reads behind the end of the vector return the last segment, and a
window is always consecutive (`WindowConsecutive`), provided the data had more
segments than a window: reading cells 1 to 3 then stays among cells that were
written. `NothingLost` says that every byte from the acknowledged one on is in a
live cell. `WindowFollowsAck` says where sending goes on after any acknowledgments: with
the segment behind the one `LAR` names (which stays as cell 0 and is not sent again,
unless it is the last). `SpinsOnlyOnWrap` says that
`generateSegments` terminates for all sizes but the last `MSS - 1` of a
`uint32_t`, for which it does not: rounding up wraps to 0 segments. U32 16 puts
size 15 on that side.

**`handshake`.** `PeerIsReady` and `ConnectedToPeer` relate the two sides, and
`InFlightAgrees` is the reason they hold: every SYN-ACK or ACK in flight stands
for an agreement its sender has entered. Nobody checks the numbers: what keeps
a stale ACK from establishing a connection is only that a receiver sends an ACK
after a SYN-ACK, and that only the first SYN sets the peer. `ConnectsAsAgreed` is
the same as a refinement: the sender chooses once, only the chosen one joins, and
the sender starts when it has joined. Two receivers suffice for everything that
distinguishes the peer from the others. Number 3 wraps when it is acknowledged.

**`transfer`.** `SavedHoldsFile`: a saved file starts with every piece of the data
in order, even if the sender is killed in the middle, between a header and its payload
perhaps. `RepliesAccounted`: as long as the receiver reads, the answers the sender
still waits for are exactly those under way or whose segment is, so the count of
`send` is right. `DeliversInOrder` is the refinement of `OrderedDelivery`: under the
mapping `pieces <- Pieces`, `delivered <-` the numbers of the pieces received and
`released <- Dropped`, each step is one of `OrderedDelivery` or a stutter. In
particular the sender never runs more than a window ahead of what it released,
never releases what has not arrived, and what arrives behind the last piece is
that piece again. `ConnectsAsAgreed` is the refinement of `Connection`, through the
transfer and the termination as well. `SessionEnds` is the liveness of the whole: a
SYN that reaches a listening sender leads to two closed sockets and two processes
that have ended, through the close that the receiver starts while the sender counts
answers. Two segments are missing from the sizes because a window of such data reads
cells that were never written, see `window_garbage`; so are multiples of the segment
size, see `full_segments`.

**`session`.** `OneReceives`: however the SYNs, SYN-ACKs and ACKs of two receivers
interleave with each other, with the transfer and with the exceptions that close a
socket, at most one receiver is ever connected: a second SYN may divert segments (see
`second_receiver`), but only `doHandshake` answers with a SYN-ACK, and only to its peer.
`CloseWaitMeansPeerCloses`: the sender never takes a SYN, a stale ACK or a duplicate of
either receiver for a FIN. `AckStoredOrOfHandshake` is what remains of `AckOnlyStored`
behind a handshake: `LAR` is the number of a stored segment, or the one after a number of
the handshake (see below). The window has two places so that the data of two segments
fill it, and the data flags are none: uninitialised flags that read as SYN-ACK, in a
segment diverted to a receiver that waits for one, would connect it.

**`transfer_faults`.** With one fault of the network at any place, with calls and
allocations that fail, and with clocks that run at any speed: `StoredFits`, the guard of
`socket.cpp:295` against `length - totalReceived` is enough in the first and in
later calls of `recv`; `AckOnlyStored`, `LAR` is always the number of a stored
segment until the receiver closes; `CloseWaitMeansPeerCloses`, no data segment,
duplicate or junk is taken for a FIN by the sender; `CutContinues`, a
`generateSegments` that gave up and the ones that go on after it number the bytes
without a gap and none twice. One fault is enough to shift headers against payloads for
the rest of a transfer. An input of 19 bytes is one of 3 to the handler.

**`checksum`.** `FoldsModulo` compares the carry loop with the sum modulo all ones, for any
segment. `BuiltIsValid` and `OneWordNoticed` are about control segments, the only ones that
anybody checks (`socket.cpp:261`): their checksum field is 0 when it is summed, so that it
does not matter that the sum leaves out another word. `OneWordNoticed` needs the exception
that 0 and all ones are the same to the sum.

### Where code and text disagree

* `window_garbage`: "Get actual window size" (`socket.cpp:223`). Of data of up to
  three segments, `advanceWindow` returns cells that were never written, and they
  are transmitted. When they announce a payload the kernel gets an arbitrary pointer.
* `handshake_retry`: "mechanisms are in place to handle retries or report failure"
  (README.md:75). A SYN that reaches no socket is not sent again, and the receiver
  waits for ever.
* `saved_exact`: "sent exactly as it is" (README.md:67). Windows behind the last
  acknowledged segment are copies of the last one; `runReceiver` calls `recv` once
  more after a first call of 1460 bytes or more, which stores one of them, and the
  file is saved with it.
* `full_segments`: "can cleanly close the connection" (README.md:91). Without a
  segment that is not full `recv` goes on until its buffer is full of copies, then
  answers nothing, and both sides wait.
* `release`: "the sender will retransmit it along with all subsequent packets"
  (README.md:87). An acknowledgment of a later segment erases the lost one.
* `second_receiver`: "sent exactly as it is, with no alteration or corruption"
  (README.md:67). The SYN of another receiver is counted as an answer and makes that
  receiver the peer until the next answer comes. In the run it is the first of the three
  answers, so that nothing is diverted, but the window moves on one acknowledgment too
  early and begins again with a segment the first receiver has: of four segments it saves
  1, 2, 3, 3, 4, 4. Nothing is missing, and piece 3 is in it twice. (When the SYN is the last
  answer, the whole next window goes to the other receiver, nobody answers it and
  nothing is saved.)
* Without a run: "Packets may be lost, duplicated, or corrupted" and "The system is
  designed to handle such issues" (README.md:71). The ACK of the handshake, delivered
  twice, is taken for an acknowledgment of data (`socket.cpp:261`), and `LAR` becomes the
  sender's random number plus one: all segments below it are erased. `AckOnlyStored`, which
  holds of a transfer on its own, is violated so when it is made an invariant of
  `MCSession` with one fault; `AckStoredOrOfHandshake` says that nothing else than this
  can happen to it.

* Without a run: "Skip checksum field in calculation" (`segment.cpp:84`), "Return a new
  segment with a calcuated checksum fields" (`header/segment.hpp:76`). The word that is
  skipped, `i = 8`, holds the flags; the checksum is word 11. Control segments have a valid
  checksum all the same, because word 11 is 0 when it is summed. In a data segment it is not
  initialised, and the checksum that is stored is not the one `isValidChecksum` computes:
  `isValidChecksum(sent)` is violated in the initial states of `MCChecksum` with
  `~control`. Nobody notices, because `recv` never calls it.
* Without a run: "sent as raw binary data to avoid corruption" (README.md:67). A failed
  allocation frees payloads that are in `segmentBuffer` already (`segment_handler.cpp:56`),
  and the next window sends them: with `MayFail`, `MCSegmentHandler` has windows with
  `JunkData`.
* Without a run: "received without any missing or out-of-order parts" (README.md:79). The
  size of the input is cut to a `uint32_t` (`socket.cpp:204`), and what is left of it is
  sent and saved as if it were the file: in `MCFileTransfer` 7 bytes of 23.
* Without a run: "the receiver uses the sequence numbers to reassemble the file"
  (README.md:79). Header and payload are matched by their order: when a header comes
  twice, the second one is stored as the payload of the first (`socket.cpp:72`), under its
  number.
* Without a run: "both parties acknowledge the completion of the transfer"
  (README.md:91). `close` goes on after five seconds without a FIN-ACK, and says "Connection
  closed successfully" (`socket.cpp:405`) to a sender that is still in `send` and has not
  read the FIN. With `MayBeLate`, `MCFileTransfer` reaches this; with clocks that are never
  late the same four segments do not.

### Fairness

`transfer` (`SessionFairSpec`): weak fairness of each process as a whole
(`WF_vars(SenderThread)`, `WF_vars(ReceiverThread(r))`): a thread that can take a step
eventually takes one. The channels are lists the processes read, so nothing else is
needed. The users are not fair, they may never answer a prompt, and nobody has to stop a
process. `full_segments` (`FairSpec`) is the same behind the handshake.
`handshake_retry` (`HandshakeFairSpec`): weak fairness of each step of a process and of
the delivery of a datagram that stays deliverable; the network of this run loses nothing
(`MayLose = FALSE`) but what is sent to a port no socket is bound to.
Deadlock is checked in `handler`, `window_garbage` and `saved_exact`. In the other runs
the system may really stop: when the users do nothing, when a side has failed or was
stopped, when a datagram the other side waits for is lost, or, in `checksum`, when the
one change has happened. That `transfer` does not stop anywhere else is `SessionEnds`.

## 4. The proofs

TLAPS checks them with SMT, Zenon and LS4; all leaves are proved.

**`SegmentHandlerProofs`**, for every `MSS`, `U32`, window size up to 254, set of
flags and heap content (`SegmentAssumption`, `HandlerAssumption`). There are two
inductive invariants, because a failed allocation breaks most of what the first says.

Where no allocation fails (the theorems assume `~MayFail`):

    HandlerInv == HandlerTypeOK /\ CutOnce /\ SpinsOnlyOnWrap
                  /\ StorageShape /\ BaseNotBelowLAR /\ WindowConsecutive

with `BaseNotBelowLAR`, that the first live cell is not below `LAR`, a fact that the
other proofs use. `WindowConsecutive` is the property that matters and is not inductive: that window
reads behind the end are harmless depends on what *all* earlier erases left there,
which is `StorageShape`; `StorageShape` depends on the data having been cut exactly
once, from offset 0 and for all of it, which is `CutOnce`; and that `handleAck`'s own
call of `generateSegments` cuts nothing needs `CutOnce` and the wrap excluded, which
is `SpinsOnlyOnWrap`. The steps: arithmetic of division and wrap
(`NumSegmentsBounds`), what `CutSegment` and `EraseFront` return
(`CutSegmentIsPiece`, `EraseFrontCells`), then one lemma per action. `NothingLost` needs
one fact more, `DroppedBelow`: what was erased lies below `LAR`; with `StorageShape` the
byte's segment is then a live cell (`AboveIsLive`). `DroppedBelow` and `BaseNotBelowLAR`
together say that what has left the buffer is exactly what lies below `LAR`, which is
`WindowFollowsAck` (`StartsBehindLAR`). Theorems: `HandlerInvariant`,
`StorageInOrder`, `CutOnlyOnce`, `EndlessOnlyOnWrap`, `WindowsConsecutive`,
`WindowsFollowAcks`, `HandlerOnlyForward`, `NothingEverLost`.

Whether allocations fail or not:

    FailingInv == HandlerTypeOK /\ CutContinues

`GenerateContinues` is the heart of it: a call that stops after any number of segments
leaves the numbering where `dataIndex` says, and `EraseContinues` says that an erase in
between does not disturb it. Theorems: `CutAlwaysContinues`, `HandlerTyped`.

**`HandshakeProofs`**, for any set of receivers and of initial numbers and for any
unreliable network (`HandshakeAssumption`). The inductive invariant is

    HandshakeInv == HandshakeTypeOK /\ PeerIsReady /\ ConnectedToPeer
                    /\ InFlightAgrees

where `InFlightAgrees` is the strengthening: without it, an ACK in flight could come
from anybody and `SenderOnAck` would break `PeerIsReady`. One step per action of
`HandshakeNext`. Theorems: `HandshakeTyped`, `PeerAlwaysReady`,
`AlwaysConnectedToPeer`, `InFlightAlwaysAgrees`, `OneConnection` (no two receivers are
ever connected), and `HandshakeConnectsAsAgreed`: the handshake
implements `Connection`. Each action maps to one of `Connection` or to a stutter
(`AgreementStep`); `SenderOnSyn` is `Choose`, `ReceiverOnSynAck` is `Join`, `SenderOnAck`
is `Start`, and `Crash` is `Leave`, where the invariant gives the guards.

**`SumsProofs` and `ChecksumProofs`.** A sum is a recursive function, and what it computes
is an induction over data, which the
provers cannot do with the library's induction theorems. It is done over sets: a set of
naturals that has 0, and with each member the next one, is `Nat` (`SetInduction`, from the
least element of its complement). So the function exists (`SumsExist`, `TotalIsLast`), a
sum grows by the word that is appended (`TotalAppended`), and it changes by as much as one
word does (`TotalChanges`). From it, for words and headers of any size, `BuiltIsAccepted` and
`OneWordIsNoticed` with its exception: both are about control segments, and rest on the
checksum field being 0 when `updateChecksum` sums it (`UpdateBuilds`), which is so of no data
segment. `CarryFoldsModulo` is about any segment, with a payload of any size: the carry loop
ends and computes the sum modulo `Base - 1`.

**`FileTransferProofs`**, for any receivers, any set of input sizes, any number of faults
of the network and any failures, late payloads and stops (`TransferAssumption` and the
assumptions above). The inductive invariant is

    TransferInv == Channels /\ LocalInv /\ SenderInv

`Channels` says what may be under way to whom: only the sender's datagrams reach a
receiver, and only headers without a payload reach the sender. It is why the sender never
waits for a payload, and why the numbers it gives to `handleAck` are those that were sent
and not junk. The sender may be without a peer only where it has not opened or is
gone (`Unpaired`), so that the invariant serves `Session`, too. `LocalInv` bounds what a
process counts by itself: `totalReceived` stays below `length`, which becomes the total of
the call before. `SenderInv` says in which places the sender has data, and that their size
does not wrap once `setDataStream` has returned, so that the `generateSegments` of
`handleAck` returns too (`AckNeverSpins`). There is one lemma per kind of channel operation
and per kind of step.

From it: `TransferTyped`; `TransferUsesHandler`, every step of a transfer is one of
`HandlerSpec` or leaves the handler alone, which carries the handler's theorems over, as
`TransferContinues` and `TransferWindows` do; and `StoresWithinBuffer`, that `totalReceived`
is the sum of the payloads stored since the call and is within the buffer, whose invariant
`StoredInv` is one use of `TotalAppended` per payload.

What the sender believes of its receivers takes a second invariant on top:

    RepliesInv(others) == inbox[Sender] \in Seq(Heard(others)) /\ CloseWaitMeansPeerCloses
                          /\ (NobodyCloses => LAR = 0 \/ Known(LAR, others))

`Heard` is the strengthening: while no receiver closes, a reply under way is no FIN, and an
acknowledgment among them names a stored segment, or one of `others`: none in a transfer on
its own, the numbers of the handshake in a session. It is kept because nothing makes such a
statement false again (`Grows`: receivers do not forget what they store, and do not come
back from closing), because a loss, a duplicate or a swap puts nothing new into a queue,
and because `recv` stores before it answers (`StoreReplies`). Theorems: `AcksAreStored`,
`CloseWaitIsTrue`.

**`SessionProofs`** carries this to the whole program, again for any receivers and any
network. The invariant is `SessionInv == TransferInv /\ AcceptInv`: a sender that has
answered a SYN knows whom. Theorems: `SessionTyped`, `SessionUsesHandler`,
`SessionContinues`, `SessionWindows`, `SessionCloseWaitIsTrue`.

`AtMostOneReceives` rests on

    ChosenInv(p): the sender that still opens has the peer p; whatever looks like a SYN-ACK
                  is under way to p only; nobody else has a length for recv

with p the receiver whose SYN came first, or `NoPeer` before. It assumes `NoFalseSynAck`:
neither the uninitialised flags of a data segment nor the heap read as SYN-ACK. The
assumption is needed, and TLC shows why: the data segment diverted to a second receiver
that waits for a SYN-ACK connects it. `FlagsAsCut` (a theorem of the handler) is why nothing
else can put such flags into a window. `AcksAreStoredOrOfHandshake` has the same hypothesis,
as a false SYN-ACK would be acknowledged.

`SessionConnectsAsAgreed` is the refinement of `Connection` by the whole program, for one
receiver (`OneReceiver`), whatever the network does, whatever lies in memory and
whoever is stopped. `SynDuringAccept` is `Choose`, `OnSynAck` is `Join`, `AckDuringAccept` is
`Start`, the receiver's `Stop` is `Leave`, and everything else is a stutter. `AgreedInv`
gives the guards: the receiver acknowledges nothing before it is connected, and a sender
without a peer has sent nothing. `OneReceiver` excludes failing calls as well: a
sender that gets no random number for its SYN-ACK goes to `close` with a peer
that has not connected, which `Connection` does not promise (`NumberThrows`).

**`DeliveryProofs`** are about what is saved:

    Undisturbed == /\ Receivers = {Receiver} /\ MaxFaults = 0 /\ ~MayFail /\ ~MayBeLate
                   /\ \A size \in Sizes : size % U32 <= Capacity

`TransferSavesFile` and `SessionSavesFile`: a saved file holds every piece of the data in
order, for all sizes of segments, windows and files, any flags and heap, and whoever is
stopped at any point. Each conjunct of `Undisturbed` is needed: with a second receiver or a
fault of the network TLC finds the property violated (`second_receiver` is the first), a failed
allocation frees payloads that are still sent, a clock that fires drops a payload, and data
that do not fit into the first buffer of `recv` lose a piece in the middle when a later
one, the shorter last one, still fits (segments of 2 bytes, room for 7, 9 bytes
of data).
The inductive invariant is

    FlowInv == IF dataSize = 0 THEN the receiver has been sent no data
               ELSE dataSize <= Capacity /\ (HasAll \/ GivenUp \/ Filling)

`Filling` follows the pieces: the sender works on the window behind piece k and has sent s
of it, the receiver has stored k + j, what is under way to it is the datagrams of the
pieces k + j + 1 to k + s in order, one header of them perhaps read (`InFlight`), and the
acknowledgments of those stored are on the way back in order (`InAcks`, `SenderAt`). Where
the window goes on behind the last piece nothing is said of it, because `HasAll`, once it
holds, remains: `recv` only appends. That the window is made of these pieces is
`StorageShape`, and that the sender's k is the receiver's is what the acknowledgments say.
`GivenUp` is the end when a process is stopped before: the receiver waits for ever, or
saves nothing. One lemma per step (`WindowFlows`, `SegmentFlows`, `ReplyFlows`,
`HeaderFlows`, `StoreFlows`, `AckFlows`, `StopFlows`, ...), and one per effect on what is
under way (`FlightSent`, `FlightHeader`, `FlightPayload`, `FlightStops`).

**`OrderProofs`**: on the same network, what happens behind the last piece as well. The
promise of `OrderedDelivery` depends on one thing more than `Undisturbed`:

    HarmlessHeap == \/ NoHeapPayload
                    \/ \A size \in Sizes : \/ NumSegments(size % U32) = 0
                                           \/ NumSegments(size % U32) > WindowSize

The window of data of at most a window of segments goes on with cells that were never
written (`window_garbage`). If one of these announces a payload, the receiver may store
it, and TLC finds that `DeliversInOrder` is violated; if there are more segments than that
nothing of the heap is read, whatever is on it (`StorageShape`). `SessionDeliversInOrder`
and `TransferDeliversInOrder` are the refinement, for any sizes of segments, windows and
files, any flags, and stops anywhere. Their invariant is

    DeliveryInv == OrderInv /\ QuietInv /\ EndsInv /\ HeapInv

on top of `FlowInv`, which says nothing of what follows the last piece. The parts of
`OrderInv`:

* `StreamInv`: each payload on its way comes behind the header that announces it, each
  such header names a piece, and behind a last piece there are only last pieces. The
  header that the receiver has read already counts as place 0 (`Under`), so that reading
  a header changes nothing, and a sender stopped between the two datagrams leaves it without
  its payload (`Complete`).
* `WindowInv` and `RestInv`: the same of the cells of the window, and of those not sent yet.
* `StoredInOrder`: the receiver has pieces 1, 2, ..., n, n, n, ...
* `AnswersInv`: what comes to the sender before a FIN acknowledges a stored piece, so that
  `Dropped` is less than the number of stored pieces.
* `LastAcked`: when the receiver has all the pieces, the acknowledgment of the last one is
  handled before the window moves on. It is the reason that no other piece follows a last
  one, and that the sender is never more than a window ahead (`InReach`).

`QuietInv` is the case without data, `EndsInv` what holds before and after `recv`, and
`HeapInv` carries the hypothesis. Each step then maps: `StartSend` is `Offer`,
`StoreSegment` is `Deliver`, `ReplyDuringSend` is `Release` or a stutter, `FinDuringRecv` and
`TimeoutDuringRecv` are `Save` or a stutter, all others are stutters. There is one lemma for
each step and the invariant (`StoreStep`, `ReplyStep`, `SenderStopStep`, ...) and one for each
and the promise (`PromiseSteps`, `SenderPromise`, ...).

`SessionRepliesAccounted` and `TransferRepliesAccounted` say that the loop of `send` which
counts the answers gets each of them as long as the receiver reads. They rest on

    AccountInv == /\ Pieces # 0 => Answerable(dataSize)
                  /\ Reading => Counted /\ HasRoom /\ AllLoud /\ JustFits

`Counted` is the property in every phase of `send`: the headers under way either way, and
one that is read, are the segments sent and not answered (`Outstanding`). It is kept if the
receiver answers each header that it reads and does not read on what it cannot store:
`HasRoom`, behind the last piece there is room for one more, because the second `recv`
starts empty with the length of the first answer, which is a full segment at least;
`AllLoud`, until the receiver has all the pieces each cell that is sent announces a payload; `JustFits`, when the segments are exactly a window the
receiver has them all before the next window, whose first cell ends its second `recv`. The
hypothesis `AllAnswered` says what the data must be for that:

    Answerable(size) ==
        NumSegments(size) # 0 =>
            size % MSS # 0 /\ (NumSegments(size) = 1 \/ NumSegments(size) >= WindowSize)

It cannot be weaker: with a full last segment `recv` does not end and its buffer
fills with copies that it does not answer (`full_segments`), and with two segments in a
window of three the header of a cell of the heap gets no answer; TLC finds
`RepliesAccounted` violated in both cases, and also for one full segment. How many headers
are in a queue is a `Cardinality`; `HeadersMore` and `HeadersLess` say how it changes at the two
ends.

**Only model-checked:** liveness (`SessionEnds`), which is out of the prover's reach. Every invariant, every action property and every refinement that a run finds to hold
is a theorem.

## 5. Not modelled

* `checkTimeouts`, `markAcknowledged`, `isInWindow`, `validateWindowSize`,
  `cleanupSegment`, `synAck`, `setTimeout`: never called. `segmentTimers` is never filled,
  so that the program has no retransmission by time.
* `Node::run`: abstract, nothing derives from it. Broadcast discovery, `sendFile`,
  `sendSegmentMetadata`, `recvFile`, `receiveFileMetadata`, `validateDataType`: there is
  no code.
* That the bytes of a payload pointer are in the checksum of a data segment, so that it
  would not be valid for the receiver, who puts another pointer there (`socket.cpp:66`),
  even if the field were cleared; and that the odd last byte of a payload is not in it. Nobody
  checks a data segment's checksum, so a change of its payload has no action. The
  SYN-ACK's checksum is not updated after its flags are set; nobody checks it either.
* Uninitialised flags of a data segment that read as SYN-ACK, in a run with two
  receivers (`transfer` has flags that read as FIN-ACK).
* Ports, addresses and their parsing (`createAddr`), the texts of menus and prompts,
  console output, the contents of files, and where the delimiter of the metadata stands:
  the metadata are in the first segment, which holds them whenever the name of the file
  is not longer than it.
* The generated files under `CMakeFiles/`, the Makefile.

Everything else of the program's own code is in a module.

## 6. Plan

Done, in this order: the handler and its storage, because everything else relies on
what a window holds; the handshake; the transfer with termination, composed with the
handler; its abstract specification; the checksum; the proofs of the first two; failing
allocations and exceptions; the session, with several receivers and stopped processes, and
its refinements; the proofs of `NothingLost`, `CutContinues` and of the refinement of
`Connection`; the proofs about the transfer, that it uses the handler as specified and that
what the sender believes of its receivers is true; the same and `OneReceives` for the whole
program; the sums, of `recv` and of the checksum; the delivery of the pieces in order,
as far as the saved file; the refinement of `Connection` by the whole program; that of
`OrderedDelivery`; the count of the replies.

What could follow: theorems for data of fewer segments than a window when the heap does
announce payloads (what a receiver may then store), and liveness, for which the tools
at hand have no proofs.
