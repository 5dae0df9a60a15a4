------------------------------ MODULE Checksum ------------------------------
(***************************************************************************)
(* calculateChecksum, updateChecksum and isValidChecksum of                *)
(* src/segment.cpp, and the way of a segment from the one to the other:    *)
(* it is built, at most one of its words changes, and it is checked.       *)
(*                                                                         *)
(* A control segment starts from zeroed memory and has no payload; a data  *)
(* segment is one of an uninitialised array, where its checksum field may  *)
(* hold anything when it is summed.  The program checks the answers in     *)
(* send and nothing else (socket.cpp:261), and they are control segments.  *)
(*                                                                         *)
(* A segment is its memory: the words of the packed struct, two bytes      *)
(* each, and the words of its payload; the last byte of a payload of odd   *)
(* length is not part of any word.  The sum of at most HeaderWords + 730   *)
(* words cannot overflow the code's uint32_t.                              *)
(***************************************************************************)
EXTENDS Sums

CONSTANTS
    Base,           \* how many values a word has (2^16 in the code)
    HeaderWords,    \* sizeof(Segment) / 2 (19 in the code)
    FlagsWord,      \* the word the sum skips; it holds the flags (i = 8)
    ChecksumWord,   \* the word that holds the checksum (i = 11)
    MaxPayload      \* bound: the words of the longest payload

ASSUME ChecksumAssumption ==
    /\ Base \in Nat \ {0, 1}
    /\ HeaderWords \in Nat
    /\ {FlagsWord, ChecksumWord} \subseteq 1 .. HeaderWords
    /\ FlagsWord # ChecksumWord
    /\ MaxPayload \in Nat

VARIABLES
    control,   \* whether it is a control segment
    sent,      \* the segment as updateChecksum returned it
    arrived,   \* the segment as isValidChecksum sees it
    changed    \* whether something has happened to it on its way

checksumVars == <<control, sent, arrived, changed>>

Word   == 0 .. Base - 1
Header == [1 .. HeaderWords -> Word]
Memory == [header : Header, payload : UNION {[1 .. n -> Word] : n \in 0 .. MaxPayload}]

-----------------------------------------------------------------------------
\* Mutations of definitions below, each a slip the code could have had: TLC must
\* find that it breaks the property it is named with in PROJECT.json.
IsSummedShort(i)   == i < HeaderWords /\ i # FlagsWord
EndAroundLost(sum) == sum % Base
FieldKept(memory)  == memory

-----------------------------------------------------------------------------
\* The comment calls the skipped word the checksum field.
IsSummed(i) == i # FlagsWord

\* While the sum has more than 16 bits, what is above them is added to them.
EndAround(sum) ==
    LET fold[s \in Nat] == IF s < Base THEN s ELSE fold[(s % Base) + (s \div Base)]
    IN  fold[sum]

calculateChecksum(memory) ==
    LET summed == [i \in 1 .. HeaderWords |-> IF IsSummed(i) THEN memory.header[i] ELSE 0]
    IN  Base - 1 - EndAround(Total(summed) + Total(memory.payload))

updateChecksum(memory) ==
    [memory EXCEPT !.header[ChecksumWord] = calculateChecksum(memory)]

\* The copy that isValidChecksum sums has a checksum field of 0.
FieldCleared(memory) == [memory EXCEPT !.header[ChecksumWord] = 0]

isValidChecksum(memory) ==
    memory.header[ChecksumWord] = calculateChecksum(FieldCleared(memory))

-----------------------------------------------------------------------------
\* syn, ack, synAck, fin and finAck start from a zeroed segment, set some fields
\* and call updateChecksum last.
ControlSegments == {memory \in Memory : memory.payload = <<>> /\ memory.header[ChecksumWord] = 0}

\* generateSegments sets the payload, its size and the sequence number of a
\* segment it has allocated, leaves the other fields, the checksum among them,
\* as the heap had them, and calls updateChecksum last.
DataSegments == Memory

ChecksumInit ==
    /\ control \in BOOLEAN
    /\ \E memory \in (IF control THEN ControlSegments ELSE DataSegments) :
         sent = updateChecksum(memory)
    /\ arrived = sent
    /\ changed = FALSE

\* The payload of a data segment is left as it is: nobody checks it.
ChangeHeader(i) ==
    /\ ~changed
    /\ \E word \in Word \ {sent.header[i]} : arrived' = [sent EXCEPT !.header[i] = word]
    /\ changed' = TRUE
    /\ UNCHANGED <<control, sent>>

ChecksumNext == \E i \in 1 .. HeaderWords : ChangeHeader(i)

ChecksumSpec == ChecksumInit /\ [][ChecksumNext]_checksumVars

-----------------------------------------------------------------------------
\* A control segment that arrives as it was built is accepted: in send, no
\* acknowledgment is dropped for its checksum (socket.cpp:261).
BuiltIsValid == (control /\ ~changed) => isValidChecksum(arrived)

\* The pairs of words that a sum with end-around carry cannot tell apart.
Alike(word, other) == {word, other} = {0, Base - 1}

\* A change of one word of a control segment, other than that of the flags, is
\* noticed, unless it turns a zero word into one of ones or back
\* (segment.cpp:77-116).
OneWordNoticed ==
    (control /\ changed /\ arrived.header[FlagsWord] = sent.header[FlagsWord]
             /\ isValidChecksum(arrived)) =>
        \E i \in (1 .. HeaderWords) \ {ChecksumWord} :
            Alike(sent.header[i], arrived.header[i])

\* The loop that folds the carry computes the sum modulo Base - 1, with
\* Base - 1 in the place of 0 unless the sum itself is 0 (segment.cpp:99-103).
FoldsModulo ==
    LET sum == Total([i \in 1 .. HeaderWords |->
                        IF i = FlagsWord THEN 0 ELSE arrived.header[i]])
                 + Total(arrived.payload)
    IN  calculateChecksum(arrived) =
          IF sum = 0 THEN Base - 1 ELSE Base - 2 - ((sum - 1) % (Base - 1))
=============================================================================
