--------------------------- MODULE ChecksumProofs ---------------------------
(***************************************************************************)
(* Proofs about Checksum, for every width of a word, every size of a       *)
(* header and every longest payload.                                       *)
(*                                                                         *)
(* The folding of the carry is a recursive function: that it exists, and   *)
(* what it computes, is proved with the least number for which it does not *)
(* (LeastOf).                                                              *)
(***************************************************************************)
EXTENDS Checksum, SumsProofs

-----------------------------------------------------------------------------
(***************************************************************************)
(* The folding of the carry.                                               *)
(***************************************************************************)
\* Two numbers below M that differ by a multiple of M are equal.
LEMMA OneRemainder ==
    ASSUME NEW M \in Nat \ {0}, NEW q \in Int, NEW r \in 0 .. M - 1,
           NEW p \in Int, NEW s \in 0 .. M - 1, M * q + r = M * p + s
    PROVE  q = p /\ r = s
  <1>1. M * (q - p) = s - r
    BY SMT
  <1>2. CASE q - p >= 1
    <2>1. M * (q - p) >= M
      BY <1>2, SMT
    <2> QED BY <1>1, <2>1
  <1>3. CASE q - p <= -1
    <2>1. M * (q - p) <= -M
      BY <1>3, SMT
    <2> QED BY <1>1, <2>1
  <1>4. CASE q = p
    BY <1>1, <1>4
  <1> QED BY <1>2, <1>3, <1>4

\* What % and \div compute.
LEMMA Division ==
    ASSUME NEW n \in Nat, NEW M \in Nat \ {0}
    PROVE  /\ n = M * (n \div M) + (n % M)
           /\ n % M \in 0 .. M - 1
           /\ n \div M \in Nat
  BY SMT

\* Adding a multiple of M leaves the remainder as it is.
LEMMA RemainderKept ==
    ASSUME NEW n \in Nat, NEW p \in Nat, NEW M \in Nat \ {0}
    PROVE  (n + M * p) % M = n % M
  <1>1. n + M * p \in Nat
    BY SMT
  <1> DEFINE q == n \div M
             r == n % M
             q2 == (n + M * p) \div M
             r2 == (n + M * p) % M
  <1>2. n = M * q + r /\ r \in 0 .. M - 1 /\ q \in Nat
    BY Division
  <1>3. n + M * p = M * q2 + r2 /\ r2 \in 0 .. M - 1 /\ q2 \in Nat
    BY <1>1, Division
  <1> HIDE DEF q, r, q2, r2
  <1>4. M * (q + p) + r = M * q2 + r2
    BY <1>2, <1>3, SMT
  <1>5. r = r2
    BY <1>2, <1>3, <1>4, OneRemainder
  <1> QED BY <1>5 DEF r, r2


\* The number below Base that is congruent to sum modulo Base - 1, with
\* Base - 1 in the place of 0 unless sum is 0.
Residue(sum) == IF sum = 0 THEN 0 ELSE 1 + ((sum - 1) % (Base - 1))

\* The residue of a word is the word.
LEMMA WordIsResidue ==
    ASSUME NEW sum \in Word
    PROVE  Residue(sum) = sum
  <1> DEFINE M == Base - 1
             n == sum - 1
  <1>0. M \in Nat \ {0} /\ sum \in Nat
    BY ChecksumAssumption DEF Word
  <1>1. CASE sum # 0
    <2>1. n \in 0 .. M - 1 /\ n \in Nat
      BY <1>0, <1>1 DEF Word
    <2>2. M * 0 + n = M * (n \div M) + (n % M) /\ n % M \in 0 .. M - 1 /\ n \div M \in Nat
      <3> HIDE DEF M, n
      <3>1. n = M * (n \div M) + (n % M) /\ n % M \in 0 .. M - 1 /\ n \div M \in Nat
        BY <1>0, <2>1, Division
      <3> QED BY <1>0, <3>1, <2>1, SMT
    <2>3. n = n % M
      <3> HIDE DEF M, n
      <3> QED BY <1>0, <2>1, <2>2, OneRemainder
    <2> QED BY <1>1, <2>3, <1>0 DEF Residue
  <1>2. CASE sum = 0
    BY <1>2 DEF Residue
  <1> QED BY <1>1, <1>2

\* One round of the folding makes the sum smaller, and leaves its residue.
LEMMA FoldKeepsResidue ==
    ASSUME NEW sum \in Nat, sum >= Base
    PROVE  /\ (sum % Base) + (sum \div Base) \in Nat
           /\ (sum % Base) + (sum \div Base) < sum
           /\ Residue((sum % Base) + (sum \div Base)) = Residue(sum)
  <1> DEFINE M == Base - 1
             q == sum \div Base
             r == sum % Base
  <1>1. Base \in Nat \ {0, 1} /\ M \in Nat \ {0} /\ Base = M + 1
    BY ChecksumAssumption
  <1>2. sum = Base * q + r /\ r \in 0 .. Base - 1 /\ q \in Nat
    BY <1>1, Division
  <1> HIDE DEF M, q, r
  <1>3. q >= 1
    BY <1>1, <1>2, SMT
  <1>4. r + q \in Nat /\ r + q >= 1
    BY <1>1, <1>2, <1>3
  <1>5. sum = (r + q) + M * q /\ M * q \in Nat /\ M * q >= 1
    BY <1>1, <1>2, <1>3, SMT
  <1> DEFINE k == (r + q) - 1
  <1>6. k \in Nat /\ (k + M * q) % M = k % M
    <2>1. k \in Nat
      BY <1>1, <1>2, <1>4
    <2> HIDE DEF k
    <2> QED BY <2>1, <1>1, <1>2, RemainderKept
  <1>7. r + q < sum
    BY <1>4, <1>5
  <1>8. Residue(r + q) = Residue(sum)
    <2>1. sum - 1 = k + M * q
      <3> DEFINE p == M * q
      <3> p \in Nat
        BY <1>5
      <3>1. sum = (r + q) + p
        BY <1>5
      <3> HIDE DEF p
      <3>2. sum - 1 = k + p
        BY <3>1, <1>4
      <3> QED BY <3>2 DEF p
    <2>2. r + q # 0 /\ sum # 0
      BY <1>4, <1>7
    <2>3. Residue(sum) = 1 + ((sum - 1) % M)
      BY <2>2 DEF Residue, M
    <2>4. Residue(r + q) = 1 + (k % M)
      BY <2>2 DEF Residue, M
    <2> QED BY <2>1, <2>3, <2>4, <1>6
  <1> QED BY <1>4, <1>7, <1>8 DEF q, r

\* The loop that folds the carry ends with the residue of the sum.
LEMMA EndAroundIsResidue ==
    ASSUME NEW sum \in Nat
    PROVE  EndAround(sum) = Residue(sum)
  <1> DEFINE folded(s) == (s % Base) + (s \div Base)
             body(f) == [s \in Nat |-> IF s < Base THEN s ELSE f[folded(s)]]
             fold    == CHOOSE f : f = body(f)
  <1>1. EndAround(sum) = fold[sum]
    BY DEF EndAround
  <1>2. Base \in Nat \ {0, 1} /\ \A s \in Nat : s < Base => s \in Word
    BY ChecksumAssumption DEF Word
  <1>3. \A s \in Nat : s >= Base =>
          folded(s) \in Nat /\ folded(s) < s /\ Residue(folded(s)) = Residue(s)
    BY FoldKeepsResidue
  <1>4. \A s \in Nat : s < Base => Residue(s) = s
    BY <1>2, WordIsResidue
  <1> HIDE DEF folded
  <1>5. \E f : f = body(f)
    <2> DEFINE g == [s \in Nat |-> Residue(s)]
    <2>1. ASSUME NEW s \in Nat
          PROVE  g[s] = body(g)[s]
      BY <1>2, <1>3, <1>4, <2>1
    <2>2. g = body(g)
      BY <2>1
    <2> QED BY <2>2
  <1>6. fold = body(fold)
    BY <1>5
  <1> HIDE DEF fold
  <1>7. {s \in Nat : fold[s] # Residue(s)} = {}
    <2> SUFFICES ASSUME {s \in Nat : fold[s] # Residue(s)} # {}
                 PROVE  FALSE
      OBVIOUS
    <2> DEFINE T == {s \in Nat : fold[s] # Residue(s)}
    <2>1. PICK s \in T : \A k \in T : s <= k
      BY LeastOf
    <2>2. CASE s < Base
      BY <2>2, <1>4, <1>6
    <2>3. CASE s >= Base
      <3>1. folded(s) \in Nat \ T
        BY <1>2, <1>3, <2>1, <2>3
      <3>2. fold[s] = fold[folded(s)]
        <4>1. \A t \in Nat : fold[t] = IF t < Base THEN t ELSE fold[folded(t)]
          BY <1>6
        <4>2. ~(s < Base)
          BY <1>2, <2>3
        <4> QED BY <4>1, <4>2
      <3> QED BY <1>3, <2>3, <3>1, <3>2
    <2> QED BY <1>2, <2>2, <2>3
  <1> QED BY <1>1, <1>7


-----------------------------------------------------------------------------
(***************************************************************************)
(* The checksum of a segment.                                              *)
(***************************************************************************)
\* What calculateChecksum adds up.
Summed(memory) ==
    [i \in 1 .. HeaderWords |-> IF IsSummed(i) THEN memory.header[i] ELSE 0]
Sum(memory) == Total(Summed(memory)) + Total(memory.payload)

\* The residue of a number is a word, and is 0 for 0 alone.
LEMMA ResidueType ==
    ASSUME NEW sum \in Nat
    PROVE  Residue(sum) \in Word /\ (Residue(sum) = 0 <=> sum = 0)
  <1> DEFINE M == Base - 1
  <1>1. M \in Nat \ {0}
    BY ChecksumAssumption
  <1>2. CASE sum # 0
    <2>1. (sum - 1) % M \in 0 .. M - 1
      <3> sum - 1 \in Nat
        BY <1>2
      <3> HIDE DEF M
      <3> QED BY <1>1, Division
    <2>2. Residue(sum) = 1 + ((sum - 1) % M)
      BY <1>2 DEF Residue
    <2> HIDE DEF M
    <2>3. Residue(sum) \in 1 .. M
      BY <1>1, <2>1, <2>2
    <2>4. 1 .. M \subseteq Word
      BY DEF M, Word
    <2> QED BY <1>2, <2>3, <2>4
  <1>3. CASE sum = 0
    BY <1>3, ChecksumAssumption DEF Residue, Word
  <1> QED BY <1>2, <1>3

\* The words of a segment, and how many it has.
LEMMA MemoryType ==
    ASSUME NEW memory \in Memory
    PROVE  /\ memory.header \in [1 .. HeaderWords -> Word]
           /\ Len(memory.payload) \in Nat
           /\ memory.payload \in [1 .. Len(memory.payload) -> Word]
           /\ Summed(memory) \in [1 .. HeaderWords -> Nat]
           /\ Sum(memory) \in Nat
           /\ Word \subseteq Nat
  <1>1. Word \subseteq Nat
    BY DEF Word
  <1>2. memory.header \in [1 .. HeaderWords -> Word]
    BY DEF Memory, Header
  <1>3. PICK n \in 0 .. MaxPayload : memory.payload \in [1 .. n -> Word]
    BY DEF Memory
  <1>4. n \in Nat /\ Len(memory.payload) = n
    BY <1>3, ChecksumAssumption
  <1>5. Summed(memory) \in [1 .. HeaderWords -> Nat]
    BY <1>1, <1>2 DEF Summed
  <1>6. Total(Summed(memory)) \in Nat
    BY <1>5, TotalType, ChecksumAssumption
  <1>7. Total(memory.payload) \in Nat
    <2>1. memory.payload \in [1 .. n -> Nat]
      BY <1>1, <1>3
    <2> QED BY <2>1, <1>4, TotalType
  <1> QED BY <1>1, <1>2, <1>3, <1>4, <1>5, <1>6, <1>7 DEF Sum

\* The checksum is the complement of the residue of the sum.
LEMMA ChecksumOfSum ==
    ASSUME NEW memory \in Memory
    PROVE  /\ calculateChecksum(memory) = Base - 1 - Residue(Sum(memory))
           /\ calculateChecksum(memory) \in Word
  <1>1. Sum(memory) \in Nat
    BY MemoryType
  <1>2. calculateChecksum(memory) = Base - 1 - EndAround(Sum(memory))
    BY DEF calculateChecksum, Sum, Summed
  <1>3. EndAround(Sum(memory)) = Residue(Sum(memory)) /\ Residue(Sum(memory)) \in Word
    BY <1>1, EndAroundIsResidue, ResidueType
  <1> QED BY <1>2, <1>3, ChecksumAssumption DEF Word

\* Sums with one residue differ by one word's change only if the change is
\* between the two words that are alike.
LEMMA SameResidue ==
    ASSUME NEW sum \in Nat, NEW other \in Nat, Residue(sum) = Residue(other),
           NEW a \in Word, NEW b \in Word, a # b, other - sum = b - a
    PROVE  Alike(a, b)
  <1> DEFINE M == Base - 1
  <1>1. M \in Nat \ {0} /\ a \in 0 .. M /\ b \in 0 .. M
    BY ChecksumAssumption DEF Word
  <1>2. sum # 0 /\ other # 0
    <2>1. sum # other
      BY <1>1
    <2> QED BY <2>1, ResidueType
  <1> DEFINE n == sum - 1
             k == other - 1
  <1>3. n \in Nat /\ k \in Nat /\ k - n = b - a
    BY <1>1, <1>2
  <1>4. n % M = k % M
    <2>1. Residue(sum) = 1 + (n % M) /\ Residue(other) = 1 + (k % M)
      BY <1>2 DEF Residue
    <2>2. n % M \in Nat /\ k % M \in Nat
      <3> HIDE DEF M, n, k
      <3> QED BY <1>1, <1>3, Division
    <2> DEFINE x == n % M
               y == k % M
    <2>3. x \in Nat /\ y \in Nat /\ 1 + x = 1 + y
      BY <2>1, <2>2
    <2> HIDE DEF x, y
    <2>4. x = y
      BY <2>3
    <2> QED BY <2>4 DEF x, y
  <1> DEFINE p == n \div M
             q == k \div M
             r == n % M
  <1>5. n = M * p + r /\ k = M * q + r /\ p \in Nat /\ q \in Nat /\ r \in Nat
    <2> HIDE DEF M, n, k
    <2>1. n = M * p + r /\ p \in Nat /\ r \in 0 .. M - 1
      BY <1>1, <1>3, Division
    <2>2. k = M * q + (k % M) /\ q \in Nat
      BY <1>1, <1>3, Division
    <2> QED BY <1>1, <1>4, <2>1, <2>2
  <1> HIDE DEF M, n, k, p, q, r
  <1>6. M * (q - p) = b - a
    BY <1>1, <1>3, <1>5, SMT
  <1>7. CASE q - p >= 2
    <2>1. M * (q - p) >= 2 * M
      BY <1>1, <1>5, <1>7, SMT
    <2> QED BY <1>1, <1>6, <2>1
  <1>8. CASE q - p <= -2
    <2>1. M * (q - p) <= -(2 * M)
      BY <1>1, <1>5, <1>8, SMT
    <2> QED BY <1>1, <1>6, <2>1
  <1>9. CASE q - p = 0
    BY <1>1, <1>6, <1>9
  <1>10. CASE q - p = 1
    <2>1. b - a = M
      BY <1>1, <1>6, <1>10
    <2>2. a = 0 /\ b = M
      BY <1>1, <2>1
    <2> QED BY <2>2 DEF Alike, M
  <1>11. CASE q - p = -1
    <2>1. b - a = -M
      BY <1>1, <1>6, <1>11
    <2>2. b = 0 /\ a = M
      BY <1>1, <2>1
    <2> QED BY <2>2 DEF Alike, M
  <1> QED BY <1>5, <1>7, <1>8, <1>9, <1>10, <1>11


-----------------------------------------------------------------------------
(***************************************************************************)
(* The way of a segment.                                                   *)
(***************************************************************************)
\* The checksum field of a segment is right for the rest of it.
Built(memory) == memory.header[ChecksumWord] = calculateChecksum(FieldCleared(memory))

\* One word of a segment has changed on its way.
OneWordDiffers ==
    \E i \in 1 .. HeaderWords : \E word \in Word \ {sent.header[i]} :
        arrived = [sent EXCEPT !.header[i] = word]

\* Of a data segment nothing is said but that it is one.
ChecksumInv ==
    /\ sent \in Memory
    /\ arrived \in Memory
    /\ control => Built(sent)
    /\ ~changed => arrived = sent
    /\ changed => OneWordDiffers

\* A segment with one word of its header replaced is a segment.
LEMMA HeaderChanged ==
    ASSUME NEW memory \in Memory, NEW i \in 1 .. HeaderWords, NEW word \in Word
    PROVE  [memory EXCEPT !.header[i] = word] \in Memory
  BY DEF Memory, Header

\* updateChecksum makes a segment of a segment, whatever is in its checksum field.
LEMMA UpdateType ==
    ASSUME NEW memory \in Memory
    PROVE  updateChecksum(memory) \in Memory
  <1>1. calculateChecksum(memory) \in Word /\ ChecksumWord \in 1 .. HeaderWords
    BY ChecksumOfSum, ChecksumAssumption
  <1> QED BY <1>1, HeaderChanged DEF updateChecksum

\* updateChecksum makes the checksum field of a segment right if it was 0.
LEMMA UpdateBuilds ==
    ASSUME NEW memory \in Memory, memory.header[ChecksumWord] = 0
    PROVE  updateChecksum(memory) \in Memory /\ Built(updateChecksum(memory))
  <1> DEFINE sum     == calculateChecksum(memory)
             updated == updateChecksum(memory)
  <1>1. sum \in Word
    BY ChecksumOfSum
  <1> HIDE DEF sum
  <1>2. updated = [memory EXCEPT !.header[ChecksumWord] = sum]
    BY DEF updateChecksum, sum
  <1>3. updated \in Memory
    BY <1>1, <1>2, HeaderChanged, ChecksumAssumption
  <1>4. updated.header[ChecksumWord] = sum /\ FieldCleared(updated) = memory
    <2>1. memory.header \in [1 .. HeaderWords -> Word] /\ ChecksumWord \in 1 .. HeaderWords
      BY ChecksumAssumption, MemoryType
    <2>2. memory = [header |-> memory.header, payload |-> memory.payload]
      BY DEF Memory
    <2>3. updated.header = [memory.header EXCEPT ![ChecksumWord] = sum]
          /\ updated.payload = memory.payload
      BY <1>2, <2>2
    <2>4. FieldCleared(updated) = [header  |-> [updated.header EXCEPT ![ChecksumWord] = 0],
                                   payload |-> updated.payload]
      <3> HIDE DEF updated
      <3>1. updated = [header |-> updated.header, payload |-> updated.payload]
        BY <1>3 DEF Memory
      <3> QED BY <3>1 DEF FieldCleared
    <2>5. [updated.header EXCEPT ![ChecksumWord] = 0] = memory.header
      BY <2>1, <2>3
    <2> QED BY <2>1, <2>2, <2>3, <2>4, <2>5
  <1> QED BY <1>3, <1>4 DEF Built, sum

\* The invariant holds of a segment that has just been built, and a change of
\* one word keeps it.
LEMMA ChecksumInductive ==
    /\ ChecksumInit => ChecksumInv
    /\ ChecksumInv /\ [ChecksumNext]_checksumVars => ChecksumInv'
  <1>1. ASSUME ChecksumInit
        PROVE  ChecksumInv
    <2>1. PICK memory \in (IF control THEN ControlSegments ELSE DataSegments) :
            sent = updateChecksum(memory)
      BY <1>1 DEF ChecksumInit
    <2>2. memory \in Memory /\ (control => memory.header[ChecksumWord] = 0)
      BY <2>1 DEF ControlSegments, DataSegments
    <2>3. sent \in Memory /\ (control => Built(sent))
      BY <2>1, <2>2, UpdateType, UpdateBuilds
    <2> QED BY <1>1, <2>3 DEF ChecksumInit, ChecksumInv
  <1>2. ASSUME ChecksumInv, NEW i \in 1 .. HeaderWords, ChangeHeader(i)
        PROVE  ChecksumInv'
    <2>1. PICK word \in Word \ {sent.header[i]} :
            arrived' = [sent EXCEPT !.header[i] = word]
      BY <1>2 DEF ChangeHeader
    <2>2. arrived' \in Memory
      BY <1>2, <2>1, HeaderChanged DEF ChecksumInv
    <2>3. OneWordDiffers'
      BY <1>2, <2>1 DEF OneWordDiffers, ChangeHeader
    <2> QED BY <1>2, <2>2, <2>3
            DEF ChecksumInv, ChangeHeader, Built, FieldCleared, calculateChecksum
  <1>3. ASSUME ChecksumInv, UNCHANGED checksumVars
        PROVE  ChecksumInv'
    BY <1>3 DEF ChecksumInv, checksumVars, OneWordDiffers, Built
  <1> QED BY <1>1, <1>2, <1>3 DEF ChecksumNext

\* What isValidChecksum adds up: the sum of a segment, its checksum field
\* taken for 0.
LEMMA ValidMeansResidue ==
    ASSUME NEW memory \in Memory
    PROVE  /\ FieldCleared(memory) \in Memory
           /\ isValidChecksum(memory) <=>
                memory.header[ChecksumWord] = Base - 1 - Residue(Sum(FieldCleared(memory)))
  <1>1. FieldCleared(memory) \in Memory
    <2>1. 0 \in Word /\ ChecksumWord \in 1 .. HeaderWords
      BY ChecksumAssumption DEF Word
    <2> QED BY <2>1, HeaderChanged DEF FieldCleared
  <1> QED BY <1>1, ChecksumOfSum DEF isValidChecksum


\* One word of the header, neither the flags nor the checksum, has changed:
\* if the checksum still fits, the old word and the new one are alike.
LEMMA HeaderNoticed ==
    ASSUME NEW memory \in Memory, NEW other \in Memory, isValidChecksum(memory),
           isValidChecksum(other), NEW i \in (1 .. HeaderWords) \ {FlagsWord, ChecksumWord},
           NEW word \in Word \ {memory.header[i]},
           other = [memory EXCEPT !.header[i] = word]
    PROVE  Alike(memory.header[i], other.header[i])
  <1> DEFINE cleared  == FieldCleared(memory)
             cleared2 == FieldCleared(other)
             a == memory.header[i]
  <1>1. /\ memory.header \in [1 .. HeaderWords -> Word]
        /\ memory = [header |-> memory.header, payload |-> memory.payload]
        /\ ChecksumWord \in 1 .. HeaderWords /\ HeaderWords \in Nat
    BY ChecksumAssumption, MemoryType DEF Memory
  <1>2. /\ other.header = [memory.header EXCEPT ![i] = word]
        /\ other.payload = memory.payload
    BY <1>1
  <1>3. /\ cleared \in Memory /\ cleared2 \in Memory
        /\ cleared.header = [memory.header EXCEPT ![ChecksumWord] = 0]
        /\ cleared.payload = memory.payload
        /\ cleared2.header = [other.header EXCEPT ![ChecksumWord] = 0]
        /\ cleared2.payload = memory.payload
    <2>1. cleared \in Memory /\ cleared2 \in Memory
      BY ValidMeansResidue
    <2>2. other = [header |-> other.header, payload |-> other.payload]
      BY DEF Memory
    <2> QED BY <1>1, <1>2, <2>1, <2>2 DEF FieldCleared
  <1> HIDE DEF cleared, cleared2
  <1>4. Sum(cleared) \in Nat /\ Sum(cleared2) \in Nat
    BY <1>3, MemoryType
  <1>5. Residue(Sum(cleared)) = Residue(Sum(cleared2))
    <2>1. other.header[ChecksumWord] = memory.header[ChecksumWord]
      BY <1>1, <1>2
    <2>2. memory.header[ChecksumWord] = Base - 1 - Residue(Sum(cleared))
      BY ValidMeansResidue DEF cleared
    <2>3. other.header[ChecksumWord] = Base - 1 - Residue(Sum(cleared2))
      BY ValidMeansResidue DEF cleared2
    <2>4. Residue(Sum(cleared)) \in Nat /\ Residue(Sum(cleared2)) \in Nat
      BY <1>4, ResidueType DEF Word
    <2> QED BY <2>1, <2>2, <2>3, <2>4, ChecksumAssumption
  <1>6. a \in Word /\ a # word /\ other.header[i] = word
    BY <1>1, <1>2
  <1>7. Sum(cleared2) - Sum(cleared) = word - a
    <2> DEFINE v == Summed(cleared)
               w == Summed(cleared2)
    <2>1. v \in [1 .. HeaderWords -> Nat] /\ w \in [1 .. HeaderWords -> Nat]
      BY <1>3, MemoryType
    <2>2. v[i] = a /\ w[i] = word
      BY <1>1, <1>2, <1>3 DEF Summed, IsSummed
    <2>3. \A j \in (1 .. HeaderWords) \ {i} : w[j] = v[j]
      BY <1>1, <1>2, <1>3 DEF Summed, IsSummed
    <2> HIDE DEF v, w
    <2>4. Total(w) - Total(v) = word - a
      <3>1. Total(w) - Total(v) = w[i] - v[i]
        <4>1. HeaderWords \in Nat /\ i \in 1 .. HeaderWords
          BY <1>1
        <4> QED BY <4>1, <2>1, <2>3, TotalChanges
      <3> QED BY <2>2, <3>1
    <2>5. Total(w) \in Nat /\ Total(v) \in Nat
      BY <1>1, <2>1, TotalType
    <2>6. Total(memory.payload) \in Nat
      <3>1. memory.payload \in [1 .. Len(memory.payload) -> Nat] /\ Len(memory.payload) \in Nat
        BY MemoryType
      <3> QED BY <3>1, TotalType
    <2> QED BY <1>3, <2>4, <2>5, <2>6 DEF Sum, v, w
  <1> HIDE DEF a
  <1>8. Alike(a, word)
    BY <1>4, <1>5, <1>6, <1>7, SameResidue
  <1> QED BY <1>6, <1>8 DEF a

\* calculateChecksum is the complement of the sum modulo Base - 1.
LEMMA ModuloComplement ==
    ChecksumInv => FoldsModulo
  <1> SUFFICES ASSUME ChecksumInv
               PROVE  FoldsModulo
    OBVIOUS
  <1>1. arrived \in Memory
    BY DEF ChecksumInv
  <1> DEFINE sum == Sum(arrived)
  <1>2. sum \in Nat /\ calculateChecksum(arrived) = Base - 1 - Residue(sum)
    BY <1>1, MemoryType, ChecksumOfSum
  <1>3. sum = Total([i \in 1 .. HeaderWords |->
                       IF i = FlagsWord THEN 0 ELSE arrived.header[i]])
                + Total(arrived.payload)
    <2>1. Summed(arrived) = [i \in 1 .. HeaderWords |->
                               IF i = FlagsWord THEN 0 ELSE arrived.header[i]]
      BY DEF Summed, IsSummed
    <2> QED BY <2>1 DEF Sum
  <1> HIDE DEF sum
  <1>4. calculateChecksum(arrived) =
          IF sum = 0 THEN Base - 1 ELSE Base - 2 - ((sum - 1) % (Base - 1))
    <2>1. CASE sum = 0
      BY <1>2, <2>1, ChecksumAssumption DEF Residue
    <2>2. CASE sum # 0
      <3> DEFINE M == Base - 1
                 r == (sum - 1) % M
      <3>1. r \in 0 .. M - 1 /\ M \in Nat \ {0}
        <4>1. sum - 1 \in Nat /\ M \in Nat \ {0}
          BY <1>2, <2>2, ChecksumAssumption
        <4> HIDE DEF M
        <4> QED BY <4>1, Division
      <3>2. Residue(sum) = 1 + r
        BY <2>2 DEF Residue
      <3> HIDE DEF r
      <3>3. Base - 1 - (1 + r) = Base - 2 - r
        BY <3>1, ChecksumAssumption
      <3> QED BY <1>2, <2>2, <3>2, <3>3 DEF r
    <2> QED BY <2>1, <2>2
  <1> QED BY <1>3, <1>4 DEF FoldsModulo

\* A control segment that was built and whose words have not changed is accepted.
LEMMA AcceptedAsBuilt ==
    ChecksumInv => BuiltIsValid /\ (control => isValidChecksum(sent))
  BY DEF ChecksumInv, BuiltIsValid, Built, isValidChecksum

\* A changed word is noticed, but for the two words that are alike.
LEMMA NoticesOneWord ==
    ChecksumInv => OneWordNoticed
  <1> SUFFICES ASSUME ChecksumInv, control, changed,
                      arrived.header[FlagsWord] = sent.header[FlagsWord],
                      isValidChecksum(arrived)
               PROVE  \E i \in (1 .. HeaderWords) \ {ChecksumWord} :
                          Alike(sent.header[i], arrived.header[i])
    BY DEF OneWordNoticed
  <1>1. sent \in Memory /\ arrived \in Memory /\ isValidChecksum(sent) /\ OneWordDiffers
    BY AcceptedAsBuilt DEF ChecksumInv
  <1>2. ASSUME NEW i \in 1 .. HeaderWords, NEW word \in Word \ {sent.header[i]},
               arrived = [sent EXCEPT !.header[i] = word]
        PROVE  i # ChecksumWord /\ Alike(sent.header[i], arrived.header[i])
    <2>1. /\ sent.header \in [1 .. HeaderWords -> Word]
          /\ sent = [header |-> sent.header, payload |-> sent.payload]
      BY <1>1, MemoryType DEF Memory
    <2>2. /\ arrived = [header |-> [sent.header EXCEPT ![i] = word],
                        payload |-> sent.payload]
          /\ arrived.header[i] = word
      BY <1>2, <2>1
    <2>3. i # FlagsWord
      BY <2>2, <1>2
    <2>4. i # ChecksumWord
      <3> SUFFICES ASSUME i = ChecksumWord
                   PROVE  FALSE
        OBVIOUS
      <3>1. FieldCleared(arrived) = FieldCleared(sent)
        <4>1. FieldCleared(arrived) =
                [header |-> [[sent.header EXCEPT ![i] = word] EXCEPT ![i] = 0],
                 payload |-> sent.payload]
          BY <2>2 DEF FieldCleared
        <4>2. FieldCleared(sent) =
                [header |-> [sent.header EXCEPT ![i] = 0], payload |-> sent.payload]
          BY <2>1 DEF FieldCleared
        <4>3. [[sent.header EXCEPT ![i] = word] EXCEPT ![i] = 0]
                = [sent.header EXCEPT ![i] = 0]
          BY <2>1
        <4> QED BY <4>1, <4>2, <4>3
      <3> QED BY <1>1, <1>2, <2>2, <3>1 DEF isValidChecksum
    <2> QED BY <1>1, <1>2, <2>3, <2>4, HeaderNoticed
  <1> QED BY <1>1, <1>2 DEF OneWordDiffers

-----------------------------------------------------------------------------
\* The invariant holds of every behaviour.
THEOREM ChecksumInvariant == ChecksumSpec => []ChecksumInv
  BY ChecksumInductive, PTL DEF ChecksumSpec

\* A segment that syn, ack, synAck, fin or finAck built is accepted as long as
\* none of its words changes, whatever the width of a word, and whatever the
\* other words hold (segment.cpp:11-70, 106-116).
THEOREM BuiltIsAccepted == ChecksumSpec => []BuiltIsValid
  BY ChecksumInvariant, AcceptedAsBuilt, PTL

\* isValidChecksum notices every change of one word of such a segment that is
\* not the flags', but that of a zero word into one of ones or back
\* (segment.cpp:77-116).
THEOREM OneWordIsNoticed == ChecksumSpec => []OneWordNoticed
  BY ChecksumInvariant, NoticesOneWord, PTL

\* The loop that folds the carry of the sum ends, and computes the sum modulo
\* Base - 1 (segment.cpp:99-103).
THEOREM CarryFoldsModulo == ChecksumSpec => []FoldsModulo
  BY ChecksumInvariant, ModuloComplement, PTL
=============================================================================
