----------------------------- MODULE SumsProofs -----------------------------
(***************************************************************************)
(* What Total computes, for every sequence of numbers: proofs by induction *)
(* on its length.  Induction is stated about sets of numbers: what a       *)
(* recursive function computes for every n is proved of the set of the n   *)
(* for which it computes it.                                               *)
(***************************************************************************)
EXTENDS Sums, WellFoundedInduction, TLAPS

-----------------------------------------------------------------------------
\* A nonempty set of natural numbers has a least member.
LEMMA LeastOf ==
    ASSUME NEW T \in SUBSET Nat, T # {}
    PROVE  \E n \in T : \A k \in T : n <= k
  <1> DEFINE R == OpToRel(<, Nat)
  <1>1. IsWellFoundedOn(R, Nat)
    BY NatLessThanWellFounded
  <1>2. \A x, y \in Nat : x < y => <<x, y>> \in R
    BY DEF OpToRel
  <1> HIDE DEF R
  <1>3. PICK n \in T : \A k \in T : ~ (<<k, n>> \in R)
    BY <1>1, WFMin
  <1>4. ASSUME NEW k \in T
        PROVE  n <= k
    <2>1. ~ (k < n)
      BY <1>2, <1>3
    <2> QED BY <2>1
  <1> QED BY <1>4

\* Induction: a set that holds 0, and n + 1 with every n, is all of Nat.
LEMMA SetInduction ==
    ASSUME NEW T \in SUBSET Nat, 0 \in T, \A n \in T : n + 1 \in T
    PROVE  T = Nat
  <1> SUFFICES ASSUME Nat \ T # {}
               PROVE  FALSE
    OBVIOUS
  <1>1. PICK n \in Nat \ T : \A k \in Nat \ T : n <= k
    BY LeastOf
  <1>2. n # 0 /\ n - 1 \in Nat /\ n - 1 \in T
    BY <1>1
  <1> QED BY <1>1, <1>2

-----------------------------------------------------------------------------
\* sums holds the sum of the first k words, for every k.
IsSums(sums, words, n) ==
    /\ sums \in [0 .. n -> Nat]
    /\ sums[0] = 0
    /\ \A k \in 1 .. n : sums[k] = sums[k - 1] + words[k]

\* The loop of calculateChecksum has a sum after each of its rounds.
LEMMA SumsExist ==
    ASSUME NEW m \in Nat, NEW words \in [1 .. m -> Nat]
    PROVE  \E sums : IsSums(sums, words, m)
  <1> DEFINE T == {n \in Nat : n <= m => \E sums : IsSums(sums, words, n)}
  <1>1. 0 \in T
    <2>1. IsSums([k \in 0 .. 0 |-> 0], words, 0)
      BY DEF IsSums
    <2> QED BY <2>1
  <1>2. ASSUME NEW n \in T
        PROVE  n + 1 \in T
    <2> SUFFICES ASSUME n + 1 <= m
                 PROVE  \E sums : IsSums(sums, words, n + 1)
      OBVIOUS
    <2>1. PICK sums : IsSums(sums, words, n)
      OBVIOUS
    <2> DEFINE next == [k \in 0 .. n + 1 |->
                          IF k = n + 1 THEN sums[n] + words[n + 1] ELSE sums[k]]
    <2>2. words[n + 1] \in Nat /\ sums[n] \in Nat
      BY <2>1 DEF IsSums
    <2>3. next \in [0 .. n + 1 -> Nat]
      BY <2>1, <2>2 DEF IsSums
    <2>4. IsSums(next, words, n + 1)
      <3>1. next[0] = 0
        BY <2>1 DEF IsSums
      <3>2. ASSUME NEW k \in 1 .. n + 1
            PROVE  next[k] = next[k - 1] + words[k]
        <4>1. CASE k = n + 1
          BY <4>1
        <4>2. CASE k # n + 1
          BY <4>2, <2>1 DEF IsSums
        <4> QED BY <4>1, <4>2
      <3> QED BY <2>3, <3>1, <3>2 DEF IsSums
    <2> QED BY <2>4
  <1>3. T = Nat
    <2> HIDE DEF T
    <2>1. T \in SUBSET Nat
      BY DEF T
    <2> QED BY <1>1, <1>2, <2>1, SetInduction
  <1>4. m \in T
    BY ONLY <1>3, m \in Nat
  <1>5. m \in {n \in Nat : n <= m => \E sums : IsSums(sums, words, n)}
    BY ONLY <1>4 DEF T
  <1>6. m <= m
    OBVIOUS
  <1> HIDE DEF T
  <1> QED BY ONLY <1>5, <1>6

\* Total is the last of these sums.
LEMMA TotalIsLast ==
    ASSUME NEW m \in Nat, NEW words \in [1 .. m -> Nat]
    PROVE  \E sums : IsSums(sums, words, m) /\ Total(words) = sums[m]
  <1>1. Len(words) = m
    OBVIOUS
  <1> DEFINE body(f) == [n \in 0 .. m |-> IF n = 0 THEN 0 ELSE f[n - 1] + words[n]]
             total   == CHOOSE f : f = body(f)
  <1>2. Total(words) = total[m]
    BY <1>1 DEF Total
  <1>3. \E f : f = body(f)
    <2>1. PICK sums : IsSums(sums, words, m)
      BY SumsExist
    <2>2. sums = body(sums)
      BY <2>1 DEF IsSums
    <2> QED BY <2>2
  <1>4. total = body(total)
    BY <1>3
  <1> HIDE DEF total
  <1>5. IsSums(total, words, m)
    <2> DEFINE T == {n \in Nat : n <= m => total[n] \in Nat}
    <2>1. 0 \in T
      BY <1>4
    <2>2. ASSUME NEW n \in T
          PROVE  n + 1 \in T
      <3> SUFFICES ASSUME n + 1 <= m
                   PROVE  total[n + 1] \in Nat
        OBVIOUS
      <3>1. total[n + 1] = total[n] + words[n + 1]
        BY <1>4
      <3> QED BY <3>1
    <2>3. T = Nat
      <3> HIDE DEF T
      <3>1. T \in SUBSET Nat
        BY DEF T
      <3> QED BY <2>1, <2>2, <3>1, SetInduction
    <2>4. \A n \in 0 .. m : total[n] \in Nat
      BY <2>3
    <2> QED BY <1>4, <2>4 DEF IsSums
  <1> QED BY <1>2, <1>5


\* A sum of words is a number.
LEMMA TotalType ==
    ASSUME NEW m \in Nat, NEW words \in [1 .. m -> Nat]
    PROVE  Total(words) \in Nat
  BY TotalIsLast DEF IsSums

\* A change of one word changes the sum by as much.
LEMMA TotalChanges ==
    ASSUME NEW m \in Nat, NEW words \in [1 .. m -> Nat], NEW others \in [1 .. m -> Nat],
           NEW i \in 1 .. m, \A j \in (1 .. m) \ {i} : others[j] = words[j]
    PROVE  Total(others) - Total(words) = others[i] - words[i]
  <1>1. PICK sums : IsSums(sums, words, m) /\ Total(words) = sums[m]
    BY TotalIsLast
  <1>2. PICK sums2 : IsSums(sums2, others, m) /\ Total(others) = sums2[m]
    BY TotalIsLast
  <1> DEFINE T == {n \in Nat : n <= m => sums2[n] - sums[n] =
                                   IF n < i THEN 0 ELSE others[i] - words[i]}
  <1>3. 0 \in T
    BY <1>1, <1>2 DEF IsSums
  <1>4. ASSUME NEW n \in T
        PROVE  n + 1 \in T
    <2> SUFFICES ASSUME n + 1 <= m
                 PROVE  sums2[n + 1] - sums[n + 1] =
                          IF n + 1 < i THEN 0 ELSE others[i] - words[i]
      OBVIOUS
    <2> n + 1 \in 1 .. m /\ n \in 0 .. m /\ (n + 1) - 1 = n
      OBVIOUS
    <2>1. /\ sums[n + 1] = sums[n] + words[n + 1] /\ sums[n] \in Nat
          /\ sums2[n + 1] = sums2[n] + others[n + 1] /\ sums2[n] \in Nat
      <3>1. sums[n + 1] = sums[n] + words[n + 1] /\ sums[n] \in Nat
        BY <1>1 DEF IsSums
      <3>2. sums2[n + 1] = sums2[n] + others[n + 1] /\ sums2[n] \in Nat
        BY <1>2 DEF IsSums
      <3> QED BY <3>1, <3>2
    <2>2. words[n + 1] \in Nat /\ others[n + 1] \in Nat
      OBVIOUS
    <2>3. sums2[n] - sums[n] = IF n < i THEN 0 ELSE others[i] - words[i]
      OBVIOUS
    <2>4. CASE n + 1 = i
      <3>1. sums2[n] - sums[n] = 0 /\ ~(n + 1 < i)
        BY <2>3, <2>4
      <3>2. sums2[n + 1] - sums[n + 1] = others[n + 1] - words[n + 1]
        BY <2>1, <2>2, <3>1
      <3> QED BY <2>4, <3>1, <3>2
    <2>5. CASE n + 1 # i
      <3>1. others[n + 1] = words[n + 1]
        BY <2>5
      <3>2. sums2[n + 1] - sums[n + 1] = sums2[n] - sums[n]
        BY <2>1, <2>2, <3>1
      <3>3. (n < i) <=> (n + 1 < i)
        BY <2>5
      <3> QED BY <2>3, <3>2, <3>3
    <2> QED BY <2>4, <2>5
  <1>5. T = Nat
    <2> HIDE DEF T
    <2>1. T \in SUBSET Nat
      BY DEF T
    <2> QED BY <1>3, <1>4, <2>1, SetInduction
  <1>6. sums2[m] - sums[m] = others[i] - words[i]
    BY <1>5
  <1> QED BY <1>1, <1>2, <1>6

\* The sum of no words is 0.
LEMMA TotalOfNone ==
    ASSUME NEW words \in [1 .. 0 -> Nat]
    PROVE  Total(words) = 0
  BY TotalIsLast DEF IsSums

\* A word that is appended is added.
LEMMA TotalAppended ==
    ASSUME NEW m \in Nat, NEW words \in [1 .. m -> Nat], NEW more \in [1 .. m + 1 -> Nat],
           \A j \in 1 .. m : more[j] = words[j]
    PROVE  Total(more) = Total(words) + more[m + 1]
  <1>1. PICK sums : IsSums(sums, words, m) /\ Total(words) = sums[m]
    BY TotalIsLast
  <1>2. PICK sums2 : IsSums(sums2, more, m + 1) /\ Total(more) = sums2[m + 1]
    BY TotalIsLast
  <1> DEFINE T == {n \in Nat : n <= m => sums2[n] = sums[n]}
  <1>3. 0 \in T
    BY <1>1, <1>2 DEF IsSums
  <1>4. ASSUME NEW n \in T
        PROVE  n + 1 \in T
    <2> SUFFICES ASSUME n + 1 <= m
                 PROVE  sums2[n + 1] = sums[n + 1]
      OBVIOUS
    <2> n + 1 \in 1 .. m /\ n + 1 \in 1 .. m + 1 /\ (n + 1) - 1 = n
      OBVIOUS
    <2>1. sums[n + 1] = sums[n] + words[n + 1]
      BY <1>1 DEF IsSums
    <2>2. sums2[n + 1] = sums2[n] + more[n + 1]
      BY <1>2 DEF IsSums
    <2> QED BY <2>1, <2>2
  <1>5. T = Nat
    <2> HIDE DEF T
    <2>1. T \in SUBSET Nat
      BY DEF T
    <2> QED BY <1>3, <1>4, <2>1, SetInduction
  <1>6. sums2[m + 1] = sums2[m] + more[m + 1]
    <2>1. m + 1 \in 1 .. m + 1 /\ (m + 1) - 1 = m
      OBVIOUS
    <2> QED BY <1>2, <2>1 DEF IsSums
  <1>7. sums2[m] = sums[m]
    BY <1>5
  <1> QED BY <1>1, <1>2, <1>6, <1>7
=============================================================================
