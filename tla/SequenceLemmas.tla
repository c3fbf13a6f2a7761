--------------------------- MODULE SequenceLemmas ---------------------------
(***************************************************************************)
(* Facts that the proofs of several modules cite: what a SubSeq inside its *)
(* bounds is, what removing one position of a sequence leaves, least and   *)
(* greatest numbers, and induction over the natural numbers, for a set of  *)
(* them.                                                                   *)
(***************************************************************************)
EXTENDS Integers, Sequences, SequencesExt, SequenceTheorems, WellFoundedInduction, TLAPS

\* SubSeq of a sequence, with its bounds inside it.
LEMMA SubSeqInside ==
  ASSUME NEW S, NEW s \in Seq(S), NEW m \in Nat, NEW n \in Nat,
         1 <= m, m <= n + 1, n <= Len(s)
  PROVE  /\ SubSeq(s, m, n) \in Seq(S)
         /\ Len(SubSeq(s, m, n)) = n + 1 - m
         /\ \A i \in 1..(n + 1 - m) : SubSeq(s, m, n)[i] = s[m + i - 1]
<1>1. \A i \in m..n : s[i] \in S
  BY LenProperties, ElementOfSeq
<1>2. m \in Int /\ n \in Int
  OBVIOUS
<1>3. /\ SubSeq(s, m, n) \in Seq(S)
      /\ Len(SubSeq(s, m, n)) = IF m <= n THEN n - m + 1 ELSE 0
      /\ \A i \in 1..(n - m + 1) : SubSeq(s, m, n)[i] = s[m + i - 1]
  BY <1>1, <1>2, SubSeqProperties
<1>4. n - m + 1 = n + 1 - m /\ (m > n => n + 1 - m = 0)
  OBVIOUS
<1> QED BY <1>3, <1>4

\* A sequence without its position j: every other entry, in the same order.
LEMMA RemovalShape ==
  ASSUME NEW S, NEW s \in Seq(S), NEW j \in DOMAIN s
  PROVE  /\ RemoveAt(s, j) \in Seq(S)
         /\ Len(RemoveAt(s, j)) = Len(s) - 1
         /\ \A i \in DOMAIN RemoveAt(s, j) :
              RemoveAt(s, j)[i] = IF i < j THEN s[i] ELSE s[i + 1]
<1> DEFINE left == SubSeq(s, 1, j - 1)
<1> DEFINE r == RemoveAt(s, j)
<1> DEFINE right == SubSeq(s, j + 1, Len(s))
<1>1. DOMAIN s = 1..Len(s) /\ Len(s) \in Nat /\ j \in 1..Len(s)
  BY LenProperties
<1>2. /\ left \in Seq(S) /\ Len(left) = j - 1
      /\ \A i \in 1..(j - 1) : left[i] = s[i]
  <2>1. /\ left \in Seq(S)
        /\ Len(left) = (j - 1) + 1 - 1
        /\ \A i \in 1..((j - 1) + 1 - 1) : left[i] = s[1 + i - 1]
    <3>1. 1 \in Nat /\ j - 1 \in Nat /\ 1 <= (j - 1) + 1 /\ j - 1 <= Len(s)
      BY <1>1
    <3> QED BY <3>1, SubSeqInside
  <2> HIDE DEF left
  <2> QED BY <2>1, <1>1
<1>3. /\ right \in Seq(S) /\ Len(right) = Len(s) - j
      /\ \A i \in 1..(Len(s) - j) : right[i] = s[j + i]
  <2>1. /\ right \in Seq(S)
        /\ Len(right) = Len(s) + 1 - (j + 1)
        /\ \A i \in 1..(Len(s) + 1 - (j + 1)) : right[i] = s[(j + 1) + i - 1]
    <3>1. j + 1 \in Nat /\ Len(s) \in Nat /\ 1 <= j + 1 /\ j + 1 <= Len(s) + 1
      BY <1>1
    <3> QED BY <3>1, SubSeqInside
  <2> HIDE DEF right
  <2>2. Len(s) + 1 - (j + 1) = Len(s) - j
    BY <1>1
  <2>3. \A i \in 1..(Len(s) - j) : (j + 1) + i - 1 = j + i
    BY <1>1
  <2> QED BY <2>1, <2>2, <2>3
<1>0. r = left \o right
  BY DEF RemoveAt
<1> HIDE DEF left, right, r
<1>4. /\ r \in Seq(S)
      /\ Len(r) = Len(left) + Len(right)
      /\ \A i \in 1..(Len(left) + Len(right)) :
           r[i] = IF i <= Len(left) THEN left[i] ELSE right[i - Len(left)]
  BY <1>0, <1>2, <1>3, ConcatProperties
<1>5. Len(r) = Len(s) - 1 /\ DOMAIN r = 1..(Len(s) - 1)
  BY <1>1, <1>2, <1>3, <1>4, LenProperties
<1>6. ASSUME NEW i \in DOMAIN r
      PROVE  r[i] = IF i < j THEN s[i] ELSE s[i + 1]
  <2>0. i \in 1..(Len(left) + Len(right)) /\ i \in 1..(Len(s) - 1)
    BY <1>1, <1>2, <1>3, <1>5
  <2>1. CASE i < j
    <3>1. i \in 1..(j - 1) /\ i <= Len(left)
      BY <1>1, <1>2, <2>0, <2>1
    <3>2. r[i] = left[i]
      BY <1>4, <2>0, <3>1
    <3> QED BY <1>2, <2>1, <3>1, <3>2
  <2>2. CASE ~(i < j)
    <3> DEFINE k == i - (j - 1)
    <3>1. /\ ~(i <= Len(left)) /\ i - Len(left) = k
          /\ k \in 1..(Len(s) - j) /\ j + k = i + 1
      BY <1>1, <1>2, <2>0, <2>2
    <3> HIDE DEF k
    <3>2. r[i] = right[k]
      BY <1>4, <2>0, <3>1
    <3>3. right[k] = s[j + k]
      BY <1>3, <3>1
    <3> QED BY <2>2, <3>1, <3>2, <3>3
  <2> QED BY <2>1, <2>2
<1> QED BY <1>4, <1>5, <1>6 DEF r

\* A set of natural numbers with anything in it has a least element.
LEMMA LeastNatural ==
  ASSUME NEW T, T \subseteq Nat, T # {}
  PROVE  \E x \in T : \A y \in T : x <= y
<1> DEFINE R == OpToRel(<, Nat)
<1>1. IsWellFoundedOn(R, Nat)
  BY NatLessThanWellFounded, Zenon
<1>2. R = {p \in Nat \X Nat : p[1] < p[2]}
  BY Zenon DEF OpToRel
<1> HIDE DEF R
<1>3. PICK x \in T : \A y \in T : ~(<<y, x>> \in R)
  BY <1>1, WFMin
<1>4. \A y \in T : ~(y < x)
  BY <1>2, <1>3
<1> QED BY <1>4

\* Induction: a set that has 0, and with each number the next, has them all.
LEMMA SetInduction ==
  ASSUME NEW S, 0 \in S, \A n \in Nat : n \in S => n + 1 \in S
  PROVE  Nat \subseteq S
<1> SUFFICES ASSUME Nat \ S # {} PROVE FALSE
  OBVIOUS
<1>1. PICK x \in Nat \ S : \A y \in Nat \ S : x <= y
  BY LeastNatural
<1>2. x # 0 /\ x - 1 \in Nat /\ (x - 1) + 1 = x
  OBVIOUS
<1>3. x - 1 \notin S
  BY <1>2
<1> QED BY <1>1, <1>2, <1>3

\* The smaller of two numbers.
LEMMA MinOfTwo == ASSUME NEW a \in Int, NEW b \in Int, a <= b
                  PROVE  Min({a, b}) = a
<1> DEFINE both == {a, b}
<1>1. Min(both) = CHOOSE x \in both : \A y \in both : x <= y
  BY DEF Min
<1>2. a \in both /\ \A y \in both : a <= y
  OBVIOUS
<1>3. Min(both) \in both /\ \A y \in both : Min(both) <= y
  <2> HIDE DEF both
  <2> QED BY <1>1, <1>2
<1>4. Min(both) <= a /\ Min(both) \in {a, b}
  BY <1>3
<1> QED BY <1>4

\* The largest of some numbers.
LEMMA MaxOfImage ==
  ASSUME NEW n \in Nat \ {0}, NEW f \in [1..n -> Nat]
  PROVE  /\ Max({f[x] : x \in 1..n}) \in Nat
         /\ \A x \in 1..n : f[x] <= Max({f[y] : y \in 1..n})
         /\ Max({f[x] : x \in 1..n}) \in {f[x] : x \in 1..n}
<1> DEFINE Top(k, x) == x \in 1..k /\ \A y \in 1..k : f[y] <= f[x]
           S == {k \in Nat : k + 1 <= n => \E x : Top(k + 1, x)}
<1>1. 0 \in S
  <2>1. Top(1, 1)
    OBVIOUS
  <2>2. 0 + 1 = 1
    OBVIOUS
  <2> QED BY <2>1, <2>2
<1>2. ASSUME NEW k \in Nat, k \in S, (k + 1) + 1 <= n
      PROVE  \E x : Top((k + 1) + 1, x)
  <2>1. PICK x : Top(k + 1, x)
    BY <1>2
  <2>2. \A y \in 1..((k + 1) + 1) : y \in 1..(k + 1) \/ y = k + 2
    OBVIOUS
  <2>3. k + 2 \in 1..n /\ x \in 1..n /\ f[x] \in Nat /\ f[k + 2] \in Nat
    BY <1>2, <2>1
  <2>4. \A y \in 1..(k + 1) : f[y] \in Nat
    BY <1>2
  <2>5. CASE f[x] <= f[k + 2]
    <3>1. Top((k + 1) + 1, k + 2)
      BY <2>1, <2>2, <2>3, <2>4, <2>5
    <3> QED BY <3>1
  <2>6. CASE ~(f[x] <= f[k + 2])
    <3>1. Top((k + 1) + 1, x)
      BY <2>1, <2>2, <2>3, <2>4, <2>6
    <3> QED BY <3>1
  <2> QED BY <2>5, <2>6
<1>3. Nat \subseteq S
  <2>1. \A k \in Nat : k \in S => k + 1 \in S
    <3> HIDE DEF Top
    <3> QED BY <1>2
  <2> HIDE DEF S
  <2> QED BY <1>1, <2>1, SetInduction
<1>4. PICK x : Top(n, x)
  <2>1. n - 1 \in Nat /\ (n - 1) + 1 = n
    OBVIOUS
  <2> HIDE DEF Top
  <2>2. n - 1 \in S /\ (n - 1) + 1 <= n
    <3> HIDE DEF S
    <3> QED BY <1>3, <2>1
  <2>3. \E x : Top((n - 1) + 1, x)
    BY <2>2
  <2> QED BY <2>1, <2>3
<1> DEFINE image == {f[y] : y \in 1..n}
<1>5. \E v \in image : \A w \in image : v >= w
  BY <1>4
<1>6. Max(image) = CHOOSE v \in image : \A w \in image : v >= w
  BY DEF Max
<1>7. Max(image) \in image /\ \A w \in image : Max(image) >= w
  <2> HIDE DEF image
  <2> QED BY <1>5, <1>6
<1>8. image \subseteq Nat /\ \A y \in 1..n : f[y] \in image
  OBVIOUS
<1> HIDE DEF image
<1>9. Max(image) \in Nat /\ \A y \in 1..n : f[y] <= Max(image)
  BY <1>7, <1>8
<1> QED BY <1>7, <1>9 DEF image

=============================================================================
