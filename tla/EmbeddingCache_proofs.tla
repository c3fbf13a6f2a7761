----------------------- MODULE EmbeddingCache_proofs -----------------------
(***************************************************************************)
(* Theorems about EmbeddingCache, for every number of processes, threads,  *)
(* models and texts, every list of texts and every capacity.               *)
(***************************************************************************)
EXTENDS EmbeddingCache, SequenceLemmas, SequenceTheorems, TLAPS

(***************************************************************************)
(* The LRU's operators.                                                    *)
(***************************************************************************)

\* One entry per key.
Distinct(s) == \A a, b \in DOMAIN s : s[a].key = s[b].key => a = b

\* Without removes one entry, k's, and keeps the order of the others.
LEMMA WithoutShape ==
  ASSUME NEW S, NEW s \in Seq(S), NEW k, Cached(s, k)
  PROVE  \E j \in DOMAIN s :
           /\ s[j].key = k
           /\ Without(s, k) \in Seq(S)
           /\ Len(Without(s, k)) = Len(s) - 1
           /\ \A i \in DOMAIN Without(s, k) :
                Without(s, k)[i] = IF i < j THEN s[i] ELSE s[i + 1]
<1> DEFINE j == CHOOSE m \in DOMAIN s : s[m].key = k
<1>1. j \in DOMAIN s /\ s[j].key = k
  BY DEF Cached
<1>2. Without(s, k) = RemoveAt(s, j)
  BY DEF Without
<1> HIDE DEF j
<1> QED BY <1>1, <1>2, RemovalShape

\* What is left after Without are entries of s, one per key if s had one per
\* key, and none of k.
LEMMA WithoutProperties ==
  ASSUME NEW S, NEW s \in Seq(S), NEW k
  PROVE  /\ Without(s, k) \in Seq(S)
         /\ Len(Without(s, k)) <= Len(s)
         /\ \A i \in DOMAIN Without(s, k) :
              \E m \in DOMAIN s : Without(s, k)[i] = s[m]
         /\ Distinct(s) => /\ Distinct(Without(s, k))
                           /\ ~Cached(Without(s, k), k)
<1>1. CASE ~Cached(s, k)
  BY <1>1, LenProperties DEF Without
<1>2. CASE Cached(s, k)
  <2> DEFINE w == Without(s, k)
  <2>1. PICK j \in DOMAIN s :
           /\ s[j].key = k
           /\ w \in Seq(S) /\ Len(w) = Len(s) - 1
           /\ \A i \in DOMAIN w : w[i] = IF i < j THEN s[i] ELSE s[i + 1]
    BY <1>2, WithoutShape
  <2>2. /\ DOMAIN s = 1..Len(s) /\ Len(s) \in Nat
        /\ DOMAIN w = 1..(Len(s) - 1)
    BY <2>1, LenProperties
  <2> HIDE DEF w
  <2>3. \A i \in DOMAIN w : IF i < j THEN i \in DOMAIN s ELSE i + 1 \in DOMAIN s
    BY <2>2
  <2>4. \A i \in DOMAIN w : \E m \in DOMAIN s : w[i] = s[m]
    BY <2>1, <2>3
  <2>5. ASSUME Distinct(s)
        PROVE  Distinct(w) /\ ~Cached(w, k)
    <3>1. \A i \in DOMAIN w : w[i].key # k
      BY <2>1, <2>2, <2>3, <2>5 DEF Distinct
    <3>2. ASSUME NEW a \in DOMAIN w, NEW b \in DOMAIN w, w[a].key = w[b].key
          PROVE  a = b
      <4>1. PICK c \in DOMAIN s : w[a] = s[c] /\ c = IF a < j THEN a ELSE a + 1
        BY <2>1, <2>3
      <4>2. PICK d \in DOMAIN s : w[b] = s[d] /\ d = IF b < j THEN b ELSE b + 1
        BY <2>1, <2>3
      <4>3. c = d
        BY <2>5, <3>2, <4>1, <4>2 DEF Distinct
      <4> QED BY <2>2, <4>1, <4>2, <4>3
    <3> QED BY <3>1, <3>2 DEF Distinct, Cached
  <2> QED BY <2>1, <2>2, <2>4, <2>5 DEF w
<1> QED BY <1>1, <1>2

\* Evict keeps the newest entries, at most n of them.
LEMMA EvictProperties ==
  ASSUME NEW S, NEW s \in Seq(S), NEW n \in Nat
  PROVE  /\ Evict(s, n) \in Seq(S)
         /\ Len(Evict(s, n)) <= n
         /\ Len(Evict(s, n)) <= Len(s)
         /\ \A i \in DOMAIN Evict(s, n) :
              \E m \in DOMAIN s : Evict(s, n)[i] = s[m]
         /\ Distinct(s) => Distinct(Evict(s, n))
<1> DEFINE e == Evict(s, n)
<1> DEFINE d == Len(s) - Len(e)
<1>1. /\ DOMAIN s = 1..Len(s) /\ Len(s) \in Nat
      /\ \A i \in 1..Len(s) : s[i] \in S
  BY LenProperties, ElementOfSeq
<1>2. /\ e \in Seq(S) /\ Len(e) <= n /\ Len(e) <= Len(s)
      /\ \A i \in 1..Len(e) : e[i] = s[i + d]
  <2>1. CASE Len(s) <= n
    <3>1. e = s
      BY <2>1, <1>1 DEF Evict
    <3> HIDE DEF e
    <3> QED BY <2>1, <3>1, <1>1
  <2>2. CASE Len(s) > n
    <3>1. e = SubSeq(s, Len(s) - n + 1, Len(s))
      BY <2>2 DEF Evict
    <3>2. Len(s) - n + 1 \in Nat /\ 1 <= Len(s) - n + 1
      BY <1>1, <2>2
    <3>3. /\ SubSeq(s, Len(s) - n + 1, Len(s)) \in Seq(S)
          /\ Len(SubSeq(s, Len(s) - n + 1, Len(s))) = Len(s) + 1 - (Len(s) - n + 1)
          /\ \A i \in 1..(Len(s) + 1 - (Len(s) - n + 1)) :
               SubSeq(s, Len(s) - n + 1, Len(s))[i] = s[(Len(s) - n + 1) + i - 1]
      BY <3>2, <1>1, SubSeqInside
    <3> HIDE DEF e
    <3>4. /\ e \in Seq(S)
          /\ Len(e) = n
          /\ \A i \in 1..n : e[i] = s[(Len(s) - n + 1) + i - 1]
      BY <3>1, <3>3, <1>1
    <3> QED BY <3>4, <2>2, <1>1
  <2> QED BY <2>1, <2>2, <1>1
<1>3. DOMAIN e = 1..Len(e) /\ Len(e) \in Nat
  BY <1>2, LenProperties
<1> HIDE DEF e
<1>4. \A i \in DOMAIN e : i + d \in DOMAIN s /\ e[i] = s[i + d]
  BY <1>1, <1>2, <1>3
<1>5. Distinct(s) => Distinct(e)
  <2> SUFFICES ASSUME Distinct(s), NEW a \in DOMAIN e, NEW b \in DOMAIN e,
                      e[a].key = e[b].key
               PROVE  a = b
    BY DEF Distinct
  <2>1. a + d = b + d
    BY <1>4 DEF Distinct
  <2> QED BY <2>1, <1>1, <1>3
<1> QED BY <1>2, <1>4, <1>5 DEF e

\* A new entry goes to the end of what Without leaves.
Reenter(s, e) == Append(Without(s, e.key), e)

\* Reentering keeps one entry per key, and adds none for a key already there.
LEMMA ReenterProperties ==
  ASSUME NEW S, NEW s \in Seq(S), NEW e \in S
  PROVE  /\ Reenter(s, e) \in Seq(S)
         /\ \A i \in DOMAIN Reenter(s, e) :
              Reenter(s, e)[i] = e \/ \E m \in DOMAIN s : Reenter(s, e)[i] = s[m]
         /\ Distinct(s) => Distinct(Reenter(s, e))
         /\ Cached(s, e.key) => Len(Reenter(s, e)) <= Len(s)
<1> DEFINE w == Without(s, e.key)
<1> DEFINE r == Append(w, e)
<1>0. Reenter(s, e) = r
  BY DEF Reenter
<1>1. /\ w \in Seq(S)
      /\ Len(w) <= Len(s)
      /\ \A i \in DOMAIN w : \E m \in DOMAIN s : w[i] = s[m]
      /\ Distinct(s) => Distinct(w) /\ ~Cached(w, e.key)
  BY WithoutProperties
<1>2. Cached(s, e.key) => Len(w) = Len(s) - 1
  BY WithoutShape
<1>3. /\ Len(s) \in Nat /\ Len(w) \in Nat
      /\ DOMAIN w = 1..Len(w)
  BY <1>1, LenProperties
<1> HIDE DEF w
<1>4. /\ r \in Seq(S) /\ Len(r) = Len(w) + 1
      /\ \A i \in 1..Len(w) : r[i] = w[i]
      /\ r[Len(w) + 1] = e
  BY <1>1, AppendProperties
<1>5. DOMAIN r = 1..(Len(w) + 1)
  BY <1>4, LenProperties
<1> HIDE DEF r
<1>6. \A i \in DOMAIN r : r[i] = e \/ \E m \in DOMAIN s : r[i] = s[m]
  BY <1>1, <1>3, <1>4, <1>5
<1>7. ASSUME Distinct(s)
      PROVE  Distinct(r)
  <2>1. \A i \in 1..Len(w) : r[i].key # e.key
    BY <1>1, <1>3, <1>4, <1>7 DEF Cached
  <2>2. \A a, b \in 1..Len(w) : r[a].key = r[b].key => a = b
    BY <1>1, <1>3, <1>4, <1>7 DEF Distinct
  <2>3. \A a \in DOMAIN r : a \in 1..Len(w) \/ (a = Len(w) + 1 /\ r[a] = e)
    BY <1>3, <1>4, <1>5
  <2> SUFFICES ASSUME NEW a \in DOMAIN r, NEW b \in DOMAIN r, r[a].key = r[b].key
               PROVE  a = b
    BY DEF Distinct
  <2> QED BY <2>1, <2>2, <2>3
<1>8. Cached(s, e.key) => Len(r) <= Len(s)
  BY <1>2, <1>3, <1>4
<1> QED BY <1>0, <1>4, <1>6, <1>7, <1>8 DEF r, w

\* Put adds one entry, drops only old ones and keeps within the capacity.
LEMMA PutProperties ==
  ASSUME NEW s \in Seq(EntryType), NEW k \in Key, NEW v \in Row, NEW n \in Nat
  PROVE  /\ Put(s, k, v, n) \in Seq(EntryType)
         /\ Len(s) <= n => Len(Put(s, k, v, n)) <= n
         /\ \A i \in DOMAIN Put(s, k, v, n) :
              \/ Put(s, k, v, n)[i] = [key |-> k, vec |-> v]
              \/ \E m \in DOMAIN s : Put(s, k, v, n)[i] = s[m]
         /\ Distinct(s) => Distinct(Put(s, k, v, n))
<1>1. CASE n = 0
  BY <1>1 DEF Put
<1>2. CASE n # 0
  <2> DEFINE e == [key |-> k, vec |-> v]
  <2> DEFINE r == Reenter(s, e)
  <2>1. e \in EntryType /\ e.key = k
    BY DEF EntryType
  <2>2. Put(s, k, v, n) = Evict(r, n)
    BY <1>2, <2>1 DEF Put, Reenter
  <2> HIDE DEF e
  <2>3. /\ r \in Seq(EntryType)
        /\ \A i \in DOMAIN r : r[i] = e \/ \E m \in DOMAIN s : r[i] = s[m]
        /\ Distinct(s) => Distinct(r)
    BY <2>1, ReenterProperties
  <2> HIDE DEF r
  <2>4. /\ Evict(r, n) \in Seq(EntryType)
        /\ Len(Evict(r, n)) <= n
        /\ \A i \in DOMAIN Evict(r, n) : \E m \in DOMAIN r : Evict(r, n)[i] = r[m]
        /\ Distinct(r) => Distinct(Evict(r, n))
    BY <2>3, EvictProperties
  <2>5. \A i \in DOMAIN Evict(r, n) :
           Evict(r, n)[i] = e \/ \E m \in DOMAIN s : Evict(r, n)[i] = s[m]
    BY <2>3, <2>4
  <2> QED BY <2>2, <2>3, <2>4, <2>5 DEF e
<1> QED BY <1>1, <1>2

\* Touch only moves an entry to the end.
LEMMA TouchProperties ==
  ASSUME NEW s \in Seq(EntryType), NEW k, Cached(s, k)
  PROVE  /\ EntryOf(s, k) \in EntryType
         /\ EntryOf(s, k).key = k
         /\ \E m \in DOMAIN s : EntryOf(s, k) = s[m]
         /\ Touch(s, k) \in Seq(EntryType)
         /\ Len(Touch(s, k)) <= Len(s)
         /\ \A i \in DOMAIN Touch(s, k) : \E m \in DOMAIN s : Touch(s, k)[i] = s[m]
         /\ Distinct(s) => Distinct(Touch(s, k))
<1> DEFINE e == EntryOf(s, k)
<1>1. /\ \E m \in DOMAIN s : e = s[m]
      /\ e.key = k
  BY DEF EntryOf, Cached
<1>2. e \in EntryType
  BY <1>1, LenProperties, ElementOfSeq
<1> DEFINE r == Reenter(s, e)
<1>3. Touch(s, k) = r
  BY <1>1 DEF Touch, Reenter
<1> HIDE DEF e
<1>4. /\ r \in Seq(EntryType)
      /\ \A i \in DOMAIN r : r[i] = e \/ \E m \in DOMAIN s : r[i] = s[m]
      /\ Distinct(s) => Distinct(r)
      /\ Cached(s, e.key) => Len(r) <= Len(s)
  BY <1>2, ReenterProperties
<1> QED BY <1>1, <1>2, <1>3, <1>4 DEF e

(***************************************************************************)
(* The forward pass: with a batch size of at least one, the rows come back *)
(* in the order of the texts.                                              *)
(***************************************************************************)

\* The chunk offset puts every row back where its text was.
LEMMA DestRowIsPosition ==
  ASSUME NEW b \in Nat, b # 0, NEW p \in Nat, p # 0
  PROVE  DestRow(p, b) = p
<1> DEFINE q == p - 1
<1>1. q \in Nat /\ b > 0
  OBVIOUS
<1>2. q = b * (q \div b) + (q % b) /\ q \div b \in Int /\ q % b \in Int
  <2> HIDE DEF q
  <2> QED BY <1>1
<1>3. (q \div b) * b = b * (q \div b)
  <2> DEFINE c == q \div b
  <2>1. c \in Int /\ b \in Int
    BY <1>2
  <2> HIDE DEF c
  <2> QED BY <2>1
<1>4. DestRow(p, b) = (q \div b) * b + (q % b) + 1
  BY DEF DestRow, ChunkWidth
<1> DEFINE prod == b * (q \div b)
<1>5. prod = q - (q % b)
  <2>1. prod \in Int
    BY <1>2
  <2> HIDE DEF q
  <2> QED BY <1>1, <1>2, <2>1
<1> QED BY <1>2, <1>3, <1>4, <1>5

\* So the output array is the list of the vectors.
LEMMA OutputRowsInOrder ==
  ASSUME NEW b \in Nat, b # 0, NEW S, NEW vectors \in Seq(S)
  PROVE  OutputRows(vectors, b) = vectors
<1>1. DOMAIN vectors = 1..Len(vectors) /\ Len(vectors) \in Nat
  BY LenProperties
<1>2. \A p \in DOMAIN vectors : DestRow(p, b) = p
  BY <1>1, DestRowIsPosition
<1>3. ASSUME NEW r \in DOMAIN vectors
      PROVE  OutputRows(vectors, b)[r] = vectors[r]
  <2>1. {p \in DOMAIN vectors : DestRow(p, b) = r} = {r}
    BY <1>2
  <2>2. (CHOOSE p \in {r} : \A q \in {r} : q <= p) = r
    BY <1>1
  <2> QED BY <2>1, <2>2 DEF OutputRows
<1>4. vectors = [r \in DOMAIN vectors |-> vectors[r]]
  BY <1>1, LenProperties
<1>5. /\ DOMAIN OutputRows(vectors, b) = DOMAIN vectors
      /\ OutputRows(vectors, b) = [r \in DOMAIN vectors |-> OutputRows(vectors, b)[r]]
  BY DEF OutputRows
<1> QED BY <1>3, <1>4, <1>5

\* With a batch size of zero every row is copied to the first.
LEMMA DestRowOfZero ==
  ASSUME NEW p \in Nat, p # 0
  PROVE  DestRow(p, 0) = 1
<1> DEFINE q == p - 1
<1>1. q \in Nat /\ q \div 1 \in Int /\ q % 1 = 0
  OBVIOUS
<1>2. (q \div 1) * 0 = 0
  <2> DEFINE c == q \div 1
  <2>1. c \in Int
    BY <1>1
  <2> HIDE DEF c
  <2> QED BY <2>1
<1> HIDE DEF q
<1>3. DestRow(p, 0) = (q \div 1) * 0 + (q % 1) + 1
  BY DEF DestRow, ChunkWidth, q
<1> QED BY <1>1, <1>2, <1>3

\* With any batch size there are as many rows, each of them zeros or a vector.
LEMMA OutputRowsType ==
  ASSUME NEW b \in Nat, NEW vectors \in Seq(Key)
  PROVE  /\ OutputRows(vectors, b) \in Seq(Row)
         /\ Len(OutputRows(vectors, b)) = Len(vectors)
<1>1. /\ DOMAIN vectors = 1..Len(vectors) /\ Len(vectors) \in Nat
      /\ \A p \in DOMAIN vectors : vectors[p] \in Key
  BY LenProperties, ElementOfSeq
<1>2. CASE b # 0
  <2>1. OutputRows(vectors, b) = vectors
    BY <1>2, OutputRowsInOrder
  <2>2. vectors \in Seq(Row)
    <3>1. Key \subseteq Row
      BY DEF Row
    <3> QED BY <3>1, SeqMonotonic
  <2> QED BY <2>1, <2>2
<1>3. CASE b = 0
  <2>1. ASSUME NEW r \in DOMAIN vectors
        PROVE  OutputRows(vectors, b)[r] \in Row
    <3> DEFINE writers == {p \in DOMAIN vectors : DestRow(p, b) = r}
    <3> DEFINE last == CHOOSE p \in writers : \A q \in writers : q <= p
    <3>1. OutputRows(vectors, b)[r] = IF writers = {} THEN Zero ELSE vectors[last]
      BY DEF OutputRows
    <3>2. \A p \in DOMAIN vectors : DestRow(p, b) = 1
      BY <1>1, <1>3, DestRowOfZero
    <3>3. CASE r = 1
      <4>1. writers = DOMAIN vectors /\ Len(vectors) \in writers
        BY <1>1, <3>2, <3>3
      <4>2. last \in writers
        <5>1. \A q \in writers : q <= Len(vectors)
          BY <1>1, <4>1
        <5> HIDE DEF writers
        <5> QED BY <4>1, <5>1
      <4> HIDE DEF last
      <4> QED BY <3>1, <4>1, <4>2, <1>1 DEF Row
    <3>4. CASE r # 1
      <4>1. writers = {}
        BY <3>2, <3>4
      <4> HIDE DEF last
      <4> QED BY <3>1, <4>1 DEF Row
    <3> QED BY <3>3, <3>4
  <2>2. /\ DOMAIN OutputRows(vectors, b) = 1..Len(vectors)
        /\ OutputRows(vectors, b) =
             [r \in 1..Len(vectors) |-> OutputRows(vectors, b)[r]]
    BY <1>1 DEF OutputRows
  <2>3. OutputRows(vectors, b) \in [1..Len(vectors) -> Row]
    BY <1>1, <2>1, <2>2
  <2> HIDE DEF OutputRows
  <2> QED BY <1>1, <2>3
<1> QED BY <1>2, <1>3

(***************************************************************************)
(* Type correctness.  TypeOK alone is not inductive: that a step stores a  *)
(* Row or a Key depends on pos pointing into the list the thread is going  *)
(* through, at each place of embed().                                      *)
(***************************************************************************)

\* Thread t is at one of its texts, or writing one of its misses back.
AtText(t) == pc[t] \in {"load", "promote", "discard"}
AtMiss(t) == pc[t] \in {"create", "write", "replace"}

\* The thread's indices point into its lists.
WellPlaced(t) ==
  /\ pc[t] = "idle" => pos[t] = 1 /\ miss[t] = <<>>
  /\ pc[t] # "idle" => /\ call[t] \in CallType
                       /\ Len(rows[t]) = Len(call[t].texts)
  /\ \A i \in DOMAIN miss[t] : miss[t][i] \in DOMAIN rows[t]
  /\ AtText(t) => pos[t] \in DOMAIN rows[t]
  /\ pc[t] = "promote" => rows[t][pos[t]] \in Row
  /\ pc[t] = "writeback" \/ AtMiss(t) => Len(fresh[t]) = Len(miss[t])
  /\ AtMiss(t) => pos[t] \in DOMAIN miss[t]

TypeInv == TypeOK /\ \A t \in Threads : WellPlaced(t)

\* A step of thread t leaves the other threads' locals alone.
Frame(t) ==
  \A u \in Threads \ {t} :
    /\ pc'[u] = pc[u] /\ call'[u] = call[u] /\ pos'[u] = pos[u]
    /\ rows'[u] = rows[u] /\ miss'[u] = miss[u] /\ fresh'[u] = fresh[u]
    /\ tmp'[u] = tmp[u]

LEMMA StepFrame ==
  ASSUME TypeOK, NEW t \in Threads, Embed(t) \/ Step(t)
  PROVE  Frame(t)
<1> USE DEF TypeOK, Frame, shared, local, Goto, Found, Missed
<1>1. CASE Embed(t)
  BY <1>1 DEF Embed
<1>2. CASE LruHit(t)
  BY <1>2 DEF LruHit
<1>3. CASE LruMiss(t)
  BY <1>3 DEF LruMiss
<1>4. CASE DiskLoad(t)
  BY <1>4 DEF DiskLoad
<1>5. CASE Promote(t)
  BY <1>5 DEF Promote
<1>6. CASE Discard(t)
  BY <1>6 DEF Discard
<1>7. CASE LookedUp(t) \/ InferFail(t) \/ WrittenBack(t)
  BY <1>7 DEF LookedUp, InferFail, WrittenBack
<1>8. CASE Infer(t)
  BY <1>8 DEF Infer
<1>9. CASE WriteBack(t)
  BY <1>9 DEF WriteBack
<1>10. CASE CreateTmp(t) \/ WriteTmp(t) \/ Replace(t) \/ PutFail(t)
  BY <1>10 DEF CreateTmp, WriteTmp, Replace, PutFail
<1>11. CASE Return(t)
  BY <1>11 DEF Return, Leave
<1> QED BY <1>1, <1>2, <1>3, <1>4, <1>5, <1>6, <1>7, <1>8, <1>9, <1>10, <1>11
        DEF Step

\* The key of a text of a call, and of a miss, is a key.
LEMMA KeyAtType ==
  ASSUME TypeInv, NEW t \in Threads, pc[t] # "idle"
  PROVE  /\ \A n \in DOMAIN rows[t] : KeyAt(t, n) \in Key
         /\ DOMAIN rows[t] = 1..Len(call[t].texts)
         /\ Len(rows[t]) = Len(call[t].texts)
         /\ Len(call[t].texts) \in Nat
         /\ \A i \in DOMAIN miss[t] : KeyAt(t, miss[t][i]) \in Key
         /\ DOMAIN miss[t] = 1..Len(miss[t])
         /\ Len(miss[t]) \in Nat
<1>1. /\ call[t] \in CallType /\ Len(rows[t]) = Len(call[t].texts)
      /\ rows[t] \in Seq(Row \cup {Missing}) /\ miss[t] \in Seq(Nat \ {0})
      /\ \A i \in DOMAIN miss[t] : miss[t][i] \in DOMAIN rows[t]
  BY DEF TypeInv, TypeOK, WellPlaced
<1>2. call[t].model \in Models /\ call[t].texts \in Seq(Texts)
  BY <1>1 DEF CallType
<1>3. DOMAIN rows[t] = 1..Len(call[t].texts) /\ Len(call[t].texts) \in Nat
  BY <1>1, <1>2, LenProperties
<1>4. DOMAIN miss[t] = 1..Len(miss[t]) /\ Len(miss[t]) \in Nat
  BY <1>1, LenProperties
<1>5. \A n \in DOMAIN rows[t] : KeyAt(t, n) \in Key
  BY <1>2, <1>3, ElementOfSeq DEF KeyAt, Key
<1> QED BY <1>1, <1>3, <1>4, <1>5

LEMMA OthersStayPlaced ==
  ASSUME TypeInv, NEW t \in Threads, Frame(t), WellPlaced(t)'
  PROVE  \A u \in Threads : WellPlaced(u)'
<1> SUFFICES ASSUME NEW u \in Threads \ {t}
             PROVE  WellPlaced(u)'
  OBVIOUS
<1>1. WellPlaced(u)
  BY DEF TypeInv
<1> QED BY <1>1 DEF Frame, WellPlaced, AtText, AtMiss

LEMMA TypeInvInit == Init => TypeInv
<1> SUFFICES ASSUME Init
             PROVE  TypeInv
  OBVIOUS
<1>1. TypeOK
  BY EmptySeq DEF Init, TypeOK, Places
<1>2. \A t \in Threads : WellPlaced(t)
  BY DEF Init, WellPlaced, AtText, AtMiss
<1> QED BY <1>1, <1>2 DEF TypeInv

\* An entry of the LRU that is found is one of its entries.
LEMMA LruEntryType ==
  ASSUME TypeInv, NEW t \in Threads, Looking(t), InLru(t)
  PROVE  LET p == ProcOf[t]
             k == KeyAt(t, pos[t])
         IN  /\ p \in Procs
             /\ EntryOf(lru[p], k).vec \in Row
             /\ Touch(lru[p], k) \in Seq(EntryType)
<1> DEFINE p == ProcOf[t]
<1> DEFINE k == KeyAt(t, pos[t])
<1>1. p \in Procs /\ lru[p] \in Seq(EntryType)
  BY ThreadsAssumption DEF TypeInv, TypeOK
<1>2. Cached(lru[p], k)
  BY DEF InLru
<1>3. EntryOf(lru[p], k) \in EntryType /\ Touch(lru[p], k) \in Seq(EntryType)
  BY <1>1, <1>2, TouchProperties
<1> QED BY <1>1, <1>3 DEF EntryType

LEMMA TypeInvEmbed ==
  ASSUME TypeInv, NEW t \in Threads, Embed(t)
  PROVE  TypeInv'
<1> USE DEF TypeInv
<1>1. PICK m \in Models, ts \in Requests, b \in BatchSizes :
        LET on == cap[ProcOf[t]] > 0
            n == Len(ts)
            direct == ~on /\ ~DiskOn
        IN  /\ call' = [call EXCEPT ![t] = [model |-> m, texts |-> ts,
                                            batch |-> b, lruOn |-> on]]
            /\ rows' = [rows EXCEPT ![t] = [i \in 1..n |-> Missing]]
            /\ miss' = [miss EXCEPT ![t] = IF direct THEN [i \in 1..n |-> i]
                                                     ELSE <<>>]
            /\ Goto(t, CASE n = 0 -> "done"
                         [] n # 0 /\ direct -> "infer"
                         [] OTHER -> "lookup")
  BY DEF Embed
<1> DEFINE on == cap[ProcOf[t]] > 0
<1> DEFINE n == Len(ts)
<1>2. /\ ts \in Seq(Texts) /\ n \in Nat /\ b \in Nat /\ on \in BOOLEAN
      /\ [model |-> m, texts |-> ts, batch |-> b, lruOn |-> on] \in CallType
  BY RequestsAssumption, SizesAssumption, LenProperties DEF CallType
<1>3. /\ [i \in 1..n |-> Missing] \in Seq(Row \cup {Missing})
      /\ [i \in 1..n |-> i] \in Seq(Nat \ {0})
      /\ <<>> \in Seq(Nat \ {0})
      /\ Len([i \in 1..n |-> Missing]) = n
      /\ DOMAIN [i \in 1..n |-> Missing] = 1..n
      /\ DOMAIN [i \in 1..n |-> i] = 1..n
  BY <1>2, EmptySeq
<1>4. /\ pc[t] = "idle" /\ pos[t] = 1
      /\ UNCHANGED <<lru, cap, disk, tmp, pos, fresh>>
  BY DEF Embed, shared, WellPlaced
<1>5. pc' = [pc EXCEPT ![t] = pc'[t]] /\ pc'[t] \in {"done", "infer", "lookup"}
  BY <1>1 DEF Goto, TypeOK
<1>6. /\ call' = [call EXCEPT ![t] = call'[t]] /\ call'[t] \in CallType
      /\ call'[t].texts = ts
  BY <1>1, <1>2 DEF TypeOK
<1>7. /\ rows' = [rows EXCEPT ![t] = rows'[t]]
      /\ rows'[t] \in Seq(Row \cup {Missing})
      /\ Len(rows'[t]) = n /\ DOMAIN rows'[t] = 1..n
  <2>1. rows' = [rows EXCEPT ![t] = [i \in 1..n |-> Missing]]
    BY <1>1
  <2> QED BY <2>1, <1>3 DEF TypeOK
<1>8. /\ miss' = [miss EXCEPT ![t] = miss'[t]]
      /\ miss'[t] \in {<<>>, [i \in 1..n |-> i]}
  <2>1. miss' = [miss EXCEPT ![t] = IF ~on /\ ~DiskOn THEN [i \in 1..n |-> i] ELSE <<>>]
    BY <1>1
  <2> QED BY <2>1 DEF TypeOK
<1>9. /\ miss'[t] \in Seq(Nat \ {0})
      /\ \A i \in DOMAIN miss'[t] : miss'[t][i] \in 1..n
  <2>1. CASE miss'[t] = <<>>
    BY <2>1, EmptySeq
  <2>2. CASE miss'[t] = [i \in 1..n |-> i]
    BY <2>2, <1>3
  <2> QED BY <1>8, <2>1, <2>2
<1>10. /\ lru' \in [Procs -> Seq(EntryType)] /\ cap' \in [Procs -> Nat]
       /\ disk' \in [Key -> Row \cup {Missing, Torn, Damaged}]
       /\ tmp' \in [Threads -> Row \cup {Missing, Torn}]
       /\ pos' \in [Threads -> Nat \ {0}] /\ fresh' \in [Threads -> Seq(Row)]
  BY <1>4 DEF TypeOK
<1>11. pc' \in [Threads -> Places] /\ call' \in [Threads -> CallType \cup {NoCall}]
  <2>1. /\ pc \in [Threads -> Places] /\ {"done", "infer", "lookup"} \subseteq Places
        /\ call \in [Threads -> CallType \cup {NoCall}]
    BY DEF TypeOK, Places
  <2>2. pc' \in [Threads -> Places]
    BY <1>5, <2>1
  <2>3. call' \in [Threads -> CallType \cup {NoCall}]
    BY <1>6, <2>1
  <2> QED BY <2>2, <2>3
<1>12. /\ rows' \in [Threads -> Seq(Row \cup {Missing})]
       /\ miss' \in [Threads -> Seq(Nat \ {0})]
  BY <1>7, <1>8, <1>9 DEF TypeOK
<1>13. WellPlaced(t)'
  BY <1>4, <1>5, <1>6, <1>7, <1>9 DEF WellPlaced, AtText, AtMiss
<1> QED BY <1>10, <1>11, <1>12, <1>13, StepFrame, OthersStayPlaced DEF TypeOK

\* rows[t] with one of its rows replaced.
LEMMA RowsType ==
  ASSUME TypeInv, NEW t \in Threads, pc[t] # "idle",
         NEW n \in DOMAIN rows[t], NEW row \in Row \cup {Missing},
         rows' = [rows EXCEPT ![t][n] = row]
  PROVE  /\ rows' \in [Threads -> Seq(Row \cup {Missing})]
         /\ Len(rows'[t]) = Len(rows[t])
         /\ DOMAIN rows'[t] = DOMAIN rows[t]
         /\ rows'[t][n] = row
         /\ \A m \in DOMAIN rows[t] : m # n => rows'[t][m] = rows[t][m]
<1>1. /\ rows \in [Threads -> Seq(Row \cup {Missing})]
      /\ rows[t] \in Seq(Row \cup {Missing}) /\ n \in 1..Len(rows[t])
      /\ DOMAIN rows[t] = 1..Len(rows[t])
  BY LenProperties DEF TypeInv, TypeOK
<1>2. rows'[t] = [rows[t] EXCEPT ![n] = row]
  BY <1>1
<1>3. /\ rows'[t] \in Seq(Row \cup {Missing})
      /\ Len(rows'[t]) = Len(rows[t])
      /\ \A m \in 1..Len(rows[t]) : rows'[t][m] = IF m = n THEN row ELSE rows[t][m]
  BY <1>1, <1>2, ExceptSeq
<1>4. DOMAIN rows'[t] = 1..Len(rows'[t])
  BY <1>3, LenProperties
<1>5. rows' = [rows EXCEPT ![t] = rows'[t]]
  BY <1>1, <1>2
<1> QED BY <1>1, <1>3, <1>4, <1>5

\* miss[t] with the current text added.
LEMMA MissedType ==
  ASSUME TypeInv, NEW t \in Threads, pc[t] # "idle", pos[t] \in DOMAIN rows[t],
         miss' = [miss EXCEPT ![t] = Append(@, pos[t])]
  PROVE  /\ miss' \in [Threads -> Seq(Nat \ {0})]
         /\ DOMAIN miss'[t] = 1..(Len(miss[t]) + 1)
         /\ miss'[t][Len(miss[t]) + 1] = pos[t]
         /\ \A i \in DOMAIN miss[t] : miss'[t][i] = miss[t][i]
         /\ \A i \in DOMAIN miss'[t] : miss'[t][i] \in DOMAIN rows[t]
<1>1. /\ miss \in [Threads -> Seq(Nat \ {0})]
      /\ miss[t] \in Seq(Nat \ {0}) /\ pos[t] \in Nat \ {0}
      /\ DOMAIN miss[t] = 1..Len(miss[t]) /\ Len(miss[t]) \in Nat
      /\ \A i \in DOMAIN miss[t] : miss[t][i] \in DOMAIN rows[t]
  BY LenProperties DEF TypeInv, TypeOK, WellPlaced
<1>2. miss'[t] = Append(miss[t], pos[t])
  BY <1>1
<1>3. /\ miss'[t] \in Seq(Nat \ {0})
      /\ Len(miss'[t]) = Len(miss[t]) + 1
      /\ \A i \in 1..Len(miss[t]) : miss'[t][i] = miss[t][i]
      /\ miss'[t][Len(miss[t]) + 1] = pos[t]
  BY <1>1, <1>2, AppendProperties
<1>4. DOMAIN miss'[t] = 1..(Len(miss[t]) + 1)
  BY <1>3, LenProperties
<1>5. miss' = [miss EXCEPT ![t] = miss'[t]]
  BY <1>1, <1>2
<1>6. \A i \in DOMAIN miss'[t] : i \in DOMAIN miss[t] \/ i = Len(miss[t]) + 1
  BY <1>1, <1>4
<1> QED BY <1>1, <1>3, <1>4, <1>5, <1>6

\* The steps of the lookup loop.
LEMMA TypeInvLookup ==
  ASSUME TypeInv, NEW t \in Threads,
         LruHit(t) \/ LruMiss(t) \/ DiskLoad(t) \/ Promote(t) \/ Discard(t)
           \/ LookedUp(t)
  PROVE  TypeInv'
<1>1. /\ TypeOK /\ WellPlaced(t) /\ pc[t] # "idle" /\ ~AtMiss(t)
      /\ pc[t] # "writeback"
      /\ pos[t] \in Nat \ {0} /\ pos[t] + 1 \in Nat \ {0}
  BY DEF TypeInv, TypeOK, AtMiss, LruHit, LruMiss, DiskLoad, Promote, Discard,
         LookedUp, Looking
<1>2. /\ \A n \in DOMAIN rows[t] : KeyAt(t, n) \in Key
      /\ Looking(t) => pos[t] \in DOMAIN rows[t]
  BY <1>1, KeyAtType DEF Looking
<1>3. ProcOf[t] \in Procs /\ lru[ProcOf[t]] \in Seq(EntryType)
      /\ cap[ProcOf[t]] \in Nat
  BY <1>1, ThreadsAssumption DEF TypeOK
<1> SUFFICES TypeOK' /\ WellPlaced(t)'
  BY StepFrame, OthersStayPlaced DEF TypeInv, Step
<1>4. CASE LruHit(t)
  <2> DEFINE row == EntryOf(lru[ProcOf[t]], KeyAt(t, pos[t])).vec
  <2>1. /\ row \in Row
        /\ Touch(lru[ProcOf[t]], KeyAt(t, pos[t])) \in Seq(EntryType)
    BY <1>4, LruEntryType DEF LruHit
  <2>2. /\ rows' = [rows EXCEPT ![t][pos[t]] = row]
        /\ pos[t] \in DOMAIN rows[t]
        /\ pos' = [pos EXCEPT ![t] = @ + 1]
        /\ pc' = [pc EXCEPT ![t] = "lookup"]
        /\ lru' = [lru EXCEPT ![ProcOf[t]] = Touch(@, KeyAt(t, pos[t]))]
        /\ UNCHANGED <<cap, disk, tmp, call, miss, fresh>>
    BY <1>2, <1>4 DEF LruHit, Found, Goto
  <2>3. /\ rows' \in [Threads -> Seq(Row \cup {Missing})]
        /\ Len(rows'[t]) = Len(rows[t]) /\ DOMAIN rows'[t] = DOMAIN rows[t]
    BY <1>1, <2>1, <2>2, RowsType
  <2>4. TypeOK'
    BY <1>1, <1>3, <2>1, <2>2, <2>3 DEF TypeOK, Places
  <2>5. WellPlaced(t)'
    BY <1>1, <2>2, <2>3 DEF TypeOK, WellPlaced, AtText, AtMiss
  <2> QED BY <2>4, <2>5
<1>5. CASE LruMiss(t)
  <2>1. /\ pos[t] \in DOMAIN rows[t]
        /\ UNCHANGED <<lru, cap, disk, tmp, call, rows, fresh>>
    BY <1>2, <1>5 DEF LruMiss, shared
  <2>2. CASE Goto(t, "load") /\ UNCHANGED <<pos, miss>>
    BY <1>1, <2>1, <2>2 DEF TypeOK, Places, WellPlaced, AtText, AtMiss, Goto
  <2>3. CASE Missed(t)
    <3>1. /\ miss' \in [Threads -> Seq(Nat \ {0})]
          /\ \A i \in DOMAIN miss'[t] : miss'[t][i] \in DOMAIN rows[t]
      BY <1>1, <2>1, <2>3, MissedType DEF Missed
    <3> QED BY <1>1, <2>1, <2>3, <3>1
            DEF TypeOK, Places, WellPlaced, AtText, AtMiss, Missed, Goto
  <2> QED BY <1>5, <2>2, <2>3 DEF LruMiss
<1>6. CASE DiskLoad(t)
  <2> DEFINE found == disk[KeyAt(t, pos[t])]
  <2>1. /\ pos[t] \in DOMAIN rows[t]
        /\ UNCHANGED <<lru, cap, disk, tmp, call, miss, fresh>>
    BY <1>1, <1>6 DEF DiskLoad, shared, WellPlaced, AtText
  <2>2. CASE /\ found \in Row
               /\ IF call[t].lruOn
                  THEN /\ rows' = [rows EXCEPT ![t][pos[t]] = found]
                       /\ Goto(t, "promote") /\ UNCHANGED pos
                  ELSE Found(t, found)
    <3>1. /\ rows' = [rows EXCEPT ![t][pos[t]] = found]
          /\ \/ Goto(t, "promote") /\ UNCHANGED pos
             \/ Goto(t, "lookup") /\ pos' = [pos EXCEPT ![t] = @ + 1]
      BY <2>2 DEF Found
    <3>2. /\ rows' \in [Threads -> Seq(Row \cup {Missing})]
          /\ Len(rows'[t]) = Len(rows[t]) /\ DOMAIN rows'[t] = DOMAIN rows[t]
          /\ rows'[t][pos[t]] = found
      BY <1>1, <2>1, <2>2, <3>1, RowsType
    <3>3. /\ pos' \in [Threads -> Nat \ {0}]
          /\ pc' \in [Threads -> Places]
      <4>1. /\ pos \in [Threads -> Nat \ {0}] /\ pc \in [Threads -> Places]
            /\ "promote" \in Places /\ "lookup" \in Places
        BY <1>1 DEF TypeOK, Places
      <4>2. CASE Goto(t, "promote") /\ UNCHANGED pos
        BY <4>1, <4>2 DEF Goto
      <4>3. CASE Goto(t, "lookup") /\ pos' = [pos EXCEPT ![t] = @ + 1]
        BY <4>1, <4>3 DEF Goto
      <4> QED BY <3>1, <4>2, <4>3
    <3>4. TypeOK'
      BY <1>1, <2>1, <3>2, <3>3 DEF TypeOK
    <3>5. WellPlaced(t)'
      BY <1>1, <2>1, <2>2, <3>1, <3>2 DEF TypeOK, WellPlaced, AtText, AtMiss, Goto
    <3> QED BY <3>4, <3>5
  <2>3. CASE Goto(t, "discard") /\ UNCHANGED <<pos, rows>>
    BY <1>1, <2>1, <2>3 DEF TypeOK, Places, WellPlaced, AtText, AtMiss, Goto
  <2> QED BY <1>6, <2>2, <2>3 DEF DiskLoad
<1>7. CASE Promote(t)
  <2> DEFINE q == ProcOf[t]
  <2> DEFINE new == Put(lru[q], KeyAt(t, pos[t]), rows[t][pos[t]], cap[q])
  <2>1. /\ lru' = [lru EXCEPT ![q] = new]
        /\ pos' = [pos EXCEPT ![t] = @ + 1] /\ pc' = [pc EXCEPT ![t] = "lookup"]
        /\ UNCHANGED <<cap, disk, tmp, call, rows, miss, fresh>>
    BY <1>1, <1>3, <1>7 DEF Promote, PutLru, Goto, TypeOK
  <2>2. KeyAt(t, pos[t]) \in Key /\ rows[t][pos[t]] \in Row
    BY <1>1, <1>2, <1>7 DEF Promote, WellPlaced, AtText
  <2>3. new \in Seq(EntryType)
    BY <1>3, <2>2, PutProperties
  <2> HIDE DEF new
  <2>4. TypeOK'
    BY <1>1, <1>3, <2>1, <2>3 DEF TypeOK, Places
  <2>5. WellPlaced(t)'
    BY <1>1, <2>1 DEF TypeOK, WellPlaced, AtText, AtMiss
  <2> QED BY <2>4, <2>5
<1>8. CASE Discard(t)
  <2>1. /\ pos[t] \in DOMAIN rows[t]
        /\ UNCHANGED <<lru, cap, tmp, call, rows, fresh>>
        /\ disk' \in {disk, [disk EXCEPT ![KeyAt(t, pos[t])] = Missing]}
        /\ Missed(t)
    BY <1>1, <1>8 DEF Discard, WellPlaced, AtText
  <2>2. /\ miss' \in [Threads -> Seq(Nat \ {0})]
        /\ \A i \in DOMAIN miss'[t] : miss'[t][i] \in DOMAIN rows[t]
    BY <1>1, <2>1, MissedType DEF Missed
  <2>3. disk' \in [Key -> Row \cup {Missing, Torn, Damaged}]
    BY <1>1, <2>1 DEF TypeOK
  <2> QED BY <1>1, <2>1, <2>2, <2>3
          DEF TypeOK, Places, WellPlaced, AtText, AtMiss, Missed, Goto
<1>9. CASE LookedUp(t)
  <2>1. /\ pc' = [pc EXCEPT ![t] = pc'[t]] /\ pc'[t] \in {"done", "infer"}
        /\ UNCHANGED <<lru, cap, disk, tmp, call, pos, rows, miss, fresh>>
    BY <1>1, <1>9 DEF LookedUp, Goto, TypeOK, shared, local
  <2> QED BY <1>1, <2>1 DEF TypeOK, Places, WellPlaced, AtText, AtMiss
<1> QED BY <1>4, <1>5, <1>6, <1>7, <1>8, <1>9

\* The steps of the forward pass, of the write-back and of the return.
LEMMA TypeInvWrite ==
  ASSUME TypeInv, NEW t \in Threads,
         \/ Infer(t) \/ InferFail(t) \/ WriteBack(t) \/ CreateTmp(t)
         \/ WriteTmp(t) \/ Replace(t) \/ PutFail(t) \/ WrittenBack(t) \/ Return(t)
  PROVE  TypeInv'
<1>1. /\ TypeOK /\ WellPlaced(t) /\ pc[t] # "idle" /\ ~AtText(t)
      /\ pos[t] \in Nat \ {0} /\ pos[t] + 1 \in Nat \ {0}
  BY DEF TypeInv, TypeOK, AtText, Infer, InferFail, WriteBack, CreateTmp,
         WriteTmp, Replace, PutFail, WrittenBack, Return
<1>2. /\ \A i \in DOMAIN miss[t] : KeyAt(t, miss[t][i]) \in Key
      /\ DOMAIN miss[t] = 1..Len(miss[t]) /\ Len(miss[t]) \in Nat
  BY <1>1, KeyAtType
<1>3. ProcOf[t] \in Procs /\ lru[ProcOf[t]] \in Seq(EntryType)
      /\ cap[ProcOf[t]] \in Nat
  BY <1>1, ThreadsAssumption DEF TypeOK
<1>4. /\ fresh[t] \in Seq(Row)
      /\ (pc[t] = "writeback" \/ AtMiss(t)) /\ pos[t] \in DOMAIN miss[t] =>
           fresh[t][pos[t]] \in Row
  BY <1>1, <1>2, ElementOfSeq DEF TypeOK, WellPlaced
<1> SUFFICES TypeOK' /\ WellPlaced(t)'
  BY StepFrame, OthersStayPlaced DEF TypeInv, Step
<1>5. CASE Infer(t)
  <2> DEFINE out == OutputRows(MissVectors(t), call[t].batch)
  <2>1. /\ call[t].batch \in Nat
        /\ MissVectors(t) \in Seq(Key) /\ Len(MissVectors(t)) = Len(miss[t])
    BY <1>1, <1>2 DEF WellPlaced, CallType, MissVectors
  <2>2. out \in Seq(Row) /\ Len(out) = Len(miss[t])
    BY <2>1, OutputRowsType
  <2>3. /\ fresh' = [fresh EXCEPT ![t] = out]
        /\ pos' = [pos EXCEPT ![t] = 1] /\ pc' = [pc EXCEPT ![t] = "writeback"]
        /\ UNCHANGED <<lru, cap, disk, tmp, call, rows, miss>>
    BY <1>5 DEF Infer, Goto, shared
  <2> HIDE DEF out
  <2> QED BY <1>1, <2>2, <2>3 DEF TypeOK, Places, WellPlaced, AtText, AtMiss
<1>6. CASE InferFail(t) \/ WrittenBack(t)
  <2>1. /\ pc' = [pc EXCEPT ![t] = pc'[t]] /\ pc'[t] \in {"done", "failed"}
        /\ UNCHANGED <<lru, cap, disk, tmp, call, pos, rows, miss, fresh>>
    BY <1>1, <1>6 DEF InferFail, WrittenBack, Goto, TypeOK, shared, local
  <2> QED BY <1>1, <2>1 DEF TypeOK, Places, WellPlaced, AtText, AtMiss
<1>7. CASE WriteBack(t)
  <2> DEFINE row == fresh[t][pos[t]]
  <2>1. pos[t] \in DOMAIN miss[t] /\ pc[t] = "writeback" /\ Here(t) = miss[t][pos[t]]
    BY <1>1, <1>2, <1>7 DEF WriteBack, Here
  <2>2. row \in Row /\ Here(t) \in DOMAIN rows[t] /\ KeyAt(t, Here(t)) \in Key
    BY <1>1, <1>2, <1>4, <2>1 DEF WellPlaced
  <2>3. rows' = [rows EXCEPT ![t][Here(t)] = row]
    BY <1>7 DEF WriteBack
  <2>4. /\ rows' \in [Threads -> Seq(Row \cup {Missing})]
        /\ Len(rows'[t]) = Len(rows[t]) /\ DOMAIN rows'[t] = DOMAIN rows[t]
    BY <1>1, <2>2, <2>3, RowsType
  <2>5. lru' \in [Procs -> Seq(EntryType)]
    <3> DEFINE new == Put(lru[ProcOf[t]], KeyAt(t, Here(t)), row, cap[ProcOf[t]])
    <3>1. new \in Seq(EntryType)
      BY <1>3, <2>2, PutProperties
    <3>2. lru' = lru \/ lru' = [lru EXCEPT ![ProcOf[t]] = new]
      BY <1>7 DEF WriteBack, PutLru
    <3> HIDE DEF new
    <3> QED BY <1>1, <3>1, <3>2 DEF TypeOK
  <2>6. /\ \/ pc' = [pc EXCEPT ![t] = "create"] /\ pos' = pos
           \/ pos' = [pos EXCEPT ![t] = @ + 1] /\ pc' = pc
        /\ UNCHANGED <<cap, disk, tmp, call, miss, fresh>>
    BY <1>7 DEF WriteBack, Goto
  <2> HIDE DEF row
  <2>7. TypeOK'
    <3>1. pc' \in [Threads -> Places] /\ pos' \in [Threads -> Nat \ {0}]
      <4>1. pos \in [Threads -> Nat \ {0}] /\ pc \in [Threads -> Places] /\ "create" \in Places
        BY <1>1 DEF TypeOK, Places
      <4>2. CASE pc' = [pc EXCEPT ![t] = "create"] /\ pos' = pos
        BY <4>1, <4>2
      <4>3. CASE pos' = [pos EXCEPT ![t] = @ + 1] /\ pc' = pc
        BY <4>1, <4>3
      <4> QED BY <2>6, <4>2, <4>3
    <3>2. UNCHANGED <<cap, disk, tmp, call, miss, fresh>>
      BY <2>6
    <3> QED BY <1>1, <2>4, <2>5, <3>1, <3>2, Zenon DEF TypeOK
  <2>8. WellPlaced(t)'
    BY <1>1, <2>1, <2>4, <2>6 DEF TypeOK, WellPlaced, AtText, AtMiss
  <2> QED BY <2>7, <2>8
<1>8. CASE CreateTmp(t) \/ WriteTmp(t)
  <2>1. AtMiss(t) /\ pos[t] \in DOMAIN miss[t]
    BY <1>1, <1>8 DEF CreateTmp, WriteTmp, AtMiss, WellPlaced
  <2>2. fresh[t][pos[t]] \in Row
    BY <1>4, <2>1
  <2>3. /\ pc' = [pc EXCEPT ![t] = pc'[t]] /\ pc'[t] \in {"write", "replace"}
        /\ tmp' \in [Threads -> Row \cup {Missing, Torn}]
        /\ UNCHANGED <<lru, cap, disk, call, pos, rows, miss, fresh>>
    BY <1>1, <1>8, <2>2 DEF CreateTmp, WriteTmp, Goto, TypeOK, shared, local
  <2> QED BY <1>1, <2>1, <2>3 DEF TypeOK, Places, WellPlaced, AtText, AtMiss
<1>9. CASE Replace(t) \/ PutFail(t)
  <2>1. AtMiss(t) /\ pos[t] \in DOMAIN miss[t]
    BY <1>1, <1>9 DEF Replace, PutFail, AtMiss, WellPlaced
  <2>2. /\ pc' = [pc EXCEPT ![t] = "writeback"]
        /\ pos' = [pos EXCEPT ![t] = @ + 1]
        /\ tmp' = [tmp EXCEPT ![t] = Missing]
        /\ disk' \in [Key -> Row \cup {Missing, Torn, Damaged}]
        /\ UNCHANGED <<lru, cap, call, rows, miss, fresh>>
    <3>1. disk \in [Key -> Row \cup {Missing, Torn, Damaged}]
          /\ tmp[t] \in Row \cup {Missing, Torn}
      BY <1>1 DEF TypeOK
    <3>2. CASE Replace(t)
      <4>1. disk' = [disk EXCEPT ![KeyAt(t, Here(t))] = tmp[t]]
        BY <3>2 DEF Replace
      <4>2. disk' \in [Key -> Row \cup {Missing, Torn, Damaged}]
        BY <3>1, <4>1
      <4> QED BY <3>2, <4>2 DEF Replace, Goto
    <3>3. CASE PutFail(t)
      BY <3>1, <3>3 DEF PutFail, Goto, shared
    <3> QED BY <1>9, <3>2, <3>3
  <2> QED BY <1>1, <2>1, <2>2 DEF TypeOK, Places, WellPlaced, AtText, AtMiss
<1>10. CASE Return(t)
  <2>1. /\ pc' = [pc EXCEPT ![t] = "idle"] /\ call' = [call EXCEPT ![t] = NoCall]
        /\ pos' = [pos EXCEPT ![t] = 1] /\ rows' = [rows EXCEPT ![t] = <<>>]
        /\ miss' = [miss EXCEPT ![t] = <<>>] /\ fresh' = [fresh EXCEPT ![t] = <<>>]
        /\ UNCHANGED <<lru, cap, disk, tmp>>
    BY <1>1, <1>10 DEF Return, Leave, TypeOK, shared
  <2>2. TypeOK'
    BY <1>1, <2>1, EmptySeq DEF TypeOK, Places
  <2>3. WellPlaced(t)'
    BY <1>1, <2>1 DEF TypeOK, WellPlaced, AtText, AtMiss
  <2> QED BY <2>2, <2>3
<1> QED BY <1>5, <1>6, <1>7, <1>8, <1>9, <1>10

\* load(), a crash, and someone else's hand in the directory.
LEMMA TypeInvOutside ==
  ASSUME TypeInv,
         \/ \E p \in Procs : SetSize(p) \/ Crash(p)
         \/ \E k \in Touched : Prune(k) \/ Damage(k)
  PROVE  TypeInv'
<1>1. TypeOK /\ \A t \in Threads : WellPlaced(t)
  BY DEF TypeInv
<1>2. ASSUME NEW p \in Procs, SetSize(p)
      PROVE  TypeInv'
  <2>1. PICK size \in Capacities \ {0} :
          /\ cap' = [cap EXCEPT ![p] = Resized(@, size)]
          /\ lru' = [lru EXCEPT ![p] = Evict(@, cap'[p])]
          /\ UNCHANGED <<disk, tmp, pc, local>>
    BY <1>2 DEF SetSize
  <2>2. size \in Nat /\ Resized(cap[p], size) \in Nat
    BY <1>1, SizesAssumption DEF TypeOK, Resized
  <2>3. cap' \in [Procs -> Nat] /\ cap'[p] \in Nat
    BY <1>1, <2>1, <2>2 DEF TypeOK
  <2>4. Evict(lru[p], cap'[p]) \in Seq(EntryType)
    BY <1>1, <2>3, EvictProperties DEF TypeOK
  <2>5. TypeOK'
    BY <1>1, <2>1, <2>3, <2>4 DEF TypeOK, local
  <2>6. \A t \in Threads : WellPlaced(t)'
    BY <1>1, <2>1 DEF WellPlaced, AtText, AtMiss, local
  <2> QED BY <2>5, <2>6 DEF TypeInv
<1>3. ASSUME NEW p \in Procs, Crash(p)
      PROVE  TypeInv'
  <2>1. TypeOK'
    BY <1>1, <1>3, EmptySeq DEF TypeOK, Crash, Leave, Places
  <2>2. ASSUME NEW t \in Threads
        PROVE  WellPlaced(t)'
    <3>1. CASE ProcOf[t] = p
      <4>1. pc'[t] = "idle" /\ pos'[t] = 1 /\ miss'[t] = <<>>
        BY <1>3, <3>1 DEF Crash, Leave
      <4> QED BY <4>1 DEF WellPlaced, AtText, AtMiss
    <3>2. CASE ProcOf[t] # p
      <4>1. /\ pc'[t] = pc[t] /\ call'[t] = call[t] /\ pos'[t] = pos[t]
            /\ rows'[t] = rows[t] /\ miss'[t] = miss[t] /\ fresh'[t] = fresh[t]
        BY <1>3, <3>2 DEF Crash, Leave
      <4> QED BY <1>1, <4>1 DEF WellPlaced, AtText, AtMiss
    <3> QED BY <3>1, <3>2
  <2> QED BY <2>1, <2>2 DEF TypeInv
<1>4. ASSUME NEW k \in Touched, Prune(k) \/ Damage(k)
      PROVE  TypeInv'
  <2>1. /\ k \in Key
        /\ disk' \in [Key -> Row \cup {Missing, Torn, Damaged}]
        /\ UNCHANGED <<lru, cap, tmp, pc, call, pos, rows, miss, fresh>>
    BY <1>1, <1>4, DirectoryAssumption DEF Prune, Damage, TypeOK, local
  <2>2. TypeOK'
    BY <1>1, <2>1 DEF TypeOK
  <2>3. \A t \in Threads : WellPlaced(t)'
    BY <1>1, <2>1 DEF WellPlaced, AtText, AtMiss
  <2> QED BY <2>2, <2>3 DEF TypeInv
<1> QED BY <1>2, <1>3, <1>4

LEMMA TypeInvNext == TypeInv /\ [Next]_vars => TypeInv'
<1> SUFFICES ASSUME TypeInv, [Next]_vars
             PROVE  TypeInv'
  OBVIOUS
<1>1. CASE UNCHANGED vars
  BY <1>1 DEF vars, TypeInv, TypeOK, WellPlaced, AtText, AtMiss
<1>2. ASSUME NEW t \in Threads, Embed(t) \/ Step(t)
      PROVE  TypeInv'
  BY <1>2, TypeInvEmbed, TypeInvLookup, TypeInvWrite DEF Step
<1> QED BY <1>1, <1>2, TypeInvOutside DEF Next

THEOREM TypeInvAlways == Spec => []TypeInv
<1> QED BY TypeInvInit, TypeInvNext, PTL DEF Spec

\* Every variable keeps its type, for every number of processes, threads,
\* models, texts and batch sizes (zero too).
THEOREM TypeCorrect == Spec => []TypeOK
<1>1. TypeInv => TypeOK
  BY DEF TypeInv
<1> QED BY <1>1, TypeInvAlways, PTL

(***************************************************************************)
(* The bound of the LRU.                                                   *)
(***************************************************************************)

\* What a list of entries must be for process p.
Bounded(p) == Len(lru[p]) <= cap[p] /\ Distinct(lru[p])

\* What the steps of a thread do to the LRU of its process.
LEMMA LruSteps ==
  ASSUME TypeInv, NEW t \in Threads, Embed(t) \/ Step(t)
  PROVE  /\ cap' = cap
         /\ \/ lru' = lru
            \/ \E k \in Key : /\ Cached(lru[ProcOf[t]], k)
                              /\ lru' = [lru EXCEPT ![ProcOf[t]] = Touch(@, k)]
            \/ \E k \in Key, v \in Row :
                 /\ \/ Promote(t) /\ k = KeyAt(t, pos[t]) /\ v = rows[t][pos[t]]
                    \/ WriteBack(t) /\ k = KeyAt(t, Here(t)) /\ v = fresh[t][pos[t]]
                 /\ PutLru(t, k, v)
<1>1. CASE Embed(t)
  BY <1>1 DEF Embed, shared
<1>2. CASE LruHit(t)
  <2>1. KeyAt(t, pos[t]) \in Key
    <3>1. pc[t] # "idle" /\ pos[t] <= Len(call[t].texts) /\ pos[t] \in Nat \ {0}
      BY <1>2 DEF LruHit, Looking, TypeInv, TypeOK
    <3>2. pos[t] \in DOMAIN rows[t]
      BY <3>1, KeyAtType
    <3> QED BY <3>1, <3>2, KeyAtType
  <2> QED BY <1>2, <2>1 DEF LruHit, InLru
<1>3. CASE Promote(t)
  <2>1. KeyAt(t, pos[t]) \in Key /\ rows[t][pos[t]] \in Row
    BY <1>3, KeyAtType DEF Promote, TypeInv, WellPlaced, AtText
  <2> QED BY <1>3, <2>1 DEF Promote
<1>4. CASE WriteBack(t)
  <2>1. /\ pc[t] = "writeback" /\ pos[t] \in DOMAIN miss[t]
        /\ Here(t) = miss[t][pos[t]]
    BY <1>4, KeyAtType DEF WriteBack, Here, TypeInv, TypeOK
  <2>2. KeyAt(t, Here(t)) \in Key
    BY <2>1, KeyAtType
  <2>3. fresh[t][pos[t]] \in Row
    <3>1. fresh[t] \in Seq(Row) /\ pos[t] \in 1..Len(fresh[t])
      BY <2>1, KeyAtType DEF TypeInv, TypeOK, WellPlaced
    <3> QED BY <3>1, ElementOfSeq
  <2> QED BY <1>4, <2>2, <2>3 DEF WriteBack
<1>5. CASE /\ Step(t)
           /\ ~LruHit(t) /\ ~Promote(t) /\ ~WriteBack(t)
  BY <1>5 DEF Step, LruMiss, DiskLoad, Discard, LookedUp, Infer, InferFail,
     CreateTmp, WriteTmp, Replace, PutFail, WrittenBack, Return, shared
<1> QED BY <1>1, <1>2, <1>3, <1>4, <1>5

\* The LRU never holds more than the capacity, nor two entries for a key,
\* whatever calls and load() interleave.
THEOREM LruBoundedAlways == Spec => []LruBounded
<1> DEFINE Inv == \A p \in Procs : Bounded(p)
<1>1. Init => Inv
  BY DEF Init, Bounded, Distinct
<1>2. TypeInv /\ Inv /\ [Next]_vars => Inv'
  <2> SUFFICES ASSUME TypeInv, Inv, [Next]_vars, NEW p \in Procs
               PROVE  Bounded(p)'
    OBVIOUS
  <2>1. lru \in [Procs -> Seq(EntryType)] /\ cap \in [Procs -> Nat] /\ Bounded(p)
    BY DEF TypeInv, TypeOK
  <2>2. lru[p] \in Seq(EntryType) /\ cap[p] \in Nat /\ Len(lru[p]) \in Nat
    BY <2>1, LenProperties
  <2>3. CASE lru'[p] = lru[p] /\ cap'[p] = cap[p]
    BY <2>1, <2>3 DEF Bounded, Distinct
  <2>4. ASSUME NEW t \in Threads, Embed(t) \/ Step(t)
        PROVE  Bounded(p)'
    <3>1. ProcOf[t] \in Procs /\ cap' = cap
      BY <2>4, LruSteps, ThreadsAssumption
    <3>2. CASE lru' = lru
      BY <2>3, <3>1, <3>2
    <3>3. ASSUME NEW k, Cached(lru[ProcOf[t]], k),
                 lru' = [lru EXCEPT ![ProcOf[t]] = Touch(@, k)]
          PROVE  Bounded(p)'
      <4>1. CASE p = ProcOf[t]
        <5>1. lru'[p] = Touch(lru[p], k)
          BY <2>1, <3>3, <4>1
        <5>2. /\ Touch(lru[p], k) \in Seq(EntryType)
              /\ Len(Touch(lru[p], k)) <= Len(lru[p])
              /\ Distinct(lru[p]) => Distinct(Touch(lru[p], k))
          BY <2>2, <3>3, <4>1, TouchProperties
        <5>3. Len(Touch(lru[p], k)) \in Nat
          BY <5>2, LenProperties
        <5> QED BY <2>1, <2>2, <3>1, <5>1, <5>2, <5>3 DEF Bounded, Distinct
      <4>2. CASE p # ProcOf[t]
        BY <2>1, <2>3, <3>1, <3>3, <4>2
      <4> QED BY <4>1, <4>2
    <3>4. ASSUME NEW k \in Key, NEW v \in Row, PutLru(t, k, v)
          PROVE  Bounded(p)'
      <4>1. CASE p = ProcOf[t]
        <5>1. lru'[p] = Put(lru[p], k, v, cap[p])
          BY <2>1, <3>4, <4>1 DEF PutLru
        <5>2. /\ Len(lru[p]) <= cap[p] => Len(Put(lru[p], k, v, cap[p])) <= cap[p]
              /\ Distinct(lru[p]) => Distinct(Put(lru[p], k, v, cap[p]))
          BY <2>2, PutProperties
        <5> QED BY <2>1, <3>1, <5>1, <5>2 DEF Bounded, Distinct
      <4>2. CASE p # ProcOf[t]
        BY <2>1, <2>3, <3>1, <3>4, <4>2 DEF PutLru
      <4> QED BY <4>1, <4>2
    <3> QED BY <2>4, <3>2, <3>3, <3>4, LruSteps
  <2>5. ASSUME NEW q \in Procs, SetSize(q)
        PROVE  Bounded(p)'
    <3>1. PICK size \in Capacities \ {0} :
            /\ cap' = [cap EXCEPT ![q] = Resized(@, size)]
            /\ lru' = [lru EXCEPT ![q] = Evict(@, cap'[q])]
      BY <2>5 DEF SetSize
    <3>2. CASE p = q
      <4>1. cap'[p] \in Nat /\ lru'[p] = Evict(lru[p], cap'[p])
        BY <2>1, <3>1, <3>2, SizesAssumption DEF Resized
      <4>2. /\ Len(Evict(lru[p], cap'[p])) <= cap'[p]
            /\ Distinct(lru[p]) => Distinct(Evict(lru[p], cap'[p]))
        BY <2>2, <4>1, EvictProperties
      <4> QED BY <2>1, <4>1, <4>2 DEF Bounded, Distinct
    <3>3. CASE p # q
      BY <2>1, <2>3, <3>1, <3>3
    <3> QED BY <3>2, <3>3
  <2>6. ASSUME NEW q \in Procs, Crash(q)
        PROVE  Bounded(p)'
    <3>1. CASE p = q
      <4>1. lru'[p] = <<>> /\ cap'[p] = 0
        BY <2>1, <2>6, <3>1 DEF Crash
      <4> QED BY <4>1 DEF Bounded, Distinct
    <3>2. CASE p # q
      BY <2>1, <2>3, <2>6, <3>2 DEF Crash
    <3> QED BY <3>1, <3>2
  <2>7. CASE \E k \in Touched : Prune(k) \/ Damage(k)
    BY <2>3, <2>7 DEF Prune, Damage
  <2>8. CASE UNCHANGED vars
    BY <2>3, <2>8 DEF vars
  <2> QED BY <2>4, <2>5, <2>6, <2>7, <2>8 DEF Next
<1>3. Inv => LruBounded
  BY DEF Bounded, Distinct, LruBounded
<1> QED BY <1>1, <1>2, <1>3, TypeInvAlways, PTL DEF Spec

(***************************************************************************)
(* What the LRU drops, and what becomes of its capacity.                   *)
(***************************************************************************)

\* Of any two entries of s, the older one is the first to be missing from s2.
OldestFirst(s, s2) ==
  \A a, b \in DOMAIN s : a < b /\ Cached(s2, s[a].key) => Cached(s2, s[b].key)

\* Evict keeps a suffix.
LEMMA EvictShape ==
  ASSUME NEW S, NEW s \in Seq(S), NEW n \in Nat
  PROVE  \E d \in Nat :
           /\ Len(Evict(s, n)) = Len(s) - d /\ d <= Len(s)
           /\ Len(s) <= n => d = 0
           /\ \A i \in DOMAIN Evict(s, n) : i + d \in DOMAIN s /\ Evict(s, n)[i] = s[i + d]
           /\ DOMAIN Evict(s, n) = 1..(Len(s) - d)
<1> DEFINE e == Evict(s, n)
<1>1. DOMAIN s = 1..Len(s) /\ Len(s) \in Nat
  BY LenProperties
<1>2. CASE Len(s) <= n
  <2>1. e = s
    BY <1>1, <1>2 DEF Evict
  <2> HIDE DEF e
  <2>2. /\ Len(e) = Len(s) - 0 /\ 0 <= Len(s)
        /\ \A i \in DOMAIN e : i + 0 \in DOMAIN s /\ e[i] = s[i + 0]
        /\ DOMAIN e = 1..(Len(s) - 0)
    BY <1>1, <2>1
  <2>3. 0 \in Nat
    OBVIOUS
  <2> QED BY <2>2, <2>3 DEF e
<1>3. CASE Len(s) > n
  <2> DEFINE d == Len(s) - n
  <2>1. e = SubSeq(s, d + 1, Len(s))
    BY <1>3 DEF Evict
  <2>2. d \in Nat /\ d <= Len(s) /\ d + 1 \in Nat /\ ~(Len(s) <= n)
    BY <1>1, <1>3
  <2> HIDE DEF d, e
  <2>3. /\ e \in Seq(S) /\ Len(e) = Len(s) + 1 - (d + 1)
        /\ \A i \in 1..(Len(s) + 1 - (d + 1)) : e[i] = s[(d + 1) + i - 1]
    BY <1>1, <2>1, <2>2, SubSeqInside
  <2>4. /\ Len(e) = Len(s) - d /\ DOMAIN e = 1..(Len(s) - d)
        /\ \A i \in 1..(Len(s) - d) : i + d \in DOMAIN s /\ e[i] = s[i + d]
    <3>1. Len(s) + 1 - (d + 1) = Len(s) - d
      <4>1. \A x, y \in Int : x + 1 - (y + 1) = x - y
        OBVIOUS
      <4>2. Len(s) \in Int /\ d \in Int
        BY <1>1, <2>2
      <4> QED BY <4>1, <4>2
    <3>2. ASSUME NEW i \in 1..(Len(s) - d)
          PROVE  (d + 1) + i - 1 = i + d /\ i + d \in DOMAIN s
      <4>1. i \in Int /\ d \in Int /\ 1 <= i /\ i + d <= Len(s)
        BY <1>1, <2>2
      <4>2. i + d \in 1..Len(s)
        BY <1>1, <2>2, <4>1
      <4>3. (d + 1) + i - 1 = i + d
        BY <4>1
      <4> QED BY <1>1, <4>2, <4>3
    <3> QED BY <2>3, <3>1, <3>2, LenProperties
  <2> QED BY <2>2, <2>4 DEF e
<1>4. Len(s) <= n \/ Len(s) > n
  BY <1>1
<1> HIDE DEF e
<1> QED BY <1>2, <1>3, <1>4 DEF e

\* So what it drops is older than what it keeps.
LEMMA EvictOldest ==
  ASSUME NEW S, NEW s \in Seq(S), NEW n \in Nat, Distinct(s)
  PROVE  OldestFirst(s, Evict(s, n))
<1> DEFINE e == Evict(s, n)
<1>1. PICK d \in Nat :
        /\ d <= Len(s) /\ DOMAIN e = 1..(Len(s) - d)
        /\ \A i \in DOMAIN e : i + d \in DOMAIN s /\ e[i] = s[i + d]
  BY EvictShape
<1>2. DOMAIN s = 1..Len(s) /\ Len(s) \in Nat
  BY LenProperties
<1> HIDE DEF e
<1>3. ASSUME NEW a \in DOMAIN s, NEW b \in DOMAIN s, a < b, Cached(e, s[a].key)
      PROVE  Cached(e, s[b].key)
  <2>1. PICK i \in DOMAIN e : e[i].key = s[a].key
    BY <1>3 DEF Cached
  <2>2. i + d = a
    BY <1>1, <2>1 DEF Distinct
  <2>3. b - d \in DOMAIN e /\ (b - d) + d = b
    BY <1>1, <1>2, <1>3, <2>1, <2>2
  <2>4. e[b - d] = s[b]
    BY <1>1, <2>3
  <2> QED BY <2>3, <2>4 DEF Cached
<1> QED BY <1>3 DEF OldestFirst, e

\* Reentering drops nothing.
LEMMA ReenterKeeps ==
  ASSUME NEW S, NEW s \in Seq(S), NEW e \in S
  PROVE  /\ \A a \in DOMAIN s : Cached(Reenter(s, e), s[a].key)
         /\ Cached(Reenter(s, e), e.key)
<1> DEFINE w == Without(s, e.key)
           r == Append(w, e)
<1>1. w \in Seq(S)
  BY WithoutProperties
<1>2. DOMAIN s = 1..Len(s) /\ Len(s) \in Nat /\ DOMAIN w = 1..Len(w) /\ Len(w) \in Nat
  BY <1>1, LenProperties
<1>3. Cached(s, e.key) => \E j \in DOMAIN s :
        /\ s[j].key = e.key /\ Len(w) = Len(s) - 1
        /\ \A i \in DOMAIN w : w[i] = IF i < j THEN s[i] ELSE s[i + 1]
  BY WithoutShape
<1>4. ~Cached(s, e.key) => w = s
  BY DEF Without
<1> HIDE DEF w
<1>5. /\ \A i \in 1..Len(w) : r[i] = w[i]
      /\ r[Len(w) + 1] = e /\ Len(r) = Len(w) + 1 /\ r \in Seq(S)
  BY <1>1, AppendProperties
<1>6. DOMAIN r = 1..(Len(w) + 1)
  BY <1>5, LenProperties
<1> HIDE DEF r
<1>7. Cached(r, e.key)
  BY <1>2, <1>5, <1>6 DEF Cached
<1>8. \A i \in DOMAIN w : Cached(r, w[i].key)
  BY <1>2, <1>5, <1>6 DEF Cached
<1>9. ASSUME NEW a \in DOMAIN s, s[a].key # e.key
      PROVE  \E i \in DOMAIN w : w[i] = s[a]
  <2>1. CASE ~Cached(s, e.key)
    BY <1>4, <2>1
  <2>2. CASE Cached(s, e.key)
    <3>1. PICK j \in DOMAIN s :
            /\ s[j].key = e.key /\ Len(w) = Len(s) - 1
            /\ \A i \in DOMAIN w : w[i] = IF i < j THEN s[i] ELSE s[i + 1]
      BY <1>3, <2>2
    <3>2. CASE a < j
      BY <1>2, <3>1, <3>2
    <3>3. CASE ~(a < j)
      <4>1. a > j
        BY <1>2, <1>9, <3>1, <3>3
      <4>2. a - 1 \in DOMAIN w /\ ~(a - 1 < j) /\ (a - 1) + 1 = a
        BY <1>2, <3>1, <4>1
      <4> QED BY <3>1, <4>2
    <3> QED BY <3>2, <3>3
  <2> QED BY <2>1, <2>2
<1>10. \A a \in DOMAIN s : Cached(r, s[a].key)
  BY <1>7, <1>8, <1>9
<1> QED BY <1>7, <1>10 DEF Reenter, r, w

\* Put into an LRU within its capacity drops the oldest, if anything.
LEMMA PutOldest ==
  ASSUME NEW s \in Seq(EntryType), NEW k \in Key, NEW v \in Row, NEW n \in Nat,
         Distinct(s), Len(s) <= n
  PROVE  OldestFirst(s, Put(s, k, v, n))
<1> DEFINE e == [key |-> k, vec |-> v]
           r == Reenter(s, e)
<1>1. e \in EntryType /\ e.key = k
  BY DEF EntryType
<1>2. CASE n = 0
  BY <1>2, Zenon DEF Put, OldestFirst, Cached
<1>3. CASE n # 0
  <2>1. Put(s, k, v, n) = Evict(r, n)
    BY <1>1, <1>3 DEF Put, Reenter
  <2> HIDE DEF e
  <2>2. /\ r \in Seq(EntryType) /\ Distinct(r)
        /\ Cached(s, k) => Len(r) <= Len(s)
        /\ \A a \in DOMAIN s : Cached(r, s[a].key)
    BY <1>1, ReenterProperties, ReenterKeeps
  <2>3. Len(s) \in Nat /\ Len(r) \in Nat /\ DOMAIN s = 1..Len(s) /\ DOMAIN r = 1..Len(r)
    BY <2>2, LenProperties
  <2>4. CASE Cached(s, k)
    <3>1. Len(r) <= n
      BY <2>2, <2>3, <2>4
    <3>2. Evict(r, n) = r
      BY <2>3, <3>1 DEF Evict
    <3> QED BY <2>1, <2>2, <3>2 DEF OldestFirst
  <2>5. CASE ~Cached(s, k)
    <3>1. r = Append(s, e)
      BY <1>1, <2>5 DEF Reenter, Without
    <3> HIDE DEF r
    <3>2. \A i \in DOMAIN s : r[i] = s[i] /\ i \in DOMAIN r
      BY <1>1, <2>3, <3>1, AppendProperties
    <3>3. OldestFirst(r, Evict(r, n))
      BY <2>2, EvictOldest
    <3> QED BY <2>1, <3>2, <3>3 DEF OldestFirst
  <2> QED BY <2>4, <2>5
<1> QED BY <1>2, <1>3

\* Touching drops nothing.
LEMMA TouchKeeps ==
  ASSUME NEW s \in Seq(EntryType), NEW k, Cached(s, k)
  PROVE  OldestFirst(s, Touch(s, k))
<1> DEFINE e == EntryOf(s, k)
<1>1. e \in EntryType /\ e.key = k
  BY TouchProperties
<1>2. Touch(s, k) = Reenter(s, e)
  BY <1>1 DEF Touch, Reenter
<1> HIDE DEF e
<1> QED BY <1>1, <1>2, ReenterKeeps DEF OldestFirst

\* EvictsOldestFirst, whatever calls and load() interleave and wherever a
\* process dies.
THEOREM EvictsOldestFirstAlways == Spec => EvictsOldestFirst
<1> DEFINE A == \A p \in Procs : OldestFirst(lru[p], lru'[p])
<1>1. TypeInv /\ LruBounded /\ [Next]_vars => [A]_vars
  <2> SUFFICES ASSUME TypeInv, LruBounded, Next, NEW p \in Procs
               PROVE  OldestFirst(lru[p], lru'[p])
    OBVIOUS
  <2>1. lru \in [Procs -> Seq(EntryType)] /\ cap \in [Procs -> Nat]
    BY DEF TypeInv, TypeOK
  <2>2. /\ lru[p] \in Seq(EntryType) /\ cap[p] \in Nat
        /\ Distinct(lru[p]) /\ Len(lru[p]) <= cap[p]
    BY <2>1 DEF LruBounded, Distinct
  <2>3. CASE lru'[p] = lru[p]
    BY <2>3 DEF OldestFirst, Cached
  <2>4. ASSUME NEW t \in Threads, Embed(t) \/ Step(t)
        PROVE  OldestFirst(lru[p], lru'[p])
    <3>1. ProcOf[t] \in Procs
      BY ThreadsAssumption
    <3>2. ASSUME NEW k, Cached(lru[ProcOf[t]], k),
                 lru' = [lru EXCEPT ![ProcOf[t]] = Touch(@, k)]
          PROVE  OldestFirst(lru[p], lru'[p])
      <4>1. CASE p = ProcOf[t]
        <5>1. lru'[p] = Touch(lru[p], k)
          BY <2>1, <3>2, <4>1
        <5> QED BY <2>2, <3>2, <4>1, <5>1, TouchKeeps
      <4> QED BY <2>1, <2>3, <3>2, <4>1
    <3>3. ASSUME NEW k \in Key, NEW v \in Row, PutLru(t, k, v)
          PROVE  OldestFirst(lru[p], lru'[p])
      <4>1. CASE p = ProcOf[t]
        <5>1. lru'[p] = Put(lru[p], k, v, cap[p])
          BY <2>1, <3>3, <4>1 DEF PutLru
        <5> QED BY <2>2, <5>1, PutOldest
      <4> QED BY <2>1, <2>3, <3>3, <4>1 DEF PutLru
    <3> QED BY <2>3, <2>4, <3>2, <3>3, LruSteps
  <2>5. ASSUME NEW q \in Procs, SetSize(q)
        PROVE  OldestFirst(lru[p], lru'[p])
    <3>1. PICK size \in Capacities \ {0} :
            /\ cap' = [cap EXCEPT ![q] = Resized(@, size)]
            /\ lru' = [lru EXCEPT ![q] = Evict(@, cap'[q])]
      BY <2>5 DEF SetSize
    <3>2. CASE p = q
      <4>1. cap'[p] \in Nat /\ lru'[p] = Evict(lru[p], cap'[p])
        BY <2>1, <3>1, <3>2, SizesAssumption DEF Resized
      <4> QED BY <2>2, <4>1, EvictOldest
    <3> QED BY <2>1, <2>3, <3>1, <3>2
  <2>6. ASSUME NEW q \in Procs, Crash(q)
        PROVE  OldestFirst(lru[p], lru'[p])
    <3>1. CASE p = q
      <4>1. lru'[p] = <<>>
        BY <2>1, <2>6, <3>1 DEF Crash
      <4> QED BY <4>1 DEF OldestFirst, Cached
    <3> QED BY <2>1, <2>3, <2>6, <3>1 DEF Crash
  <2>7. CASE \E k \in Touched : Prune(k) \/ Damage(k)
    BY <2>3, <2>7 DEF Prune, Damage
  <2> QED BY <2>4, <2>5, <2>6, <2>7 DEF Next
<1>2. A => \A p \in Procs : \A a, b \in DOMAIN lru[p] :
             a < b /\ Cached(lru'[p], lru[p][a].key) => Cached(lru'[p], lru[p][b].key)
  BY DEF OldestFirst
<1> QED BY <1>1, <1>2, TypeInvAlways, LruBoundedAlways, PTL DEF Spec, EvictsOldestFirst

\* CapacityOnlyShrinks, for every sequence of load() and restarts.
THEOREM CapacityOnlyShrinksAlways == Spec => CapacityOnlyShrinks
<1>1. TypeInv /\ [Next]_vars =>
        [\A p \in Procs : cap[p] # 0 /\ cap'[p] # cap[p] =>
                          cap'[p] < cap[p] /\ (cap'[p] = 0 => lru'[p] = <<>>)]_vars
  <2> SUFFICES ASSUME TypeInv, Next, NEW p \in Procs, cap[p] # 0, cap'[p] # cap[p]
               PROVE  cap'[p] < cap[p] /\ (cap'[p] = 0 => lru'[p] = <<>>)
    OBVIOUS
  <2>1. /\ lru \in [Procs -> Seq(EntryType)] /\ cap \in [Procs -> Nat]
        /\ Capacities \subseteq Nat
    BY SizesAssumption DEF TypeInv, TypeOK
  <2>2. ASSUME NEW t \in Threads, Embed(t) \/ Step(t)
        PROVE  FALSE
    BY <2>2, LruSteps
  <2>3. ASSUME NEW q \in Procs, SetSize(q)
        PROVE  cap'[p] < cap[p] /\ (cap'[p] = 0 => lru'[p] = <<>>)
    <3>1. PICK size \in Capacities \ {0} : cap' = [cap EXCEPT ![q] = Resized(@, size)]
      BY <2>3 DEF SetSize
    <3>2. p = q /\ cap'[p] = Resized(cap[p], size)
      BY <2>1, <3>1
    <3> QED BY <2>1, <3>1, <3>2 DEF Resized
  <2>4. ASSUME NEW q \in Procs, Crash(q)
        PROVE  cap'[p] < cap[p] /\ (cap'[p] = 0 => lru'[p] = <<>>)
    <3>1. p = q /\ cap'[p] = 0 /\ lru'[p] = <<>>
      BY <2>1, <2>4 DEF Crash
    <3> QED BY <2>1, <3>1
  <2>5. CASE \E k \in Touched : Prune(k) \/ Damage(k)
    BY <2>5 DEF Prune, Damage
  <2> QED BY <2>2, <2>3, <2>4, <2>5 DEF Next
<1> QED BY <1>1, TypeInvAlways, PTL DEF Spec, CapacityOnlyShrinks

(***************************************************************************)
(* Right answers.  The strengthening says, at each place of embed(), which *)
(* rows are already right and which are still owed by the write-back, and  *)
(* that no layer holds a wrong vector.  It needs a batch size of at least  *)
(* one: with zero, DestRow sends every row to the first.                   *)
(***************************************************************************)

\* Row n of t's answer is the vector of text n.
Known(t, n) == rows[t][n] = KeyAt(t, n)

\* Row n is right, or one of the misses from the i-th on is text n.
KnownOrOwed(t, n, i) ==
  Known(t, n) \/ \E j \in DOMAIN miss[t] : j >= i /\ miss[t][j] = n

RightSoFar(t) ==
  /\ pc[t] # "idle" => call[t].batch # 0
  /\ pc[t] = "lookup" \/ AtText(t) =>
       \A n \in DOMAIN rows[t] : n < pos[t] => KnownOrOwed(t, n, 1)
  /\ pc[t] = "promote" => Known(t, pos[t])
  /\ pc[t] = "infer" => \A n \in DOMAIN rows[t] : KnownOrOwed(t, n, 1)
  /\ pc[t] = "writeback" => \A n \in DOMAIN rows[t] : KnownOrOwed(t, n, pos[t])
  /\ AtMiss(t) => \A n \in DOMAIN rows[t] : KnownOrOwed(t, n, pos[t] + 1)
  /\ pc[t] = "writeback" \/ AtMiss(t) => fresh[t] = MissVectors(t)
  /\ pc[t] = "replace" => tmp[t] = fresh[t][pos[t]]
  /\ pc[t] = "done" => \A n \in DOMAIN rows[t] : Known(t, n)

LruSound(p) == \A n \in DOMAIN lru[p] : lru[p][n].vec = lru[p][n].key
DiskSound(k) ==
  disk[k] \in {k, Missing} \cup (IF k \in Touched THEN {Damaged} ELSE {})

RightInv ==
  /\ \A p \in Procs : LruSound(p)
  /\ \A k \in Key : DiskSound(k)
  /\ \A t \in Threads : RightSoFar(t)

LEMMA RightInvInit == Init => RightInv
BY DEF Init, RightInv, LruSound, DiskSound, RightSoFar, AtText, AtMiss

LEMMA OthersStayRight ==
  ASSUME RightInv, NEW t \in Threads, Frame(t), RightSoFar(t)'
  PROVE  \A u \in Threads : RightSoFar(u)'
<1> SUFFICES ASSUME NEW u \in Threads \ {t}
             PROVE  RightSoFar(u)'
  OBVIOUS
<1>1. RightSoFar(u)
  BY DEF RightInv
<1>2. /\ \A n : Known(u, n)' = Known(u, n)
      /\ \A n, i : KnownOrOwed(u, n, i)' = KnownOrOwed(u, n, i)
      /\ MissVectors(u)' = MissVectors(u)
  BY DEF Frame, Known, KnownOrOwed, KeyAt, MissVectors
<1> QED BY <1>1, <1>2 DEF Frame, RightSoFar, AtText, AtMiss

LEMMA AllStayRight ==
  ASSUME RightInv, UNCHANGED <<tmp, pc, local>>
  PROVE  \A t \in Threads : RightSoFar(t)'
<1> SUFFICES ASSUME NEW t \in Threads
             PROVE  RightSoFar(t)'
  OBVIOUS
<1>1. RightSoFar(t)
  BY DEF RightInv
<1>2. /\ \A n : Known(t, n)' = Known(t, n)
      /\ \A n, i : KnownOrOwed(t, n, i)' = KnownOrOwed(t, n, i)
      /\ MissVectors(t)' = MissVectors(t)
  BY DEF Known, KnownOrOwed, KeyAt, MissVectors, local
<1> QED BY <1>1, <1>2 DEF RightSoFar, AtText, AtMiss, local

\* The vector the write-back has in hand is that of the miss it is at.
LEMMA VectorInHand ==
  ASSUME TypeInv, RightInv, NEW t \in Threads, pc[t] = "writeback" \/ AtMiss(t),
         pos[t] \in DOMAIN miss[t]
  PROVE  /\ Here(t) = miss[t][pos[t]]
         /\ KeyAt(t, Here(t)) \in Key
         /\ fresh[t][pos[t]] = KeyAt(t, Here(t))
<1>1. pc[t] # "idle" /\ pc[t] \in {"writeback", "create", "write", "replace"}
  BY DEF AtMiss
<1>2. Here(t) = miss[t][pos[t]]
  BY <1>1 DEF Here
<1>3. fresh[t] = MissVectors(t)
  BY DEF RightInv, RightSoFar
<1> QED BY <1>1, <1>2, <1>3, KeyAtType DEF MissVectors

\* No step of a thread puts a wrong vector into an LRU.
LEMMA LruStaysSound ==
  ASSUME TypeInv, RightInv, NEW t \in Threads, Embed(t) \/ Step(t), NEW p \in Procs
  PROVE  LruSound(p)'
<1>1. /\ lru \in [Procs -> Seq(EntryType)] /\ lru[p] \in Seq(EntryType)
      /\ cap[p] \in Nat /\ LruSound(p)
  BY DEF TypeInv, TypeOK, RightInv
<1>2. CASE lru'[p] = lru[p]
  BY <1>1, <1>2 DEF LruSound
<1>3. ASSUME NEW k \in Key, Cached(lru[p], k), lru'[p] = Touch(lru[p], k)
      PROVE  LruSound(p)'
  <2>1. \A i \in DOMAIN lru'[p] : \E m \in DOMAIN lru[p] : lru'[p][i] = lru[p][m]
    BY <1>1, <1>3, TouchProperties
  <2> QED BY <1>1, <2>1 DEF LruSound
<1>4. ASSUME NEW k \in Key, NEW v \in Row, lru'[p] = Put(lru[p], k, v, cap[p]),
             \/ Promote(t) /\ k = KeyAt(t, pos[t]) /\ v = rows[t][pos[t]]
             \/ WriteBack(t) /\ k = KeyAt(t, Here(t)) /\ v = fresh[t][pos[t]]
      PROVE  LruSound(p)'
  <2>1. v = k
    <3>1. CASE Promote(t) /\ k = KeyAt(t, pos[t]) /\ v = rows[t][pos[t]]
      BY <3>1 DEF Promote, RightInv, RightSoFar, Known
    <3>2. CASE WriteBack(t) /\ k = KeyAt(t, Here(t)) /\ v = fresh[t][pos[t]]
      <4>1. pc[t] = "writeback" /\ pos[t] \in DOMAIN miss[t]
        <5>1. pc[t] = "writeback" /\ pos[t] <= Len(miss[t]) /\ pos[t] \in Nat \ {0}
          BY <3>2 DEF WriteBack, TypeInv, TypeOK
        <5> QED BY <5>1, KeyAtType
      <4> QED BY <3>2, <4>1, VectorInHand
    <3> QED BY <1>4, <3>1, <3>2
  <2>2. \A i \in DOMAIN lru'[p] :
           \/ lru'[p][i] = [key |-> k, vec |-> v]
           \/ \E m \in DOMAIN lru[p] : lru'[p][i] = lru[p][m]
    BY <1>1, <1>4, PutProperties
  <2> QED BY <1>1, <2>1, <2>2 DEF LruSound
<1>5. CASE p # ProcOf[t]
  <2>1. lru'[p] = lru[p]
    BY <1>1, <1>5, LruSteps DEF PutLru
  <2> QED BY <1>2, <2>1
<1>6. CASE p = ProcOf[t]
  <2>1. CASE lru' = lru
    BY <1>2, <2>1
  <2>2. ASSUME NEW k \in Key, Cached(lru[p], k),
               lru' = [lru EXCEPT ![p] = Touch(@, k)]
        PROVE  LruSound(p)'
    <3>1. lru'[p] = Touch(lru[p], k)
      BY <1>1, <2>2
    <3> QED BY <1>3, <2>2, <3>1
  <2>3. ASSUME NEW k \in Key, NEW v \in Row, PutLru(t, k, v),
               \/ Promote(t) /\ k = KeyAt(t, pos[t]) /\ v = rows[t][pos[t]]
               \/ WriteBack(t) /\ k = KeyAt(t, Here(t)) /\ v = fresh[t][pos[t]]
        PROVE  LruSound(p)'
    <3>1. lru'[p] = Put(lru[p], k, v, cap[p])
      BY <1>1, <1>6, <2>3 DEF PutLru
    <3> QED BY <1>4, <2>3, <3>1
  <2> QED BY <1>6, <2>1, <2>2, <2>3, LruSteps
<1> QED BY <1>5, <1>6

\* No step of a thread puts a wrong vector, or part of one, into the directory.
LEMMA DiskStaysSound ==
  ASSUME TypeInv, RightInv, NEW t \in Threads, Embed(t) \/ Step(t), NEW k \in Key
  PROVE  DiskSound(k)'
<1>1. disk \in [Key -> Row \cup {Missing, Torn, Damaged}] /\ DiskSound(k)
  BY DEF TypeInv, TypeOK, RightInv
<1>2. CASE Discard(t)
  BY <1>1, <1>2 DEF Discard, DiskSound
<1>3. CASE Replace(t)
  <2>1. AtMiss(t) /\ pos[t] \in DOMAIN miss[t] /\ pc[t] = "replace"
    BY <1>3 DEF Replace, AtMiss, TypeInv, WellPlaced
  <2>2. tmp[t] = KeyAt(t, Here(t))
    BY <2>1, VectorInHand DEF RightInv, RightSoFar
  <2> QED BY <1>1, <1>3, <2>2 DEF Replace, DiskSound
<1>4. CASE disk' = disk
  BY <1>1, <1>4 DEF DiskSound
<1>5. Discard(t) \/ Replace(t) \/ disk' = disk
  BY DEF Embed, Step, LruHit, LruMiss, DiskLoad, Promote, LookedUp, Infer, InferFail,
     WriteBack, CreateTmp, WriteTmp, PutFail, WrittenBack, Return, shared
<1> QED BY <1>2, <1>3, <1>4, <1>5

\* The steps of the lookup loop keep their own thread right.
LEMMA RightLookup ==
  ASSUME TypeInv, RightInv, NEW t \in Threads,
         LruHit(t) \/ LruMiss(t) \/ DiskLoad(t) \/ Promote(t) \/ Discard(t)
           \/ LookedUp(t)
  PROVE  RightSoFar(t)'
<1> USE DEF AtText, AtMiss, Goto, KnownOrOwed, Known, KeyAt
<1>1. /\ TypeOK /\ WellPlaced(t) /\ RightSoFar(t) /\ pc[t] # "idle"
      /\ pc[t] = "lookup" \/ (AtText(t) /\ call[t].batch # 0)
      /\ pos[t] \in Nat \ {0}
  BY DEF TypeInv, TypeOK, RightInv, RightSoFar, LruHit, LruMiss, DiskLoad, Promote,
         Discard, LookedUp, Looking
<1>2. /\ DOMAIN rows[t] = 1..Len(call[t].texts) /\ Len(call[t].texts) \in Nat
      /\ DOMAIN miss[t] = 1..Len(miss[t]) /\ Len(miss[t]) \in Nat
      /\ \A n \in DOMAIN rows[t] : KeyAt(t, n) \in Key
  BY <1>1, KeyAtType
<1>3. \A n \in DOMAIN rows[t] : n < pos[t] => KnownOrOwed(t, n, 1)
  BY <1>1 DEF RightSoFar
<1>4. call[t].batch # 0
  BY <1>1 DEF RightSoFar
\* A row found right, and the loop goes on.
<1>5. ASSUME pos[t] \in DOMAIN rows[t], UNCHANGED <<call, miss>>,
             rows' = [rows EXCEPT ![t][pos[t]] = KeyAt(t, pos[t])]
      PROVE  \A n \in DOMAIN rows'[t] : n < pos[t] + 1 => KnownOrOwed(t, n, 1)'
  <2>1. /\ DOMAIN rows'[t] = DOMAIN rows[t]
        /\ rows'[t][pos[t]] = KeyAt(t, pos[t])
        /\ \A m \in DOMAIN rows[t] : m # pos[t] => rows'[t][m] = rows[t][m]
    <3>1. KeyAt(t, pos[t]) \in Row \cup {Missing}
      BY <1>2, <1>5 DEF Row
    <3> HIDE DEF KeyAt
    <3> QED BY <1>1, <1>5, <3>1, RowsType DEF TypeInv
  <2> SUFFICES ASSUME NEW n \in DOMAIN rows'[t], n < pos[t] + 1
               PROVE  KnownOrOwed(t, n, 1)'
    OBVIOUS
  <2>2. CASE n = pos[t]
    BY <1>5, <2>1, <2>2
  <2>3. CASE n # pos[t]
    <3>1. n \in DOMAIN rows[t] /\ n < pos[t]
      BY <1>1, <1>2, <2>1, <2>3
    <3>2. KnownOrOwed(t, n, 1) /\ rows'[t][n] = rows[t][n]
      BY <1>3, <2>1, <2>3, <3>1
    <3> QED BY <1>5, <3>2
  <2> QED BY <2>2, <2>3
\* A text missed, and the loop goes on.
<1>6. ASSUME pos[t] \in DOMAIN rows[t], UNCHANGED <<call, rows>>, Missed(t)
      PROVE  RightSoFar(t)'
  <2>1. /\ DOMAIN miss'[t] = 1..(Len(miss[t]) + 1)
        /\ miss'[t][Len(miss[t]) + 1] = pos[t]
        /\ \A i \in DOMAIN miss[t] : miss'[t][i] = miss[t][i]
    BY <1>1, <1>6, MissedType DEF Missed
  <2>2. pc'[t] = "lookup" /\ pos'[t] = pos[t] + 1
    BY <1>1, <1>6 DEF Missed, TypeOK
  <2>3. \A n \in DOMAIN rows[t] : n < pos[t] + 1 => KnownOrOwed(t, n, 1)'
    <3> SUFFICES ASSUME NEW n \in DOMAIN rows[t], n < pos[t] + 1
                 PROVE  KnownOrOwed(t, n, 1)'
      OBVIOUS
    <3>1. CASE n < pos[t]
      <4>1. DOMAIN miss[t] \subseteq DOMAIN miss'[t]
        BY <1>2, <2>1
      <4> QED BY <1>3, <1>6, <2>1, <3>1, <4>1
    <3>2. CASE n = pos[t]
      <4>1. Len(miss[t]) + 1 \in DOMAIN miss'[t] /\ Len(miss[t]) + 1 >= 1
        BY <1>2, <2>1
      <4> QED BY <2>1, <3>2, <4>1
    <3>3. n \in Nat
      BY <1>2
    <3> QED BY <1>1, <3>1, <3>2, <3>3
  <2> QED BY <1>4, <1>6, <2>2, <2>3 DEF RightSoFar
<1>7. CASE LruHit(t)
  <2>1. /\ pos[t] \in DOMAIN rows[t] /\ ProcOf[t] \in Procs
        /\ Cached(lru[ProcOf[t]], KeyAt(t, pos[t]))
        /\ lru[ProcOf[t]] \in Seq(EntryType)
    BY <1>1, <1>2, <1>7, ThreadsAssumption DEF LruHit, Looking, InLru, TypeOK
  <2>2. EntryOf(lru[ProcOf[t]], KeyAt(t, pos[t])).vec = KeyAt(t, pos[t])
    <3>1. LruSound(ProcOf[t])
      BY <2>1 DEF RightInv
    <3> HIDE DEF KeyAt
    <3> QED BY <2>1, <3>1, TouchProperties DEF LruSound
  <2>3. /\ rows' = [rows EXCEPT ![t][pos[t]] = KeyAt(t, pos[t])]
        /\ pc'[t] = "lookup" /\ pos'[t] = pos[t] + 1
        /\ UNCHANGED <<call, miss>>
    <3> HIDE DEF KeyAt
    <3> QED BY <1>1, <1>7, <2>2 DEF LruHit, Found, TypeOK
  <2>4. \A n \in DOMAIN rows'[t] : n < pos'[t] => KnownOrOwed(t, n, 1)'
    BY <1>5, <2>1, <2>3
  <2> HIDE DEF KnownOrOwed
  <2> QED BY <1>4, <2>3, <2>4 DEF RightSoFar
<1>8. CASE LruMiss(t)
  <2>1. pos[t] \in DOMAIN rows[t] /\ UNCHANGED <<call, rows, fresh>>
    BY <1>1, <1>2, <1>8 DEF LruMiss, Looking
  <2>2. CASE Missed(t)
    BY <1>6, <2>1, <2>2
  <2>3. CASE pc'[t] = "load" /\ UNCHANGED <<pos, miss>>
    BY <1>3, <1>4, <2>1, <2>3 DEF RightSoFar
  <2> QED BY <1>1, <1>8, <2>2, <2>3 DEF LruMiss, TypeOK
<1>9. CASE DiskLoad(t)
  <2> DEFINE found == disk[KeyAt(t, pos[t])]
  <2>1. pos[t] \in DOMAIN rows[t] /\ UNCHANGED <<call, miss, fresh>>
    BY <1>1, <1>9 DEF DiskLoad, WellPlaced
  <2>2. CASE /\ found \in Row
               /\ IF call[t].lruOn
                  THEN /\ rows' = [rows EXCEPT ![t][pos[t]] = found]
                       /\ Goto(t, "promote") /\ UNCHANGED pos
                  ELSE Found(t, found)
    <3>1. found = KeyAt(t, pos[t])
      <4>1. KeyAt(t, pos[t]) \in Key /\ DiskSound(KeyAt(t, pos[t]))
        BY <1>2, <2>1 DEF RightInv
      <4> HIDE DEF KeyAt
      <4> QED BY <2>2, <4>1, MarkersAssumption DEF DiskSound
    <3>2. /\ rows' = [rows EXCEPT ![t][pos[t]] = KeyAt(t, pos[t])]
          /\ \/ pc'[t] = "promote" /\ pos' = pos
             \/ pc'[t] = "lookup" /\ pos'[t] = pos[t] + 1
      <4> HIDE DEF KeyAt
      <4> QED BY <1>1, <2>2, <3>1 DEF Found, TypeOK
    <3>3. \A n \in DOMAIN rows'[t] : n < pos[t] + 1 => KnownOrOwed(t, n, 1)'
      BY <1>5, <2>1, <3>2
    <3>4. CASE pc'[t] = "lookup" /\ pos'[t] = pos[t] + 1
      <4> HIDE DEF KnownOrOwed
      <4> QED BY <1>4, <2>1, <3>3, <3>4 DEF RightSoFar
    <3>5. CASE pc'[t] = "promote" /\ pos' = pos
      <4>1. rows'[t][pos[t]] = KeyAt(t, pos[t])
        <5>1. rows'[t] = [rows[t] EXCEPT ![pos[t]] = KeyAt(t, pos[t])]
          <6> HIDE DEF KeyAt
          <6> QED BY <1>1, <3>2 DEF TypeOK
        <5> HIDE DEF KeyAt
        <5> QED BY <2>1, <5>1
      <4>2. \A n \in DOMAIN rows'[t] : n < pos[t] => KnownOrOwed(t, n, 1)'
        <5>1. DOMAIN rows'[t] \subseteq Nat
          <6>1. DOMAIN rows'[t] = DOMAIN rows[t]
            <7> HIDE DEF KeyAt
            <7> QED BY <1>1, <3>2 DEF TypeOK
          <6> QED BY <1>2, <6>1
        <5>2. \A n \in DOMAIN rows'[t] : n < pos[t] => n < pos[t] + 1
          BY <1>1, <5>1
        <5> HIDE DEF KnownOrOwed
        <5> QED BY <3>3, <5>2
      <4>3. Known(t, pos[t])'
        BY <2>1, <3>5, <4>1
      <4> HIDE DEF KnownOrOwed, Known
      <4> QED BY <1>4, <2>1, <3>5, <4>2, <4>3 DEF RightSoFar
    <3> QED BY <3>2, <3>4, <3>5
  <2>3. CASE Goto(t, "discard") /\ UNCHANGED <<pos, rows>>
    <3>1. pc'[t] = "discard" /\ UNCHANGED <<pos, rows>>
      BY <1>1, <2>3 DEF TypeOK
    <3> QED BY <1>3, <1>4, <2>1, <3>1 DEF RightSoFar
  <2> HIDE DEF KeyAt
  <2> QED BY <1>9, <2>2, <2>3 DEF DiskLoad
<1>10. CASE Promote(t)
  <2>1. /\ pc'[t] = "lookup" /\ pos'[t] = pos[t] + 1
        /\ UNCHANGED <<call, rows, miss>>
    BY <1>1, <1>10 DEF Promote, TypeOK
  <2>2. Known(t, pos[t])
    BY <1>1, <1>10 DEF Promote, RightSoFar
  <2>3. \A n \in DOMAIN rows[t] : n < pos[t] + 1 => n < pos[t] \/ n = pos[t]
    BY <1>1, <1>2
  <2> QED BY <1>3, <1>4, <2>1, <2>2, <2>3 DEF RightSoFar
<1>11. CASE Discard(t)
  <2>1. pos[t] \in DOMAIN rows[t] /\ UNCHANGED <<call, rows>> /\ Missed(t)
    BY <1>1, <1>11 DEF Discard, WellPlaced
  <2> QED BY <1>6, <2>1
<1>12. CASE LookedUp(t)
  <2>1. /\ UNCHANGED <<call, pos, rows, miss, fresh>>
        /\ \A n \in DOMAIN rows[t] : n < pos[t]
        /\ pc'[t] = IF miss[t] = <<>> THEN "done" ELSE "infer"
    BY <1>1, <1>2, <1>12 DEF LookedUp, TypeOK, local
  <2>2. CASE miss[t] = <<>>
    BY <1>3, <1>4, <2>1, <2>2 DEF RightSoFar
  <2>3. CASE miss[t] # <<>>
    BY <1>3, <1>4, <2>1, <2>3 DEF RightSoFar
  <2> QED BY <2>2, <2>3
<1> QED BY <1>7, <1>8, <1>9, <1>10, <1>11, <1>12

\* Entering embed(): nothing is known, and with both layers off every text is
\* owed by the forward pass.
LEMMA RightEmbed ==
  ASSUME TypeInv, RightInv, 0 \notin BatchSizes, NEW t \in Threads, Embed(t)
  PROVE  RightSoFar(t)'
<1>1. PICK m \in Models, ts \in Requests, b \in BatchSizes :
        LET on == cap[ProcOf[t]] > 0
            n == Len(ts)
            direct == ~on /\ ~DiskOn
        IN  /\ call' = [call EXCEPT ![t] = [model |-> m, texts |-> ts,
                                            batch |-> b, lruOn |-> on]]
            /\ rows' = [rows EXCEPT ![t] = [i \in 1..n |-> Missing]]
            /\ miss' = [miss EXCEPT ![t] = IF direct THEN [i \in 1..n |-> i]
                                                     ELSE <<>>]
            /\ Goto(t, CASE n = 0 -> "done"
                         [] n # 0 /\ direct -> "infer"
                         [] OTHER -> "lookup")
  BY DEF Embed
<1> DEFINE n == Len(ts)
<1> DEFINE direct == ~(cap[ProcOf[t]] > 0) /\ ~DiskOn
<1>2. n \in Nat /\ pos[t] = 1 /\ pos' = pos
  BY RequestsAssumption, LenProperties DEF Embed, TypeInv, WellPlaced
<1>3. /\ call'[t].batch # 0 /\ DOMAIN rows'[t] = 1..n
  BY <1>1 DEF TypeInv, TypeOK
<1>4. pc'[t] = CASE n = 0 -> "done"
                 [] n # 0 /\ direct -> "infer"
                 [] OTHER -> "lookup"
  BY <1>1 DEF Goto, TypeInv, TypeOK
<1>5. CASE n = 0
  BY <1>3, <1>4, <1>5 DEF RightSoFar, AtText, AtMiss
<1>6. CASE n # 0 /\ direct
  <2>1. miss'[t] = [i \in 1..n |-> i]
    BY <1>1, <1>6 DEF TypeInv, TypeOK
  <2>2. \A i \in 1..n : i \in DOMAIN miss'[t] /\ miss'[t][i] = i /\ i >= 1
    BY <1>2, <2>1
  <2>3. \A i \in 1..n : KnownOrOwed(t, i, 1)'
    BY <2>2 DEF KnownOrOwed
  <2> QED BY <1>3, <1>4, <1>6, <2>3 DEF RightSoFar, AtText, AtMiss
<1>7. CASE n # 0 /\ ~direct
  <2>1. pc'[t] = "lookup" /\ \A i \in 1..n : ~(i < pos'[t])
    BY <1>2, <1>4, <1>7
  <2> QED BY <1>3, <2>1 DEF RightSoFar, AtText, AtMiss
<1> QED BY <1>5, <1>6, <1>7

\* The steps of the forward pass, of the write-back and of the return keep
\* their own thread right.
LEMMA RightWrite ==
  ASSUME TypeInv, RightInv, NEW t \in Threads,
         \/ Infer(t) \/ InferFail(t) \/ WriteBack(t) \/ CreateTmp(t)
         \/ WriteTmp(t) \/ Replace(t) \/ PutFail(t) \/ WrittenBack(t) \/ Return(t)
  PROVE  RightSoFar(t)'
<1>1. /\ TypeOK /\ WellPlaced(t) /\ RightSoFar(t) /\ pc[t] # "idle"
      /\ pos[t] \in Nat \ {0} /\ call[t].batch # 0
  BY DEF TypeInv, TypeOK, RightInv, RightSoFar, Infer, InferFail, WriteBack, CreateTmp,
         WriteTmp, Replace, PutFail, WrittenBack, Return
<1>2. /\ DOMAIN rows[t] = 1..Len(call[t].texts) /\ Len(call[t].texts) \in Nat
      /\ DOMAIN miss[t] = 1..Len(miss[t]) /\ Len(miss[t]) \in Nat
      /\ \A i \in DOMAIN miss[t] : KeyAt(t, miss[t][i]) \in Key
  BY <1>1, KeyAtType
<1>3. CASE Infer(t)
  <2>1. call[t].batch \in Nat /\ MissVectors(t) \in Seq(Key)
    BY <1>1, <1>2 DEF WellPlaced, CallType, MissVectors
  <2>2. OutputRows(MissVectors(t), call[t].batch) = MissVectors(t)
    BY <1>1, <2>1, OutputRowsInOrder
  <2>3. /\ fresh'[t] = MissVectors(t) /\ pos'[t] = 1 /\ pc'[t] = "writeback"
        /\ UNCHANGED <<call, rows, miss>>
    BY <1>1, <1>3, <2>2 DEF Infer, Goto, TypeOK
  <2>4. \A n \in DOMAIN rows[t] : KnownOrOwed(t, n, 1)
    BY <1>1, <1>3 DEF Infer, RightSoFar
  <2>5. /\ \A n : KnownOrOwed(t, n, 1)' = KnownOrOwed(t, n, 1)
        /\ MissVectors(t)' = MissVectors(t)
    BY <2>3 DEF KnownOrOwed, Known, KeyAt, MissVectors
  <2> QED BY <1>1, <2>3, <2>4, <2>5 DEF RightSoFar, AtText, AtMiss
<1>4. CASE InferFail(t)
  BY <1>1, <1>4 DEF InferFail, RightSoFar, AtText, AtMiss, Goto, TypeOK, local
<1>5. CASE WrittenBack(t)
  <2>1. /\ pc'[t] = "done" /\ UNCHANGED <<call, rows, miss>>
        /\ pc[t] = "writeback" /\ pos[t] > Len(miss[t])
    BY <1>1, <1>5 DEF WrittenBack, Goto, TypeOK, local
  <2>2. \A n \in DOMAIN rows[t] : KnownOrOwed(t, n, pos[t])
    BY <1>1, <2>1 DEF RightSoFar
  <2>3. \A j \in DOMAIN miss[t] : ~(j >= pos[t])
    BY <1>1, <1>2, <2>1
  <2>4. \A n \in DOMAIN rows[t] : Known(t, n)
    BY <2>2, <2>3 DEF KnownOrOwed
  <2> QED BY <1>1, <2>1, <2>4 DEF RightSoFar, AtText, AtMiss, Known, KeyAt
<1>6. CASE WriteBack(t)
  <2>1. pc[t] = "writeback" /\ pos[t] \in DOMAIN miss[t]
    <3>1. pc[t] = "writeback" /\ pos[t] <= Len(miss[t])
      BY <1>6 DEF WriteBack
    <3> QED BY <1>1, <1>2, <3>1
  <2> DEFINE here == miss[t][pos[t]]
  <2>2. fresh[t][pos[t]] = KeyAt(t, here) /\ Here(t) = here
    BY <2>1, VectorInHand
  <2>3. here \in DOMAIN rows[t] /\ KeyAt(t, here) \in Row
    BY <1>1, <1>2, <2>1 DEF WellPlaced, Row
  <2>4. /\ rows' = [rows EXCEPT ![t][here] = KeyAt(t, here)]
        /\ UNCHANGED <<call, miss, fresh>>
        /\ \/ pc'[t] = "create" /\ pos'[t] = pos[t]
           \/ pc'[t] = "writeback" /\ pos'[t] = pos[t] + 1
    BY <1>1, <1>6, <2>2 DEF WriteBack, Goto, TypeOK
  <2>5. /\ DOMAIN rows'[t] = DOMAIN rows[t]
        /\ rows'[t][here] = KeyAt(t, here)
        /\ \A m \in DOMAIN rows[t] : m # here => rows'[t][m] = rows[t][m]
    BY <1>1, <2>3, <2>4, RowsType DEF TypeInv
  <2>6. \A n \in DOMAIN rows[t] : KnownOrOwed(t, n, pos[t])
    BY <1>1, <2>1 DEF RightSoFar
  <2>6a. PICK i \in Nat : i = pos[t] + 1
    BY <1>1
  <2>7. ASSUME NEW n \in DOMAIN rows[t]
        PROVE  KnownOrOwed(t, n, i)'
    <3>1. CASE n = here
      BY <2>4, <2>5, <3>1 DEF KnownOrOwed, Known, KeyAt
    <3>2. CASE n # here /\ Known(t, n)
      BY <2>4, <2>5, <3>2 DEF KnownOrOwed, Known, KeyAt
    <3>3. CASE n # here /\ ~Known(t, n)
      <4>1. PICK j \in DOMAIN miss[t] : j >= pos[t] /\ miss[t][j] = n
        BY <2>6, <3>3 DEF KnownOrOwed
      <4>2. j # pos[t]
        BY <3>3, <4>1
      <4>3. j >= i
        BY <1>1, <1>2, <2>6a, <4>1, <4>2
      <4> QED BY <2>4, <4>1, <4>3 DEF KnownOrOwed
    <3> QED BY <3>1, <3>2, <3>3
  <2>8. fresh'[t] = MissVectors(t)'
    BY <1>1, <2>1, <2>4 DEF RightSoFar, MissVectors, KeyAt
  <2>9. CASE pc'[t] = "create" /\ pos'[t] = pos[t]
    <3>1. \A n \in DOMAIN rows'[t] : KnownOrOwed(t, n, pos[t] + 1)'
      BY <2>5, <2>7, <2>9, <2>6a
    <3> QED BY <1>1, <2>4, <2>8, <2>9, <3>1 DEF RightSoFar, AtText, AtMiss
  <2>10. CASE pc'[t] = "writeback" /\ pos'[t] = pos[t] + 1
    <3>1. \A n \in DOMAIN rows'[t] : KnownOrOwed(t, n, pos[t])'
      BY <2>5, <2>7, <2>10, <2>6a
    <3> QED BY <1>1, <2>4, <2>8, <2>10, <3>1 DEF RightSoFar, AtText, AtMiss
  <2> QED BY <2>4, <2>9, <2>10
<1>7. CASE CreateTmp(t) \/ WriteTmp(t)
  <2>1. /\ AtMiss(t) /\ AtMiss(t)'
        /\ pc'[t] = "replace" => tmp'[t] = fresh[t][pos[t]]
        /\ UNCHANGED <<call, pos, rows, miss, fresh>>
    BY <1>1, <1>7 DEF CreateTmp, WriteTmp, AtMiss, Goto, TypeOK, local
  <2>2. /\ \A n, i : KnownOrOwed(t, n, i)' = KnownOrOwed(t, n, i)
        /\ MissVectors(t)' = MissVectors(t)
    BY <2>1 DEF KnownOrOwed, Known, KeyAt, MissVectors
  <2>3. pc'[t] \notin {"idle", "lookup", "load", "promote", "discard", "infer",
                       "writeback", "done"}
    BY <2>1 DEF AtMiss
  <2> QED BY <1>1, <2>1, <2>2, <2>3 DEF RightSoFar, AtText
<1>8. CASE Replace(t) \/ PutFail(t)
  <2>1. /\ AtMiss(t) /\ pc'[t] = "writeback" /\ pos'[t] = pos[t] + 1
        /\ UNCHANGED <<call, rows, miss, fresh>>
    BY <1>1, <1>8 DEF Replace, PutFail, AtMiss, Goto, TypeOK
  <2>2. /\ \A n, i : KnownOrOwed(t, n, i)' = KnownOrOwed(t, n, i)
        /\ MissVectors(t)' = MissVectors(t)
    BY <2>1 DEF KnownOrOwed, Known, KeyAt, MissVectors
  <2>3. \A n \in DOMAIN rows[t] : KnownOrOwed(t, n, pos[t] + 1)
    BY <1>1, <2>1 DEF RightSoFar
  <2> QED BY <1>1, <2>1, <2>2, <2>3 DEF RightSoFar, AtText, AtMiss, KnownOrOwed
<1>9. CASE Return(t)
  <2>1. pc'[t] = "idle"
    BY <1>1, <1>9 DEF Return, Leave, TypeOK
  <2> QED BY <2>1 DEF RightSoFar, AtText, AtMiss
<1> QED BY <1>3, <1>4, <1>5, <1>6, <1>7, <1>8, <1>9

LEMMA RightInvNext ==
  ASSUME 0 \notin BatchSizes
  PROVE  TypeInv /\ RightInv /\ [Next]_vars => RightInv'
<1> SUFFICES ASSUME TypeInv, RightInv, [Next]_vars
             PROVE  RightInv'
  OBVIOUS
<1>1. CASE UNCHANGED vars
  <2>1. \A t \in Threads : RightSoFar(t)'
    BY <1>1, AllStayRight DEF vars, local
  <2> QED BY <1>1, <2>1 DEF vars, RightInv, LruSound, DiskSound
<1>2. ASSUME NEW t \in Threads, Embed(t) \/ Step(t)
      PROVE  RightInv'
  <2>1. RightSoFar(t)'
    BY <1>2, RightEmbed, RightLookup, RightWrite DEF Step
  <2>2. \A u \in Threads : RightSoFar(u)'
    BY <1>2, <2>1, StepFrame, OthersStayRight DEF TypeInv
  <2> QED BY <1>2, <2>2, LruStaysSound, DiskStaysSound DEF RightInv
<1>3. ASSUME NEW p \in Procs, SetSize(p)
      PROVE  RightInv'
  <2>1. \A t \in Threads : RightSoFar(t)'
    BY <1>3, AllStayRight DEF SetSize
  <2>2. \A k \in Key : DiskSound(k)'
    BY <1>3 DEF SetSize, RightInv, DiskSound
  <2>3. ASSUME NEW q \in Procs
        PROVE  LruSound(q)'
    <3>1. PICK size \in Capacities \ {0} :
            /\ cap' = [cap EXCEPT ![p] = Resized(@, size)]
            /\ lru' = [lru EXCEPT ![p] = Evict(@, cap'[p])]
      BY <1>3 DEF SetSize
    <3>2. /\ lru \in [Procs -> Seq(EntryType)] /\ cap'[p] \in Nat
          /\ LruSound(q) /\ lru[p] \in Seq(EntryType)
      BY <3>1, SizesAssumption DEF TypeInv, TypeOK, RightInv, Resized
    <3>3. CASE q = p
      <4>1. lru'[p] = Evict(lru[p], cap'[p])
        BY <3>1, <3>2
      <4>2. \A i \in DOMAIN Evict(lru[p], cap'[p]) :
               \E m \in DOMAIN lru[p] : Evict(lru[p], cap'[p])[i] = lru[p][m]
        BY <3>2, EvictProperties
      <4> QED BY <3>2, <3>3, <4>1, <4>2 DEF LruSound
    <3>4. CASE q # p
      BY <3>1, <3>2, <3>4 DEF LruSound
    <3> QED BY <3>3, <3>4
  <2> QED BY <2>1, <2>2, <2>3 DEF RightInv
<1>4. ASSUME NEW p \in Procs, Crash(p)
      PROVE  RightInv'
  <2>1. ASSUME NEW t \in Threads
        PROVE  RightSoFar(t)'
    <3>1. CASE ProcOf[t] = p
      <4>1. pc'[t] = "idle"
        BY <1>4, <3>1 DEF Crash, Leave
      <4> QED BY <4>1 DEF RightSoFar, AtText, AtMiss
    <3>2. CASE ProcOf[t] # p
      <4>1. /\ pc'[t] = pc[t] /\ call'[t] = call[t] /\ pos'[t] = pos[t]
            /\ rows'[t] = rows[t] /\ miss'[t] = miss[t] /\ fresh'[t] = fresh[t]
            /\ tmp'[t] = tmp[t]
        BY <1>4, <3>2 DEF Crash, Leave
      <4>2. /\ \A n : Known(t, n)' = Known(t, n)
            /\ \A n, i : KnownOrOwed(t, n, i)' = KnownOrOwed(t, n, i)
            /\ MissVectors(t)' = MissVectors(t)
        BY <4>1 DEF Known, KnownOrOwed, KeyAt, MissVectors
      <4> QED BY <4>1, <4>2 DEF RightInv, RightSoFar, AtText, AtMiss
    <3> QED BY <3>1, <3>2
  <2>2. \A q \in Procs : LruSound(q)'
    BY <1>4 DEF Crash, RightInv, LruSound, TypeInv, TypeOK
  <2>3. \A k \in Key : DiskSound(k)'
    BY <1>4 DEF Crash, RightInv, DiskSound
  <2> QED BY <2>1, <2>2, <2>3 DEF RightInv
<1>5. ASSUME NEW k \in Touched, Prune(k) \/ Damage(k)
      PROVE  RightInv'
  <2>1. \A t \in Threads : RightSoFar(t)'
    BY <1>5, AllStayRight DEF Prune, Damage
  <2>2. \A p \in Procs : LruSound(p)'
    BY <1>5 DEF Prune, Damage, RightInv, LruSound
  <2>3. \A l \in Key : DiskSound(l)'
    BY <1>5, DirectoryAssumption DEF Prune, Damage, RightInv, DiskSound, TypeInv, TypeOK
  <2> QED BY <2>1, <2>2, <2>3 DEF RightInv
<1> QED BY <1>1, <1>2, <1>3, <1>4, <1>5 DEF Next

LEMMA RightInvAlways ==
  ASSUME 0 \notin BatchSizes
  PROVE  Spec => [](TypeInv /\ RightInv)
<1> QED BY RightInvInit, RightInvNext, TypeInvAlways, PTL DEF Spec

\* No cache layer ever holds a vector under another text's key, nor the
\* directory a half-written file, if no caller passes a batch size of zero.
THEOREM CachesSoundAlways ==
  ASSUME 0 \notin BatchSizes
  PROVE  Spec => []CachesSound
<1>1. RightInv => CachesSound
  BY DEF RightInv, LruSound, DiskSound, CachesSound
<1> QED BY <1>1, RightInvAlways, PTL

\* Under the same condition embed() returns the vector of every text, in the
\* order of the texts, whatever the caches held and whoever else was at work.
THEOREM AnswersRightAlways ==
  ASSUME 0 \notin BatchSizes
  PROVE  Spec => []AnswersRight
<1>1. TypeInv /\ RightInv => AnswersRight
  BY DEF TypeInv, WellPlaced, RightInv, RightSoFar, Known, AnswersRight
<1> QED BY <1>1, RightInvAlways, PTL

(***************************************************************************)
(* Refinement.                                                             *)
(***************************************************************************)

AnswersAsked ==
  \A t \in Threads : pc[t] = "done" => Answered[t] = Service!Answer(Asked[t])

\* The rows of a finished call are the answer the service owes.
LEMMA DoneIsAnswer ==
  TypeInv /\ RightInv => AnswersAsked
<1> SUFFICES ASSUME TypeInv, RightInv, NEW t \in Threads, pc[t] = "done"
             PROVE  Answered[t] = Service!Answer(Asked[t])
  BY DEF AnswersAsked
<1>1. /\ rows[t] \in Seq(Row \cup {Missing})
      /\ DOMAIN rows[t] = 1..Len(call[t].texts)
      /\ \A n \in DOMAIN rows[t] : rows[t][n] = <<call[t].model, call[t].texts[n]>>
  BY KeyAtType DEF TypeInv, TypeOK, RightInv, RightSoFar, Known, KeyAt
<1>2. DOMAIN call[t].texts = 1..Len(call[t].texts)
  BY LenProperties DEF TypeInv, WellPlaced, CallType
<1>3. rows[t] = [n \in 1..Len(call[t].texts) |-> rows[t][n]]
  BY <1>1, LenProperties
<1> QED BY <1>1, <1>2, <1>3 DEF Answered, Asked, Service!Answer

\* A step that changes t's place alone, as the callers see it.
LEMMA SeenByCallers ==
  ASSUME TypeOK, NEW t \in Threads, Frame(t)
  PROVE  /\ Status' = [Status EXCEPT ![t] = Status'[t]]
         /\ Asked' = [Asked EXCEPT ![t] = Asked'[t]]
         /\ Answered' = [Answered EXCEPT ![t] = Answered'[t]]
<1>1. \A u \in Threads : u # t => /\ Status'[u] = Status[u] /\ Asked'[u] = Asked[u]
                                  /\ Answered'[u] = Answered[u]
  BY DEF Frame, Status, Asked, Answered
<1>2. /\ Status' = [u \in Threads |-> Status'[u]]
      /\ Status = [u \in Threads |-> Status[u]]
      /\ Asked' = [u \in Threads |-> Asked'[u]]
      /\ Asked = [u \in Threads |-> Asked[u]]
      /\ Answered' = [u \in Threads |-> Answered'[u]]
      /\ Answered = [u \in Threads |-> Answered[u]]
  BY DEF Status, Asked, Answered
<1> QED BY <1>1, <1>2

LEMMA ServiceInit == Init => Service!Init
BY DEF Init, NoCall, Status, Asked, Answered, Service!Init, Service!NoAsk

LEMMA ServiceNext ==
  ASSUME TypeInv, TypeInv', RightInv, RightInv', [Next]_vars
  PROVE  [Service!Next]_(Service!vars)
<1> DEFINE Stutter == UNCHANGED <<Status, Asked, Answered>>
<1>0. AnswersAsked'
  <2>1. (TypeInv /\ RightInv => AnswersAsked)'
    BY DoneIsAnswer, PTL
  <2> QED BY <2>1
<1>1. Stutter => UNCHANGED Service!vars
  BY DEF Service!vars
<1>2. TypeOK /\ TypeOK'
  BY DEF TypeInv
<1>3. ASSUME UNCHANGED <<pc, call, rows>>
      PROVE  Stutter
  BY <1>3 DEF Status, Asked, Answered
<1>4. ASSUME NEW gone \in SUBSET Threads, Leave(gone)
      PROVE  Service!Forget
  <2>1. Status' = [t \in Threads |-> IF t \in gone THEN "idle" ELSE Status[t]]
    BY <1>4 DEF Leave, Status
  <2>2. Asked' = [t \in Threads |-> IF t \in gone THEN Service!NoAsk ELSE Asked[t]]
    BY <1>4 DEF Leave, Asked, NoCall, Service!NoAsk
  <2>3. Answered' = [t \in Threads |-> IF t \in gone THEN <<>> ELSE Answered[t]]
    BY <1>4 DEF Leave, Answered
  <2> QED BY <2>1, <2>2, <2>3 DEF Service!Forget
<1>5. ASSUME NEW t \in Threads, Embed(t)
      PROVE  Service!Next
  <2>0. PICK m \in Models, ts \in Requests, b \in BatchSizes :
          LET on == cap[ProcOf[t]] > 0
              n == Len(ts)
              direct == ~on /\ ~DiskOn
          IN  /\ call' = [call EXCEPT ![t] = [model |-> m, texts |-> ts,
                                              batch |-> b, lruOn |-> on]]
              /\ rows' = [rows EXCEPT ![t] = [i \in 1..n |-> Missing]]
              /\ Goto(t, CASE n = 0 -> "done"
                           [] n # 0 /\ direct -> "infer"
                           [] OTHER -> "lookup")
    BY <1>5 DEF Embed
  <2>1. /\ call'[t].model = m /\ call'[t].texts = ts
        /\ rows'[t] = [i \in 1..Len(ts) |-> Missing]
        /\ IF Len(ts) = 0 THEN pc'[t] = "done" ELSE pc'[t] \in {"infer", "lookup"}
    BY <1>2, <2>0 DEF Goto, TypeOK
  <2>2. Status[t] = "idle" /\ Answered[t] = <<>>
    BY <1>5 DEF Embed, Status, Answered
  <2>3. Asked'[t] = [model |-> m, texts |-> ts]
    BY <1>2, <2>1 DEF Asked, TypeOK
  <2>4. /\ Status' = [Status EXCEPT ![t] = Status'[t]]
        /\ Asked' = [Asked EXCEPT ![t] = Asked'[t]]
        /\ Answered' = [Answered EXCEPT ![t] = Answered'[t]]
    BY <1>2, <1>5, StepFrame, SeenByCallers
  <2>5. ts \in Seq(Texts)
    BY RequestsAssumption
  <2>6. CASE Len(ts) = 0
    <3>1. ts = <<>>
      BY <2>5, <2>6, EmptySeq
    <3>2. Status'[t] = "ok"
      BY <1>2, <2>1, <2>6 DEF Status, TypeOK
    <3>3. Answered'[t] = <<>>
      <4>1. pc'[t] = "done" /\ rows'[t] = [i \in 1..0 |-> Missing]
        BY <1>2, <2>1, <2>6 DEF TypeOK
      <4>2. rows'[t] = <<>>
        BY <4>1
      <4> QED BY <4>1, <4>2 DEF Answered
    <3> QED BY <2>2, <2>3, <2>4, <3>1, <3>2, <3>3 DEF Service!Next, Service!AskNothing
  <2>7. CASE Len(ts) # 0
    <3>1. Status'[t] = "busy" /\ Answered'[t] = <<>>
      BY <1>2, <2>1, <2>7 DEF Status, Answered, TypeOK
    <3>2. Answered' = Answered
      <4>1. Answered = [u \in Threads |-> Answered[u]]
        BY DEF Answered
      <4>2. Answered' = [Answered EXCEPT ![t] = Answered[t]]
        BY <2>2, <2>4, <3>1
      <4> QED BY <4>1, <4>2
    <3> QED BY <2>2, <2>3, <2>4, <3>1, <3>2 DEF Service!Next, Service!Ask
  <2> QED BY <2>6, <2>7
<1>6. ASSUME NEW t \in Threads, Step(t)
      PROVE  Service!Next \/ Stutter
  <2> DEFINE Inside == Places \ {"idle", "done", "failed"}
  <2>1. /\ Status' = [Status EXCEPT ![t] = Status'[t]]
        /\ Asked' = [Asked EXCEPT ![t] = Asked'[t]]
        /\ Answered' = [Answered EXCEPT ![t] = Answered'[t]]
    BY <1>2, <1>6, StepFrame, SeenByCallers
  <2>2. CASE Return(t)
    BY <1>4, <2>2 DEF Return, Service!Next
  <2>3. CASE ~Return(t)
    <3>1. pc[t] \in Inside /\ call' = call
      BY <1>6, <2>3 DEF Step, Places, LruHit, LruMiss, Looking, DiskLoad, Promote,
         Discard, LookedUp, Infer, InferFail, WriteBack, CreateTmp, WriteTmp, Replace,
         PutFail, WrittenBack, Goto, Found, Missed, local
    <3>2. pc'[t] \in Inside \cup {"done", "failed"}
      <4>1. pc' = [pc EXCEPT ![t] = pc'[t]] /\ pc'[t] # "idle" /\ pc'[t] \in Places
        BY <1>2, <1>6, <2>3, <3>1 DEF Step, Places, LruHit, LruMiss, Looking, DiskLoad,
           Promote, Discard, LookedUp, Infer, InferFail, WriteBack, CreateTmp, WriteTmp,
           Replace, PutFail, WrittenBack, Goto, Found, Missed, local, TypeOK
      <4> QED BY <4>1
    <3>3. Status[t] = "busy" /\ Answered[t] = <<>> /\ Asked' = Asked
      BY <3>1 DEF Status, Answered, Asked, Places
    <3>4. CASE pc'[t] \in Inside
      <4>1. Status'[t] = "busy" /\ Answered'[t] = <<>>
        BY <3>4 DEF Status, Answered, Places
      <4>2. Status' = Status /\ Answered' = Answered
        <5>1. /\ Status = [u \in Threads |-> Status[u]]
              /\ Answered = [u \in Threads |-> Answered[u]]
          BY DEF Status, Answered
        <5>2. /\ Status' = [Status EXCEPT ![t] = Status[t]]
              /\ Answered' = [Answered EXCEPT ![t] = Answered[t]]
          BY <2>1, <3>3, <4>1
        <5> QED BY <5>1, <5>2
      <4> QED BY <3>3, <4>2
    <3>5. CASE pc'[t] = "done"
      <4>1. Status'[t] = "ok"
        BY <3>5 DEF Status
      <4>2. Answered'[t] = Service!Answer(Asked'[t])
        BY <1>0, <3>5 DEF AnswersAsked
      <4> QED BY <2>1, <3>3, <4>1, <4>2 DEF Service!Next, Service!Reply
    <3>6. CASE pc'[t] = "failed"
      <4>1. Status'[t] = "error" /\ Answered'[t] = <<>>
        BY <3>6 DEF Status, Answered
      <4>2. Answered' = Answered
        BY <2>1, <3>3, <4>1 DEF Answered
      <4> QED BY <2>1, <3>3, <4>1, <4>2 DEF Service!Next, Service!Refuse
    <3> QED BY <3>2, <3>4, <3>5, <3>6
  <2> QED BY <2>2, <2>3
<1>7. ASSUME NEW p \in Procs, Crash(p)
      PROVE  Service!Next
  BY <1>4, <1>7 DEF Crash, Service!Next
<1>8. CASE \E p \in Procs : SetSize(p)
  BY <1>1, <1>3, <1>8 DEF SetSize, local
<1>9. CASE \E k \in Touched : Prune(k) \/ Damage(k)
  BY <1>1, <1>3, <1>9 DEF Prune, Damage, local
<1>10. CASE UNCHANGED vars
  BY <1>1, <1>3, <1>10 DEF vars
<1> QED BY <1>1, <1>5, <1>6, <1>7, <1>8, <1>9, <1>10 DEF Next

\* embed() with its caches implements the service without them: a caller
\* cannot tell whether a cache is there, if no batch size is zero.
THEOREM Refinement ==
  ASSUME 0 \notin BatchSizes
  PROVE  Spec => ServiceSpec
<1>1. TypeInv /\ RightInv /\ (TypeInv /\ RightInv)' /\ [Next]_vars =>
        [Service!Next]_(Service!vars)
  BY ServiceNext
<1> QED BY ServiceInit, RightInvAlways, <1>1, PTL DEF Spec, ServiceSpec, Service!Spec

(***************************************************************************)
(* Vectors once paid for.                                                  *)
(***************************************************************************)

\* The keys whose files only this program writes and whose reads fail only
\* when something is wrong with the file.
Safe == Key \ (Touched \cup Unreadable)

\* A reader that is past is_file() on such a key finds the vector there and
\* can read it: it never discards it.
PaidInv ==
  \A t \in Threads : KeyAt(t, pos[t]) \in Safe =>
    /\ pc[t] = "load" => disk[KeyAt(t, pos[t])] = KeyAt(t, pos[t])
    /\ pc[t] # "discard"

\* A put over a vector's file replaces it by the same vector.
LEMMA ReplaceKeeps ==
  ASSUME TypeInv, RightInv, NEW t \in Threads, Replace(t), NEW k \in Key, disk[k] = k
  PROVE  disk'[k] = k
<1>1. disk \in [Key -> Row \cup {Missing, Torn, Damaged}]
  BY DEF TypeInv, TypeOK
<1>2. AtMiss(t) /\ pos[t] \in DOMAIN miss[t] /\ pc[t] = "replace"
  BY DEF Replace, AtMiss, TypeInv, WellPlaced
<1>3. tmp[t] = KeyAt(t, Here(t))
  BY <1>2, VectorInHand DEF RightInv, RightSoFar
<1> QED BY <1>1, <1>3 DEF Replace

\* The steps that keep every file there is of such a key.
LEMMA FilesKept ==
  ASSUME TypeInv, RightInv, PaidInv, [Next]_vars, NEW k \in Safe, disk[k] = k
  PROVE  disk'[k] = k
<1>1. disk \in [Key -> Row \cup {Missing, Torn, Damaged}] /\ k \in Key \ Touched
  BY DEF TypeInv, TypeOK, Safe
<1>2. ASSUME NEW t \in Threads, Embed(t) \/ Step(t)
      PROVE  disk'[k] = k
  <2>1. CASE Discard(t)
    <3>1. pc[t] = "discard" /\ pc[t] # "idle" /\ pos[t] \in DOMAIN rows[t]
      BY <2>1 DEF Discard, TypeInv, WellPlaced, AtText
    <3>2. KeyAt(t, pos[t]) \in Key
      BY <3>1, KeyAtType
    <3>3. KeyAt(t, pos[t]) # k
      BY <3>1, <3>2 DEF PaidInv
    <3> QED BY <1>1, <2>1, <3>3 DEF Discard
  <2>2. CASE Replace(t)
    BY <1>1, <2>2, ReplaceKeeps
  <2>3. Discard(t) \/ Replace(t) \/ disk' = disk
    BY <1>2 DEF Embed, Step, LruHit, LruMiss, DiskLoad, Promote, LookedUp, Infer,
       InferFail, WriteBack, CreateTmp, WriteTmp, PutFail, WrittenBack, Return, shared
  <2> QED BY <2>1, <2>2, <2>3
<1>3. CASE \E p \in Procs : SetSize(p) \/ Crash(p)
  BY <1>3 DEF SetSize, Crash
<1>4. CASE \E l \in Touched : Prune(l) \/ Damage(l)
  BY <1>1, <1>4 DEF Prune, Damage
<1>5. CASE UNCHANGED vars
  BY <1>5 DEF vars
<1> QED BY <1>2, <1>3, <1>4, <1>5 DEF Next

LEMMA PaidInvNext ==
  ASSUME TypeInv, RightInv, PaidInv, [Next]_vars
  PROVE  PaidInv'
<1>1. \A k \in Safe : disk[k] = k => disk'[k] = k
  BY FilesKept
<1>2. TypeOK
  BY DEF TypeInv
<1> SUFFICES ASSUME NEW u \in Threads, KeyAt(u, pos[u])' \in Safe
             PROVE  /\ pc'[u] = "load" => (disk[KeyAt(u, pos[u])] = KeyAt(u, pos[u]))'
                    /\ pc'[u] # "discard"
  BY DEF PaidInv
<1>3. CASE pc'[u] = pc[u] /\ KeyAt(u, pos[u])' = KeyAt(u, pos[u])
  BY <1>1, <1>3 DEF PaidInv
<1>4. ASSUME NEW t \in Threads, Embed(t) \/ Step(t), u # t
      PROVE  pc'[u] = pc[u] /\ KeyAt(u, pos[u])' = KeyAt(u, pos[u])
  BY <1>2, <1>4, StepFrame DEF Frame, KeyAt
<1>5. CASE pc'[u] \notin {"load", "discard"}
  BY <1>5
<1>6. CASE LruMiss(u) /\ pc'[u] \in {"load", "discard"}
  <2>1. pc'[u] = "load" /\ UNCHANGED <<call, pos, disk>> /\ disk[KeyAt(u, pos[u])] # Missing
    BY <1>2, <1>6 DEF LruMiss, Missed, Goto, TypeOK, shared
  <2>2. KeyAt(u, pos[u])' = KeyAt(u, pos[u])
    BY <2>1 DEF KeyAt
  <2>3. disk[KeyAt(u, pos[u])] = KeyAt(u, pos[u])
    BY <2>1, <2>2 DEF RightInv, DiskSound, Safe
  <2> QED BY <2>1, <2>2, <2>3
<1>7. CASE DiskLoad(u) /\ pc'[u] \in {"load", "discard"}
  <2>1. /\ pc[u] = "load" /\ UNCHANGED <<call, pos>>
        /\ \/ disk[KeyAt(u, pos[u])] \notin Row
           \/ KeyAt(u, pos[u]) \in Unreadable
    BY <1>2, <1>7 DEF DiskLoad, Found, Goto, TypeOK
  <2>2. KeyAt(u, pos[u])' = KeyAt(u, pos[u])
    BY <2>1 DEF KeyAt
  <2> QED BY <2>1, <2>2 DEF PaidInv, Row, Safe
<1>8. ASSUME Embed(u) \/ (Step(u) /\ ~LruMiss(u) /\ ~DiskLoad(u))
      PROVE  pc'[u] \notin {"load", "discard"}
  <2>1. CASE Embed(u)
    BY <1>2, <2>1 DEF Embed, Goto, TypeOK
  <2>2. CASE Return(u)
    BY <2>2 DEF Return, Leave
  <2>3. CASE Step(u) /\ ~LruMiss(u) /\ ~DiskLoad(u) /\ ~Return(u)
    BY <1>2, <2>3 DEF Step, LruHit, Promote, Discard, LookedUp, Infer, InferFail,
       WriteBack, CreateTmp, WriteTmp, Replace, PutFail, WrittenBack, Goto, Found,
       Missed, TypeOK
  <2> QED BY <1>8, <2>1, <2>2, <2>3
<1>9. CASE \E p \in Procs : SetSize(p)
  BY <1>3, <1>9 DEF SetSize, local, KeyAt
<1>10. ASSUME NEW p \in Procs, Crash(p)
       PROVE  \/ pc'[u] \notin {"load", "discard"}
              \/ pc'[u] = pc[u] /\ KeyAt(u, pos[u])' = KeyAt(u, pos[u])
  BY <1>10 DEF Crash, Leave, KeyAt
<1>11. CASE \E k \in Touched : Prune(k) \/ Damage(k)
  BY <1>3, <1>11 DEF Prune, Damage, local, KeyAt
<1>12. CASE UNCHANGED vars
  BY <1>3, <1>12 DEF vars, KeyAt
<1> QED BY <1>3, <1>4, <1>5, <1>6, <1>7, <1>8, <1>9, <1>10, <1>11, <1>12 DEF Next

\* No step of a writer, of a crash or of a resize takes a vector away.
LEMMA LostHow ==
  ASSUME TypeInv, RightInv, [Next]_vars, NEW k \in Key, Lost(k)
  PROVE  (k \in Touched /\ ByHand) \/ Discarded(k)
<1>1. disk \in [Key -> Row \cup {Missing, Torn, Damaged}]
  BY DEF TypeInv, TypeOK
<1>2. ASSUME NEW t \in Threads, Embed(t) \/ Step(t)
      PROVE  Discarded(k)
  <2>1. CASE Discard(t)
    <3>1. KeyAt(t, pos[t]) = k
      BY <1>1, <2>1 DEF Discard, Lost
    <3> QED BY <2>1, <3>1 DEF Discarded
  <2>2. CASE Replace(t)
    BY <1>1, <2>2, ReplaceKeeps DEF Lost
  <2>3. Discard(t) \/ Replace(t) \/ disk' = disk
    BY <1>2 DEF Embed, Step, LruHit, LruMiss, DiskLoad, Promote, LookedUp, Infer,
       InferFail, WriteBack, CreateTmp, WriteTmp, PutFail, WrittenBack, Return, shared
  <2> QED BY <2>1, <2>2, <2>3 DEF Lost
<1>3. ~\E p \in Procs : SetSize(p) \/ Crash(p)
  BY DEF SetSize, Crash, Lost
<1>4. ASSUME NEW l \in Touched, Prune(l) \/ Damage(l)
      PROVE  k \in Touched /\ ByHand
  BY <1>1, <1>4 DEF Prune, Damage, Lost, ByHand
<1>5. ~UNCHANGED vars
  BY DEF vars, Lost
<1> QED BY <1>2, <1>3, <1>4, <1>5 DEF Next

\* disk_cache.py keeps every vector it has paid for: no writer replaces it by
\* anything else, and no reader discards it unless someone else damaged or
\* pruned its file or a read of it can fail by itself (np.load raised on a good
\* file), across crashes, processes and concurrent calls.
THEOREM PaidVectorsKeptAlways ==
  ASSUME 0 \notin BatchSizes
  PROVE  Spec => PaidVectorsKept
<1>1. Init => PaidInv
  BY DEF Init, PaidInv
<1>2. TypeInv /\ RightInv /\ PaidInv /\ [Next]_vars => PaidInv'
  BY PaidInvNext
<1> DEFINE Explained ==
      \A k \in Key : Lost(k) =>
        \/ k \in Touched /\ (ByHand \/ Discarded(k))
        \/ k \in Unreadable /\ Discarded(k)
<1>3. TypeInv /\ RightInv /\ PaidInv /\ [Next]_vars => [Explained]_vars
  <2> SUFFICES ASSUME TypeInv, RightInv, PaidInv, [Next]_vars, NEW k \in Key, Lost(k)
               PROVE  \/ k \in Touched /\ (ByHand \/ Discarded(k))
                      \/ k \in Unreadable /\ Discarded(k)
    OBVIOUS
  <2>1. k \in Touched \cup Unreadable
    BY FilesKept DEF Safe, Lost
  <2>2. (k \in Touched /\ ByHand) \/ Discarded(k)
    BY LostHow
  <2> QED BY <2>1, <2>2
<1> QED BY <1>1, <1>2, <1>3, RightInvAlways, PTL DEF Spec, PaidVectorsKept

=============================================================================
