-------------------------- MODULE ToolServer_proofs --------------------------
(***************************************************************************)
(* Theorems about ToolServer, for any number of calls and of workers, for  *)
(* all hosts and for all requests.                                         *)
(***************************************************************************)
EXTENDS ToolServer, SequenceLemmas, SequenceTheorems, FiniteSetTheorems, FunctionTheorems, TLAPS

(***************************************************************************)
(* Operators.                                                              *)
(***************************************************************************)

\* The errors of resolve_device.
DeviceErrors == {"ValueError", "DeviceNotReachableError"}

LEMMA ResolveErrors ==
  ASSUME NEW requested, NEW s
  PROVE  Resolve(requested, s).error \in DeviceErrors \cup {"none"}
  BY DEF Resolve, Found, NotFound, FirstOf, DeviceErrors

\* What a handler makes of an exception; only InfoTool and panics get out.
LEMMA EndingStatus ==
  ASSUME NEW tool, NEW e
  PROVE  /\ Ending(tool, e) \in {"raised", "named", "wrapped"}
         /\ Ending(tool, e) = "raised" <=> (tool = "info" \/ e = "panic")
<1>1. CASE tool = "info" \/ e = "panic"
  <2>1. e = "panic" => Raised(e) \notin CaughtByName(tool)
    <3>1. "panic" \notin DOMAIN PyError
      BY DEF PyError
    <3>2. "panic" \notin CaughtByName(tool)
      BY DEF CaughtByName, PackageErrors
    <3> QED BY <3>1, <3>2 DEF Raised
  <2>2. ~(tool # "info" /\ Raised(e) \in CaughtByName(tool))
    BY <1>1, <2>1
  <2>3. Ending(tool, e) = "raised"
    BY <1>1, <2>2 DEF Ending
  <2> QED BY <1>1, <2>3
<1>2. CASE ~(tool = "info" \/ e = "panic")
  <2>1. Ending(tool, e) \in {"named", "wrapped"}
    BY <1>2 DEF Ending
  <2>2. Ending(tool, e) # "raised"
    BY <2>1
  <2> QED BY <1>2, <2>1, <2>2
<1> QED BY <1>1, <1>2

LEMMA LoadRaisesPackageErrors ==
  ASSUME NEW e
  PROVE  LoadRaises(e) \in PackageErrors
  BY DEF LoadRaises, PackageErrors

\* A row of nvidia-smi's.
Row == [index : Nat, memory : Nat]

\* The rows of an answer are some of the cards, in their order.
LEMMA AnswersListCards ==
  ASSUME NEW h \in Host
  PROVE  /\ h.cards \in Seq(Nat) /\ Len(SmiRows(h)) = Len(h.cards)
         /\ <<>> \in SmiAnswers(h)
         /\ \A rows \in SmiAnswers(h) :
              /\ rows \in Seq(Row) /\ Len(rows) <= Len(h.cards)
              /\ \A a, b \in DOMAIN rows : a < b => rows[a].index < rows[b].index
<1> DEFINE n == Len(h.cards)
           all == SmiRows(h)
           listed == ToSet(all)
<1>1. h.cards \in Seq(Nat)
  BY DEF Host
<1>2. n \in Nat /\ DOMAIN h.cards = 1..n /\ \A i \in 1..n : h.cards[i] \in Nat
  BY <1>1, LenProperties, ElementOfSeq
<1> HIDE DEF n
<1>3. all = [i \in 1..n |-> [index |-> i - 1, memory |-> h.cards[i]]]
  BY <1>2 DEF SmiRows
<1>4. \A i \in 1..n : all[i] \in Row
  BY <1>2, <1>3 DEF Row
<1>5. DOMAIN all = 1..n /\ Len(all) = n
  BY <1>2, <1>3
<1> HIDE DEF all
<1>6. listed \subseteq Row
  BY <1>4, <1>5 DEF ToSet
<1> HIDE DEF listed
<1>7. SmiAnswers(h) =
        {rows \in UNION {[1..m -> listed] : m \in 0..n} :
           \A a, b \in DOMAIN rows : a < b => rows[a].index < rows[b].index}
  BY DEF SmiAnswers, BoundedSeq, SeqOf, listed, all, n
<1>8. <<>> \in SmiAnswers(h)
  <2>1. <<>> \in [1..0 -> listed] /\ 0 \in 0..n /\ DOMAIN <<>> = {}
    BY <1>2
  <2> QED BY <1>7, <2>1
<1>9. ASSUME NEW rows \in SmiAnswers(h)
      PROVE  /\ rows \in Seq(Row) /\ Len(rows) <= n
             /\ \A a, b \in DOMAIN rows : a < b => rows[a].index < rows[b].index
  <2>1. PICK m \in 0..n : rows \in [1..m -> listed]
    BY <1>7
  <2>2. \A a, b \in DOMAIN rows : a < b => rows[a].index < rows[b].index
    BY <1>7
  <2>3. m \in Nat /\ rows \in [1..m -> Row]
    BY <1>2, <1>6, <2>1
  <2> QED BY <1>2, <2>1, <2>2, <2>3
<1> QED BY <1>1, <1>5, <1>8, <1>9 DEF n, all

\* What a detection may find.
System(s) ==
  s.latent \in Seq(Kinds) /\ s.providers \subseteq {"CPU", "CUDA", "OpenVINO"}

LEMMA DetectionFinds ==
  ASSUME NEW h \in Host, NEW first \in Seq(Row), NEW second \in Seq(Row)
  PROVE  System(SystemDevices(h, first, second))
<1> DEFINE s == SystemDevices(h, first, second)
           all == Candidates(h, second)
           cards == [i \in DOMAIN second |-> "cuda"]
           rocm == IF h.kfd THEN <<"rocm">> ELSE <<>>
           mps == IF h.apple THEN <<"mps">> ELSE <<>>
           gpus == Reachable(first)
           skipped == Covered(h, gpus, second)
           from == (IF skipped < Len(second) THEN skipped ELSE Len(second)) + 1
<1>1. s.latent = SubSeq(all, from, Len(all)) /\ s.providers = Providers(h)
  BY DEF SystemDevices, Latent
<1>2. /\ Len(second) \in Nat /\ DOMAIN second = 1..Len(second)
      /\ Len(first) \in Nat /\ DOMAIN first = 1..Len(first)
  BY LenProperties
<1>3. cards \in Seq(Kinds) /\ Len(cards) = Len(second)
  <2>1. "cuda" \in Kinds
    BY DEF Kinds
  <2> QED BY <1>2, <2>1
<1>4. rocm \in Seq(Kinds) /\ mps \in Seq(Kinds)
  <2>1. /\ "rocm" \in Kinds /\ "mps" \in Kinds
    BY DEF Kinds
  <2>2. <<"rocm">> \in Seq(Kinds) /\ <<"mps">> \in Seq(Kinds) /\ <<>> \in Seq(Kinds)
    BY <2>1
  <2> QED BY <2>2, Zenon
<1>5. all = (cards \o rocm) \o mps
  BY DEF Candidates
<1>6. skipped \in Nat
  <2>1. gpus = <<>> \/ Len(gpus) \in Nat
    <3>1. gpus = [i \in 1..Len(first) |->
                 DeviceInfo(<<"cuda", first[i].index>>, first[i].memory)]
      BY <1>2 DEF Reachable
    <3> HIDE DEF gpus
    <3>2. Len(gpus) = Len(first)
      BY <1>2, <3>1
    <3> QED BY <1>2, <3>2
  <2> HIDE DEF gpus
  <2>2. Len(gpus) \in Nat
    BY <2>1, EmptySeq
  <2> QED BY <1>2, <2>2 DEF Covered
<1> HIDE DEF cards, rocm, mps, skipped
<1>7. all \in Seq(Kinds) /\ Len(all) \in Nat /\ Len(second) <= Len(all)
  <2>1. /\ cards \o rocm \in Seq(Kinds)
        /\ Len(cards \o rocm) = Len(cards) + Len(rocm)
    BY <1>3, <1>4, ConcatProperties
  <2>2. /\ (cards \o rocm) \o mps \in Seq(Kinds)
        /\ Len((cards \o rocm) \o mps) = Len(cards \o rocm) + Len(mps)
    BY <1>4, <2>1, ConcatProperties
  <2>3. Len(rocm) \in Nat /\ Len(mps) \in Nat
    BY <1>4, LenProperties
  <2> HIDE DEF all
  <2> QED BY <1>2, <1>3, <1>5, <2>1, <2>2, <2>3
<1> HIDE DEF all
<1>8. from \in Nat /\ 1 <= from /\ from <= Len(all) + 1
  BY <1>2, <1>6, <1>7
<1> HIDE DEF from
<1>9. SubSeq(all, from, Len(all)) \in Seq(Kinds)
  BY <1>7, <1>8, SubSeqInside
<1> QED BY <1>1, <1>9 DEF System, Providers

\* i comes before j.
Ahead(key, i, j) == key[i] > key[j] \/ (key[i] = key[j] /\ i < j)

\* p lists the first n positions, best first.
Lists(p, key, n) ==
  /\ p \in [1..n -> 1..n]
  /\ \A a, b \in 1..n : a < b => Ahead(key, p[a], p[b])

\* One position more has its place in the list.
LEMMA Insertion ==
  ASSUME NEW N \in Nat, NEW key \in [1..N -> Int], NEW n \in Nat, n + 1 <= N,
         NEW p, Lists(p, key, n)
  PROVE  \E q : Lists(q, key, n + 1)
<1> DEFINE x == n + 1
           T == {m \in 1..x : m = x \/ key[p[m]] < key[x]}
<1>1. PICK m \in T : \A k \in T : m <= k
  <2>1. T \subseteq Nat /\ x \in T
    OBVIOUS
  <2> QED BY <2>1, LeastNatural
<1> DEFINE q == [a \in 1..x |-> IF a < m THEN p[a] ELSE IF a = m THEN x ELSE p[a - 1]]
<1>2. /\ p \in [1..n -> 1..n]
      /\ \A a, b \in 1..n : a < b => Ahead(key, p[a], p[b])
  BY DEF Lists
<1>3. q \in [1..x -> 1..x]
  <2>1. ASSUME NEW a \in 1..x
        PROVE  (IF a < m THEN p[a] ELSE IF a = m THEN x ELSE p[a - 1]) \in 1..x
    <3>1. m \in 1..x /\ x \in 1..x
      BY <1>1
    <3>2. CASE a < m
      <4>1. a \in 1..n
        BY <3>1, <3>2
      <4> QED BY <1>2, <3>2, <4>1
    <3>3. CASE a = m
      BY <3>1, <3>3
    <3>4. CASE m < a
      <4>1. a - 1 \in 1..n
        BY <3>1, <3>4
      <4>2. p[a - 1] \in 1..x
        BY <1>2, <4>1
      <4> QED BY <3>1, <3>4, <4>2
    <3> QED BY <3>1, <3>2, <3>3, <3>4
  <2> QED BY <2>1
<1>4. \A a \in 1..n : a < m => key[p[a]] >= key[x]
  BY <1>1, <1>2
<1>5. \A a \in 1..n : m <= a => key[p[a]] < key[x]
  <2> TAKE a \in 1..n
  <2> HAVE m <= a
  <2>1. m \in 1..n /\ key[p[m]] < key[x]
    BY <1>1
  <2>2. CASE m = a
    BY <2>1, <2>2
  <2>3. CASE m < a
    <3>1. Ahead(key, p[m], p[a])
      BY <1>2, <2>1, <2>3
    <3>2. key[p[m]] \in Int /\ key[p[a]] \in Int /\ key[x] \in Int
      BY <1>2, <2>1
    <3> QED BY <2>1, <3>1, <3>2 DEF Ahead
  <2> QED BY <2>1, <2>2, <2>3
<1>6. ASSUME NEW a \in 1..x, NEW b \in 1..x, a < b
      PROVE  Ahead(key, q[a], q[b])
  <2>1. CASE a = m
    <3>1. q[a] = x /\ q[b] = p[b - 1] /\ b - 1 \in 1..n /\ m <= b - 1
      BY <1>1, <1>6, <2>1
    <3> DEFINE k == b - 1
    <3>2. k \in 1..n /\ m <= k /\ q[a] = x /\ q[b] = p[k]
      BY <3>1
    <3> HIDE DEF k, q
    <3>3. p[k] \in 1..n /\ key[p[k]] < key[x]
      BY <1>2, <1>5, <3>2
    <3>4. key[p[k]] \in Int /\ key[x] \in Int
      BY <3>3
    <3> QED BY <3>2, <3>3, <3>4 DEF Ahead
  <2>2. CASE b = m
    <3>1. q[b] = x /\ q[a] = p[a] /\ a \in 1..n /\ a < m
      BY <1>1, <1>6, <2>2
    <3> HIDE DEF q
    <3>2. p[a] \in 1..n /\ key[p[a]] >= key[x]
      BY <1>2, <1>4, <3>1
    <3>3. key[p[a]] \in Int /\ key[x] \in Int /\ p[a] < x
      BY <3>2
    <3> HIDE DEF x
    <3>4. Ahead(key, p[a], x)
      BY <3>2, <3>3 DEF Ahead
    <3> QED BY <3>1, <3>4
  <2>3. CASE a # m /\ b # m
    <3>1. PICK i \in 1..n, j \in 1..n : i < j /\ q[a] = p[i] /\ q[b] = p[j]
      <4>1. CASE b < m
        BY <1>1, <1>6, <4>1
      <4>2. CASE a < m /\ m < b
        BY <1>1, <1>6, <4>2
      <4>3. CASE m < a
        BY <1>1, <1>6, <4>3
      <4> QED BY <1>1, <1>6, <2>3, <4>1, <4>2, <4>3
    <3> QED BY <1>2, <3>1
  <2> QED BY <2>1, <2>2, <2>3
<1> HIDE DEF q
<1>7. Lists(q, key, x)
  BY <1>3, <1>6 DEF Lists
<1> QED BY <1>7

\* BestFirst is such a list of all positions.
LEMMA BestFirstLists ==
  ASSUME NEW n \in Nat, NEW key \in [1..n -> Int]
  PROVE  /\ Lists(BestFirst(key), key, n)
         /\ \A m \in 1..n : \E a \in 1..n : BestFirst(key)[a] = m
<1>1. \E p : Lists(p, key, n)
  <2> DEFINE S == {k \in Nat : k <= n => \E p : Lists(p, key, k)}
  <2>1. 0 \in S
    <3>1. Lists(<<>>, key, 0)
      BY DEF Lists
    <3> QED BY <3>1
  <2>2. ASSUME NEW k \in Nat, k \in S PROVE k + 1 \in S
    <3>1. k + 1 <= n => \E p : Lists(p, key, k)
      BY <2>2
    <3>2. k + 1 <= n => \E p : Lists(p, key, k + 1)
      BY <3>1, Insertion
    <3> QED BY <3>2
  <2> HIDE DEF S
  <2>3. n \in S
    BY <2>1, <2>2, SetInduction
  <2> QED BY <2>3 DEF S
<1> DEFINE p == BestFirst(key)
<1>2. Lists(p, key, n)
  <2>1. DOMAIN key = 1..n
    OBVIOUS
  <2>2. \E o \in [DOMAIN key -> DOMAIN key] :
          \A a, b \in DOMAIN key :
            a < b => \/ key[o[a]] > key[o[b]]
                     \/ key[o[a]] = key[o[b]] /\ o[a] < o[b]
    BY <1>1, <2>1 DEF Lists, Ahead
  <2>3. /\ p \in [DOMAIN key -> DOMAIN key]
        /\ \A a, b \in DOMAIN key :
             a < b => \/ key[p[a]] > key[p[b]]
                      \/ key[p[a]] = key[p[b]] /\ p[a] < p[b]
    BY <2>2, Zenon DEF BestFirst
  <2> QED BY <2>1, <2>3 DEF Lists, Ahead
<1> HIDE DEF p
<1>3. p \in Injection(1..n, 1..n)
  <2>1. \A a, b \in 1..n : a < b => p[a] # p[b]
    <3> TAKE a \in 1..n, b \in 1..n
    <3> HAVE a < b
    <3>1. Ahead(key, p[a], p[b]) /\ p[a] \in 1..n /\ p[b] \in 1..n
      BY <1>2 DEF Lists
    <3> QED BY <3>1 DEF Ahead
  <2>2. \A a, b \in 1..n : p[a] = p[b] => a = b
    BY <2>1
  <2> QED BY <1>2, <2>2 DEF Lists, Injection, IsInjective
<1>4. p \in Surjection(1..n, 1..n)
  <2>1. IsFiniteSet(1..n)
    BY FS_Interval
  <2> QED BY <1>3, <2>1, FS_Injection
<1> QED BY <1>2, <1>4 DEF p, Surjection

\* ranked[:top_k] is a slice of what there is.
LEMMA KeptBounds ==
  ASSUME NEW q, q.number \in Seq(Int), NEW n \in Nat
  PROVE  Kept(q, n) \in 0..n
<1>1. ASSUME NEW a \in Int, NEW b \in Int
      PROVE  /\ Min({a, b}) = IF a <= b THEN a ELSE b
             /\ Max({a, b}) = IF a >= b THEN a ELSE b
  <2>1. \E x \in {a, b} : \A y \in {a, b} : x <= y
    OBVIOUS
  <2>2. \E x \in {a, b} : \A y \in {a, b} : x >= y
    OBVIOUS
  <2>3. Min({a, b}) \in {a, b} /\ \A y \in {a, b} : Min({a, b}) <= y
    BY <2>1, Zenon DEF Min
  <2>4. Max({a, b}) \in {a, b} /\ \A y \in {a, b} : Max({a, b}) >= y
    BY <2>2, Zenon DEF Max
  <2> QED BY <2>3, <2>4
<1>2. CASE q.number = <<>>
  BY <1>2 DEF Kept
<1>3. CASE q.number # <<>>
  <2> DEFINE k == q.number[1]
  <2>1. k \in Int
    <3>1. Len(q.number) \in Nat /\ (Len(q.number) = 0 => q.number = <<>>)
      BY LenProperties, EmptySeq
    <3>2. 1 \in 1..Len(q.number)
      BY <1>3, <3>1
    <3> QED BY <3>2, ElementOfSeq
  <2>2. Kept(q, n) = IF k >= 0 THEN Min({n, k}) ELSE Max({0, n + k})
    BY <1>3 DEF Kept
  <2> HIDE DEF k
  <2>3. CASE k >= 0
    <3>1. Min({n, k}) = IF n <= k THEN n ELSE k
      BY <1>1, <2>1
    <3> QED BY <2>1, <2>2, <2>3, <3>1
  <2>4. CASE ~(k >= 0)
    <3> DEFINE m == n + k
    <3>1. m \in Int /\ m < n
      BY <2>1, <2>4
    <3>2. Kept(q, n) = Max({0, m})
      BY <2>2, <2>4
    <3> HIDE DEF m
    <3>3. Max({0, m}) = IF 0 >= m THEN 0 ELSE m
      <4>1. 0 \in Int
        OBVIOUS
      <4> QED BY <1>1, <3>1, <4>1, Zenon
    <3> QED BY <3>1, <3>2, <3>3
  <2> QED BY <2>3, <2>4
<1> QED BY <1>2, <1>3

\* rows are the first k positions, best first: they outscore those left out.
BestRows(rows, s, k) ==
  /\ Len(rows) = k /\ DOMAIN rows = 1..k
  /\ \A a \in 1..k : rows[a] = BestFirst(s)[a]
  /\ \A a \in 1..k, m \in DOMAIN s : (\A b \in 1..a : rows[b] # m) => s[m] <= s[rows[a]]

LEMMA RankedBest ==
  ASSUME NEW n \in Nat, NEW s \in [1..n -> Int], NEW k \in 0..n
  PROVE  BestRows(SubSeq(BestFirst(s), 1, k), s, k)
<1> DEFINE p == BestFirst(s)
           rows == SubSeq(p, 1, k)
<1>1. Lists(p, s, n) /\ \A m \in 1..n : \E a \in 1..n : p[a] = m
  BY BestFirstLists
<1> HIDE DEF p
<1>2. p \in Seq(1..n) /\ Len(p) = n
  <2>0. \A i \in 1..n : p[i] \in 1..n
    BY <1>1 DEF Lists
  <2>1. p = [i \in 1..n |-> p[i]]
    BY <1>1 DEF Lists
  <2>2. [i \in 1..n |-> p[i]] \in Seq(1..n)
    BY <2>0
  <2>3. Len([i \in 1..n |-> p[i]]) = n
    OBVIOUS
  <2> QED BY <2>1, <2>2, <2>3
<1>3. rows \in Seq(1..n) /\ Len(rows) = k /\ \A a \in 1..k : rows[a] = p[a]
  <2> DEFINE S == 1..n
  <2>1. 1 \in Nat /\ k \in Nat /\ 1 <= 1 /\ 1 <= k + 1 /\ k <= Len(p)
    BY <1>2
  <2>2. p \in Seq(S)
    BY <1>2
  <2> HIDE DEF S
  <2>3. rows \in Seq(S)
    BY <2>1, <2>2, SubSeqInside
  <2>4. Len(rows) = k + 1 - 1
    BY <2>1, <2>2, SubSeqInside
  <2>5. \A a \in 1..(k + 1 - 1) : rows[a] = p[1 + a - 1]
    BY <2>1, <2>2, SubSeqInside
  <2> HIDE DEF rows
  <2>6. k + 1 - 1 = k /\ \A a \in 1..k : 1 + a - 1 = a
    BY <2>1
  <2> QED BY <2>3, <2>4, <2>5, <2>6 DEF S
<1> HIDE DEF rows
<1>4. DOMAIN rows = 1..k
  BY <1>3, LenProperties
<1>5. ASSUME NEW a \in 1..k, NEW m \in 1..n, \A b \in 1..a : rows[b] # m
      PROVE  s[m] <= s[rows[a]]
  <2>1. PICK b \in 1..n : p[b] = m
    BY <1>1
  <2>2. a < b
    BY <1>3, <1>5, <2>1
  <2>3. Ahead(s, p[a], p[b]) /\ p[a] \in 1..n
    BY <1>1, <2>2 DEF Lists
  <2>4. s[p[a]] \in Int /\ s[m] \in Int
    BY <2>3
  <2> QED BY <1>3, <2>1, <2>3, <2>4 DEF Ahead
<1>6. DOMAIN s = 1..n
  OBVIOUS
<1> QED BY <1>3, <1>4, <1>5, <1>6 DEF BestRows, rows, p

\* The GPUs a detection lists: each once, by memory, and the CPU after them.
LEMMA GpusListed ==
  ASSUME NEW h, NEW first \in Seq(Row), NEW second,
         \A a, b \in DOMAIN first : a < b => first[a].index < first[b].index
  PROVE  LET s == SystemDevices(h, first, second)
             gpus == Front(s.devices)
         IN  /\ s.devices[Len(s.devices)] = CPU
             /\ Len(gpus) = Len(first)
             /\ \A a, b \in DOMAIN gpus :
                  a < b => /\ gpus[a].device # gpus[b].device
                           /\ gpus[a].memory >= gpus[b].memory
<1> DEFINE n == Len(first)
           reach == Reachable(first)
           key == [i \in DOMAIN reach |-> reach[i].memory]
           order == BestFirst(key)
           listed == [i \in DOMAIN reach |-> reach[order[i]]]
           D == {reach[i] : i \in 1..n} \cup {CPU}
           all == Append(listed, CPU)
<1>1. /\ n \in Nat /\ DOMAIN first = 1..n
      /\ \A i \in 1..n : first[i].index \in Nat /\ first[i].memory \in Nat
  <2>1. n \in Nat /\ DOMAIN first = 1..n
    BY LenProperties
  <2>2. \A i \in 1..n : first[i] \in Row
    BY ElementOfSeq
  <2> QED BY <2>1, <2>2 DEF Row
<1> HIDE DEF n
<1>2. /\ DOMAIN reach = 1..n
      /\ \A i \in 1..n : /\ reach[i].device = <<"cuda", first[i].index>>
                         /\ reach[i].memory = first[i].memory
  BY <1>1 DEF Reachable, DeviceInfo
<1> HIDE DEF reach
<1>3. key \in [1..n -> Int] /\ \A i \in 1..n : key[i] = reach[i].memory
  BY <1>1, <1>2
<1> HIDE DEF key
<1>4. Lists(order, key, n)
  BY <1>1, <1>3, BestFirstLists
<1> HIDE DEF order
<1>5. /\ listed \in Seq(D) /\ Len(listed) = n
      /\ \A i \in 1..n : listed[i] = reach[order[i]]
  BY <1>1, <1>2, <1>4 DEF Lists
<1>6. CPU \in D
  OBVIOUS
<1> HIDE DEF listed, D
<1>7. /\ all \in Seq(D) /\ Len(all) = n + 1 /\ all[n + 1] = CPU
      /\ \A i \in 1..n : all[i] = listed[i]
  BY <1>5, <1>6, AppendProperties
<1> DEFINE gpus == SubSeq(all, 1, Len(all) - 1)
<1> HIDE DEF all
<1>8. Len(gpus) = n /\ \A i \in 1..n : gpus[i] = all[i]
  BY <1>1, <1>7, SubSeqInside
<1>9. gpus \in Seq(D)
  BY <1>1, <1>7, SubSeqInside
<1> HIDE DEF gpus
<1>10. DOMAIN gpus = 1..n
  BY <1>8, <1>9, LenProperties
<1>11. \A a, b \in 1..n :
         a < b => gpus[a].device # gpus[b].device /\ gpus[a].memory >= gpus[b].memory
  <2> TAKE a \in 1..n, b \in 1..n
  <2> HAVE a < b
  <2>1. Ahead(key, order[a], order[b]) /\ order[a] \in 1..n /\ order[b] \in 1..n
    BY <1>4 DEF Lists
  <2>2. gpus[a] = reach[order[a]] /\ gpus[b] = reach[order[b]]
    BY <1>5, <1>7, <1>8
  <2>3. key[order[a]] \in Int /\ key[order[b]] \in Int /\ order[a] # order[b]
        /\ key[order[a]] >= key[order[b]]
    BY <1>3, <2>1 DEF Ahead
  <2>4. <<"cuda", first[order[a]].index>> # <<"cuda", first[order[b]].index>>
    <3>1. order[a] < order[b] \/ order[b] < order[a]
      BY <2>1, <2>3
    <3>2. first[order[a]].index # first[order[b]].index
      BY <1>1, <2>1, <3>1
    <3> QED BY <3>2
  <2>5. gpus[a].device # gpus[b].device
    BY <1>2, <2>1, <2>2, <2>4
  <2>6. gpus[a].memory = key[order[a]] /\ gpus[b].memory = key[order[b]]
    BY <1>3, <2>1, <2>2
  <2> QED BY <2>3, <2>5, <2>6
<1>12. SystemDevices(h, first, second).devices = all
  BY DEF SystemDevices, all, listed, order, key, reach
<1>13. Front(all) = gpus
  BY DEF Front, gpus
<1> QED BY <1>7, <1>8, <1>10, <1>11, <1>12, <1>13 DEF n

\* The latent entries of kind cuda: as many as the reachable ones do not cover.
CardsIn(latent) == {n \in DOMAIN latent : latent[n] = "cuda"}

LEMMA LatentCards ==
  ASSUME NEW h \in Host, NEW first \in Seq(Row), NEW second \in Seq(Row)
  PROVE  LET covered == IF h.cuda /\ first = <<>> THEN Len(second) ELSE Len(first)
         IN  CardsIn(SystemDevices(h, first, second).latent)
               = 1..(Len(second) - (IF covered < Len(second) THEN covered ELSE Len(second)))
<1> DEFINE n == Len(second)
           reach == Reachable(first)
           covered == Covered(h, reach, second)
           k == IF covered < n THEN covered ELSE n
           cards == [i \in DOMAIN second |-> "cuda"]
           rocm == IF h.kfd THEN <<"rocm">> ELSE <<>>
           mps == IF h.apple THEN <<"mps">> ELSE <<>>
           all == (cards \o rocm) \o mps
           latent == SubSeq(all, k + 1, Len(all))
<1>1. /\ n \in Nat /\ DOMAIN second = 1..n
      /\ Len(first) \in Nat /\ DOMAIN first = 1..Len(first)
  BY LenProperties
<1>2. covered = IF h.cuda /\ first = <<>> THEN n ELSE Len(first)
  <2>1. Len(reach) = Len(first) /\ (reach = <<>> <=> first = <<>>)
    <3>1. reach = [i \in 1..Len(first) |->
                 DeviceInfo(<<"cuda", first[i].index>>, first[i].memory)]
      BY <1>1 DEF Reachable
    <3>2. Len(reach) = Len(first)
      BY <1>1, <3>1
    <3>3. first = <<>> => reach = <<>>
      <4>1. first = <<>> => 1..Len(first) = {}
        BY <1>1
      <4> QED BY <3>1, <4>1
    <3>4. Len(first) = 0 => first = <<>>
      BY EmptySeq
    <3> HIDE DEF reach
    <3> QED BY <3>2, <3>3, <3>4
  <2> HIDE DEF reach
  <2>2. Len(first) \in Nat /\ n \in Nat
    BY <1>1
  <2>3. covered = IF h.cuda /\ first = <<>> THEN n ELSE Len(first)
    BY <2>1, Zenon DEF Covered
  <2> QED BY <2>3
<1>0. covered \in Nat
  <2>1. covered = n \/ covered = Len(first)
    BY <1>2, Zenon
  <2> QED BY <1>1, <2>1
<1> HIDE DEF covered
<1>3. k \in 0..n
  BY <1>0, <1>1
<1> HIDE DEF n, k
<1>4. cards \in Seq(Kinds) /\ Len(cards) = n /\ \A i \in 1..n : cards[i] = "cuda"
  BY <1>1 DEF Kinds
<1>5. /\ rocm \in Seq(Kinds) /\ \A i \in DOMAIN rocm : rocm[i] # "cuda"
      /\ mps \in Seq(Kinds) /\ \A i \in DOMAIN mps : mps[i] # "cuda"
  <2>1. "rocm" \in Kinds /\ "mps" \in Kinds
    BY DEF Kinds
  <2>2. /\ <<"rocm">> \in Seq(Kinds) /\ \A i \in DOMAIN <<"rocm">> : <<"rocm">>[i] # "cuda"
        /\ <<"mps">> \in Seq(Kinds) /\ \A i \in DOMAIN <<"mps">> : <<"mps">>[i] # "cuda"
        /\ <<>> \in Seq(Kinds) /\ DOMAIN <<>> = {}
    BY <2>1
  <2>3. rocm = <<"rocm">> \/ rocm = <<>>
    BY Zenon
  <2>4. mps = <<"mps">> \/ mps = <<>>
    BY Zenon
  <2> HIDE DEF rocm, mps
  <2> QED BY <2>2, <2>3, <2>4
<1> HIDE DEF cards, rocm, mps
<1>6. /\ all \in Seq(Kinds) /\ Len(all) \in Nat /\ n <= Len(all)
      /\ \A i \in 1..n : all[i] = "cuda"
      /\ \A i \in (n + 1)..Len(all) : all[i] # "cuda"
  <2> DEFINE both == cards \o rocm
  <2>1. /\ both \in Seq(Kinds) /\ Len(both) = n + Len(rocm)
        /\ \A i \in 1..(n + Len(rocm)) :
             both[i] = IF i <= n THEN cards[i] ELSE rocm[i - n]
    BY <1>4, <1>5, ConcatProperties
  <2> HIDE DEF both
  <2>2. /\ Len(rocm) \in Nat /\ Len(mps) \in Nat
        /\ DOMAIN rocm = 1..Len(rocm) /\ DOMAIN mps = 1..Len(mps)
    BY <1>5, LenProperties
  <2>3. /\ both \o mps \in Seq(Kinds) /\ Len(both \o mps) = Len(both) + Len(mps)
        /\ \A i \in 1..(Len(both) + Len(mps)) :
             (both \o mps)[i] = IF i <= Len(both) THEN both[i] ELSE mps[i - Len(both)]
    BY <1>5, <2>1, ConcatProperties
  <2>4. all = both \o mps
    BY DEF both
  <2> HIDE DEF all
  <2>5. n \in Nat
    BY <1>1
  <2>6. \A i \in 1..n : all[i] = "cuda"
    BY <1>4, <2>1, <2>2, <2>3, <2>4, <2>5
  <2>7. ASSUME NEW i \in (n + 1)..Len(all) PROVE all[i] # "cuda"
    <3>1. CASE i <= Len(both)
      <4>1. all[i] = rocm[i - n] /\ i - n \in DOMAIN rocm
        BY <2>1, <2>2, <2>3, <2>4, <2>5, <3>1
      <4> QED BY <1>5, <4>1
    <3>2. CASE ~(i <= Len(both))
      <4>1. all[i] = mps[i - Len(both)] /\ i - Len(both) \in DOMAIN mps
        BY <2>1, <2>2, <2>3, <2>4, <2>5, <3>2
      <4> QED BY <1>5, <4>1
    <3> QED BY <3>1, <3>2
  <2> QED BY <2>1, <2>2, <2>3, <2>4, <2>5, <2>6, <2>7
<1> HIDE DEF all
<1>7. /\ latent \in Seq(Kinds) /\ Len(latent) = Len(all) - k
      /\ \A i \in 1..(Len(all) - k) : latent[i] = all[k + i]
  <2>1. k + 1 \in Nat /\ 1 <= k + 1 /\ k + 1 <= Len(all) + 1
    BY <1>1, <1>3, <1>6
  <2>2. /\ latent \in Seq(Kinds) /\ Len(latent) = Len(all) + 1 - (k + 1)
        /\ \A i \in 1..(Len(all) + 1 - (k + 1)) : latent[i] = all[(k + 1) + i - 1]
    BY <1>6, <2>1, SubSeqInside
  <2> HIDE DEF latent
  <2>3. Len(all) + 1 - (k + 1) = Len(all) - k
    BY <1>1, <1>3, <1>6
  <2>4. \A i \in 1..(Len(all) - k) : (k + 1) + i - 1 = k + i
    BY <1>1, <1>3, <1>6
  <2> QED BY <2>2, <2>3, <2>4
<1> HIDE DEF latent
<1>8. DOMAIN latent = 1..(Len(all) - k)
  BY <1>7, LenProperties
<1>9. CardsIn(latent) = 1..(n - k)
  <2>1. ASSUME NEW i \in 1..(Len(all) - k)
        PROVE  latent[i] = "cuda" <=> i \in 1..(n - k)
    <3>1. k + i \in 1..Len(all) /\ latent[i] = all[k + i]
      BY <1>1, <1>3, <1>6, <1>7
    <3> QED BY <1>1, <1>3, <1>6, <3>1
  <2>2. 1..(n - k) \subseteq 1..(Len(all) - k)
    BY <1>1, <1>3, <1>6
  <2> QED BY <1>8, <2>1, <2>2 DEF CardsIn
<1>10. SystemDevices(h, first, second).latent = latent
  BY DEF SystemDevices, Latent, Candidates, latent, all, cards, rocm, mps, k, covered, reach, n
<1> QED BY <1>2, <1>9, <1>10 DEF k, n

\* A snapshot that is sound, and one in which every card is.
Sound(h, s) ==
  LET gpus == Front(s.devices)
  IN  /\ s.devices[Len(s.devices)] = CPU
      /\ \A a, b \in DOMAIN gpus :
           a < b => gpus[a].device # gpus[b].device /\ gpus[a].memory >= gpus[b].memory
      /\ Len(gpus) + Cardinality(CardsIn(s.latent)) <= Len(h.cards)
      /\ h.cuda /\ Len(gpus) \in {0, Len(h.cards)} => CardsIn(s.latent) = {}
Whole(h, s) == Len(Front(s.devices)) + Cardinality(CardsIn(s.latent)) = Len(h.cards)

\* What two answers of nvidia-smi are made into is sound, and whole if each of
\* the calls that were to be made has listed every card.
LEMMA DetectionTrue ==
  ASSUME NEW h \in Host, NEW first \in ReachableAnswers(h),
         NEW second \in LatentAnswers(h)
  PROVE  LET s == SystemDevices(h, first, second)
         IN  /\ Sound(h, s)
             /\ /\ h.cuda => first = SmiRows(h)
                /\ h.nodes => second = SmiRows(h)
                /\ h.cuda \/ h.nodes
                => Whole(h, s)
<1> DEFINE s == SystemDevices(h, first, second)
           gpus == Front(s.devices)
           cards == CardsIn(s.latent)
           covered == IF h.cuda /\ first = <<>> THEN Len(second) ELSE Len(first)
           left == Len(second) - (IF covered < Len(second) THEN covered ELSE Len(second))
           n == Len(h.cards)
<1>1. /\ first \in SmiAnswers(h) /\ second \in SmiAnswers(h)
      /\ ~h.cuda => first = <<>>
      /\ ~h.nodes => second = <<>>
  BY AnswersListCards, Zenon DEF ReachableAnswers, LatentAnswers
<1>2. /\ first \in Seq(Row) /\ second \in Seq(Row)
      /\ \A a, b \in DOMAIN first : a < b => first[a].index < first[b].index
      /\ Len(first) <= n /\ Len(second) <= n /\ Len(SmiRows(h)) = n
  BY <1>1, AnswersListCards, Zenon
<1>3. /\ Len(first) \in Nat /\ Len(second) \in Nat /\ n \in Nat
      /\ first = <<>> <=> Len(first) = 0
      /\ second = <<>> => Len(second) = 0
  BY <1>2, AnswersListCards, LenProperties, EmptySeq
<1>4. cards = 1..left
  BY <1>2, LatentCards
<1>5. /\ s.devices[Len(s.devices)] = CPU /\ Len(gpus) = Len(first)
      /\ \A a, b \in DOMAIN gpus :
           a < b => gpus[a].device # gpus[b].device /\ gpus[a].memory >= gpus[b].memory
  BY <1>2, GpusListed
<1> HIDE DEF s, gpus, cards, n
<1>6. covered \in Nat
  BY <1>3
<1>7. left \in Nat /\ left <= Len(second)
  <2> HIDE DEF covered
  <2> QED BY <1>3, <1>6
<1>8. Cardinality(cards) = left
  <2>1. \A m \in Nat : Cardinality(1..m) = m
    <3> TAKE m \in Nat
    <3>1. Cardinality(1..m) = IF 1 > m THEN 0 ELSE m - 1 + 1
      BY FS_Interval
    <3> QED BY <3>1
  <2> HIDE DEF left
  <2> QED BY <1>4, <1>7, <2>1
<1>9. h.cuda => left = IF Len(first) = 0 \/ Len(second) <= Len(first) THEN 0
                       ELSE Len(second) - Len(first)
  <2> SUFFICES ASSUME h.cuda
               PROVE  left = IF Len(first) = 0 \/ Len(second) <= Len(first) THEN 0
                             ELSE Len(second) - Len(first)
    OBVIOUS
  <2>1. CASE Len(first) = 0
    <3>1. covered = Len(second)
      BY <1>3, <2>1
    <3> HIDE DEF covered
    <3> QED BY <1>3, <2>1, <3>1
  <2>2. CASE Len(first) # 0
    <3>1. covered = Len(first)
      BY <1>3, <2>2
    <3>2. left = Len(second)
                   - (IF Len(first) < Len(second) THEN Len(first) ELSE Len(second))
      BY <3>1, Zenon
    <3> HIDE DEF left
    <3>3. CASE Len(first) < Len(second)
      <4>1. left = Len(second) - Len(first)
        BY <3>2, <3>3
      <4> QED BY <1>3, <2>2, <3>3, <4>1
    <3>4. CASE ~(Len(first) < Len(second))
      <4>1. left = Len(second) - Len(second)
        BY <3>2, <3>4
      <4>2. left = 0 /\ Len(second) <= Len(first)
        BY <1>3, <3>4, <4>1
      <4> QED BY <4>2
    <3> QED BY <3>3, <3>4
  <2> QED BY <2>1, <2>2
<1>10. ~h.cuda => Len(first) = 0 /\ left = Len(second)
  BY <1>1, <1>3
<1>11. /\ Len(gpus) + Cardinality(cards) <= n
       /\ h.cuda /\ Len(gpus) \in {0, n} => cards = {}
  <2>1. Len(first) + left <= n
    <3> HIDE DEF left
    <3>1. CASE h.cuda
      BY <1>2, <1>3, <1>9, <3>1
    <3>2. CASE ~h.cuda
      BY <1>2, <1>3, <1>10, <3>2
    <3> QED BY <3>1, <3>2
  <2>2. h.cuda /\ Len(first) \in {0, n} => left = 0
    <3> HIDE DEF left
    <3> QED BY <1>2, <1>3, <1>9
  <2> HIDE DEF left
  <2> QED BY <1>4, <1>5, <1>8, <2>1, <2>2
<1>12. Sound(h, s)
  BY <1>5, <1>11, Zenon DEF Sound, gpus, cards, n
<1>13. ASSUME h.cuda => first = SmiRows(h), h.nodes => second = SmiRows(h),
              h.cuda \/ h.nodes
       PROVE  Whole(h, s)
  <2>1. Len(first) + left = n
    <3> HIDE DEF left
    <3>1. CASE h.cuda
      BY <1>2, <1>3, <1>9, <1>13, <3>1
    <3>2. CASE ~h.cuda
      BY <1>2, <1>3, <1>10, <1>13, <3>2
    <3> QED BY <3>1, <3>2
  <2> HIDE DEF left
  <2>2. Len(gpus) + Cardinality(cards) = n
    BY <1>5, <1>8, <2>1
  <2> QED BY <2>2, Zenon DEF Whole, gpus, cards, n
<1> QED BY <1>12, <1>13, Zenon DEF s

(***************************************************************************)
(* Steps.                                                                  *)
(***************************************************************************)

\* Each of these is a function of the calls.
OfCalls(f) == f = [c \in Calls |-> f[c]]
Shape ==
  /\ OfCalls(pc) /\ OfCalls(req) /\ OfCalls(smi) /\ OfCalls(probed) /\ OfCalls(found)
  /\ OfCalls(held) /\ OfCalls(outcome) /\ OfCalls(reply) /\ OfCalls(holder)

LEMMA Updated ==
  ASSUME NEW f, OfCalls(f), NEW c \in Calls, NEW x
  PROVE  /\ OfCalls([f EXCEPT ![c] = x])
         /\ [f EXCEPT ![c] = x][c] = x
         /\ \A d \in Calls \ {c} : [f EXCEPT ![c] = x][d] = f[d]
  BY DEF OfCalls

\* The end of c's handler.
Replied(c, status) ==
  /\ pc'[c] = "answered" /\ reply'[c].status = status /\ loop' = NoCall

\* The end of what c's thread runs.
Ended(c, e) ==
  /\ outcome'[c] = e
  /\ \/ loop = c /\ Replied(c, Ending(req[c].tool, e)) /\ busy' = busy
     \/ /\ loop # c /\ busy' = busy \ {c} /\ pc'[c] = "done"
        /\ loop' = loop /\ reply'[c] = reply[c]

\* What the steps of a call leave alone.
Others(c) ==
  \A d \in Calls \ {c} :
    /\ pc'[d] = pc[d] /\ req'[d] = req[d] /\ found'[d] = found[d] /\ held'[d] = held[d]
    /\ outcome'[d] = outcome[d] /\ reply'[d] = reply[d]
    /\ smi'[d] = smi[d] /\ probed'[d] = probed[d]

LEMMA ReplySteps ==
  ASSUME Shape, NEW c \in Calls, NEW status, NEW rs, Reply(c, status, rs)
  PROVE  /\ Replied(c, status) /\ OfCalls(pc)' /\ OfCalls(reply)'
         /\ \A d \in Calls \ {c} : pc'[d] = pc[d] /\ reply'[d] = reply[d]
<1>1. /\ pc' = [pc EXCEPT ![c] = "answered"]
      /\ reply' = [reply EXCEPT ![c] = [status |-> status, rows |-> rs]]
      /\ loop' = NoCall
  BY DEF Reply, Goto
<1>2. OfCalls(pc) /\ OfCalls(reply)
  BY DEF Shape
<1>3. /\ OfCalls(pc') /\ pc'[c] = "answered"
      /\ \A d \in Calls \ {c} : pc'[d] = pc[d]
  BY <1>1, <1>2 DEF OfCalls
<1>4. /\ OfCalls(reply') /\ reply'[c] = [status |-> status, rows |-> rs]
      /\ \A d \in Calls \ {c} : reply'[d] = reply[d]
  BY <1>1, <1>2 DEF OfCalls
<1> QED BY <1>1, <1>3, <1>4 DEF Replied, OfCalls

LEMMA GotoSteps ==
  ASSUME Shape, NEW c \in Calls, NEW where, Goto(c, where)
  PROVE  pc'[c] = where /\ OfCalls(pc)' /\ \A d \in Calls \ {c} : pc'[d] = pc[d]
<1>1. pc' = [pc EXCEPT ![c] = where] /\ OfCalls(pc)
  BY DEF Goto, Shape
<1> QED BY <1>1, Updated DEF OfCalls

LEMMA FailSteps ==
  ASSUME Shape, NEW c \in Calls, NEW e, Fail(c, e)
  PROVE  /\ Ended(c, e) /\ OfCalls(pc)' /\ OfCalls(reply)' /\ OfCalls(outcome)'
         /\ \A d \in Calls \ {c} :
              pc'[d] = pc[d] /\ reply'[d] = reply[d] /\ outcome'[d] = outcome[d]
<1>1. /\ outcome'[c] = e /\ OfCalls(outcome)'
      /\ \A d \in Calls \ {c} : outcome'[d] = outcome[d]
  <2>1. outcome' = [outcome EXCEPT ![c] = e] /\ OfCalls(outcome)
    BY DEF Fail, Shape
  <2> QED BY <2>1, Updated DEF OfCalls
<1>2. CASE loop = c
  <2>1. Reply(c, Ending(req[c].tool, e), <<>>) /\ busy' = busy
    BY <1>2 DEF Fail
  <2> QED BY <1>1, <1>2, <2>1, ReplySteps DEF Ended
<1>3. CASE loop # c
  <2>1. busy' = busy \ {c} /\ Goto(c, "done") /\ loop' = loop /\ reply' = reply
    BY <1>3 DEF Fail
  <2>2. OfCalls(reply)'
    BY <2>1 DEF Shape, OfCalls
  <2> QED BY <1>1, <1>3, <2>1, <2>2, GotoSteps DEF Ended
<1> QED BY <1>2, <1>3

\* What the inference's success is to c.
Succeeded(c) ==
  \/ loop = c /\ Replied(c, "success") /\ busy' = busy /\ outcome'[c] = outcome[c]
  \/ /\ loop # c /\ busy' = busy \ {c} /\ pc'[c] = "done"
     /\ loop' = loop /\ reply'[c] = reply[c] /\ outcome'[c] = "ok"

LEMMA SucceedSteps ==
  ASSUME Shape, NEW c \in Calls, Succeed(c)
  PROVE  /\ Succeeded(c) /\ OfCalls(pc)' /\ OfCalls(reply)' /\ OfCalls(outcome)'
         /\ \A d \in Calls \ {c} :
              pc'[d] = pc[d] /\ reply'[d] = reply[d] /\ outcome'[d] = outcome[d]
<1>1. CASE loop = c
  <2>1. Reply(c, "success", <<>>) /\ busy' = busy /\ outcome' = outcome
    BY <1>1 DEF Succeed
  <2>2. OfCalls(outcome)'
    BY <2>1 DEF Shape, OfCalls
  <2> QED BY <1>1, <2>1, <2>2, ReplySteps DEF Succeeded
<1>2. CASE loop # c
  <2>1. busy' = busy \ {c} /\ Goto(c, "done") /\ loop' = loop /\ reply' = reply
        /\ outcome' = [outcome EXCEPT ![c] = "ok"] /\ OfCalls(outcome)
    BY <1>2 DEF Succeed, Shape
  <2>2. /\ outcome'[c] = "ok" /\ OfCalls(outcome')
        /\ \A d \in Calls \ {c} : outcome'[d] = outcome[d]
    BY <2>1 DEF OfCalls
  <2>3. OfCalls(reply)'
    BY <2>1 DEF Shape, OfCalls
  <2> QED BY <1>2, <2>1, <2>2, <2>3, GotoSteps DEF Succeeded, OfCalls
<1> QED BY <1>1, <1>2

\* f and g differ at c at most.
Alike(c, f, g) == OfCalls(g) /\ \A d \in Calls \ {c} : g[d] = f[d]

LEMMA AlikeUpdate ==
  ASSUME NEW c \in Calls, NEW f, NEW g, OfCalls(f), g = f \/ \E x : g = [f EXCEPT ![c] = x]
  PROVE  Alike(c, f, g)
<1>1. CASE g = f
  BY <1>1, Zenon DEF Alike
<1>2. ASSUME NEW x, g = [f EXCEPT ![c] = x] PROVE Alike(c, f, g)
  BY <1>2 DEF Alike, OfCalls
<1> QED BY <1>1, <1>2

\* The loop is taken from no handler but c's, and no mutex is healed.
Keeps(c) ==
  /\ loop' \in {loop, c} \/ (loop \in {c, NoCall} /\ loop' = NoCall)
  /\ loop' = c => loop \in {c, NoCall}
  /\ poisoned \subseteq poisoned'
  /\ host' = host /\ req' = req

\* How pc, reply and outcome change.
Ends(c) == Alike(c, pc, pc') /\ Alike(c, reply, reply') /\ Alike(c, outcome, outcome')

LEMMA EndsIn ==
  ASSUME Shape, NEW c \in Calls
  PROVE  /\ \A e : Fail(c, e) => Ends(c)
         /\ Succeed(c) => Ends(c)
         /\ \A status, rs : Reply(c, status, rs) /\ outcome' = outcome => Ends(c)
         /\ \A where : Goto(c, where) /\ reply' = reply /\ outcome' = outcome => Ends(c)
<1>1. OfCalls(outcome) /\ OfCalls(reply)
  BY DEF Shape
<1>2. /\ outcome' = outcome => Alike(c, outcome, outcome')
      /\ reply' = reply => Alike(c, reply, reply')
  BY <1>1, AlikeUpdate, Zenon
<1>3. ASSUME NEW e, Fail(c, e) PROVE Ends(c)
  BY <1>3, FailSteps DEF Ends, Alike, OfCalls
<1>4. ASSUME Succeed(c) PROVE Ends(c)
  BY <1>4, SucceedSteps DEF Ends, Alike, OfCalls
<1>5. ASSUME NEW status, NEW rs, Reply(c, status, rs), outcome' = outcome PROVE Ends(c)
  BY <1>2, <1>5, ReplySteps DEF Ends, Alike, OfCalls
<1>6. ASSUME NEW where, Goto(c, where), reply' = reply, outcome' = outcome PROVE Ends(c)
  BY <1>2, <1>6, GotoSteps DEF Ends, Alike, OfCalls
<1> QED BY <1>3, <1>4, <1>5, <1>6, Zenon

\* A step that changes each of these at c at most, and pc, reply and outcome.
Local(c) ==
  /\ smi' = smi \/ \E x : smi' = [smi EXCEPT ![c] = x]
  /\ probed' = probed \/ \E x : probed' = [probed EXCEPT ![c] = x]
  /\ found' = found \/ \E x : found' = [found EXCEPT ![c] = x]
  /\ held' = held \/ \E x : held' = [held EXCEPT ![c] = x]
  /\ holder' = holder \/ \E x : holder' = [holder EXCEPT ![held[c]] = x]

LEMMA FrameFrom ==
  ASSUME Shape, NEW c \in Calls, Ends(c), Local(c), req' = req
  PROVE  Shape' /\ Others(c)
<1>1. OfCalls(holder)'
  BY DEF Shape, Local, OfCalls
<1>2. /\ Alike(c, smi, smi') /\ Alike(c, probed, probed') /\ Alike(c, found, found')
      /\ Alike(c, held, held') /\ Alike(c, req, req')
  BY AlikeUpdate DEF Shape, Local
<1> QED BY <1>1, <1>2, Zenon DEF Shape, Others, Alike, OfCalls, Ends

\* A call of InfoTool has the loop from its start to its end.
InfoHolds(c) ==
  req[c].tool = "info" =>
    /\ pc[c] \in {"absent", "arrived", "resolving", "answered"} \cup Detecting
    /\ pc[c] \in {"resolving"} \cup Detecting => loop = c

LEMMA CallFrame ==
  ASSUME Shape, NEW c \in Calls, InfoHolds(c), Handle(c)
  PROVE  Shape' /\ Others(c) /\ Keeps(c)
<1> SUFFICES Ends(c) /\ Local(c) /\ Keeps(c)
  BY FrameFrom DEF Keeps
<1> USE DEF srvVars, cacheVars, mutexVars, threadVars, callVars
<1>1. CASE Enter(c)
  <2>1. Ends(c)
    <3>1. outcome' = outcome
      BY <1>1 DEF Enter
    <3>2. CASE \E status : Reply(c, status, <<>>)
      BY <3>1, <3>2, EndsIn
    <3>3. CASE \E where : Goto(c, where) /\ reply' = reply
      BY <3>1, <3>3, EndsIn
    <3> QED BY <1>1, <3>2, <3>3 DEF Enter, Submit
  <2>2. Local(c)
    BY <1>1, Zenon DEF Enter, Local
  <2>3. Keeps(c)
    BY <1>1 DEF Enter, Reply, Submit, Keeps
  <2> QED BY <2>1, <2>2, <2>3
<1>2. CASE Take(c) \/ Detect(c) \/ DetectLatent(c) \/ Publish(c)
  <2>1. \E where : Goto(c, where) /\ reply' = reply /\ outcome' = outcome
    BY <1>2 DEF Take, Detect, DetectLatent, Publish
  <2>2. Local(c)
    BY <1>2, Zenon DEF Take, Detect, DetectLatent, Publish, Local
  <2>3. Keeps(c)
    BY <1>2 DEF Take, Detect, DetectLatent, Publish, Keeps
  <2> QED BY <2>1, <2>2, <2>3, EndsIn
<1>3. CASE ResolveDevice(c)
  <2>1. Ends(c)
    <3>1. CASE \E e : Fail(c, e)
      BY <3>1, EndsIn
    <3>2. CASE \E status : Reply(c, status, <<>>) /\ outcome' = outcome
      BY <3>2, EndsIn
    <3>3. CASE \E where : Goto(c, where) /\ reply' = reply /\ outcome' = outcome
      BY <3>3, EndsIn
    <3> QED BY <1>3, <3>1, <3>2, <3>3 DEF ResolveDevice
  <2>2. Local(c)
    BY <1>3, Zenon DEF ResolveDevice, Local
  <2>3. \/ loop' = loop
        \/ loop = c /\ loop' = NoCall
    <3>1. req[c].tool = "info" => loop = c
      BY <1>3 DEF ResolveDevice, InfoHolds
    <3>2. \/ \E e : Fail(c, e)
          \/ req[c].tool = "info" /\ Reply(c, "success", <<>>)
          \/ loop' = loop
      BY <1>3, Zenon DEF ResolveDevice
    <3> QED BY <3>1, <3>2 DEF Fail, Reply
  <2>4. Keeps(c)
    BY <1>3, <2>3 DEF ResolveDevice, Keeps
  <2> QED BY <2>1, <2>2, <2>4
<1>4. CASE Load(c) \/ Build(c)
  <2>1. \E where : Goto(c, where) /\ reply' = reply /\ outcome' = outcome
    BY <1>4 DEF Load, Build, Loaded, Submit
  <2>2. Local(c)
    BY <1>4, Zenon DEF Load, Build, Loaded, Local
  <2>3. Keeps(c)
    BY <1>4 DEF Load, Build, Loaded, Submit, Keeps
  <2> QED BY <2>1, <2>2, <2>3, EndsIn
<1>5. CASE BuildFails(c) \/ Look(c) \/ Lock(c) \/ Run(c) \/ Panic(c)
  <2>1. \/ \E e : Fail(c, e)
        \/ Succeed(c)
        \/ \E where : Goto(c, where) /\ reply' = reply /\ outcome' = outcome
    BY <1>5 DEF BuildFails, Look, Lock, Run, Panic
  <2>2. Ends(c)
    BY <2>1, EndsIn
  <2>3. loop' = loop \/ (loop = c /\ loop' = NoCall)
    BY <2>1, <1>5 DEF Fail, Succeed, Reply, BuildFails, Look, Lock, Run, Panic
  <2>4. Local(c)
    BY <1>5, Zenon DEF BuildFails, Look, Lock, Run, Panic, Local
  <2>5. Keeps(c)
    BY <1>5, <2>3 DEF BuildFails, Look, Lock, Run, Panic, Keeps
  <2> QED BY <2>2, <2>4, <2>5
<1>6. CASE Resume(c)
  <2>1. outcome' = outcome
    BY <1>6 DEF Resume
  <2>2. \/ \E status, rs : Reply(c, status, rs)
        \/ \E where : Goto(c, where) /\ reply' = reply
    BY <1>6 DEF Resume
  <2>3. Local(c)
    BY <1>6, Zenon DEF Resume, Local
  <2>4. Keeps(c)
    BY <1>6 DEF Resume, Reply, Keeps
  <2> QED BY <2>1, <2>2, <2>3, <2>4, EndsIn
<1> QED BY <1>1, <1>2, <1>3, <1>4, <1>5, <1>6 DEF Handle

(***************************************************************************)
(* The invariant of a call.                                                *)
(***************************************************************************)

\* The handler of c goes on after its checks.
Admitted(c) == ~Refused(req[c]) /\ ~Unconvertible(req[c])

\* The reasons of RaisedExactlyFor.
Reasons(c) ==
  \/ ~Refused(req[c]) /\ Unconvertible(req[c])
  \/ outcome[c] = "panic"
  \/ req[c].tool = "info" /\ found[c].error # "none"

\* What has failed is at its end, and one that met a poisoned mutex holds it.
CallInv(c) ==
  /\ pc[c] \in PcValues /\ outcome[c] \in Outcomes /\ reply[c].status \in Statuses
  /\ held[c] \in Calls \cup {NoCall} /\ req[c] \in Asks[c] \cup {NoRequest}
  /\ pc[c] \in {"absent", "arrived"} => found[c] = NotResolved /\ outcome[c] = "none"
  /\ outcome[c] \notin {"none", "ok"} => pc[c] \in {"done", "answered"}
  /\ outcome[c] = "Poisoned" => held[c] \in poisoned
  /\ reply[c].status # "none" => pc[c] = "answered"
  /\ pc[c] \notin {"absent", "arrived", "answered"} => Admitted(c)
  /\ pc[c] = "answered" => (reply[c].status = "raised" <=> Reasons(c))
  /\ InfoHolds(c)

LoadedInv == \A e \in loaded : e.backend \in Calls

\* Where a call may go on to, and where a failed one may not be.
Working == {"queued", "loading", "building", "ready", "locking", "running"}

\* c goes on, with nothing told yet.
LEMMA GoesOn ==
  ASSUME NEW c \in Calls, CallInv(c), Keeps(c), Admitted(c),
         pc'[c] \in Working \cup {"resolving"} \cup Detecting,
         outcome'[c] = outcome[c], outcome[c] \in {"none", "ok"},
         reply'[c] = reply[c], reply[c].status = "none",
         held'[c] \in Calls \cup {NoCall},
         req[c].tool = "info" => pc'[c] \notin Working /\ loop' = c
  PROVE  CallInv(c)'
<1>1. req' = req
  BY DEF Keeps
<1>2. pc'[c] \in PcValues /\ pc'[c] \notin {"absent", "arrived", "answered"}
  BY DEF PcValues, Working, Detecting
<1>3. InfoHolds(c)'
  BY <1>1 DEF InfoHolds, Working
<1>4. Admitted(c)'
  BY <1>1 DEF Admitted
<1> QED BY <1>1, <1>2, <1>3, <1>4 DEF CallInv, Detecting

\* c's thread has raised e.
LEMMA Fails ==
  ASSUME NEW c \in Calls, CallInv(c), Keeps(c), NEW e, Ended(c, e),
         e \in Outcomes \ {"none", "ok"}, held' = held, e = "Poisoned" => held[c] \in poisoned,
         pc[c] \notin {"absent", "arrived", "done", "answered"},
         req[c].tool = "info" => loop = c /\ found'[c].error # "none"
  PROVE  CallInv(c)'
<1>1. req' = req /\ poisoned \subseteq poisoned'
  BY DEF Keeps
<1>2. /\ outcome'[c] = e /\ pc'[c] \in {"done", "answered"}
      /\ pc'[c] = "done" => loop # c /\ reply'[c] = reply[c]
      /\ pc'[c] = "answered" => reply'[c].status = Ending(req[c].tool, e)
  BY DEF Ended, Replied
<1>3. reply[c].status = "none"
  BY DEF CallInv
<1>0. Admitted(c) /\ Admitted(c)'
  BY <1>1 DEF CallInv, Admitted
<1>7. pc'[c] = "answered" => (reply'[c].status = "raised" <=> Reasons(c)')
  <2>1. Reasons(c)' <=> \/ e = "panic"
                        \/ req[c].tool = "info" /\ found'[c].error # "none"
    BY <1>0, <1>1, <1>2 DEF Reasons, Admitted
  <2>2. Ending(req[c].tool, e) = "raised" <=> (req[c].tool = "info" \/ e = "panic")
    BY EndingStatus
  <2> QED BY <1>2, <2>1, <2>2
<1>4. reply'[c].status \in Statuses
  BY <1>2, <1>3, EndingStatus DEF Statuses
<1>5. InfoHolds(c)'
  BY <1>1, <1>2 DEF InfoHolds, Detecting
<1>6. reply'[c].status # "none" => pc'[c] = "answered"
  BY <1>2, <1>3
<1> QED BY <1>0, <1>1, <1>2, <1>4, <1>5, <1>6, <1>7 DEF CallInv, PcValues

\* c's inference has succeeded.
LEMMA Succeeds ==
  ASSUME NEW c \in Calls, CallInv(c), Keeps(c), Succeeded(c), held' = held,
         pc[c] \in {"ready", "running"}
  PROVE  CallInv(c)'
<1>1. req' = req /\ poisoned \subseteq poisoned'
  BY DEF Keeps
<1>2. /\ outcome[c] \in {"none", "ok"} /\ reply[c].status = "none" /\ req[c].tool # "info"
  BY DEF CallInv, InfoHolds, Detecting
<1>3. /\ outcome'[c] \in {"none", "ok"} /\ pc'[c] \in {"done", "answered"}
      /\ reply'[c].status \in {"none", "success"}
      /\ pc'[c] = "done" => reply'[c] = reply[c]
  BY <1>2 DEF Succeeded, Replied
<1>4. Admitted(c) /\ Admitted(c)'
  BY <1>1 DEF CallInv, Admitted
<1>5. ~Reasons(c)'
  BY <1>1, <1>2, <1>3, <1>4 DEF Reasons, Admitted
<1> QED BY <1>1, <1>2, <1>3, <1>4, <1>5 DEF CallInv, PcValues, Outcomes, Statuses, InfoHolds

LEMMA CallOwn ==
  ASSUME Shape, LoadedInv, NEW c \in Calls, CallInv(c), Handle(c)
  PROVE  CallInv(c)'
<1>1. Shape' /\ Keeps(c)
  BY CallFrame DEF CallInv
<1>2. pc[c] \notin {"done", "answered"} => outcome[c] \in {"none", "ok"}
  BY DEF CallInv
<1>3. pc[c] # "answered" => reply[c].status = "none"
  BY DEF CallInv
<1>4. req[c].tool = "info" =>
        /\ pc[c] \in {"absent", "arrived", "resolving", "answered"} \cup Detecting
        /\ pc[c] \in {"resolving"} \cup Detecting => loop = c
  BY DEF CallInv, InfoHolds
<1>0. pc[c] \notin {"absent", "arrived", "answered"} => Admitted(c)
  BY DEF CallInv
<1> USE DEF srvVars, cacheVars, mutexVars, threadVars, callVars
<1>5. CASE Enter(c)
  <2>1. /\ pc[c] = "arrived" /\ loop = NoCall /\ held' = held /\ outcome' = outcome
        /\ found' = found
    BY <1>5 DEF Enter
  <2>2. CASE /\ Refused(req[c]) \/ Unconvertible(req[c])
             /\ Reply(c, IF Refused(req[c]) THEN "refused" ELSE "raised", <<>>)
    <3>1. /\ pc'[c] = "answered" /\ reply'[c].status \in {"refused", "raised"}
          /\ reply'[c].status = "raised" <=> (~Refused(req[c]) /\ Unconvertible(req[c]))
      BY <2>2, ReplySteps DEF Replied
    <3>0. req[c].tool # "info"
      BY <2>2 DEF Refused, Unconvertible, OfObjects
    <3>2. InfoHolds(c)'
      BY <3>1 DEF InfoHolds, Detecting
    <3>3. /\ held'[c] = held[c] /\ outcome'[c] = outcome[c] /\ req'[c] = req[c]
      BY <1>1, <2>1, <3>1 DEF Keeps
    <3>4. outcome[c] = "none"
      BY <2>1 DEF CallInv
    <3>5. reply'[c].status = "raised" <=> Reasons(c)'
      BY <3>0, <3>1, <3>3, <3>4 DEF Reasons
    <3> QED BY <3>1, <3>2, <3>3, <3>4, <3>5 DEF CallInv, PcValues, Statuses
  <2>3. CASE Admitted(c) /\ req[c].tool = "retrieve" /\ Submit(c) /\ reply' = reply
    <3>1. pc'[c] = "queued"
      BY <2>3, GotoSteps DEF Submit
    <3> QED BY <1>1, <1>2, <1>3, <2>1, <2>3, <3>1, GoesOn DEF CallInv, Working
  <2>4. CASE /\ Admitted(c) /\ req[c].tool # "retrieve" /\ loop' = c /\ Goto(c, "resolving")
             /\ reply' = reply
    <3>1. pc'[c] = "resolving"
      BY <2>4, GotoSteps
    <3> QED BY <1>1, <1>2, <1>3, <2>1, <2>4, <3>1, GoesOn DEF CallInv, Working
  <2> QED BY <1>5, <2>2, <2>3, <2>4 DEF Enter, Admitted
<1>6. CASE Take(c)
  <2>1. /\ pc[c] = "queued" /\ held' = held /\ outcome' = outcome /\ reply' = reply
        /\ pc'[c] \in {"resolving", "ready"} /\ loop' = loop
    BY <1>6, GotoSteps DEF Take
  <2>2. req[c].tool # "info"
    BY <1>4, <2>1 DEF Detecting
  <2> QED BY <1>0, <1>1, <1>2, <1>3, <2>1, <2>2, GoesOn DEF CallInv, Working
<1>7. CASE Detect(c) \/ DetectLatent(c) \/ Publish(c)
  <2>1. /\ pc[c] \in Detecting /\ held' = held /\ outcome' = outcome /\ reply' = reply
        /\ pc'[c] \in {"resolving"} \cup Detecting /\ loop' = loop
    BY <1>7, GotoSteps DEF Detect, DetectLatent, Publish, Detecting
  <2> QED BY <1>0, <1>1, <1>2, <1>3, <1>4, <2>1, GoesOn DEF CallInv, Working, Detecting
<1>8. CASE ResolveDevice(c)
  <2>1. pc[c] = "resolving" /\ held' = held
    BY <1>8 DEF ResolveDevice
  <2>2. CASE system = NoSystem
    <3>1. /\ outcome' = outcome /\ reply' = reply /\ loop' = loop /\ Goto(c, "detecting")
      BY <1>8, <2>2, Zenon DEF ResolveDevice
    <3>2. pc'[c] = "detecting"
      BY <3>1, GotoSteps
    <3> QED BY <1>0, <1>1, <1>2, <1>3, <1>4, <2>1, <3>1, <3>2, GoesOn DEF CallInv, Working, Detecting
  <2>3. CASE system # NoSystem
    <3> DEFINE r == Resolve(req[c].device, system)
    <3>1. found' = [found EXCEPT ![c] = r]
      BY <1>8, <2>3, Zenon DEF ResolveDevice
    <3>2. found'[c] = r /\ r.error \in DeviceErrors \cup {"none"}
      BY <3>1, ResolveErrors DEF Shape, OfCalls
    <3>3. \/ r.error # "none" /\ Fail(c, r.error)
          \/ /\ req[c].tool = "info" /\ Reply(c, "success", <<>>)
             /\ outcome' = outcome /\ r.error = "none"
          \/ /\ req[c].tool # "info" /\ Goto(c, "loading")
             /\ outcome' = outcome /\ reply' = reply /\ loop' = loop
      BY <1>8, <2>3, Zenon DEF ResolveDevice
    <3> HIDE DEF r
    <3>4. CASE r.error # "none" /\ Fail(c, r.error)
      <4>1. Ended(c, r.error)
        BY <3>4, FailSteps
      <4>2. r.error \in Outcomes \ {"none", "ok"} /\ r.error # "Poisoned"
        BY <3>2, <3>4 DEF DeviceErrors, Outcomes, PackageErrors
      <4> QED BY <1>1, <1>4, <2>1, <3>2, <3>4, <4>1, <4>2, Fails
    <3>5. CASE /\ req[c].tool = "info" /\ Reply(c, "success", <<>>)
               /\ outcome' = outcome /\ r.error = "none"
      <4>1. pc'[c] = "answered" /\ reply'[c].status = "success"
        BY <3>5, ReplySteps DEF Replied
      <4>2. req'[c] = req[c] /\ outcome'[c] \in {"none", "ok"} /\ found'[c].error = "none"
        BY <1>1, <1>2, <2>1, <3>2, <3>5 DEF Keeps
      <4>3. ~Reasons(c)'
        BY <1>0, <2>1, <4>2 DEF Reasons, Admitted
      <4> QED BY <1>1, <1>2, <2>1, <3>5, <4>1, <4>3
              DEF CallInv, Keeps, PcValues, Statuses, InfoHolds, Detecting
    <3>6. CASE /\ req[c].tool # "info" /\ Goto(c, "loading")
               /\ outcome' = outcome /\ reply' = reply /\ loop' = loop
      <4>1. pc'[c] = "loading"
        BY <3>6, GotoSteps
      <4> QED BY <1>0, <1>1, <1>2, <1>3, <2>1, <3>6, <4>1, GoesOn DEF CallInv, Working
    <3> QED BY <3>3, <3>4, <3>5, <3>6
  <2> QED BY <2>2, <2>3
<1>9. CASE Load(c) \/ Build(c)
  <2>1. /\ pc[c] \in {"loading", "building"} /\ outcome' = outcome /\ reply' = reply
        /\ pc'[c] \in Working
    <3>1. \E where \in Working : Goto(c, where)
      BY <1>9 DEF Load, Build, Loaded, Submit, Working
    <3> QED BY <1>9, <3>1, GotoSteps DEF Load, Build
  <2>2. held'[c] \in Calls \cup {NoCall}
    <3>1. held' = held \/ \E b \in Calls : held' = [held EXCEPT ![c] = b]
      BY <1>9 DEF Load, Build, Loaded, Entries, LoadedInv
    <3> QED BY <3>1 DEF CallInv, Shape, OfCalls
  <2>3. req[c].tool # "info"
    BY <1>4, <2>1 DEF Detecting
  <2> QED BY <1>0, <1>1, <1>2, <1>3, <2>1, <2>2, <2>3, GoesOn
<1>10. CASE BuildFails(c) \/ Look(c) \/ Lock(c) \/ Run(c) \/ Panic(c)
  <2>1. pc[c] \in {"building", "ready", "locking", "running"} /\ held' = held
    BY <1>10 DEF BuildFails, Look, Lock, Run, Panic
  <2>2. req[c].tool # "info"
    BY <1>4, <2>1 DEF Detecting
  <2>3. ASSUME NEW e, Fail(c, e), e \in Outcomes \ {"none", "ok"},
               e = "Poisoned" => held[c] \in poisoned
        PROVE  CallInv(c)'
    <3>1. Ended(c, e)
      BY <2>3, FailSteps
    <3> QED BY <1>1, <2>1, <2>2, <2>3, <3>1, Fails
  <2>4. CASE BuildFails(c)
    <3>1. PICK e \in LoadErrors : Fail(c, LoadRaises(e))
      BY <2>4 DEF BuildFails
    <3>2. LoadRaises(e) \in PackageErrors
      BY LoadRaisesPackageErrors
    <3>3. PackageErrors \subseteq Outcomes \ {"none", "ok", "Poisoned"}
      BY DEF PackageErrors, Outcomes
    <3> QED BY <2>3, <3>1, <3>2, <3>3
  <2>5. ASSUME Succeed(c), pc[c] \in {"ready", "running"}
        PROVE  CallInv(c)'
    BY <1>1, <2>1, <2>5, SucceedSteps, Succeeds
  <2>6. ASSUME NEW where \in Working, Goto(c, where), reply' = reply, outcome' = outcome
        PROVE  CallInv(c)'
    <3>1. pc'[c] \in Working
      BY <2>6, GotoSteps
    <3>2. held'[c] \in Calls \cup {NoCall}
      BY <2>1 DEF CallInv
    <3> QED BY <1>0, <1>1, <1>2, <1>3, <2>1, <2>2, <2>6, <3>1, <3>2, GoesOn
  <2>7. {"ValueError", "Poisoned", "Inference", "panic"} \subseteq Outcomes \ {"none", "ok"}
    BY DEF Outcomes, PyError
  <2>8. CASE Look(c)
    <3>1. pc[c] = "ready"
      BY <2>8 DEF Look
    <3>2. \/ Succeed(c)
          \/ Fail(c, "ValueError")
          \/ Goto(c, "locking") /\ reply' = reply /\ outcome' = outcome
      BY <2>8 DEF Look
    <3> QED BY <2>3, <2>5, <2>6, <2>7, <3>1, <3>2 DEF Working
  <2>9. CASE Lock(c)
    <3>1. \/ Fail(c, "Poisoned") /\ held[c] \in poisoned
          \/ Goto(c, "running") /\ reply' = reply /\ outcome' = outcome
      BY <2>9 DEF Lock
    <3> QED BY <2>3, <2>6, <2>7, <3>1 DEF Working
  <2>10. CASE Run(c) \/ Panic(c)
    <3>1. pc[c] = "running"
      BY <2>10 DEF Run, Panic
    <3>2. Succeed(c) \/ Fail(c, "Inference") \/ Fail(c, "panic")
      BY <2>10 DEF Run, Panic
    <3> QED BY <2>3, <2>5, <2>7, <3>1, <3>2
  <2> QED BY <1>10, <2>4, <2>8, <2>9, <2>10
<1>11. CASE Resume(c)
  <2>1. /\ pc[c] = "done" /\ loop = NoCall /\ held' = held /\ outcome' = outcome
        /\ found' = found
    BY <1>11 DEF Resume
  <2>2. req[c].tool # "info"
    BY <1>4, <2>1 DEF Detecting
  <2>3. CASE \E rs : Reply(c, Ending(req[c].tool, outcome[c]), rs)
    <3>1. pc'[c] = "answered" /\ reply'[c].status = Ending(req[c].tool, outcome[c])
      BY <2>3, ReplySteps DEF Replied
    <3>2. reply'[c].status \in Statuses \ {"none"}
      BY <3>1, EndingStatus DEF Statuses
    <3>3. reply'[c].status = "raised" <=> outcome'[c] = "panic"
      BY <2>1, <2>2, <3>1, EndingStatus
    <3>5. Reasons(c)' <=> outcome'[c] = "panic"
      BY <1>0, <1>1, <2>1, <2>2 DEF Reasons, Admitted, Keeps
    <3>4. InfoHolds(c)'
      BY <1>1, <2>2 DEF InfoHolds, Keeps
    <3> QED BY <1>1, <2>1, <3>1, <3>2, <3>3, <3>4, <3>5 DEF CallInv, Keeps, PcValues
  <2>4. CASE /\ outcome[c] = "ok" /\ loop' = c /\ Goto(c, "ready") /\ reply' = reply
    <3>1. pc'[c] = "ready"
      BY <2>4, GotoSteps
    <3>2. held'[c] \in Calls \cup {NoCall}
      BY <2>1 DEF CallInv
    <3> QED BY <1>0, <1>1, <1>3, <2>1, <2>2, <2>4, <3>1, <3>2, GoesOn DEF Working
  <2>5. CASE outcome[c] = "ok" /\ \E rs : Reply(c, "success", rs)
    <3>1. pc'[c] = "answered" /\ reply'[c].status = "success"
      BY <2>5, ReplySteps DEF Replied
    <3>2. InfoHolds(c)'
      BY <1>1, <2>2 DEF InfoHolds, Keeps
    <3>3. ~Reasons(c)'
      BY <1>0, <1>1, <2>1, <2>2, <2>5 DEF Reasons, Admitted, Keeps
    <3> QED BY <1>1, <2>1, <3>1, <3>2, <3>3 DEF CallInv, Keeps, PcValues, Statuses
  <2> QED BY <1>11, <2>3, <2>4, <2>5, Zenon DEF Resume
<1> QED BY <1>5, <1>6, <1>7, <1>8, <1>9, <1>10, <1>11 DEF Handle

\* Another call's step.
LEMMA CallOthers ==
  ASSUME NEW c \in Calls, NEW d \in Calls \ {c}, CallInv(d), Others(c), Keeps(c)
  PROVE  CallInv(d)'
<1>1. /\ pc'[d] = pc[d] /\ req'[d] = req[d] /\ found'[d] = found[d] /\ held'[d] = held[d]
      /\ outcome'[d] = outcome[d] /\ reply'[d] = reply[d]
  BY DEF Others
<1>2. poisoned \subseteq poisoned'
  BY DEF Keeps
<1>3. loop = d => loop' = d
  BY CallsAssumption DEF Keeps
<1>4. InfoHolds(d)'
  BY <1>1, <1>3 DEF CallInv, InfoHolds
<1>5. (Reasons(d)' <=> Reasons(d)) /\ (Admitted(d)' <=> Admitted(d))
  BY <1>1 DEF Reasons, Admitted
<1> QED BY <1>1, <1>2, <1>4, <1>5 DEF CallInv

\* Inference runs with a backend that was built, and only there.
Backed(c) ==
  pc[c] \in {"ready", "locking", "running"} \/ outcome[c] = "ok" => held[c] \in Calls

LEMMA BackedOwn ==
  ASSUME Shape, LoadedInv, NEW c \in Calls, CallInv(c), Backed(c), Handle(c)
  PROVE  Backed(c)'
<1> USE DEF srvVars, cacheVars, mutexVars, threadVars, callVars
<1>1. CASE Load(c) \/ Build(c)
  <2>1. \/ held' = held /\ pc'[c] = "building" /\ outcome' = outcome
        \/ \E b \in Calls : held' = [held EXCEPT ![c] = b]
    BY <1>1, GotoSteps DEF Load, Build, Loaded, Entries, LoadedInv
  <2> QED BY <2>1 DEF Backed, Shape, OfCalls
<1>2. CASE held[c] \in Calls /\ held' = held
  BY <1>2 DEF Backed
<1>3. CASE Enter(c) \/ Detect(c) \/ DetectLatent(c) \/ Publish(c)
  <2>1. outcome' = outcome /\ held' = held
    BY <1>3 DEF Enter, Detect, DetectLatent, Publish
  <2>2. pc'[c] \in {"answered", "queued", "resolving"} \cup Detecting
    BY <1>3, GotoSteps, ReplySteps
       DEF Enter, Submit, Detect, DetectLatent, Publish, Detecting, Replied
  <2> QED BY <2>1, <2>2 DEF Backed, Detecting
<1>4. CASE Take(c)
  <2>1. outcome' = outcome /\ held' = held
        /\ Goto(c, IF held[c] = NoCall THEN "resolving" ELSE "ready")
    BY <1>4 DEF Take
  <2>2. pc'[c] = IF held[c] = NoCall THEN "resolving" ELSE "ready"
    BY <2>1, GotoSteps
  <2> QED BY <2>1, <2>2 DEF Backed, CallInv
<1>5. CASE ResolveDevice(c) \/ BuildFails(c)
  <2>1. held' = held
    BY <1>5, Zenon DEF ResolveDevice, BuildFails
  <2>2. \/ \E e \in DeviceErrors \cup PackageErrors : Fail(c, e)
        \/ Reply(c, "success", <<>>) /\ outcome' = outcome
        \/ \E where \in {"detecting", "loading"} : Goto(c, where) /\ outcome' = outcome
    <3>1. CASE BuildFails(c)
      BY <3>1, LoadRaisesPackageErrors DEF BuildFails
    <3>2. CASE ResolveDevice(c)
      <4> DEFINE r == Resolve(req[c].device, system)
      <4>1. r.error \in DeviceErrors \cup {"none"}
        BY ResolveErrors
      <4>2. \/ r.error # "none" /\ Fail(c, r.error)
            \/ Reply(c, "success", <<>>) /\ outcome' = outcome
            \/ Goto(c, "detecting") /\ outcome' = outcome
            \/ Goto(c, "loading") /\ outcome' = outcome
        BY <3>2, Zenon DEF ResolveDevice
      <4> HIDE DEF r
      <4> QED BY <4>1, <4>2
    <3> QED BY <1>5, <3>1, <3>2
  <2>3. /\ pc'[c] \in {"done", "answered", "detecting", "loading"}
        /\ outcome'[c] = "ok" => outcome[c] = "ok"
    BY <2>2, FailSteps, GotoSteps, ReplySteps
       DEF Ended, Replied, DeviceErrors, PackageErrors
  <2> QED BY <2>1, <2>3 DEF Backed
<1>6. CASE Look(c) \/ Lock(c) \/ Run(c) \/ Panic(c)
  BY <1>2, <1>6 DEF Look, Lock, Run, Panic, Backed
<1>7. CASE Resume(c)
  <2>1. /\ outcome' = outcome /\ held' = held
        /\ (\E status, rs : Reply(c, status, rs)) \/ (outcome[c] = "ok" /\ Goto(c, "ready"))
    BY <1>7, Zenon DEF Resume
  <2>2. pc'[c] = "answered" \/ outcome[c] = "ok"
    BY <2>1, ReplySteps DEF Replied
  <2> QED BY <2>1, <2>2 DEF Backed
<1> QED BY <1>1, <1>3, <1>4, <1>5, <1>6, <1>7 DEF Handle

\* Only a panic poisons, and what has panicked stays as it is.
Culprits == \A b \in poisoned : \E d \in Calls : outcome[d] = "panic" /\ held[d] = b

LEMMA CulpritsStay ==
  ASSUME Shape, Culprits, NEW c \in Calls, CallInv(c), Handle(c)
  PROVE  Culprits'
<1> USE DEF srvVars, cacheVars, mutexVars, threadVars, callVars
<1>1. Others(c)
  BY CallFrame DEF CallInv
<1>2. outcome[c] = "panic" => outcome'[c] = "panic" /\ held'[c] = held[c]
  <2>1. CASE pc[c] = "done" /\ Resume(c)
    BY <2>1 DEF Resume
  <2>2. CASE pc[c] \notin {"done", "answered"}
    BY <2>2 DEF CallInv
  <2>3. CASE Resume(c)
    BY <2>1, <2>3 DEF Resume
  <2>4. CASE ResolveDevice(c)
    <3>1. pc[c] = "resolving"
      BY <2>4, Zenon DEF ResolveDevice
    <3> QED BY <2>2, <3>1
  <2>5. CASE Enter(c) \/ Take(c) \/ Detect(c) \/ DetectLatent(c) \/ Publish(c)
    BY <2>2, <2>5 DEF Enter, Take, Detect, DetectLatent, Publish
  <2>6. CASE Load(c) \/ Build(c) \/ BuildFails(c) \/ Look(c) \/ Lock(c) \/ Run(c) \/ Panic(c)
    BY <2>2, <2>6 DEF Load, Build, BuildFails, Look, Lock, Run, Panic
  <2> QED BY <2>3, <2>4, <2>5, <2>6 DEF Handle
<1>3. \/ poisoned' = poisoned
      \/ /\ poisoned' = poisoned \cup {held[c]}
         /\ outcome'[c] = "panic" /\ held' = held
  <2>1. CASE Panic(c)
    BY <2>1, FailSteps DEF Panic, Ended
  <2>2. CASE ~Panic(c)
    BY <2>2 DEF Handle, Enter, Take, ResolveDevice, Detect, DetectLatent, Publish, Load,
                Build, BuildFails, Look, Lock, Run, Resume
  <2> QED BY <2>1, <2>2
<1>4. ASSUME NEW d \in Calls, outcome[d] = "panic"
      PROVE  outcome'[d] = "panic" /\ held'[d] = held[d]
  BY <1>1, <1>2, <1>4 DEF Others
<1>5. ASSUME NEW b \in poisoned
      PROVE  \E d \in Calls : outcome'[d] = "panic" /\ held'[d] = b
  <2>1. PICK d \in Calls : outcome[d] = "panic" /\ held[d] = b
    BY <1>5 DEF Culprits
  <2> QED BY <1>4, <2>1
<1>6. CASE poisoned' = poisoned
  BY <1>5, <1>6 DEF Culprits
<1>7. CASE poisoned' = poisoned \cup {held[c]} /\ outcome'[c] = "panic" /\ held' = held
  <2>1. ASSUME NEW b \in poisoned'
        PROVE  \E d \in Calls : outcome'[d] = "panic" /\ held'[d] = b
    <3>1. CASE b = held[c]
      BY <1>7, <3>1
    <3>2. CASE b \in poisoned
      BY <1>5, <3>2
    <3> QED BY <1>7, <2>1, <3>1, <3>2
  <2> QED BY <2>1 DEF Culprits
<1> QED BY <1>3, <1>6, <1>7

(***************************************************************************)
(* The snapshot of the devices.                                            *)
(***************************************************************************)

\* Unless two have detected at once, none detects once there is a snapshot, and
\* what the calls have found, they found in that one.
OneDetects == \A c, d \in Calls : pc[c] \in Detecting /\ pc[d] \in Detecting => c = d
Settled == system # NoSystem => \A c \in Calls : pc[c] \notin Detecting
FoundIn(c) ==
  found[c] # NotResolved =>
    system # NoSystem /\ found[c] = Resolve(req[c].device, system)
Snapshot == ~raced => OneDetects /\ Settled /\ \A c \in Calls : FoundIn(c)
Probed == \A c \in Calls : pc[c] = "publishing" => probed[c] # NoSystem

LEMMA DetectionFindsCPU ==
  ASSUME NEW h, NEW first, NEW second
  PROVE  SystemDevices(h, first, second) # NoSystem
<1>1. "CPU" \in SystemDevices(h, first, second).providers
  BY DEF SystemDevices, Providers
<1>2. "CPU" \notin NoSystem.providers
  BY DEF NoSystem
<1> QED BY <1>1, <1>2

\* Where the ends of a thread's work lead.
LEMMA Lands ==
  ASSUME Shape, NEW c \in Calls
  PROVE  /\ (\E e : Fail(c, e)) \/ Succeed(c) => pc'[c] \in {"done", "answered"}
         /\ (\E status, rs : Reply(c, status, rs)) => pc'[c] = "answered"
         /\ Submit(c) => pc'[c] = "queued"
         /\ \A where : Goto(c, where) => pc'[c] = where
<1>1. ASSUME NEW e, Fail(c, e) PROVE pc'[c] \in {"done", "answered"}
  BY <1>1, FailSteps DEF Ended, Replied
<1>2. ASSUME Succeed(c) PROVE pc'[c] \in {"done", "answered"}
  BY <1>2, SucceedSteps DEF Succeeded, Replied
<1>3. ASSUME NEW status, NEW rs, Reply(c, status, rs) PROVE pc'[c] = "answered"
  BY <1>3, ReplySteps DEF Replied
<1>4. \A where : Goto(c, where) => pc'[c] = where
  BY GotoSteps
<1> QED BY <1>1, <1>2, <1>3, <1>4, Zenon DEF Submit

\* A detection goes through its steps in order.
LEMMA DetectionSteps ==
  ASSUME Shape, NEW c \in Calls, Handle(c), ~Detect(c), ~DetectLatent(c)
  PROVE  pc'[c] \notin {"detecting latent", "publishing"}
<1>1. CASE ResolveDevice(c)
  <2>1. \/ \E e : Fail(c, e)
        \/ Reply(c, "success", <<>>)
        \/ Goto(c, "detecting") \/ Goto(c, "loading")
    BY <1>1, Zenon DEF ResolveDevice
  <2> QED BY <2>1, Lands
<1>2. CASE Enter(c) \/ Take(c) \/ Publish(c)
  <2>1. \/ \E status, rs : Reply(c, status, rs)
        \/ Submit(c)
        \/ \E where \in {"resolving", "ready"} : Goto(c, where)
    BY <1>2 DEF Enter, Take, Publish
  <2> QED BY <2>1, Lands
<1>3. CASE Load(c) \/ Build(c)
  BY <1>3, Lands DEF Load, Build, Loaded
<1>4. CASE BuildFails(c) \/ Look(c) \/ Lock(c) \/ Run(c) \/ Panic(c)
  <2>1. \/ \E e : Fail(c, e)
        \/ Succeed(c)
        \/ Goto(c, "locking") \/ Goto(c, "running")
    BY <1>4 DEF BuildFails, Look, Lock, Run, Panic
  <2> QED BY <2>1, Lands
<1>5. CASE Resume(c)
  <2>1. (\E status, rs : Reply(c, status, rs)) \/ Goto(c, "ready")
    BY <1>5, Zenon DEF Resume
  <2> QED BY <2>1, Lands
<1> QED BY <1>1, <1>2, <1>3, <1>4, <1>5 DEF Handle

LEMMA ProbedStays ==
  ASSUME Shape, Probed, NEW c \in Calls, CallInv(c), Handle(c)
  PROVE  Probed'
<1>1. Others(c)
  BY CallFrame DEF CallInv
<1>2. pc'[c] = "publishing" => probed'[c] # NoSystem
  <2>1. CASE DetectLatent(c)
    <3>1. \E rows : probed' = [probed EXCEPT ![c] = SystemDevices(host, smi[c], rows)]
      BY <2>1 DEF DetectLatent
    <3>2. \E rows : probed'[c] = SystemDevices(host, smi[c], rows)
      BY <3>1 DEF Shape, OfCalls
    <3> QED BY <3>2, DetectionFindsCPU
  <2>2. CASE Detect(c)
    BY <2>2, Lands DEF Detect
  <2> QED BY <2>1, <2>2, DetectionSteps
<1> QED BY <1>1, <1>2 DEF Probed, Others

\* A step that leaves the snapshot alone, and that begins no detection.
LEMMA SnapshotKept ==
  ASSUME Snapshot, NEW c \in Calls, Others(c), req' = req,
         raced' = raced, system' = system, found' = found,
         pc'[c] \in Detecting => pc[c] \in Detecting
  PROVE  Snapshot'
<1> SUFFICES ASSUME ~raced' PROVE (OneDetects /\ Settled /\ \A d \in Calls : FoundIn(d))'
  BY Zenon DEF Snapshot
<1>1. OneDetects /\ Settled /\ \A d \in Calls : FoundIn(d)
  BY Zenon DEF Snapshot
<1>2. \A d \in Calls : pc'[d] \in Detecting => pc[d] \in Detecting
  BY DEF Others
<1>3. OneDetects' /\ Settled'
  BY <1>1, <1>2 DEF OneDetects, Settled
<1>4. \A d \in Calls : FoundIn(d)'
  BY <1>1 DEF FoundIn
<1> QED BY <1>3, <1>4

LEMMA SnapshotStays ==
  ASSUME Shape, Snapshot, Probed, NEW c \in Calls, CallInv(c), Handle(c)
  PROVE  Snapshot'
<1>1. Others(c) /\ Keeps(c)
  BY CallFrame DEF CallInv
<1>2. req' = req
  BY <1>1 DEF Keeps
<1> USE DEF srvVars, cacheVars, mutexVars, threadVars, callVars
<1>3. CASE ResolveDevice(c)
  <2>1. pc[c] = "resolving" /\ system' = system
    BY <1>3, Zenon DEF ResolveDevice
  <2>2. CASE system = NoSystem
    <3> SUFFICES ASSUME ~raced'
                 PROVE  (OneDetects /\ Settled /\ \A d \in Calls : FoundIn(d))'
      BY Zenon DEF Snapshot
    <3>1. ~raced /\ found' = found /\ \A d \in Calls : pc[d] \notin Detecting
      BY <1>3, <2>2, Zenon DEF ResolveDevice
    <3>2. \A d \in Calls : FoundIn(d)
      BY <3>1, Zenon DEF Snapshot
    <3>3. \A d \in Calls : pc'[d] \in Detecting => d = c
      BY <1>1, <3>1 DEF Others
    <3>4. OneDetects' /\ Settled'
      BY <2>1, <2>2, <3>3 DEF OneDetects, Settled
    <3>5. \A d \in Calls : FoundIn(d)'
      BY <1>2, <2>1, <3>1, <3>2 DEF FoundIn
    <3> QED BY <3>4, <3>5
  <2>3. CASE system # NoSystem
    <3> DEFINE r == Resolve(req[c].device, system)
    <3>1. found' = [found EXCEPT ![c] = r] /\ raced' = raced
      BY <1>3, <2>3, Zenon DEF ResolveDevice
    <3>2. found'[c] = r /\ \A d \in Calls \ {c} : found'[d] = found[d]
      BY <3>1 DEF Shape, OfCalls
    <3>3. \/ \E e : Fail(c, e)
          \/ Reply(c, "success", <<>>)
          \/ Goto(c, "loading")
      BY <1>3, <2>3, Zenon DEF ResolveDevice
    <3>4. pc'[c] \notin Detecting
      <4>1. pc'[c] \in {"done", "answered", "loading"}
        BY <3>3, Lands, Zenon
      <4> QED BY <4>1 DEF Detecting
    <3> SUFFICES ASSUME ~raced'
                 PROVE  (OneDetects /\ Settled /\ \A d \in Calls : FoundIn(d))'
      BY Zenon DEF Snapshot
    <3>5. OneDetects /\ Settled /\ \A d \in Calls : FoundIn(d)
      BY <3>1, Zenon DEF Snapshot
    <3>6. OneDetects' /\ Settled'
      BY <1>1, <2>1, <3>4, <3>5 DEF OneDetects, Settled, Others
    <3>7. \A d \in Calls : FoundIn(d)'
      BY <1>2, <2>1, <2>3, <3>2, <3>5 DEF FoundIn
    <3> QED BY <3>6, <3>7
  <2> QED BY <2>2, <2>3
<1>4. CASE Publish(c)
  <2>1. /\ pc[c] = "publishing" /\ found' = found /\ raced' = raced
        /\ system' = probed[c] /\ pc'[c] = "resolving"
    BY <1>4, GotoSteps DEF Publish
  <2> SUFFICES ASSUME ~raced'
               PROVE  (OneDetects /\ Settled /\ \A d \in Calls : FoundIn(d))'
    BY Zenon DEF Snapshot
  <2>2. OneDetects /\ Settled /\ \A d \in Calls : FoundIn(d)
    BY <2>1, Zenon DEF Snapshot
  <2>3. \A d \in Calls : pc'[d] \notin Detecting
    BY <1>1, <2>1, <2>2 DEF OneDetects, Others, Detecting
  <2>4. \A d \in Calls : found'[d] = NotResolved
    BY <2>1, <2>2 DEF Settled, FoundIn, Detecting
  <2> QED BY <2>3, <2>4 DEF OneDetects, Settled, FoundIn
<1>5. CASE Detect(c) \/ DetectLatent(c)
  BY <1>1, <1>2, <1>5, SnapshotKept DEF Detect, DetectLatent, Detecting
<1>6. CASE Enter(c) \/ Take(c) \/ Load(c) \/ Build(c)
  <2>1. pc'[c] \notin Detecting
    <3>1. \/ \E status, rs : Reply(c, status, rs)
          \/ Submit(c)
          \/ \E where \in {"resolving", "ready", "building"} : Goto(c, where)
      BY <1>6 DEF Enter, Take, Load, Build, Loaded
    <3>2. pc'[c] \in {"answered", "queued", "resolving", "ready", "building"}
      BY <3>1, Lands
    <3> QED BY <3>2 DEF Detecting
  <2> QED BY <1>1, <1>2, <1>6, <2>1, SnapshotKept DEF Enter, Take, Load, Build
<1>7. CASE BuildFails(c) \/ Look(c) \/ Lock(c) \/ Run(c) \/ Panic(c)
  <2>1. \/ \E e : Fail(c, e)
        \/ Succeed(c)
        \/ Goto(c, "locking") \/ Goto(c, "running")
    BY <1>7 DEF BuildFails, Look, Lock, Run, Panic
  <2>2. pc'[c] \notin Detecting
    <3>1. pc'[c] \in {"done", "answered", "locking", "running"}
      BY <2>1, Lands
    <3> QED BY <3>1 DEF Detecting
  <2> QED BY <1>1, <1>2, <1>7, <2>2, SnapshotKept DEF BuildFails, Look, Lock, Run, Panic
<1>8. CASE Resume(c)
  <2>1. (\E status, rs : Reply(c, status, rs)) \/ Goto(c, "ready")
    BY <1>8, Zenon DEF Resume
  <2>2. pc'[c] \notin Detecting
    <3>1. pc'[c] \in {"answered", "ready"}
      BY <2>1, Lands
    <3> QED BY <3>1 DEF Detecting
  <2> QED BY <1>1, <1>2, <1>8, <2>2, SnapshotKept DEF Resume
<1> QED BY <1>3, <1>4, <1>5, <1>6, <1>7, <1>8 DEF Handle

(***************************************************************************)
(* Types.                                                                  *)
(***************************************************************************)

Types ==
  /\ start \in Starts /\ phase \in {"starting", "serving", "exit 1", "exit 2"}
  /\ tools \subseteq Tools /\ host \in Hosts
  /\ failed \in BOOLEAN /\ raced \in BOOLEAN
  /\ loop \in Calls \cup {NoCall}
  /\ holder \in [Calls -> Calls \cup {NoCall}] /\ poisoned \subseteq Calls

LEMMA TypesStay ==
  ASSUME Shape, Types, NEW c \in Calls, CallInv(c), Backed(c), Handle(c)
  PROVE  Types'
<1> USE DEF srvVars, cacheVars, mutexVars, threadVars, callVars
<1>1. start' = start /\ phase' = phase /\ tools' = tools /\ host' = host
  <2>1. UNCHANGED srvVars
    BY Zenon DEF Handle, Enter, Take, ResolveDevice, Detect, DetectLatent, Publish, Load,
                 Build, BuildFails, Look, Lock, Run, Panic, Resume
  <2> QED BY <2>1
<1>2. failed' \in BOOLEAN
  <2>1. CASE Detect(c) \/ DetectLatent(c)
    <3>1. \E p \in BOOLEAN : failed' = (failed \/ p)
      BY <2>1, Zenon DEF Detect, DetectLatent
    <3> QED BY <3>1, Zenon
  <2>2. CASE ~Detect(c) /\ ~DetectLatent(c)
    <3>1. failed' = failed
      BY <2>2, Zenon DEF Handle, Enter, Take, ResolveDevice, Publish, Load,
                         Build, BuildFails, Look, Lock, Run, Panic, Resume
    <3> QED BY <3>1, Zenon DEF Types
  <2> QED BY <2>1, <2>2
<1>3. raced' \in BOOLEAN
  <2>1. CASE ResolveDevice(c)
    <3>1. raced' = raced \/ raced' = (raced \/ \E d \in Calls : pc[d] \in Detecting)
      BY <2>1, Zenon DEF ResolveDevice
    <3> QED BY <3>1, Zenon DEF Types
  <2>2. CASE ~ResolveDevice(c)
    <3>1. raced' = raced
      BY <2>2, Zenon DEF Handle, Enter, Take, Detect, DetectLatent, Publish, Load,
                         Build, BuildFails, Look, Lock, Run, Panic, Resume
    <3> QED BY <3>1, Zenon DEF Types
  <2> QED BY <2>1, <2>2
<1>4. loop' \in Calls \cup {NoCall}
  <2>1. Keeps(c)
    BY CallFrame DEF CallInv
  <2> QED BY <2>1 DEF Keeps, Types
<1>5. holder' \in [Calls -> Calls \cup {NoCall}]
  <2>1. \/ holder' = holder
        \/ \E x \in Calls \cup {NoCall} : holder' = [holder EXCEPT ![held[c]] = x]
    <3>1. CASE Lock(c) \/ Run(c) \/ Panic(c)
      BY <3>1 DEF Lock, Run, Panic
    <3>2. CASE ~Lock(c) /\ ~Run(c) /\ ~Panic(c)
      BY <3>2, Zenon DEF Handle, Enter, Take, ResolveDevice, Detect, DetectLatent, Publish,
                         Load, Build, BuildFails, Look, Resume
    <3> QED BY <3>1, <3>2
  <2> QED BY <2>1 DEF Types
<1>6. poisoned' \subseteq Calls
  <2>1. CASE Panic(c)
    BY <2>1 DEF Panic, Backed, Types
  <2>2. CASE ~Panic(c)
    <3>1. poisoned' = poisoned
      BY <2>2, Zenon DEF Handle, Enter, Take, ResolveDevice, Detect, DetectLatent, Publish,
                         Load, Build, BuildFails, Look, Lock, Run, Resume
    <3> QED BY <3>1 DEF Types
  <2> QED BY <2>1, <2>2
<1> QED BY <1>1, <1>2, <1>3, <1>4, <1>5, <1>6, Zenon DEF Types

\* What has been detected, and what of a detection is not published yet.
Detected == System(system) /\ \A c \in Calls : System(probed[c]) /\ smi[c] \in Seq(Row)

LEMMA DetectedStays ==
  ASSUME Shape, Types, Detected, NEW c \in Calls, CallInv(c), Handle(c)
  PROVE  Detected'
<1>1. Others(c)
  BY CallFrame DEF CallInv
<1>2. host \in Host /\ <<>> \in Seq(Row) /\ SmiAnswers(host) \subseteq Seq(Row)
  <2>1. host \in Host
    BY HostsAssumption DEF Types
  <2>2. SmiAnswers(host) \subseteq Seq(Row)
    BY <2>1, AnswersListCards
  <2> QED BY <2>1, <2>2
<1>3. System(NoSystem)
  BY DEF System, NoSystem
<1> USE DEF srvVars, cacheVars, mutexVars, threadVars, callVars
<1>4. System(system') /\ System(probed'[c]) /\ smi'[c] \in Seq(Row)
  <2>1. CASE Detect(c)
    <3>1. PICK rows \in ReachableAnswers(host) :
            smi' = [smi EXCEPT ![c] = rows] /\ system' = system /\ probed' = probed
      BY <2>1, Zenon DEF Detect
    <3>2. rows \in Seq(Row)
      BY <1>2 DEF ReachableAnswers
    <3> QED BY <3>1, <3>2 DEF Detected, Shape, OfCalls
  <2>2. CASE DetectLatent(c)
    <3>1. PICK rows \in LatentAnswers(host) :
            /\ probed' = [probed EXCEPT ![c] = SystemDevices(host, smi[c], rows)]
            /\ system' = system /\ smi' = smi
      BY <2>2, Zenon DEF DetectLatent
    <3>2. rows \in Seq(Row)
      BY <1>2 DEF LatentAnswers
    <3>3. System(SystemDevices(host, smi[c], rows))
      BY <1>2, <3>2, DetectionFinds DEF Detected
    <3>4. probed'[c] = SystemDevices(host, smi[c], rows)
      BY <3>1 DEF Shape, OfCalls
    <3> QED BY <3>1, <3>3, <3>4 DEF Detected
  <2>3. CASE Publish(c)
    <3>1. smi'[c] = <<>> /\ probed'[c] = NoSystem /\ system' = probed[c]
      BY <2>3 DEF Publish, Shape, OfCalls
    <3> QED BY <1>2, <1>3, <3>1 DEF Detected
  <2>4. CASE ~Detect(c) /\ ~DetectLatent(c) /\ ~Publish(c)
    <3>1. system' = system /\ probed' = probed /\ smi' = smi
      BY <2>4, Zenon DEF Handle, Enter, Take, ResolveDevice, Load, Build, BuildFails, Look,
                         Lock, Run, Panic, Resume
    <3> QED BY <3>1 DEF Detected
  <2> QED BY <2>1, <2>2, <2>3, <2>4
<1>5. \A d \in Calls \ {c} : probed'[d] = probed[d] /\ smi'[d] = smi[d]
  BY <1>1 DEF Others
<1>6. \A d \in Calls : System(probed'[d]) /\ smi'[d] \in Seq(Row)
  BY <1>4, <1>5 DEF Detected
<1> QED BY <1>4, <1>6 DEF Detected, System

\* A detection in progress has not been told of the second failure, and what has
\* been detected is sound, and whole unless an nvidia-smi call has left out cards.
Reconciled(h, whole, s) ==
  s # NoSystem => Sound(h, s) /\ (whole /\ (h.cuda \/ h.nodes) => Whole(h, s))
Told(c) ==
  /\ smi[c] \in ReachableAnswers(host)
  /\ pc[c] = "detecting latent" /\ ~failed /\ host.cuda => smi[c] = SmiRows(host)
SnapshotsTrue ==
  /\ Reconciled(host, ~failed, system)
  /\ \A c \in Calls : Reconciled(host, ~failed, probed[c]) /\ Told(c)

LEMMA SnapshotsStayTrue ==
  ASSUME Shape, Types, SnapshotsTrue, NEW c \in Calls, CallInv(c), Handle(c)
  PROVE  SnapshotsTrue'
<1>1. Others(c) /\ Keeps(c)
  BY CallFrame DEF CallInv
<1>2. host \in Host /\ host' = host
  BY <1>1, HostsAssumption DEF Types, Keeps
<1> USE DEF srvVars, cacheVars, mutexVars, threadVars, callVars
<1>3. failed => failed'
  <2>1. CASE Detect(c) \/ DetectLatent(c)
    <3>1. \E p \in BOOLEAN : failed' = (failed \/ p)
      BY <2>1, Zenon DEF Detect, DetectLatent
    <3> QED BY <3>1, Zenon
  <2>2. CASE ~Detect(c) /\ ~DetectLatent(c)
    <3>1. failed' = failed
      BY <2>2, Zenon DEF Handle, Enter, Take, ResolveDevice, Publish, Load,
                         Build, BuildFails, Look, Lock, Run, Panic, Resume
    <3> QED BY <3>1, Zenon
  <2> QED BY <2>1, <2>2
<1>4. \A s : Reconciled(host, ~failed, s) => Reconciled(host', ~failed', s)
  BY <1>2, <1>3, Zenon DEF Reconciled
<1>5. /\ Reconciled(host, ~failed, system)
      /\ \A d \in Calls : Reconciled(host, ~failed, probed[d]) /\ Told(d)
  BY DEF SnapshotsTrue
<1>6. Reconciled(host', ~failed', system') /\ Reconciled(host', ~failed', probed'[c]) /\ Told(c)'
  <2>1. CASE Detect(c)
    <3>1. PICK rows \in ReachableAnswers(host) :
            /\ smi' = [smi EXCEPT ![c] = rows] /\ system' = system /\ probed' = probed
            /\ failed' = (failed \/ (host.cuda /\ rows # SmiRows(host)))
      BY <2>1, Zenon DEF Detect
    <3>2. smi'[c] = rows
      BY <3>1 DEF Shape, OfCalls
    <3>3. Told(c)'
      BY <1>2, <3>1, <3>2, Zenon DEF Told
    <3> QED BY <1>4, <1>5, <3>1, <3>3
  <2>2. CASE DetectLatent(c)
    <3>1. PICK rows \in LatentAnswers(host) :
            /\ probed' = [probed EXCEPT ![c] = SystemDevices(host, smi[c], rows)]
            /\ system' = system /\ smi' = smi
            /\ failed' = (failed \/ (host.nodes /\ rows # SmiRows(host)))
      BY <2>2, Zenon DEF DetectLatent
    <3>2. probed'[c] = SystemDevices(host, smi[c], rows)
      BY <3>1 DEF Shape, OfCalls
    <3>3. pc[c] = "detecting latent" /\ pc'[c] = "publishing"
      BY <2>2, Lands DEF DetectLatent
    <3>4. Sound(host, probed'[c])
      BY <1>2, <1>5, <3>2, DetectionTrue DEF Told
    <3>5. ~failed' /\ (host.cuda \/ host.nodes) => Whole(host, probed'[c])
      <4>1. ASSUME ~failed' PROVE /\ host.cuda => smi[c] = SmiRows(host)
                                  /\ host.nodes => rows = SmiRows(host)
        BY <1>5, <3>1, <3>3, <4>1, Zenon DEF Told
      <4> QED BY <1>2, <1>5, <3>2, <4>1, DetectionTrue DEF Told
    <3>6. Reconciled(host', ~failed', probed'[c])
      BY <1>2, <3>4, <3>5, Zenon DEF Reconciled
    <3>7. Told(c)'
      BY <1>2, <1>5, <3>1, <3>3 DEF Told
    <3> QED BY <1>4, <1>5, <3>1, <3>6, <3>7
  <2>3. CASE ~Detect(c) /\ ~DetectLatent(c)
    <3>1. \/ system' = system /\ probed' = probed /\ smi' = smi
          \/ /\ system' = probed[c] /\ probed' = [probed EXCEPT ![c] = NoSystem]
             /\ smi' = [smi EXCEPT ![c] = <<>>]
      BY <2>3, Zenon DEF Handle, Enter, Take, ResolveDevice, Publish, Load, Build, BuildFails,
                         Look, Lock, Run, Panic, Resume
    <3>2. pc'[c] # "detecting latent"
      BY <2>3, DetectionSteps
    <3>3. CASE system' = system /\ probed' = probed /\ smi' = smi
      BY <1>2, <1>4, <1>5, <3>2, <3>3 DEF Told
    <3>4. CASE /\ system' = probed[c] /\ probed' = [probed EXCEPT ![c] = NoSystem]
               /\ smi' = [smi EXCEPT ![c] = <<>>]
      <4>1. probed'[c] = NoSystem /\ smi'[c] = <<>>
        BY <3>4 DEF Shape, OfCalls
      <4>2. <<>> \in ReachableAnswers(host)
        BY <1>2, AnswersListCards DEF ReachableAnswers
      <4>3. Told(c)' /\ Reconciled(host', ~failed', probed'[c])
        BY <1>2, <3>2, <4>1, <4>2 DEF Told, Reconciled
      <4> QED BY <1>4, <1>5, <3>4, <4>3
    <3> QED BY <3>1, <3>3, <3>4
  <2> QED BY <2>1, <2>2, <2>3
<1>7. ASSUME NEW d \in Calls \ {c} PROVE Reconciled(host', ~failed', probed'[d]) /\ Told(d)'
  <2>1. probed'[d] = probed[d] /\ smi'[d] = smi[d] /\ pc'[d] = pc[d]
    BY <1>1 DEF Others
  <2>2. Told(d)'
    BY <1>2, <1>3, <1>5, <2>1, Zenon DEF Told
  <2> QED BY <1>4, <1>5, <2>1, <2>2
<1> QED BY <1>6, <1>7 DEF SnapshotsTrue

\* The pool: who waits is in the queue, and no more run than there are workers.
Pool ==
  /\ queue \in Seq(Calls)
  /\ \A c \in Calls : pc[c] = "queued" => \E n \in DOMAIN queue : queue[n] = c
  /\ IsFiniteSet(busy) /\ busy \subseteq Calls /\ Cardinality(busy) <= Workers

LEMMA QueueSteps ==
  ASSUME Shape, NEW c \in Calls, Handle(c)
  PROVE  \/ Submit(c) /\ busy' = busy
         \/ Take(c)
         \/ /\ queue' = queue /\ pc'[c] # "queued"
            /\ busy' = busy \/ busy' = busy \ {c}
<1> USE DEF srvVars, cacheVars, mutexVars, threadVars, callVars
<1>1. CASE Enter(c) \/ Load(c) \/ Build(c) \/ Resume(c)
  <2>1. busy' = busy
    BY <1>1, Zenon DEF Enter, Load, Build, Resume
  <2>2. \/ Submit(c)
        \/ queue' = queue /\ \E status, rs : Reply(c, status, rs)
        \/ queue' = queue /\ \E where \in {"resolving", "building", "ready"} : Goto(c, where)
    BY <1>1 DEF Enter, Load, Build, Resume, Loaded
  <2> QED BY <2>1, <2>2, Lands
<1>2. CASE ResolveDevice(c)
  <2>1. /\ queue' = queue
        /\ \/ \E e : Fail(c, e)
           \/ busy' = busy /\ \E status, rs : Reply(c, status, rs)
           \/ busy' = busy /\ \E where \in {"detecting", "loading"} : Goto(c, where)
    <3>1. \/ \E e : Fail(c, e)
          \/ busy' = busy /\ Reply(c, "success", <<>>)
          \/ busy' = busy /\ Goto(c, "detecting")
          \/ busy' = busy /\ Goto(c, "loading")
      BY <1>2, Zenon DEF ResolveDevice
    <3>2. queue' = queue
      BY <1>2, Zenon DEF ResolveDevice
    <3> QED BY <3>1, <3>2
  <2>2. busy' = busy \/ busy' = busy \ {c}
    BY <2>1 DEF Fail
  <2> QED BY <2>1, <2>2, Lands
<1>3. CASE Detect(c) \/ DetectLatent(c) \/ Publish(c)
  <2>1. /\ queue' = queue /\ busy' = busy
        /\ \E where \in {"resolving"} \cup Detecting : Goto(c, where)
    BY <1>3 DEF Detect, DetectLatent, Publish, Detecting
  <2> QED BY <2>1, Lands DEF Detecting
<1>4. CASE BuildFails(c) \/ Look(c) \/ Lock(c) \/ Run(c) \/ Panic(c)
  <2>1. /\ queue' = queue
        /\ \/ \E e : Fail(c, e)
           \/ Succeed(c)
           \/ busy' = busy /\ \E where \in {"locking", "running"} : Goto(c, where)
    BY <1>4 DEF BuildFails, Look, Lock, Run, Panic
  <2>2. busy' = busy \/ busy' = busy \ {c}
    BY <2>1 DEF Fail, Succeed
  <2> QED BY <2>1, <2>2, Lands
<1> QED BY <1>1, <1>2, <1>3, <1>4 DEF Handle

LEMMA PoolStays ==
  ASSUME Shape, Pool, NEW c \in Calls, CallInv(c), Handle(c)
  PROVE  Pool'
<1>1. \A d \in Calls \ {c} : pc'[d] = pc[d]
  BY CallFrame DEF CallInv, Others
<1>2. CASE Take(c)
  <2>1. /\ pc[c] = "queued" /\ Head(queue) = c /\ Cardinality(busy) < Workers
        /\ queue' = Tail(queue) /\ busy' = busy \cup {c} /\ pc'[c] # "queued"
    BY <1>2, GotoSteps DEF Take
  <2>2. queue # <<>> /\ Len(queue) \in Nat /\ DOMAIN queue = 1..Len(queue)
    BY <2>1, LenProperties DEF Pool
  <2>3. /\ Tail(queue) \in Seq(Calls) /\ Len(Tail(queue)) = Len(queue) - 1
        /\ \A n \in 1..(Len(queue) - 1) : Tail(queue)[n] = queue[n + 1]
        /\ queue[1] = c
    BY <2>1, <2>2, HeadTailProperties DEF Pool
  <2>4. ASSUME NEW d \in Calls, pc'[d] = "queued"
        PROVE  \E n \in DOMAIN queue' : queue'[n] = d
    <3>1. d # c /\ pc[d] = "queued"
      BY <1>1, <2>1, <2>4
    <3>2. PICK n \in DOMAIN queue : queue[n] = d
      BY <3>1 DEF Pool
    <3>3. n # 1 /\ n \in 1..Len(queue)
      BY <2>2, <2>3, <3>1, <3>2
    <3>4. n - 1 \in 1..(Len(queue) - 1) /\ Tail(queue)[n - 1] = d
      BY <2>2, <2>3, <3>2, <3>3
    <3>5. DOMAIN Tail(queue) = 1..(Len(queue) - 1)
      BY <2>3, LenProperties
    <3> QED BY <2>1, <3>4, <3>5
  <2>5. /\ IsFiniteSet(busy') /\ busy' \subseteq Calls
        /\ Cardinality(busy') <= Workers
    <3>1. Cardinality(busy) \in Nat
      BY FS_CardinalityType DEF Pool
    <3>2. /\ IsFiniteSet(busy \cup {c})
          /\ Cardinality(busy \cup {c}) <= Cardinality(busy) + 1
      <4>1. IsFiniteSet(busy)
        BY DEF Pool
      <4>2. /\ IsFiniteSet(busy \cup {c})
            /\ Cardinality(busy \cup {c})
                 = IF c \in busy THEN Cardinality(busy) ELSE Cardinality(busy) + 1
        BY <4>1, FS_AddElement, Zenon
      <4> QED BY <3>1, <4>2
    <3>3. Cardinality(busy \cup {c}) \in Nat
      BY <3>2, FS_CardinalityType
    <3> QED BY <2>1, <3>1, <3>2, <3>3, WorkersAssumption DEF Pool
  <2> QED BY <2>1, <2>3, <2>4, <2>5 DEF Pool
<1>3. ASSUME busy' = busy \/ busy' = busy \ {c}
      PROVE  IsFiniteSet(busy') /\ busy' \subseteq Calls /\ Cardinality(busy') <= Workers
  <2>1. CASE busy' = busy
    BY <2>1 DEF Pool
  <2>2. CASE busy' = busy \ {c}
    <3>1. /\ IsFiniteSet(busy \ {c}) /\ Cardinality(busy \ {c}) <= Cardinality(busy)
      BY FS_Subset DEF Pool
    <3>2. Cardinality(busy) \in Nat /\ Cardinality(busy \ {c}) \in Nat
      BY <3>1, FS_CardinalityType DEF Pool
    <3> QED BY <2>2, <3>1, <3>2, WorkersAssumption DEF Pool
  <2> QED BY <1>3, <2>1, <2>2
<1>4. CASE Submit(c) /\ busy' = busy
  <2>1. queue' = Append(queue, c) /\ queue \in Seq(Calls)
    BY <1>4 DEF Submit, Pool
  <2>2. /\ queue' \in Seq(Calls) /\ Len(queue') = Len(queue) + 1
        /\ queue'[Len(queue) + 1] = c
        /\ \A n \in 1..Len(queue) : queue'[n] = queue[n]
    BY <2>1, AppendProperties
  <2>3. /\ Len(queue) \in Nat /\ DOMAIN queue = 1..Len(queue)
        /\ DOMAIN queue' = 1..(Len(queue) + 1)
    BY <2>1, <2>2, LenProperties
  <2>4. ASSUME NEW d \in Calls, pc'[d] = "queued"
        PROVE  \E n \in DOMAIN queue' : queue'[n] = d
    <3>1. CASE d = c
      BY <2>2, <2>3, <3>1
    <3>2. CASE d # c
      <4>1. PICK n \in DOMAIN queue : queue[n] = d
        BY <1>1, <2>4, <3>2 DEF Pool
      <4> QED BY <2>2, <2>3, <4>1
    <3> QED BY <3>1, <3>2
  <2> QED BY <1>3, <1>4, <2>2, <2>4 DEF Pool
<1>5. CASE /\ queue' = queue /\ pc'[c] # "queued"
           /\ busy' = busy \/ busy' = busy \ {c}
  <2>1. \A d \in Calls : pc'[d] = "queued" => pc[d] = "queued"
    BY <1>1, <1>5
  <2> QED BY <1>3, <1>5, <2>1 DEF Pool
<1> QED BY <1>2, <1>4, <1>5, QueueSteps

(***************************************************************************)
(* Scores and ranks.                                                       *)
(***************************************************************************)

\* Only a retrieval's handler infers on the loop; the others have it in jobs.
LoopInv(c) ==
  loop = c =>
    \/ pc[c] \in {"resolving", "loading", "building"} \cup Detecting
    \/ pc[c] \in {"ready", "locking", "running"} /\ req[c].tool = "retrieve"

\* A call that ranks its items has some, has scores for them once its inference
\* has succeeded, and replies with its rows.
Judged(c) ==
  req[c].tool \in Scored =>
    /\ \/ pc[c] \notin {"absent", "arrived", "answered"}
       \/ reply[c].status = "success"
       => req[c].items # <<>>
    /\ outcome[c] = "ok" =>
         pc[c] \in {"done", "answered"} /\ scores[c] \in [DOMAIN req[c].items -> Levels]
    /\ reply[c].status = "success" => outcome[c] = "ok" /\ reply[c].rows = RowsOf(c)

Ranks == OfCalls(scores) /\ \A c \in Calls : LoopInv(c) /\ Judged(c)

\* Whoever ends or waits leaves the loop.
LEMMA LeavesLoop ==
  ASSUME NEW c \in Calls,
         \/ \E e : Fail(c, e)
         \/ Succeed(c)
         \/ \E status, rs : Reply(c, status, rs)
         \/ Submit(c)
  PROVE  loop' # c
  BY CallsAssumption DEF Fail, Succeed, Reply, Submit

LEMMA LoopOwn ==
  ASSUME Shape, NEW c \in Calls, LoopInv(c), CallInv(c), Handle(c)
  PROVE  LoopInv(c)'
<1>1. req' = req
  BY CallFrame DEF CallInv, Keeps
<1>2. \/ pc'[c] \in {"resolving", "loading", "building"} \cup Detecting
      \/ pc'[c] \in {"ready", "locking", "running"} /\ req[c].tool = "retrieve"
      \/ loop' # c
  <2> USE DEF srvVars, cacheVars, mutexVars, threadVars, callVars
  <2>1. CASE Enter(c) \/ ResolveDevice(c) \/ Detect(c) \/ DetectLatent(c) \/ Publish(c)
    <3>1. \/ \E e : Fail(c, e)
          \/ \E status, rs : Reply(c, status, rs)
          \/ Submit(c)
          \/ \E where \in {"resolving", "loading"} \cup Detecting : Goto(c, where)
      <4>1. CASE ResolveDevice(c)
        <5>1. \/ \E e : Fail(c, e)
              \/ Reply(c, "success", <<>>)
              \/ Goto(c, "detecting") \/ Goto(c, "loading")
          BY <4>1, Zenon DEF ResolveDevice
        <5> QED BY <5>1 DEF Detecting
      <4>2. CASE ~ResolveDevice(c)
        BY <2>1, <4>2 DEF Enter, Detect, DetectLatent, Publish, Detecting
      <4> QED BY <4>1, <4>2
    <3> QED BY <3>1, LeavesLoop, Lands
  <2>2. CASE Take(c)
    <3>1. pc[c] = "queued" /\ loop' = loop
      BY <2>2 DEF Take
    <3> QED BY <3>1 DEF LoopInv, Detecting
  <2>3. CASE Load(c) \/ Build(c)
    <3>1. Goto(c, "building") \/ Submit(c) \/ (loop # c /\ loop' = loop)
      BY <2>3 DEF Load, Build, Loaded
    <3> QED BY <3>1, LeavesLoop, Lands
  <2>4. CASE BuildFails(c) \/ Look(c) \/ Lock(c) \/ Run(c) \/ Panic(c)
    <3>1. \/ \E e : Fail(c, e)
          \/ Succeed(c)
          \/ /\ pc[c] \in {"ready", "locking"} /\ loop' = loop
             /\ Goto(c, "locking") \/ Goto(c, "running")
      BY <2>4 DEF BuildFails, Look, Lock, Run, Panic
    <3>2. CASE /\ pc[c] \in {"ready", "locking"} /\ loop' = loop
               /\ Goto(c, "locking") \/ Goto(c, "running")
      BY <3>2, Lands DEF LoopInv, Detecting
    <3> QED BY <3>1, <3>2, LeavesLoop
  <2>5. CASE Resume(c)
    <3>1. \/ \E status, rs : Reply(c, status, rs)
          \/ req[c].tool = "retrieve" /\ Goto(c, "ready")
      BY <2>5, Zenon DEF Resume
    <3> QED BY <3>1, LeavesLoop, Lands
  <2> QED BY <2>1, <2>2, <2>3, <2>4, <2>5 DEF Handle
<1> QED BY <1>1, <1>2 DEF LoopInv

\* Where a call that is working on its answer is.
Midway == PcValues \ {"absent", "arrived", "done", "answered"}

\* c's thread has raised e: it replies with a failure, or its handler will.
LEMMA JudgedFails ==
  ASSUME Shape, NEW c \in Calls, CallInv(c), Judged(c), req' = req,
         NEW e, Fail(c, e), e # "ok", pc[c] \in Midway
  PROVE  Judged(c)'
<1>1. Ended(c, e)
  BY FailSteps
<1>2. reply[c].status = "none"
  BY DEF CallInv, Midway
<1>3. /\ outcome'[c] # "ok" /\ pc'[c] \in {"done", "answered"} /\ reply'[c].status # "success"
  BY <1>1, <1>2, EndingStatus DEF Ended, Replied
<1>4. req[c].tool \in Scored => req[c].items # <<>>
  BY DEF Judged, Midway
<1> QED BY <1>3, <1>4 DEF Judged

\* c goes on.
LEMMA JudgedGoesOn ==
  ASSUME NEW c \in Calls, CallInv(c), Judged(c), req' = req,
         pc[c] \in Midway, outcome' = outcome, reply' = reply
  PROVE  Judged(c)'
<1>1. reply[c].status = "none"
  BY DEF CallInv, Midway
<1>2. req[c].tool \in Scored => req[c].items # <<>> /\ outcome[c] # "ok"
  BY DEF Judged, Midway
<1> QED BY <1>1, <1>2 DEF Judged

\* c's inference has succeeded, in its job.
LEMMA JudgedRuns ==
  ASSUME Shape, OfCalls(scores), NEW c \in Calls, CallInv(c), LoopInv(c), Judged(c),
         req' = req, pc[c] \in {"ready", "running"}, Succeed(c),
         req[c].tool \in Scored =>
           scores' = [scores EXCEPT ![c] = scores'[c]] /\ scores'[c] \in Scorings(c)
  PROVE  Judged(c)'
<1> SUFFICES ASSUME req[c].tool \in Scored PROVE Judged(c)'
  BY DEF Judged
<1>1. loop # c
  BY DEF LoopInv, Scored, Detecting
<1>2. pc'[c] = "done" /\ reply'[c] = reply[c]
  BY <1>1, SucceedSteps DEF Succeeded
<1>3. reply[c].status = "none" /\ req[c].items # <<>>
  BY DEF CallInv, Judged
<1>4. scores'[c] \in [DOMAIN req[c].items -> Levels]
  BY DEF Scorings
<1> QED BY <1>2, <1>3, <1>4 DEF Judged

LEMMA JudgedOwn ==
  ASSUME Shape, OfCalls(scores), NEW c \in Calls, CallInv(c), LoopInv(c), Judged(c), Handle(c)
  PROVE  Judged(c)'
<1>1. req' = req
  BY CallFrame DEF CallInv, Keeps
<1> SUFFICES ASSUME req[c].tool \in Scored PROVE Judged(c)'
  BY <1>1 DEF Judged
<1> USE DEF srvVars, cacheVars, mutexVars, threadVars, callVars
<1>2. req[c].tool \notin {"info", "embed", "retrieve"}
  BY DEF Scored
<1>3. CASE Enter(c)
  <2>1. pc[c] = "arrived" /\ outcome' = outcome
    BY <1>3 DEF Enter
  <2>2. outcome[c] = "none" /\ reply[c].status = "none"
    BY <2>1 DEF CallInv
  <2>3. CASE \E status \in {"refused", "raised"} : Reply(c, status, <<>>)
    <3>1. pc'[c] = "answered" /\ reply'[c].status # "success"
      BY <2>3, ReplySteps DEF Replied
    <3> QED BY <2>1, <2>2, <3>1 DEF Judged
  <2>4. CASE ~Refused(req[c]) /\ reply' = reply
    <3>1. req[c].items # <<>>
      BY <1>2, <2>4 DEF Refused
    <3> QED BY <1>1, <2>1, <2>2, <2>4, <3>1 DEF Judged
  <2> QED BY <1>3, <2>3, <2>4 DEF Enter
<1>4. CASE Take(c) \/ Detect(c) \/ DetectLatent(c) \/ Publish(c) \/ Load(c) \/ Build(c)
  <2>1. pc[c] \in Midway /\ outcome' = outcome /\ reply' = reply
    BY <1>4 DEF Take, Detect, DetectLatent, Publish, Load, Build, Midway, PcValues, Detecting
  <2> QED BY <1>1, <2>1, JudgedGoesOn
<1>5. CASE ResolveDevice(c)
  <2> DEFINE r == Resolve(req[c].device, system)
  <2>1. pc[c] = "resolving"
    BY <1>5, Zenon DEF ResolveDevice
  <2>2. \/ r.error # "none" /\ Fail(c, r.error)
        \/ outcome' = outcome /\ reply' = reply
    BY <1>2, <1>5, Zenon DEF ResolveDevice
  <2>3. r.error \in DeviceErrors \cup {"none"}
    BY ResolveErrors
  <2> HIDE DEF r
  <2>4. pc[c] \in Midway /\ r.error # "ok"
    BY <2>1, <2>3 DEF Midway, PcValues, DeviceErrors
  <2> QED BY <1>1, <2>2, <2>4, JudgedFails, JudgedGoesOn
<1>6. CASE BuildFails(c)
  <2>1. pc[c] \in Midway
    BY <1>6 DEF BuildFails, Midway, PcValues
  <2>2. PICK e \in LoadErrors : Fail(c, LoadRaises(e))
    BY <1>6 DEF BuildFails
  <2>3. LoadRaises(e) # "ok"
    BY LoadRaisesPackageErrors DEF PackageErrors
  <2> QED BY <1>1, <2>1, <2>2, <2>3, JudgedFails
<1>7. CASE Look(c) \/ Lock(c) \/ Panic(c)
  <2>1. pc[c] \in Midway
    BY <1>7 DEF Look, Lock, Panic, Midway, PcValues
  <2>2. FamilyOf(req[c].tool) # "embedding"
    BY <1>2 DEF FamilyOf
  <2>3. \/ \E e \in {"ValueError", "Poisoned", "panic"} : Fail(c, e)
        \/ outcome' = outcome /\ reply' = reply
    BY <1>7, <2>2 DEF Look, Lock, Panic
  <2> QED BY <1>1, <2>1, <2>3, JudgedFails, JudgedGoesOn
<1>8. CASE Run(c)
  <2>1. pc[c] = "running" /\ pc[c] \in Midway
    BY <1>8 DEF Run, Midway, PcValues
  <2>2. CASE Fail(c, "Inference")
    BY <1>1, <2>1, <2>2, JudgedFails
  <2>3. CASE \E s \in Scorings(c) : scores' = [scores EXCEPT ![c] = s] /\ Succeed(c)
    <3>1. PICK s \in Scorings(c) : scores' = [scores EXCEPT ![c] = s] /\ Succeed(c)
      BY <2>3
    <3>2. scores'[c] = s
      BY <3>1 DEF OfCalls
    <3> QED BY <1>1, <2>1, <3>1, <3>2, JudgedRuns
  <2> QED BY <1>8, <2>2, <2>3 DEF Run
<1>9. CASE Resume(c)
  <2>1. pc[c] = "done" /\ outcome' = outcome /\ scores' = scores
    BY <1>9 DEF Resume
  <2>2. req[c].items # <<>>
    BY <2>1 DEF Judged
  <2>3. RowsOf(c)' = RowsOf(c)
    BY <1>1, <2>1 DEF RowsOf
  <2>4. CASE outcome[c] # "ok"
    <3>1. Reply(c, Ending(req[c].tool, outcome[c]), <<>>)
      BY <1>9, <2>4 DEF Resume
    <3>2. reply'[c].status # "success" /\ pc'[c] = "answered"
      BY <3>1, ReplySteps, EndingStatus DEF Replied
    <3> QED BY <2>1, <2>4, <3>2 DEF Judged
  <2>5. CASE outcome[c] = "ok"
    <3>1. Reply(c, "success", RowsOf(c))
      BY <1>2, <1>9, <2>5 DEF Resume
    <3>2. reply'[c] = [status |-> "success", rows |-> RowsOf(c)] /\ pc'[c] = "answered"
      BY <3>1 DEF Reply, Goto, Shape, OfCalls
    <3>3. scores[c] \in [DOMAIN req[c].items -> Levels]
      BY <2>5 DEF Judged
    <3>4. reply'[c].status = "success" /\ reply'[c].rows = RowsOf(c)
      BY <3>2
    <3> QED BY <1>1, <2>1, <2>2, <2>3, <2>5, <3>2, <3>3, <3>4 DEF Judged
  <2> QED BY <2>4, <2>5
<1> QED BY <1>3, <1>4, <1>5, <1>6, <1>7, <1>8, <1>9 DEF Handle

LEMMA RanksStay ==
  ASSUME Shape, Ranks, NEW c \in Calls, CallInv(c), Handle(c)
  PROVE  Ranks'
<1>1. Others(c) /\ Keeps(c)
  BY CallFrame DEF CallInv
<1>2. OfCalls(scores) /\ \A d \in Calls : LoopInv(d) /\ Judged(d)
  BY DEF Ranks
<1>3. Alike(c, scores, scores')
  <2>1. scores' = scores \/ \E x : scores' = [scores EXCEPT ![c] = x]
    <3> USE DEF srvVars, cacheVars, mutexVars, threadVars, callVars
    <3>1. CASE Run(c)
      BY <3>1 DEF Run
    <3>2. CASE ~Run(c)
      BY <3>2, Zenon DEF Handle, Enter, Take, ResolveDevice, Detect, DetectLatent, Publish,
                         Load, Build, BuildFails, Look, Lock, Panic, Resume
    <3> QED BY <3>1, <3>2
  <2> QED BY <1>2, <2>1, AlikeUpdate
<1>4. LoopInv(c)' /\ Judged(c)'
  BY <1>2, LoopOwn, JudgedOwn
<1>5. ASSUME NEW d \in Calls \ {c} PROVE LoopInv(d)' /\ Judged(d)'
  <2>1. /\ pc'[d] = pc[d] /\ req'[d] = req[d] /\ outcome'[d] = outcome[d]
        /\ reply'[d] = reply[d] /\ scores'[d] = scores[d]
    BY <1>1, <1>3 DEF Others, Alike
  <2>2. loop' = d => loop = d
    BY <1>1, CallsAssumption DEF Keeps
  <2>3. RowsOf(d)' = RowsOf(d)
    BY <2>1 DEF RowsOf
  <2> QED BY <1>2, <2>1, <2>2, <2>3 DEF LoopInv, Judged
<1> QED BY <1>3, <1>4, <1>5 DEF Ranks, Alike, OfCalls

\* What a tool that ranks replies is the best, in order.
LEMMA RanksKeepBest == Ranks /\ (\A c \in Calls : CallInv(c)) => BestKept
<1> SUFFICES ASSUME Ranks, NEW c \in Calls, CallInv(c),
                    reply[c].status = "success", req[c].tool \in Scored
             PROVE  LET rows == reply[c].rows
                        s == scores[c]
                    IN  /\ \A a \in DOMAIN rows, n \in DOMAIN s :
                             (\A b \in 1..a : rows[b] # n) => s[n] <= s[rows[a]]
                        /\ Len(rows) = IF req[c].tool = "rerank" THEN Kept(req[c], Len(s)) ELSE 1
  BY DEF BestKept
<1> DEFINE rows == reply[c].rows
           s == scores[c]
           n == Len(req[c].items)
<1>1. /\ req[c].items # <<>> /\ rows = RowsOf(c) /\ s \in [DOMAIN req[c].items -> Levels]
  BY DEF Ranks, Judged
<1>2. req[c] \in Request
  <2>1. req[c] # NoRequest
    BY DEF NoRequest, Scored
  <2> QED BY <2>1, AsksAssumption DEF CallInv
<1>3. req[c].items \in Seq(Items) /\ req[c].number \in Seq(Int)
  BY <1>2 DEF Request
<1>4. n \in Nat \ {0} /\ s \in [1..n -> Int]
  BY <1>1, <1>3, LenProperties, EmptySeq, LevelsAssumption
<1>5. Len(s) = n /\ DOMAIN s = 1..n
  <2>1. s = [i \in 1..n |-> s[i]]
    BY <1>4
  <2> HIDE DEF s, n
  <2>2. Len([i \in 1..n |-> s[i]]) = n
    BY <1>4
  <2> QED BY <1>4, <2>1, <2>2
<1> HIDE DEF s, n
<1>6. CASE req[c].tool = "rerank"
  <2> DEFINE k == Kept(req[c], n)
             top == SubSeq(BestFirst(s), 1, k)
  <2>1. k \in 0..n
    BY <1>3, <1>4, KeptBounds
  <2>2. rows = top
    BY <1>1, <1>5, <1>6 DEF RowsOf, Ranked, s
  <2> HIDE DEF k, rows
  <2>3. BestRows(rows, s, k)
    <3>1. n \in Nat /\ s \in [1..n -> Int]
      BY <1>4
    <3> QED BY <2>1, <2>2, <3>1, RankedBest
  <2> QED BY <1>5, <1>6, <2>3 DEF BestRows, k, rows, s
<1>7. CASE req[c].tool # "rerank"
  <2>1. req[c].tool = "nli-classify"
    BY <1>7 DEF Scored
  <2>2. rows = <<BestFirst(s)[1]>>
    BY <1>1, <2>1 DEF RowsOf, ArgMax, s
  <2> HIDE DEF rows
  <2>3. Len(rows) = 1 /\ DOMAIN rows = 1..1 /\ rows[1] = BestFirst(s)[1]
    BY <2>2
  <2>4. \A m \in 1..n : m # rows[1] => s[m] <= s[rows[1]]
    <3> DEFINE one == SubSeq(BestFirst(s), 1, 1)
    <3>1. BestRows(one, s, 1)
      <4>1. n \in Nat /\ 1 \in 0..n /\ s \in [1..n -> Int]
        BY <1>4
      <4> QED BY <4>1, RankedBest
    <3> HIDE DEF one
    <3> QED BY <1>5, <2>3, <3>1 DEF BestRows
  <2> QED BY <1>5, <1>7, <2>3, <2>4 DEF rows, s
<1> QED BY <1>6, <1>7

(***************************************************************************)
(* The invariant.                                                          *)
(***************************************************************************)

\* What holds of every call, of what the calls share, and of the types.
IInv ==
  /\ Shape /\ LoadedInv /\ (\A c \in Calls : CallInv(c) /\ Backed(c))
  /\ Culprits /\ Probed /\ Snapshot
  /\ Types /\ Detected /\ SnapshotsTrue /\ Pool /\ Ranks

LEMMA IInvInit == Init => IInv
<1> SUFFICES ASSUME Init PROVE IInv
  OBVIOUS
<1>1. Shape
  BY DEF Init, Shape, OfCalls
<1>2. LoadedInv /\ Culprits
  BY DEF Init, LoadedInv, Culprits
<1>3. \A c \in Calls : CallInv(c) /\ Backed(c)
  BY DEF Init, CallInv, Backed, PcValues, Outcomes, Statuses, NoReply, InfoHolds, NoRequest
<1>4. Probed
  BY DEF Init, Probed
<1>5. Snapshot
  <2>1. OneDetects /\ Settled /\ \A c \in Calls : FoundIn(c)
    BY DEF Init, OneDetects, Settled, FoundIn, Detecting
  <2> QED BY <2>1, Zenon DEF Snapshot
<1>6. Types
  <2>1. failed \in BOOLEAN /\ raced \in BOOLEAN
    BY Zenon DEF Init
  <2>2. start \in Starts /\ phase = "starting" /\ tools = {} /\ host \in Hosts
        /\ loop = NoCall /\ holder = [b \in Calls |-> NoCall] /\ poisoned = {}
    BY Zenon DEF Init
  <2> QED BY <2>1, <2>2 DEF Types
<1>7. Detected
  <2>1. System(NoSystem) /\ <<>> \in Seq(Row)
    BY DEF System, NoSystem
  <2>2. system = NoSystem /\ \A c \in Calls : probed[c] = NoSystem /\ smi[c] = <<>>
    BY DEF Init
  <2> QED BY <2>1, <2>2 DEF Detected
<1>8. Pool
  <2>1. queue = <<>> /\ busy = {} /\ \A c \in Calls : pc[c] = "absent"
    BY DEF Init
  <2>2. IsFiniteSet(busy) /\ Cardinality(busy) = 0
    BY <2>1, FS_EmptySet
  <2> QED BY <2>1, <2>2, WorkersAssumption DEF Pool
<1>9. SnapshotsTrue
  <2>1. /\ system = NoSystem
        /\ \A c \in Calls : probed[c] = NoSystem /\ smi[c] = <<>> /\ pc[c] = "absent"
    BY DEF Init
  <2>2. <<>> \in ReachableAnswers(host)
    BY HostsAssumption, AnswersListCards DEF Init, ReachableAnswers
  <2> QED BY <2>1, <2>2 DEF SnapshotsTrue, Reconciled, Told
<1>10. Ranks
  <2>1. OfCalls(scores) /\ loop = NoCall /\ \A c \in Calls : req[c].tool = "none"
    BY DEF Init, OfCalls, NoRequest
  <2> QED BY <2>1, CallsAssumption DEF Ranks, LoopInv, Judged, Scored
<1> QED BY <1>1, <1>2, <1>3, <1>4, <1>5, <1>6, <1>7, <1>8, <1>9, <1>10 DEF IInv

\* A step of a call's handler or of its job.
LEMMA IInvHandle ==
  ASSUME IInv, NEW c \in Calls, Handle(c)
  PROVE  IInv'
<1>1. /\ Shape /\ LoadedInv /\ CallInv(c) /\ Backed(c)
      /\ Culprits /\ Probed /\ Snapshot /\ Types /\ Detected /\ SnapshotsTrue /\ Pool /\ Ranks
      /\ \A d \in Calls : CallInv(d) /\ Backed(d)
  BY DEF IInv
<1>2. Shape' /\ Others(c) /\ Keeps(c)
  BY <1>1, CallFrame DEF CallInv
<1>3. LoadedInv'
  <2> USE DEF srvVars, cacheVars, mutexVars, threadVars, callVars
  <2>1. CASE Build(c)
    <3>1. \/ loaded' = loaded
          \/ \E x : loaded' = loaded \cup
               {[family |-> FamilyOf(req[c].tool), device |-> x, backend |-> c]}
      BY <2>1 DEF Build
    <3> QED BY <1>1, <3>1 DEF LoadedInv
  <2>2. CASE ~Build(c)
    <3>1. loaded' = loaded
      BY <2>2, Zenon DEF Handle, Enter, Take, ResolveDevice, Detect, DetectLatent, Publish,
                         Load, BuildFails, Look, Lock, Run, Panic, Resume
    <3> QED BY <1>1, <3>1 DEF LoadedInv
  <2> QED BY <2>1, <2>2
<1>4. CallInv(c)' /\ Backed(c)'
  BY <1>1, CallOwn, BackedOwn
<1>5. ASSUME NEW d \in Calls \ {c} PROVE CallInv(d)' /\ Backed(d)'
  <2>1. CallInv(d)'
    BY <1>1, <1>2, CallOthers
  <2>2. Backed(d)'
    BY <1>1, <1>2 DEF Backed, Others
  <2> QED BY <2>1, <2>2
<1>6. \A d \in Calls : (CallInv(d) /\ Backed(d))'
  BY <1>4, <1>5
<1>7. Culprits' /\ Probed' /\ Snapshot'
  BY <1>1, CulpritsStay, ProbedStays, SnapshotStays
<1>8. Types' /\ Detected' /\ Pool'
  BY <1>1, TypesStay, DetectedStays, PoolStays
<1>9. SnapshotsTrue' /\ Ranks'
  BY <1>1, SnapshotsStayTrue, RanksStay
<1> QED BY <1>2, <1>3, <1>6, <1>7, <1>8, <1>9 DEF IInv

\* A call comes in.
LEMMA IInvArrive ==
  ASSUME IInv, NEW c \in Calls, Arrive(c)
  PROVE  IInv'
<1> USE DEF srvVars, cacheVars, mutexVars, threadVars, callVars
<1>1. /\ pc[c] = "absent" /\ pc' = [pc EXCEPT ![c] = "arrived"]
      /\ \E q \in Asks[c] : req' = [req EXCEPT ![c] = q]
  BY DEF Arrive, Goto
<1>2. /\ UNCHANGED <<start, phase, tools, host, system, loaded, holder, poisoned>>
      /\ UNCHANGED <<loop, queue, busy, smi, probed, found, held, outcome, scores, reply>>
      /\ failed' = failed /\ raced' = raced
  BY Zenon DEF Arrive
<1>3. Shape' /\ Shape
  BY <1>1, <1>2 DEF IInv, Shape, OfCalls
<1>4. /\ pc'[c] = "arrived" /\ req'[c] \in Asks[c]
      /\ \A d \in Calls \ {c} : pc'[d] = pc[d] /\ req'[d] = req[d]
  BY <1>1, <1>3 DEF Shape, OfCalls
<1>5. LoadedInv' /\ Culprits'
  BY <1>2 DEF IInv, LoadedInv, Culprits
<1>6. CallInv(c)' /\ Backed(c)'
  <2>1. CallInv(c) /\ Backed(c)
    BY DEF IInv
  <2>2. found[c] = NotResolved /\ outcome[c] = "none" /\ reply[c].status = "none"
    BY <1>1, <2>1 DEF CallInv
  <2>3. InfoHolds(c)'
    BY <1>4 DEF InfoHolds, Detecting
  <2> QED BY <1>2, <1>4, <2>1, <2>2, <2>3 DEF CallInv, Backed, PcValues
<1>7. ASSUME NEW d \in Calls \ {c} PROVE CallInv(d)' /\ Backed(d)'
  BY <1>2, <1>4, <1>7 DEF IInv, CallInv, Backed, InfoHolds, Reasons, Admitted
<1>8. \A d \in Calls : (CallInv(d) /\ Backed(d))'
  BY <1>6, <1>7
<1>9. Probed'
  BY <1>2, <1>4 DEF IInv, Probed
<1>10. Snapshot'
  <2> SUFFICES ASSUME ~raced'
               PROVE  (OneDetects /\ Settled /\ \A d \in Calls : FoundIn(d))'
    BY Zenon DEF Snapshot
  <2>1. OneDetects /\ Settled /\ \A d \in Calls : FoundIn(d)
    BY <1>2, Zenon DEF IInv, Snapshot
  <2>2. \A d \in Calls : pc'[d] \in Detecting => pc[d] \in Detecting
    BY <1>4 DEF Detecting
  <2>3. found[c] = NotResolved
    BY <1>1 DEF IInv, CallInv
  <2>4. OneDetects' /\ Settled'
    BY <1>2, <2>1, <2>2 DEF OneDetects, Settled
  <2>5. \A d \in Calls : FoundIn(d)'
    BY <1>2, <1>4, <2>1, <2>3 DEF FoundIn
  <2> QED BY <2>4, <2>5
<1>11. Types'
  BY <1>2, Zenon DEF IInv, Types
<1>12. Detected'
  BY <1>2 DEF IInv, Detected, System
<1>13. Pool'
  BY <1>2, <1>4 DEF IInv, Pool
<1>14. SnapshotsTrue'
  <2>1. \A d \in Calls : pc'[d] = "detecting latent" => pc[d] = "detecting latent"
    BY <1>4
  <2>2. \A d \in Calls : Told(d)'
    BY <1>2, <2>1, Zenon DEF IInv, SnapshotsTrue, Told
  <2> QED BY <1>2, <2>2, Zenon DEF IInv, SnapshotsTrue
<1>15. Ranks'
  <2>1. OfCalls(scores)'
    BY <1>2 DEF IInv, Ranks, OfCalls
  <2>2. outcome[c] = "none" /\ reply[c].status = "none"
    BY <1>1 DEF IInv, CallInv
  <2>3. LoopInv(c)' /\ Judged(c)'
    BY <1>1, <1>2, <1>4, <2>2 DEF IInv, Ranks, LoopInv, Judged, Detecting
  <2>4. ASSUME NEW d \in Calls \ {c} PROVE LoopInv(d)' /\ Judged(d)'
    <3>1. RowsOf(d)' = RowsOf(d)
      BY <1>2, <1>4 DEF RowsOf
    <3> QED BY <1>2, <1>4, <3>1 DEF IInv, Ranks, LoopInv, Judged
  <2> QED BY <2>1, <2>3, <2>4 DEF Ranks
<1> QED BY <1>3, <1>5, <1>8, <1>9, <1>10, <1>11, <1>12, <1>13, <1>14, <1>15 DEF IInv

\* The server starts or exits, or nothing happens.
LEMMA IInvServer ==
  ASSUME IInv, Serve \/ UNCHANGED vars
  PROVE  IInv'
<1> USE DEF srvVars, cacheVars, mutexVars, threadVars, callVars
<1>1. /\ UNCHANGED <<start, host, system, loaded, holder, poisoned, pc, req, scores>>
      /\ UNCHANGED <<loop, queue, busy, smi, probed, found, held, outcome, reply>>
      /\ failed' = failed /\ raced' = raced
  BY Zenon DEF Serve, vars
<1>2. phase' \in {"starting", "serving", "exit 1", "exit 2"} /\ tools' \subseteq Tools
  <2>1. CASE UNCHANGED vars
    BY <2>1 DEF vars, IInv, Types
  <2>2. CASE Serve
    BY <2>2 DEF Serve
  <2> QED BY <2>1, <2>2
<1>3. Shape' /\ LoadedInv' /\ Culprits' /\ Probed'
  BY <1>1 DEF IInv, Shape, OfCalls, LoadedInv, Culprits, Probed
<1>4. ASSUME NEW c \in Calls PROVE CallInv(c)' /\ Backed(c)'
  BY <1>1 DEF IInv, CallInv, Backed, InfoHolds, Reasons, Admitted
<1>5. Snapshot'
  <2>1. (OneDetects <=> OneDetects') /\ (Settled <=> Settled')
        /\ \A c \in Calls : FoundIn(c) <=> FoundIn(c)'
    BY <1>1 DEF OneDetects, Settled, FoundIn
  <2> QED BY <1>1, <2>1, Zenon DEF IInv, Snapshot
<1>6. Types'
  BY <1>1, <1>2, Zenon DEF IInv, Types
<1>7. Detected' /\ Pool'
  BY <1>1 DEF IInv, Detected, System, Pool
<1>8. SnapshotsTrue'
  BY <1>1, Zenon DEF IInv, SnapshotsTrue, Told
<1>9. Ranks'
  <2>1. \A c \in Calls : RowsOf(c)' = RowsOf(c)
    BY <1>1 DEF RowsOf
  <2> QED BY <1>1, <2>1 DEF IInv, Ranks, OfCalls, LoopInv, Judged
<1> QED BY <1>3, <1>4, <1>5, <1>6, <1>7, <1>8, <1>9 DEF IInv

\* The inductive invariant holds in every behaviour.
THEOREM IInvAlways == Spec => []IInv
<1>1. Init => IInv
  BY IInvInit
<1>2. IInv /\ [Next]_vars => IInv'
  <2> SUFFICES ASSUME IInv, [Next]_vars PROVE IInv'
    OBVIOUS
  <2>1. CASE Serve \/ UNCHANGED vars
    BY <2>1, IInvServer
  <2>2. CASE \E c \in Calls : Arrive(c) \/ Handle(c)
    BY <2>2, IInvArrive, IInvHandle
  <2> QED BY <2>1, <2>2, Zenon DEF Next
<1> QED BY <1>1, <1>2, PTL DEF Spec

(***************************************************************************)
(* Theorems.                                                               *)
(***************************************************************************)

\* The types of the server; the pool runs no more jobs than it has threads.
THEOREM TypeCorrect == Spec => []TypeOK
<1>1. IInv => TypeOK
  <2> SUFFICES ASSUME IInv PROVE TypeOK
    OBVIOUS
  <2>1. /\ start \in Starts /\ phase \in {"starting", "serving", "exit 1", "exit 2"}
        /\ tools \subseteq Tools /\ host \in Hosts
        /\ loop \in Calls \cup {NoCall}
        /\ holder \in [Calls -> Calls \cup {NoCall}] /\ poisoned \subseteq Calls
    BY Zenon DEF IInv, Types
  <2>2. failed \in BOOLEAN /\ raced \in BOOLEAN
    BY Zenon DEF IInv, Types
  <2>3. system.latent \in Seq(Kinds) /\ system.providers \subseteq {"CPU", "CUDA", "OpenVINO"}
    BY DEF IInv, Detected, System
  <2>4. queue \in Seq(Calls) /\ busy \subseteq Calls /\ Cardinality(busy) <= Workers
    BY DEF IInv, Pool
  <2>5. \A e \in loaded : e.backend \in Calls
    BY DEF IInv, LoadedInv
  <2>6. /\ pc \in [Calls -> PcValues] /\ held \in [Calls -> Calls \cup {NoCall}]
        /\ outcome \in [Calls -> Outcomes]
    BY DEF IInv, Shape, OfCalls, CallInv
  <2>7. /\ \A c \in Calls : req[c] \in Asks[c] \cup {NoRequest}
        /\ \A c \in Calls : reply[c].status \in Statuses
    BY DEF IInv, CallInv
  <2> QED BY <2>1, <2>2, <2>3, <2>4, <2>5, <2>6, <2>7, Zenon DEF TypeOK
<1> QED BY <1>1, IInvAlways, PTL

\* A number that is none, a panic and InfoTool's device reach the client of a
\* tool as an exception, and nothing else does.
THEOREM RaisedExactlyForAlways == Spec => []RaisedExactlyFor
<1>1. IInv => RaisedExactlyFor
  BY Zenon DEF IInv, CallInv, Reasons, RaisedExactlyFor
<1> QED BY <1>1, IInvAlways, PTL

\* Unless two first calls have detected the devices at once, calls that ask for
\* the same device get the same.
THEOREM AgreeUnlessRacedAlways == Spec => []AgreeUnlessRaced
<1>1. IInv => AgreeUnlessRaced
  <2> SUFFICES ASSUME IInv, ~raced, NEW c \in Calls, NEW d \in Calls,
                      req[c].device = req[d].device,
                      NotResolved \notin {found[c], found[d]}
               PROVE  found[c] = found[d]
    BY Zenon DEF AgreeUnlessRaced
  <2>1. FoundIn(c) /\ FoundIn(d)
    BY Zenon DEF IInv, Snapshot
  <2> QED BY <2>1 DEF FoundIn
<1> QED BY <1>1, IInvAlways, PTL

\* A call that meets a poisoned mutex meets that of a backend on which another
\* call's inference has panicked.
THEOREM PoisonContainedAlways == Spec => []PoisonContained
<1>1. IInv => PoisonContained
  BY DEF IInv, CallInv, Culprits, PoisonContained
<1> QED BY <1>1, IInvAlways, PTL

\* What get_system_devices keeps is sound, and whole unless an nvidia-smi call
\* has left out a card, for any cards and however many calls detect at once.
THEOREM DevicesTrueAlways == Spec => []DevicesTrue
<1>1. IInv => DevicesTrue
  BY Zenon DEF IInv, SnapshotsTrue, Reconciled, Sound, Whole, CardsIn, DevicesTrue
<1> QED BY <1>1, IInvAlways, PTL

\* The rows of a reranking are its best candidates, best first, and as many as
\* top_k says; the label of a classification is one that none outscored.
THEOREM BestKeptAlways == Spec => []BestKept
<1>1. IInv => BestKept
  BY RanksKeepBest DEF IInv
<1> QED BY <1>1, IInvAlways, PTL

(***************************************************************************)
(* Progress: the calls wait for each other in no circle, and each has only *)
(* so many steps.  EveryCallAnswered follows from these by the fairness of *)
(* the specification; that step is TLC's.                                  *)
(***************************************************************************)


\* Where a call has the loop or a worker; where it waits for neither nor for
\* its turn.
Occupied == PcValues \ {"absent", "arrived", "queued", "done", "answered"}

\* The handler of c is over.
Answers(c) ==
  /\ pc'[c] = "answered" /\ loop' = NoCall /\ UNCHANGED <<queue, busy>>
  /\ loop = c \/ (loop = NoCall /\ pc[c] \in {"arrived", "done"})

\* Its job is over.
JobEnds(c) ==
  /\ pc[c] \in Occupied /\ loop # c /\ pc'[c] = "done"
  /\ UNCHANGED <<loop, queue>> /\ busy' = busy \ {c}

\* It leaves the loop to wait for a worker.
JobGiven(c) ==
  /\ pc'[c] = "queued" /\ loop' = NoCall
  /\ queue' = Append(queue, c) /\ busy' = busy
  /\ \/ pc[c] = "arrived" /\ loop = NoCall
     \/ pc[c] \in {"loading", "building"} /\ loop = c /\ held'[c] # NoCall

\* A worker takes its job.
JobTaken(c) ==
  /\ pc[c] = "queued" /\ Head(queue) = c
  /\ queue' = Tail(queue) /\ busy' = busy \cup {c} /\ loop' = loop
  /\ pc'[c] = IF held[c] = NoCall THEN "resolving" ELSE "ready"

\* It takes the loop, for the first or the second time.
LoopTaken(c) ==
  /\ loop = NoCall /\ loop' = c /\ UNCHANGED <<queue, busy>>
  /\ \/ pc[c] = "arrived" /\ pc'[c] = "resolving"
     \/ pc[c] = "done" /\ outcome[c] = "ok" /\ pc'[c] = "ready"

\* It goes on with what it has.
WorksOn(c) ==
  /\ UNCHANGED <<loop, queue, busy>>
  /\ \/ /\ pc[c] = "resolving"
        /\ pc'[c] = IF system = NoSystem THEN "detecting" ELSE "loading"
     \/ pc[c] = "detecting" /\ pc'[c] = "detecting latent"
     \/ pc[c] = "detecting latent" /\ pc'[c] = "publishing"
     \/ pc[c] = "publishing" /\ pc'[c] = "resolving" /\ system' # NoSystem
     \/ pc[c] = "loading" /\ pc'[c] = "building"
     \/ pc[c] \in {"loading", "building"} /\ loop # c /\ pc'[c] = "ready"
     \/ pc[c] = "ready" /\ pc'[c] = "locking"
     \/ pc[c] = "locking" /\ pc'[c] = "running"

Moves(c) ==
  \/ Answers(c) \/ JobEnds(c)
  \/ /\ JobGiven(c) \/ JobTaken(c) \/ LoopTaken(c) \/ WorksOn(c)
     /\ outcome'[c] = outcome[c]

\* Every step of a call is one of these.
LEMMA CallMoves ==
  ASSUME Shape, LoadedInv, Probed, NEW c \in Calls, CallInv(c), Handle(c)
  PROVE  Moves(c)
<1> USE DEF srvVars, cacheVars, mutexVars, threadVars, callVars
<1>1. ASSUME pc[c] \in Occupied, queue' = queue, \E e : Fail(c, e)
      PROVE  Answers(c) \/ JobEnds(c)
  <2>1. PICK e : Ended(c, e)
    BY <1>1, FailSteps
  <2> QED BY <1>1, <2>1 DEF Ended, Replied, Answers, JobEnds
<1>2. ASSUME pc[c] \in Occupied, queue' = queue, Succeed(c)
      PROVE  Answers(c) \/ JobEnds(c)
  <2>1. Succeeded(c)
    BY <1>2, SucceedSteps
  <2> QED BY <1>2, <2>1 DEF Succeeded, Replied, Answers, JobEnds
<1>3. \A status, rs : Reply(c, status, rs) => pc'[c] = "answered" /\ loop' = NoCall
  BY ReplySteps DEF Replied
<1>4. CASE Enter(c)
  <2>1. /\ pc[c] = "arrived" /\ loop = NoCall /\ busy' = busy /\ outcome' = outcome
        /\ \/ queue' = queue /\ \E status : Reply(c, status, <<>>)
           \/ Submit(c)
           \/ queue' = queue /\ loop' = c /\ Goto(c, "resolving")
    BY <1>4 DEF Enter
  <2> QED BY <1>3, <2>1, Lands DEF Moves, Answers, JobGiven, LoopTaken, Submit
<1>5. CASE Take(c)
  <2>1. /\ pc[c] = "queued" /\ Head(queue) = c
        /\ queue' = Tail(queue) /\ busy' = busy \cup {c} /\ loop' = loop
        /\ Goto(c, IF held[c] = NoCall THEN "resolving" ELSE "ready")
        /\ outcome' = outcome
    BY <1>5 DEF Take
  <2> QED BY <2>1, Lands DEF Moves, JobTaken
<1>6. CASE ResolveDevice(c)
  <2>1. /\ pc[c] = "resolving" /\ queue' = queue
        /\ \/ \E e : Fail(c, e)
           \/ req[c].tool = "info" /\ Reply(c, "success", <<>>) /\ busy' = busy
           \/ /\ Goto(c, IF system = NoSystem THEN "detecting" ELSE "loading")
              /\ loop' = loop /\ busy' = busy /\ outcome' = outcome
    BY <1>6, Zenon DEF ResolveDevice
  <2>2. pc[c] \in Occupied
    BY <2>1 DEF Occupied, PcValues
  <2>3. req[c].tool = "info" => loop = c
    BY <2>1 DEF CallInv, InfoHolds
  <2> QED BY <1>1, <1>3, <2>1, <2>2, <2>3, Lands DEF Moves, Answers, WorksOn
<1>7. CASE Detect(c) \/ DetectLatent(c) \/ Publish(c)
  <2>1. /\ UNCHANGED <<loop, queue, busy, outcome>>
        /\ \/ pc[c] = "detecting" /\ Goto(c, "detecting latent")
           \/ pc[c] = "detecting latent" /\ Goto(c, "publishing")
           \/ pc[c] = "publishing" /\ Goto(c, "resolving") /\ system' = probed[c]
    BY <1>7 DEF Detect, DetectLatent, Publish
  <2> QED BY <2>1, Lands DEF Moves, WorksOn, Probed
<1>8. CASE Load(c) \/ Build(c)
  <2>1. /\ pc[c] \in {"loading", "building"} /\ busy' = busy /\ outcome' = outcome
        /\ \/ /\ pc[c] = "loading" /\ Goto(c, "building")
              /\ UNCHANGED <<loop, queue>>
           \/ \E b \in Calls : Loaded(c, b)
    <3>1. CASE Load(c)
      <4>1. \A e \in Entries(c) : e.backend \in Calls
        BY DEF Entries, LoadedInv
      <4> QED BY <3>1, <4>1 DEF Load
    <3>2. CASE Build(c)
      BY <3>2 DEF Build
    <3> QED BY <1>8, <3>1, <3>2
  <2>2. CASE \E b \in Calls : Loaded(c, b)
    <3>1. PICK b \in Calls : Loaded(c, b)
      BY <2>2
    <3>2. b # NoCall /\ held'[c] = b
      BY <3>1, CallsAssumption DEF Loaded, Shape, OfCalls
    <3>3. CASE loop = c
      BY <2>1, <3>1, <3>2, <3>3, Lands DEF Loaded, Submit, Moves, JobGiven
    <3>4. CASE loop # c
      BY <2>1, <3>1, <3>4, Lands DEF Loaded, Moves, WorksOn
    <3> QED BY <3>3, <3>4
  <2>3. CASE pc[c] = "loading" /\ Goto(c, "building") /\ UNCHANGED <<loop, queue>>
    BY <2>1, <2>3, Lands DEF Moves, WorksOn
  <2> QED BY <2>1, <2>2, <2>3
<1>9. CASE BuildFails(c) \/ Look(c) \/ Lock(c) \/ Run(c) \/ Panic(c)
  <2>1. /\ pc[c] \in {"building", "ready", "locking", "running"} /\ queue' = queue
        /\ \/ \E e : Fail(c, e)
           \/ Succeed(c)
           \/ /\ UNCHANGED <<loop, busy, outcome>>
              /\ \/ pc[c] = "ready" /\ Goto(c, "locking")
                 \/ pc[c] = "locking" /\ Goto(c, "running")
    BY <1>9 DEF BuildFails, Look, Lock, Run, Panic
  <2>2. pc[c] \in Occupied
    BY <2>1 DEF Occupied, PcValues
  <2> QED BY <1>1, <1>2, <2>1, <2>2, Lands DEF Moves, WorksOn
<1>10. CASE Resume(c)
  <2>1. /\ pc[c] = "done" /\ loop = NoCall /\ queue' = queue /\ busy' = busy
        /\ outcome' = outcome
        /\ \/ \E status, rs : Reply(c, status, rs)
           \/ outcome[c] = "ok" /\ loop' = c /\ Goto(c, "ready")
    BY <1>10, Zenon DEF Resume
  <2> QED BY <1>3, <2>1, Lands DEF Moves, Answers, LoopTaken
<1> QED BY <1>4, <1>5, <1>6, <1>7, <1>8, <1>9, <1>10 DEF Handle

\* Whether c waits for an answer, and whether nothing is in its way: the guards
\* of its next step.
Waits(c) == pc[c] \notin {"absent", "answered"}
CanGoOn(c) ==
  /\ Waits(c)
  /\ pc[c] \in {"arrived", "done"} => loop = NoCall
  /\ pc[c] = "queued" => Head(queue) = c /\ Cardinality(busy) < Workers
  /\ pc[c] = "detecting" => ReachableAnswers(host) # {}
  /\ pc[c] = "detecting latent" => LatentAnswers(host) # {}
  /\ pc[c] = "locking" => holder[held[c]] = NoCall

\* As long as a call waits for its answer, one of them can go on.
NoDeadlock == (\E c \in Calls : Waits(c)) => \E c \in Calls : CanGoOn(c)

\* The most steps that are left of a call; again: a retrieval's job is done, and
\* its handler has the query to embed.
StepsAt(where, again, unbacked, undetected) ==
  CASE where = "absent" -> 18
    [] where = "arrived" -> 17
    [] where = "queued" -> IF unbacked THEN 16 ELSE 8
    [] where = "resolving" -> IF undetected THEN 15 ELSE 11
    [] where = "detecting" -> 14
    [] where = "detecting latent" -> 13
    [] where = "publishing" -> 12
    [] where = "loading" -> 10
    [] where = "building" -> 9
    [] where = "ready" -> IF again THEN 3 ELSE 7
    [] where = "locking" -> IF again THEN 2 ELSE 6
    [] where = "running" -> IF again THEN 1 ELSE 5
    [] where = "done" -> 4
    [] OTHER -> 0
StepsLeft(c) == StepsAt(pc[c], outcome[c] = "ok", held[c] = NoCall, system = NoSystem)

\* No step takes a call back, and every step takes one on, but for the server's
\* own.
GetOn ==
  /\ \A c \in Calls : StepsLeft(c)' <= StepsLeft(c)
  /\ phase' = phase => \E c \in Calls : StepsLeft(c)' < StepsLeft(c)
CallsGetOn == [][GetOn]_vars

\* Who holds a mutex runs with that backend.
HolderRuns ==
  \A b \in Calls : holder[b] # NoCall =>
    holder[b] \in Calls /\ pc[holder[b]] = "running" /\ held[holder[b]] = b

\* A job that a worker runs is at work, and not on the loop.
BusyWorks == \A c \in busy : pc[c] \in Occupied /\ loop # c

\* Who is in the queue waits, and is in it once.
QueueWaits ==
  /\ \A n \in DOMAIN queue : pc[queue[n]] = "queued"
  /\ \A m, n \in DOMAIN queue : queue[m] = queue[n] => m = n

\* After its job, only a retrieval's handler works on.
OkOnLoop ==
  \A c \in Calls : outcome[c] = "ok" =>
    \/ pc[c] \in {"done", "answered"}
    \/ pc[c] \in {"ready", "locking", "running"} /\ loop = c

Flow == HolderRuns /\ BusyWorks /\ QueueWaits /\ OkOnLoop

LEMMA FlowInit == Init => Flow
<1> SUFFICES ASSUME Init PROVE Flow
  OBVIOUS
<1>1. /\ queue = <<>> /\ busy = {} /\ holder = [b \in Calls |-> NoCall]
      /\ \A c \in Calls : outcome[c] = "none"
  BY DEF Init
<1> QED BY <1>1 DEF Flow, HolderRuns, BusyWorks, QueueWaits, OkOnLoop

\* The mutexes.
LEMMA HolderStays ==
  ASSUME Shape, HolderRuns, NEW c \in Calls, CallInv(c), Backed(c), Handle(c), Others(c)
  PROVE  HolderRuns'
<1> USE DEF srvVars, cacheVars, mutexVars, threadVars, callVars
<1>1. CASE Lock(c)
  <2>1. CASE holder' = holder
    <3>1. pc[c] = "locking"
      BY <1>1 DEF Lock
    <3>2. \A b \in Calls : holder[b] # c
      BY <3>1, CallsAssumption DEF HolderRuns
    <3> QED BY <2>1, <3>2 DEF HolderRuns, Others
  <2>2. CASE holder' # holder
    <3>1. /\ pc[c] = "locking" /\ holder' = [holder EXCEPT ![held[c]] = c]
          /\ Goto(c, "running") /\ held' = held
      BY <1>1, <2>2 DEF Lock
    <3>2. pc'[c] = "running" /\ held[c] \in Calls
      BY <3>1, Lands DEF Backed
    <3>3. /\ holder'[held[c]] = c
          /\ \A b \in Calls \ {held[c]} : holder'[b] = holder[b]
      BY <3>1, <3>2 DEF Shape, OfCalls
    <3>4. \A b \in Calls : holder[b] # c
      BY <3>1, CallsAssumption DEF HolderRuns
    <3> QED BY <3>1, <3>2, <3>3, <3>4 DEF HolderRuns, Others
  <2> QED BY <2>1, <2>2
<1>2. CASE Run(c) \/ Panic(c)
  <2>1. pc[c] = "running" /\ holder' = [holder EXCEPT ![held[c]] = NoCall]
    BY <1>2 DEF Run, Panic
  <2>2. held[c] \in Calls
    BY <2>1 DEF Backed
  <2>3. /\ holder'[held[c]] = NoCall
        /\ \A b \in Calls \ {held[c]} : holder'[b] = holder[b]
    BY <2>1, <2>2 DEF Shape, OfCalls
  <2>4. \A b \in Calls \ {held[c]} : holder[b] # c
    BY CallsAssumption DEF HolderRuns
  <2> QED BY <2>2, <2>3, <2>4 DEF HolderRuns, Others
<1>3. CASE ~Lock(c) /\ ~Run(c) /\ ~Panic(c)
  <2>1. holder' = holder
    BY <1>3, Zenon DEF Handle, Enter, Take, ResolveDevice, Detect, DetectLatent, Publish,
                       Load, Build, BuildFails, Look, Resume
  <2>2. pc[c] # "running"
    BY <1>3 DEF Handle, Enter, Take, ResolveDevice, Detect, DetectLatent, Publish,
                       Load, Build, BuildFails, Look, Resume
  <2>3. \A b \in Calls : holder[b] # c
    BY <2>2, CallsAssumption DEF HolderRuns
  <2> QED BY <2>1, <2>3 DEF HolderRuns, Others
<1> QED BY <1>1, <1>2, <1>3

\* The workers.
LEMMA BusyStays ==
  ASSUME BusyWorks, busy \subseteq Calls, NEW c \in Calls, LoopInv(c), Moves(c), Others(c)
  PROVE  BusyWorks'
<1>1. c \in busy => pc[c] \in Occupied /\ loop # c
  BY DEF BusyWorks
<1>2. \A d \in Calls : d # NoCall
  BY CallsAssumption
<1>3. CASE Answers(c) \/ JobGiven(c) \/ LoopTaken(c)
  <2>1. c \notin busy
    BY <1>1, <1>3 DEF Answers, JobGiven, LoopTaken, Occupied
  <2>2. busy' = busy /\ loop' \in {NoCall, c}
    BY <1>3 DEF Answers, JobGiven, LoopTaken
  <2> QED BY <1>2, <2>1, <2>2 DEF BusyWorks, Others
<1>4. CASE JobEnds(c)
  <2>1. busy' = busy \ {c} /\ loop' = loop
    BY <1>4 DEF JobEnds
  <2> QED BY <2>1 DEF BusyWorks, Others
<1>5. CASE JobTaken(c)
  <2>1. busy' = busy \cup {c} /\ loop' = loop /\ pc'[c] \in Occupied
    BY <1>5 DEF JobTaken, Occupied, PcValues
  <2>2. loop # c
    BY <1>5 DEF JobTaken, LoopInv, Detecting
  <2> QED BY <2>1, <2>2 DEF BusyWorks, Others
<1>6. CASE WorksOn(c)
  <2>1. busy' = busy /\ loop' = loop /\ pc'[c] \in Occupied
    BY <1>6 DEF WorksOn, Occupied, PcValues, Detecting
  <2> QED BY <1>1, <2>1 DEF BusyWorks, Others
<1> QED BY <1>3, <1>4, <1>5, <1>6 DEF Moves

\* The queue.
LEMMA QueueStays ==
  ASSUME QueueWaits, queue \in Seq(Calls), NEW c \in Calls, LoopInv(c), Moves(c), Others(c),
         pc[c] = "queued" => queue # <<>>
  PROVE  QueueWaits'
<1>1. Len(queue) \in Nat /\ DOMAIN queue = 1..Len(queue) /\ \A n \in DOMAIN queue : queue[n] \in Calls
  BY LenProperties, ElementOfSeq
<1>2. pc[c] # "queued" => \A n \in DOMAIN queue : queue[n] # c
  BY DEF QueueWaits
<1>3. CASE JobGiven(c)
  <2>1. queue' = Append(queue, c) /\ pc'[c] = "queued" /\ pc[c] # "queued"
    BY <1>3 DEF JobGiven
  <2> DEFINE more == Append(queue, c)
  <2>2. /\ more \in Seq(Calls) /\ Len(more) = Len(queue) + 1 /\ more[Len(queue) + 1] = c
        /\ \A n \in 1..Len(queue) : more[n] = queue[n]
    BY AppendProperties
  <2>3. DOMAIN more = 1..(Len(queue) + 1)
    BY <2>2, LenProperties
  <2>4. queue' = more
    BY <2>1
  <2> HIDE DEF more
  <2>5. ASSUME NEW n \in DOMAIN more PROVE pc'[more[n]] = "queued"
    BY <1>1, <1>2, <2>1, <2>2, <2>3, <2>5 DEF QueueWaits, Others
  <2>6. ASSUME NEW m \in DOMAIN more, NEW n \in DOMAIN more, more[m] = more[n] PROVE m = n
    BY <1>1, <1>2, <2>1, <2>2, <2>3, <2>6 DEF QueueWaits
  <2> QED BY <2>4, <2>5, <2>6 DEF QueueWaits
<1>4. CASE JobTaken(c)
  <2>1. queue' = Tail(queue) /\ pc[c] = "queued" /\ Head(queue) = c
    BY <1>4 DEF JobTaken
  <2> DEFINE less == Tail(queue)
  <2>2. queue # <<>>
    BY <2>1
  <2>3. /\ less \in Seq(Calls) /\ Len(less) = Len(queue) - 1
        /\ \A n \in 1..Len(less) : less[n] = queue[n + 1]
    BY <2>2, HeadTailProperties
  <2>4. DOMAIN less = 1..Len(less) /\ Len(less) \in Nat /\ queue' = less
    BY <2>1, <2>3, LenProperties
  <2>5. c = queue[1] /\ 1 \in DOMAIN queue
    BY <1>1, <2>1, <2>2, HeadTailProperties, EmptySeq
  <2> HIDE DEF less
  <2>6. ASSUME NEW n \in DOMAIN less PROVE pc'[less[n]] = "queued"
    <3>1. n + 1 \in DOMAIN queue /\ n + 1 # 1 /\ less[n] = queue[n + 1]
      BY <1>1, <2>3, <2>4
    <3>2. queue[n + 1] # c
      BY <2>5, <3>1 DEF QueueWaits
    <3> QED BY <1>1, <3>1, <3>2 DEF QueueWaits, Others
  <2>7. ASSUME NEW m \in DOMAIN less, NEW n \in DOMAIN less, less[m] = less[n] PROVE m = n
    <3>1. /\ m + 1 \in DOMAIN queue /\ n + 1 \in DOMAIN queue
          /\ queue[m + 1] = queue[n + 1]
      BY <1>1, <2>3, <2>4, <2>7
    <3>2. m + 1 = n + 1
      BY <3>1 DEF QueueWaits
    <3> QED BY <2>4, <3>2
  <2> QED BY <2>4, <2>6, <2>7 DEF QueueWaits
<1>5. CASE Answers(c) \/ JobEnds(c) \/ LoopTaken(c) \/ WorksOn(c)
  <2>1. queue' = queue
    BY <1>5 DEF Answers, JobEnds, LoopTaken, WorksOn
  <2>2. pc[c] # "queued" \/ loop = c
    BY <1>5 DEF Answers, JobEnds, LoopTaken, WorksOn, Occupied
  <2>3. pc[c] # "queued"
    BY <2>2 DEF LoopInv, Detecting
  <2> QED BY <1>1, <1>2, <2>1, <2>3 DEF QueueWaits, Others
<1> QED BY <1>3, <1>4, <1>5 DEF Moves

\* What has succeeded.
LEMMA OkStays ==
  ASSUME OkOnLoop, NEW c \in Calls, Moves(c), Others(c), LoopInv(c),
         \A d \in Calls \ {c} : loop = d => loop' = d
  PROVE  OkOnLoop'
<1>1. ASSUME outcome'[c] = "ok"
      PROVE  \/ pc'[c] \in {"done", "answered"}
             \/ pc'[c] \in {"ready", "locking", "running"} /\ loop' = c
  <2>1. CASE Answers(c) \/ JobEnds(c)
    BY <2>1 DEF Answers, JobEnds
  <2>2. CASE ~Answers(c) /\ ~JobEnds(c)
    <3>1. outcome[c] = "ok" /\ (JobGiven(c) \/ JobTaken(c) \/ LoopTaken(c) \/ WorksOn(c))
      BY <1>1, <2>2 DEF Moves
    <3>2. \/ pc[c] \in {"done", "answered"}
          \/ pc[c] \in {"ready", "locking", "running"} /\ loop = c
      BY <3>1 DEF OkOnLoop
    <3> QED BY <3>1, <3>2 DEF JobGiven, JobTaken, LoopTaken, WorksOn
  <2> QED BY <2>1, <2>2
<1>2. ASSUME NEW d \in Calls \ {c}, outcome'[d] = "ok"
      PROVE  \/ pc'[d] \in {"done", "answered"}
             \/ pc'[d] \in {"ready", "locking", "running"} /\ loop' = d
  BY <1>2 DEF OkOnLoop, Others
<1> QED BY <1>1, <1>2 DEF OkOnLoop

\* A step of a call leaves the loop to whoever has it.
LEMMA LoopLeft ==
  ASSUME NEW c \in Calls, Moves(c), NEW d \in Calls \ {c}, loop = d
  PROVE  loop' = d
BY CallsAssumption DEF Moves, Answers, JobEnds, JobGiven, JobTaken, LoopTaken, WorksOn

LEMMA FlowHandle ==
  ASSUME IInv, Flow, NEW c \in Calls, Handle(c)
  PROVE  Moves(c) /\ Others(c) /\ Flow'
<1>1. /\ Shape /\ LoadedInv /\ Probed /\ CallInv(c) /\ Backed(c) /\ LoopInv(c)
      /\ queue \in Seq(Calls) /\ busy \subseteq Calls
      /\ pc[c] = "queued" => \E n \in DOMAIN queue : queue[n] = c
  BY DEF IInv, Pool, Ranks
<1>2. Moves(c)
  BY <1>1, CallMoves
<1>3. Others(c)
  BY <1>1, CallFrame DEF CallInv
<1>4. pc[c] = "queued" => queue # <<>>
  BY <1>1
<1>5. HolderRuns'
  BY <1>1, <1>3, HolderStays DEF Flow
<1>6. BusyWorks'
  BY <1>1, <1>2, <1>3, BusyStays DEF Flow
<1>7. QueueWaits'
  BY <1>1, <1>2, <1>3, <1>4, QueueStays DEF Flow
<1>8. OkOnLoop'
  BY <1>1, <1>2, <1>3, LoopLeft, OkStays DEF Flow
<1> QED BY <1>2, <1>3, <1>5, <1>6, <1>7, <1>8 DEF Flow

\* What a call does that comes in.
LEMMA ArriveSteps ==
  ASSUME IInv, NEW c \in Calls, Arrive(c)
  PROVE  /\ pc[c] = "absent" /\ pc'[c] = "arrived"
         /\ \A d \in Calls \ {c} : pc'[d] = pc[d]
         /\ UNCHANGED <<system, loop, queue, busy, holder, held, outcome>>
<1> USE DEF srvVars, cacheVars, mutexVars, threadVars, callVars
<1>1. pc[c] = "absent" /\ Goto(c, "arrived")
      /\ UNCHANGED <<system, loop, queue, busy, holder, held, outcome>>
  BY DEF Arrive
<1> QED BY <1>1, GotoSteps DEF IInv

LEMMA FlowArrive ==
  ASSUME IInv, Flow, NEW c \in Calls, Arrive(c)
  PROVE  Flow'
<1>1. /\ pc[c] = "absent" /\ pc'[c] = "arrived"
      /\ \A d \in Calls \ {c} : pc'[d] = pc[d]
      /\ UNCHANGED <<system, loop, queue, busy, holder, held, outcome>>
  BY ArriveSteps
<1>2. HolderRuns'
  BY <1>1 DEF Flow, HolderRuns
<1>3. BusyWorks'
  BY <1>1 DEF Flow, BusyWorks, IInv, Pool, Occupied
<1>4. QueueWaits'
  <2>1. \A n \in DOMAIN queue : queue[n] \in Calls
    BY ElementOfSeq, LenProperties DEF IInv, Pool
  <2> QED BY <1>1, <2>1 DEF Flow, QueueWaits
<1>5. OkOnLoop'
  <2>1. outcome[c] = "none"
    BY <1>1 DEF IInv, CallInv
  <2> QED BY <1>1, <2>1 DEF Flow, OkOnLoop
<1> QED BY <1>2, <1>3, <1>4, <1>5 DEF Flow

LEMMA FlowServer ==
  ASSUME Flow, Serve \/ UNCHANGED vars
  PROVE  Flow'
<1>1. UNCHANGED <<loop, queue, busy, holder, pc, held, outcome>>
  BY Zenon DEF Serve, vars, cacheVars, mutexVars, threadVars, callVars
<1> QED BY <1>1 DEF Flow, HolderRuns, BusyWorks, QueueWaits, OkOnLoop

\* It holds in every behaviour, beside IInv.
LEMMA FlowAlways == Spec => [](IInv /\ Flow)
<1>1. Init => Flow
  BY FlowInit
<1>2. IInv /\ Flow /\ [Next]_vars => Flow'
  <2> SUFFICES ASSUME IInv, Flow, [Next]_vars PROVE Flow'
    OBVIOUS
  <2>1. CASE Serve \/ UNCHANGED vars
    BY <2>1, FlowServer
  <2>2. CASE \E c \in Calls : Arrive(c) \/ Handle(c)
    BY <2>2, FlowArrive, FlowHandle
  <2> QED BY <2>1, <2>2, Zenon DEF Next
<1> QED BY <1>1, <1>2, IInvAlways, PTL DEF Spec

\* The calls, the workers, the mutexes and the loop wait for each other in no
\* circle: whoever holds a mutex can go on, whoever has the loop or a worker
\* waits at most for a mutex, and when none has, the loop and a worker are free.
THEOREM NoDeadlockAlways == Spec => []NoDeadlock
<1>1. IInv /\ Flow => NoDeadlock
  <2> SUFFICES ASSUME IInv, Flow, NEW w \in Calls, Waits(w)
               PROVE  \E c \in Calls : CanGoOn(c)
    BY DEF NoDeadlock
  <2>1. \A c \in Calls : pc[c] \in PcValues /\ LoopInv(c) /\ Backed(c)
    BY DEF IInv, CallInv, Ranks
  <2>2. ReachableAnswers(host) # {} /\ LatentAnswers(host) # {}
    <3>1. host \in Host
      BY HostsAssumption DEF IInv, Types
    <3> QED BY <3>1, AnswersListCards DEF ReachableAnswers, LatentAnswers
  <2>3. \A c \in Calls : pc[c] \in Occupied /\ pc[c] # "locking" => CanGoOn(c)
    BY <2>2 DEF CanGoOn, Waits, Occupied
  <2>4. CASE \E c \in Calls : pc[c] \in Occupied
    <3>1. PICK c \in Calls : pc[c] \in Occupied
      BY <2>4
    <3>2. CASE pc[c] = "locking" /\ holder[held[c]] # NoCall
      <4>1. held[c] \in Calls
        BY <2>1, <3>2 DEF Backed
      <4>2. holder[held[c]] \in Calls /\ pc[holder[held[c]]] = "running"
        BY <3>2, <4>1 DEF Flow, HolderRuns
      <4>3. "running" \in Occupied
        BY DEF Occupied, PcValues
      <4> QED BY <2>3, <4>2, <4>3
    <3>3. CASE pc[c] = "locking" /\ holder[held[c]] = NoCall
      BY <3>3 DEF CanGoOn, Waits
    <3> QED BY <2>3, <3>1, <3>2, <3>3
  <2>5. CASE \A c \in Calls : pc[c] \notin Occupied
    <3>1. loop = NoCall
      <4>1. \A c \in Calls : loop # c
        <5> SUFFICES ASSUME NEW c \in Calls, loop = c PROVE FALSE
          OBVIOUS
        <5>1. pc[c] \in {"ready", "locking", "running", "resolving", "loading", "building"} \cup Detecting
          BY <2>1 DEF LoopInv
        <5> QED BY <2>5, <5>1 DEF Occupied, PcValues, Detecting
      <4>2. loop \in Calls \cup {NoCall}
        BY Zenon DEF IInv, Types
      <4> QED BY <4>1, <4>2
    <3>2. pc[w] \in {"arrived", "queued", "done"}
      BY <2>1, <2>5 DEF Waits, Occupied
    <3>3. CASE pc[w] \in {"arrived", "done"}
      BY <3>1, <3>3 DEF CanGoOn, Waits
    <3>4. CASE pc[w] = "queued"
      <4>1. queue \in Seq(Calls) /\ queue # <<>>
        BY <3>4 DEF IInv, Pool
      <4> DEFINE h == Head(queue)
      <4>2. h = queue[1] /\ 1 \in DOMAIN queue
        BY <4>1, HeadTailProperties, LenProperties, EmptySeq
      <4>3. h \in Calls /\ pc[h] = "queued"
        BY <4>1, <4>2, ElementOfSeq, LenProperties DEF Flow, QueueWaits
      <4>4. Cardinality(busy) < Workers
        <5>1. busy = {}
          BY <2>5 DEF Flow, BusyWorks, IInv, Pool
        <5> QED BY <5>1, FS_EmptySet, WorkersAssumption
      <4> HIDE DEF h
      <4>5. CanGoOn(h)
        BY <4>3, <4>4 DEF CanGoOn, Waits, h
      <4> QED BY <4>3, <4>5
    <3> QED BY <3>2, <3>3, <3>4
  <2> QED BY <2>4, <2>5
<1> QED BY <1>1, FlowAlways, PTL

\* The snapshot is never taken away.
LEMMA SnapshotStored ==
  ASSUME Probed, NEW c \in Calls, Handle(c)
  PROVE  system' = system \/ system' # NoSystem
<1> USE DEF srvVars, cacheVars, mutexVars, threadVars, callVars
<1>1. CASE Publish(c)
  BY <1>1 DEF Publish, Probed
<1>2. CASE ~Publish(c)
  BY <1>2, Zenon DEF Handle, Enter, Take, ResolveDevice, Detect, DetectLatent,
                     Load, Build, BuildFails, Look, Lock, Run, Panic, Resume
<1> QED BY <1>1, <1>2

\* A step of c takes it on.
LEMMA StepTaken ==
  ASSUME OkOnLoop, NEW c \in Calls, Moves(c), LoopInv(c)
  PROVE  StepsLeft(c)' < StepsLeft(c)
<1> DEFINE left == StepsLeft(c)
           next == StepsAt(pc'[c], outcome'[c] = "ok", held'[c] = NoCall, system' = NoSystem)
<1>1. StepsLeft(c)' = next
  BY DEF StepsLeft
<1>2. outcome[c] = "ok" =>
        \/ pc[c] \in {"done", "answered"}
        \/ pc[c] \in {"ready", "locking", "running"} /\ loop = c
  BY DEF OkOnLoop
<1> SUFFICES next < left
  BY <1>1
<1>3. CASE Answers(c)
  <2>1. next = 0
    BY <1>3 DEF Answers, StepsAt
  <2>2. left \in {1, 2, 3, 4, 5, 6, 7, 9, 10, 11, 12, 13, 14, 15, 17}
    BY <1>3 DEF Answers, LoopInv, Detecting, StepsLeft, StepsAt
  <2> HIDE DEF next, left
  <2> QED BY <2>1, <2>2
<1>4. CASE JobEnds(c)
  <2>1. next = 4
    BY <1>4 DEF JobEnds, StepsAt
  <2>2. left \in {5, 6, 7, 9, 10, 11, 12, 13, 14, 15}
    BY <1>2, <1>4 DEF JobEnds, Occupied, PcValues, Detecting, StepsLeft, StepsAt
  <2> HIDE DEF next, left
  <2> QED BY <2>1, <2>2
<1>5. CASE JobGiven(c) /\ outcome'[c] = outcome[c]
  <2>1. CASE pc[c] = "arrived"
    <3>1. next \in {8, 16} /\ left = 17
      BY <1>5, <2>1 DEF JobGiven, StepsLeft, StepsAt
    <3> HIDE DEF next, left
    <3> QED BY <3>1
  <2>2. CASE pc[c] # "arrived"
    <3>1. next = 8 /\ left \in {9, 10}
      BY <1>5, <2>2 DEF JobGiven, StepsLeft, StepsAt
    <3> HIDE DEF next, left
    <3> QED BY <3>1
  <2> QED BY <2>1, <2>2
<1>6. CASE JobTaken(c) /\ outcome'[c] = outcome[c]
  <2>1. CASE held[c] = NoCall
    <3>1. next \in {11, 15} /\ left = 16
      BY <1>6, <2>1 DEF JobTaken, StepsLeft, StepsAt
    <3> HIDE DEF next, left
    <3> QED BY <3>1
  <2>2. CASE held[c] # NoCall
    <3>1. next \in {3, 7} /\ left = 8
      BY <1>6, <2>2 DEF JobTaken, StepsLeft, StepsAt
    <3> HIDE DEF next, left
    <3> QED BY <3>1
  <2> QED BY <2>1, <2>2
<1>7. CASE LoopTaken(c) /\ outcome'[c] = outcome[c]
  <2>1. (next \in {11, 15} /\ left = 17) \/ (next = 3 /\ left = 4)
    BY <1>7 DEF LoopTaken, StepsLeft, StepsAt
  <2> HIDE DEF next, left
  <2> QED BY <2>1
<1>8. CASE WorksOn(c) /\ outcome'[c] = outcome[c]
  <2>1. CASE pc[c] = "resolving"
    <3>1. (next = 14 /\ left = 15) \/ (next = 10 /\ left = 11)
      BY <1>8, <2>1 DEF WorksOn, StepsLeft, StepsAt
    <3> HIDE DEF next, left
    <3> QED BY <3>1
  <2>2. CASE pc[c] \in Detecting
    <3>1. \/ next = 13 /\ left = 14
          \/ next = 12 /\ left = 13
          \/ next = 11 /\ left = 12
      BY <1>8, <2>2 DEF WorksOn, Detecting, StepsLeft, StepsAt
    <3> HIDE DEF next, left
    <3> QED BY <3>1
  <2>3. CASE pc[c] \in {"loading", "building"}
    <3>1. (next = 9 /\ left = 10) \/ (next = 7 /\ left \in {9, 10})
      BY <1>2, <1>8, <2>3 DEF WorksOn, StepsLeft, StepsAt
    <3> HIDE DEF next, left
    <3> QED BY <3>1
  <2>4. CASE pc[c] \in {"ready", "locking"}
    <3>1. \/ next = 2 /\ left = 3
          \/ next = 6 /\ left = 7
          \/ next = 1 /\ left = 2
          \/ next = 5 /\ left = 6
      BY <1>8, <2>4 DEF WorksOn, StepsLeft, StepsAt
    <3> HIDE DEF next, left
    <3> QED BY <3>1
  <2> QED BY <1>8, <2>1, <2>2, <2>3, <2>4 DEF WorksOn, Detecting
<1> QED BY <1>3, <1>4, <1>5, <1>6, <1>7, <1>8 DEF Moves

\* It is a number.
LEMMA StepsLeftNumber == \A c : StepsLeft(c) \in 0..18
  BY DEF StepsLeft, StepsAt

\* Every step of a call brings it nearer to its answer and takes no other call
\* back: no behaviour has more than 18 steps of each call, whatever they fail
\* with and in whatever order they go.
THEOREM CallsGetOnAlways == Spec => CallsGetOn
<1>1. IInv /\ Flow /\ [Next]_vars => [GetOn]_vars
  <2> SUFFICES ASSUME IInv, Flow, Next PROVE GetOn
    BY DEF vars
  <2>1. CASE Serve
    <3>1. UNCHANGED <<system, pc, held, outcome>> /\ phase = "starting" /\ phase' # phase
      BY <2>1 DEF Serve, cacheVars, callVars
    <3>2. \A c \in Calls : StepsLeft(c)' = StepsLeft(c)
      BY <3>1 DEF StepsLeft
    <3> QED BY <3>1, <3>2, StepsLeftNumber DEF GetOn
  <2>2. ASSUME NEW c \in Calls, Arrive(c) PROVE GetOn
    <3>1. /\ pc[c] = "absent" /\ pc'[c] = "arrived"
          /\ \A d \in Calls \ {c} : pc'[d] = pc[d]
          /\ UNCHANGED <<system, loop, queue, busy, holder, held, outcome>>
      BY <2>2, ArriveSteps
    <3>2. \A d \in Calls \ {c} : StepsLeft(d)' = StepsLeft(d)
      BY <3>1 DEF StepsLeft
    <3>3. StepsLeft(c)' = 17 /\ StepsLeft(c) = 18
      BY <3>1 DEF StepsLeft, StepsAt
    <3> QED BY <3>2, <3>3, StepsLeftNumber DEF GetOn
  <2>3. ASSUME NEW c \in Calls, Handle(c) PROVE GetOn
    <3>1. Moves(c) /\ Others(c)
      BY <2>3, FlowHandle
    <3>2. system' = system \/ system' # NoSystem
      BY <2>3, SnapshotStored DEF IInv
    <3>3. StepsLeft(c)' < StepsLeft(c)
      BY <3>1, StepTaken DEF IInv, Ranks, Flow
    <3>4. ASSUME NEW d \in Calls \ {c} PROVE StepsLeft(d)' <= StepsLeft(d)
      <4>1. pc'[d] = pc[d] /\ outcome'[d] = outcome[d] /\ held'[d] = held[d]
        BY <3>1 DEF Others
      <4> DEFINE left == StepsLeft(d)
                 next == StepsAt(pc[d], outcome[d] = "ok", held[d] = NoCall, system' = NoSystem)
      <4>2. StepsLeft(d)' = next
        BY <4>1 DEF StepsLeft
      <4>3. (next = 11 /\ left = 15) \/ (next = left /\ left \in 0..18)
        <5>1. CASE pc[d] = "resolving"
          BY <3>2, <5>1 DEF StepsLeft, StepsAt
        <5>2. CASE pc[d] # "resolving"
          <6>1. next = left
            BY <5>2 DEF StepsLeft, StepsAt
          <6> QED BY <6>1, StepsLeftNumber
        <5> QED BY <5>1, <5>2
      <4> HIDE DEF next, left
      <4>4. next <= left
        BY <4>3
      <4> QED BY <4>2, <4>4 DEF left
    <3>5. \A d \in Calls : StepsLeft(d)' \in Int /\ StepsLeft(d) \in Int
      BY StepsLeftNumber DEF StepsLeft, StepsAt
    <3>6. StepsLeft(c)' <= StepsLeft(c)
      BY <3>3, <3>5
    <3> QED BY <3>3, <3>4, <3>6 DEF GetOn
  <2> QED BY <2>1, <2>2, <2>3 DEF Next
<1> QED BY <1>1, FlowAlways, PTL DEF Spec, CallsGetOn

=============================================================================
