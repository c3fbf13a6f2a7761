--------------------------- MODULE ModelLoad_proofs ---------------------------
(***************************************************************************)
(* Theorems about ModelLoad, for every set of threads and models, every    *)
(* starting environment and every size of the cached loaders.              *)
(***************************************************************************)
EXTENDS ModelLoad, SequenceLemmas, SequenceTheorems, TLAPS

(***************************************************************************)
(* The cached loader's operators.                                          *)
(***************************************************************************)

\* One entry per model.
Distinct(s) == \A a, b \in DOMAIN s : s[a] = s[b] => a = b

\* A hit keeps the number of entries and their models.
LEMMA MovedToEndProperties ==
  ASSUME NEW S, NEW s \in Seq(S), NEW m, Loaded(s, m)
  PROVE  /\ MovedToEnd(s, m) \in Seq(S)
         /\ Len(MovedToEnd(s, m)) = Len(s)
         /\ \A i \in DOMAIN MovedToEnd(s, m) :
              \E j \in DOMAIN s : MovedToEnd(s, m)[i] = s[j]
         /\ Distinct(s) => Distinct(MovedToEnd(s, m))
<1> DEFINE n == CHOOSE i \in DOMAIN s : s[i] = m
<1> DEFINE w == RemoveAt(s, n)
<1> DEFINE r == Append(w, m)
<1>1. n \in DOMAIN s /\ s[n] = m
  BY DEF Loaded
<1>2. MovedToEnd(s, m) = r
  BY DEF MovedToEnd
<1> HIDE DEF n
<1>3. /\ DOMAIN s = 1..Len(s) /\ Len(s) \in Nat /\ n \in 1..Len(s) /\ m \in S
  BY <1>1, LenProperties, ElementOfSeq
<1>4. /\ w \in Seq(S) /\ Len(w) = Len(s) - 1
      /\ \A i \in DOMAIN w : w[i] = IF i < n THEN s[i] ELSE s[i + 1]
  BY <1>1, RemovalShape
<1> HIDE DEF w
<1>5. DOMAIN w = 1..(Len(s) - 1)
  BY <1>4, LenProperties
<1>6. /\ r \in Seq(S) /\ Len(r) = Len(s)
      /\ \A i \in 1..(Len(s) - 1) : r[i] = w[i]
      /\ r[Len(s)] = m
  <2>1. /\ r \in Seq(S) /\ Len(r) = Len(w) + 1
        /\ \A i \in 1..Len(w) : r[i] = w[i]
        /\ r[Len(w) + 1] = m
    <3>1. w \in Seq(S) /\ m \in S
      BY <1>3, <1>4
    <3> QED BY <3>1, AppendProperties
  <2>2. Len(w) + 1 = Len(s) /\ Len(w) = Len(s) - 1
    BY <1>3, <1>4
  <2> HIDE DEF r
  <2> QED BY <2>1, <2>2
<1> HIDE DEF r
<1>7. DOMAIN r = 1..Len(s)
  BY <1>6, LenProperties
<1> DEFINE from(i) == IF i = Len(s) THEN n ELSE IF i < n THEN i ELSE i + 1
<1>8. \A i \in DOMAIN r : from(i) \in DOMAIN s /\ r[i] = s[from(i)]
  <2> SUFFICES ASSUME NEW i \in 1..Len(s)
               PROVE  from(i) \in 1..Len(s) /\ r[i] = s[from(i)]
    BY <1>3, <1>7
  <2>1. from(i) = IF i = Len(s) THEN n ELSE IF i < n THEN i ELSE i + 1
    OBVIOUS
  <2> HIDE DEF from
  <2>2. CASE i = Len(s)
    <3>1. from(i) = n /\ r[i] = m
      BY <1>6, <2>1, <2>2
    <3> QED BY <1>1, <1>3, <3>1
  <2>3. CASE i # Len(s)
    <3>1. \A l \in Nat : \A k \in 1..l : k # l => k \in 1..(l - 1) /\ k + 1 \in 1..l
      OBVIOUS
    <3>2. i \in 1..(Len(s) - 1) /\ i + 1 \in 1..Len(s)
      BY <1>3, <2>3, <3>1
    <3>3. r[i] = w[i] /\ w[i] = IF i < n THEN s[i] ELSE s[i + 1]
      BY <1>4, <1>5, <1>6, <3>2
    <3>4. from(i) = IF i < n THEN i ELSE i + 1
      BY <2>1, <2>3
    <3> QED BY <3>2, <3>3, <3>4
  <2> QED BY <2>2, <2>3
<1>9. \A a, b \in DOMAIN r : from(a) = from(b) => a = b
  BY <1>3, <1>7
<1>10. Distinct(s) => Distinct(r)
  <2> HIDE DEF from
  <2> QED BY <1>8, <1>9 DEF Distinct
<1>11. \A i \in DOMAIN r : \E j \in DOMAIN s : r[i] = s[j]
  <2> HIDE DEF from
  <2> QED BY <1>8
<1> QED BY <1>2, <1>6, <1>10, <1>11

\* A store adds only the model built, once, and keeps to the maximum.
LEMMA StoredProperties ==
  ASSUME NEW S, NEW s \in Seq(S), NEW m \in S, NEW size \in Nat \ {0}
  PROVE  /\ Stored(s, m, size) \in Seq(S)
         /\ Len(s) <= size => Len(Stored(s, m, size)) <= size
         /\ \A i \in DOMAIN Stored(s, m, size) :
              Stored(s, m, size)[i] = m \/ \E j \in DOMAIN s : Stored(s, m, size)[i] = s[j]
         /\ Distinct(s) => Distinct(Stored(s, m, size))
<1> DEFINE r == Stored(s, m, size)
<1>0. /\ DOMAIN s = 1..Len(s) /\ Len(s) \in Nat
      /\ size \in Nat /\ size > 0
  BY LenProperties
<1>1. CASE Loaded(s, m)
  BY <1>1 DEF Stored
<1>2. CASE ~Loaded(s, m) /\ Len(s) < size
  <2>1. r = Append(s, m)
    BY <1>2 DEF Stored
  <2>2. /\ r \in Seq(S) /\ Len(r) = Len(s) + 1
        /\ \A i \in 1..Len(s) : r[i] = s[i]
        /\ r[Len(s) + 1] = m
    BY <2>1, AppendProperties
  <2> HIDE DEF r
  <2>3. DOMAIN r = 1..(Len(s) + 1)
    BY <2>2, LenProperties
  <2>4. \A i \in DOMAIN r : (i \in DOMAIN s /\ r[i] = s[i]) \/ (i = Len(s) + 1 /\ r[i] = m)
    BY <1>0, <2>2, <2>3
  <2>5. Distinct(s) => Distinct(r)
    BY <1>2, <2>4 DEF Distinct, Loaded
  <2> QED BY <1>0, <1>2, <2>2, <2>4, <2>5 DEF r
<1>3. CASE ~Loaded(s, m) /\ ~(Len(s) < size)
  <2> DEFINE u == Tail(s)
  <2>1. r = Append(u, m) /\ s # <<>>
    BY <1>0, <1>3, LenProperties, EmptySeq DEF Stored
  <2>2. /\ u \in Seq(S) /\ Len(u) = Len(s) - 1
        /\ \A i \in 1..Len(u) : u[i] = s[i + 1]
    BY <2>1, HeadTailProperties
  <2> HIDE DEF u
  <2>3. /\ r \in Seq(S) /\ Len(r) = Len(s)
        /\ \A i \in 1..(Len(s) - 1) : r[i] = u[i]
        /\ r[Len(s)] = m
    <3>1. /\ r \in Seq(S) /\ Len(r) = Len(u) + 1
          /\ \A i \in 1..Len(u) : r[i] = u[i]
          /\ r[Len(u) + 1] = m
      BY <2>1, <2>2, AppendProperties
    <3>2. Len(u) + 1 = Len(s) /\ Len(u) = Len(s) - 1
      BY <1>0, <2>2
    <3> HIDE DEF r
    <3> QED BY <3>1, <3>2
  <2> HIDE DEF r
  <2>4. DOMAIN r = 1..Len(s)
    BY <2>3, LenProperties
  <2>5. \A i \in DOMAIN r : \/ i + 1 \in DOMAIN s /\ r[i] = s[i + 1]
                            \/ i = Len(s) /\ r[i] = m
    BY <1>0, <2>2, <2>3, <2>4
  <2>6. ASSUME Distinct(s), NEW a \in DOMAIN r, NEW b \in DOMAIN r, r[a] = r[b]
        PROVE  a = b
    <3>1. a \in Nat /\ b \in Nat
      BY <2>4
    <3>2. CASE a + 1 \in DOMAIN s /\ r[a] = s[a + 1] /\ b + 1 \in DOMAIN s /\ r[b] = s[b + 1]
      <4>1. a + 1 = b + 1
        BY <2>6, <3>2 DEF Distinct
      <4> QED BY <3>1, <4>1
    <3> QED BY <1>3, <2>5, <2>6, <3>2 DEF Loaded
  <2> QED BY <1>0, <2>3, <2>5, <2>6 DEF r, Distinct
<1> QED BY <1>1, <1>2, <1>3

(***************************************************************************)
(* The steps of a load.                                                    *)
(***************************************************************************)

\* A load begins: its class lets the model through, and the cached loader is one
\* of the class.
Entry(t) ==
  \E f \in Families, m \in Models, l \in Loaders, stated \in Offlines, allow \in BOOLEAN :
    /\ l = f \/ (l = "model2vec" /\ f = "embedding")
    /\ Enter(t, f, m, l, stated, allow)

\* A Rust backend is built, by the cached loader of a class.
Ort(t) == load[t].loader \in Families /\ BuildOrt(t)

LEMMA BeginEnters ==
  ASSUME NEW t, NEW f \in Families, NEW m \in Models, Begin(t, f, m)
  PROVE  Entry(t)
<1>1. PICK stated \in Offlines, allow \in BOOLEAN, requested \in Requests :
        LoadOf(t, f, m, requested, stated, allow)
  BY DEF Begin
<1>2. CASE f = "embedding" /\ LoadEmbedding(t, m, requested, stated, allow)
  <2> DEFINE l == LoaderOf(BackendOf(m, requested))
  <2>1. l \in {"embedding", "model2vec"} /\ l \in Loaders
    BY DEF LoaderOf, BackendOf, Requests, Loaders, Families
  <2>2. Enter(t, f, m, l, stated, allow)
    BY <1>2 DEF LoadEmbedding
  <2> QED BY <1>2, <2>1, <2>2 DEF Entry
<1>3. CASE Enter(t, f, m, f, stated, allow)
  BY <1>3 DEF Entry, Loaders
<1> QED BY <1>1, <1>2, <1>3 DEF LoadOf, LoadReranker, LoadNli, LoadNer, LoadPii

LEMMA NextSteps ==
  ASSUME [Next]_vars
  PROVE  \/ UNCHANGED vars
         \/ \E t \in Threads :
              \/ Entry(t) \/ Snapshot(t) \/ SetFlags(t) \/ Hit(t) \/ Miss(t)
              \/ Ort(t) \/ BuildStatic(t) \/ BuildFail(t) \/ Leave(t)
<1>1. ASSUME NEW t \in Threads, Step(t)
      PROVE  \/ Snapshot(t) \/ SetFlags(t) \/ Hit(t) \/ Miss(t)
             \/ Ort(t) \/ BuildStatic(t) \/ BuildFail(t) \/ Leave(t)
  BY <1>1 DEF Step, Inside, Ort, BuildEmbedding, BuildReranker, BuildNli, BuildNer, BuildPii,
              Families
<1> QED BY <1>1, BeginEnters DEF Next

(***************************************************************************)
(* Type correctness.  A load in progress is of a model that passed the     *)
(* registry gate, and only such a load has downloaded anything.            *)
(***************************************************************************)

TypeInv ==
  /\ TypeOK
  /\ \A t \in Threads : pc[t] # "idle" => load[t] \in LoadType
  /\ \A t \in Threads : pc[t] = "idle" => ~fetched[t]

LEMMA ShellType == \A e \in Shells : FlagsOf(e) \in FlagType
BY ShellsAssumption DEF FlagsOf, FlagType, Flags, EnvVars, Values

LEMMA TypeInvInit == Init => TypeInv
<1> SUFFICES ASSUME Init PROVE TypeInv
  OBVIOUS
<1>1. FlagsOf(shell) \in FlagType /\ <<>> \in Seq(Models) /\ local \subseteq Models
  BY ShellType, ModelsAssumption, LocalAssumption, EmptySeq DEF Init
<1>2. TypeOK
  BY <1>1 DEF Init, TypeOK
<1> QED BY <1>2 DEF Init, TypeInv

LEMMA StoreType ==
  ASSUME TypeOK, NEW t \in Threads, load[t] \in LoadType, Store(t)
  PROVE  loader' \in [Loaders -> Seq(Models)]
<1>1. load[t].loader \in Loaders /\ load[t].model \in Models
  BY DEF LoadType
<1>2. loader[load[t].loader] \in Seq(Models)
  BY <1>1 DEF TypeOK
<1>3. Stored(loader[load[t].loader], load[t].model, LoaderSize[load[t].loader]) \in Seq(Models)
  BY <1>1, <1>2, StoredProperties, SizeAssumption
<1> QED BY <1>3 DEF Store, TypeOK

\* A build that fails may leave files of its model behind.
LEMMA FailedBuild ==
  ASSUME TypeOK, NEW t \in Threads, BuildFail(t)
  PROVE  /\ pc[t] = "fetch" /\ pc' = [pc EXCEPT ![t] = "raised"]
         /\ UNCHANGED <<shell, flags, loader, load, saved, overlapped>>
         /\ local' = local \/ (MayDownload(t) /\ local' = local \cup {load[t].model})
         /\ fetched' = fetched \/ (MayDownload(t) /\ fetched' = [fetched EXCEPT ![t] = TRUE])
         /\ fetched' \in [Threads -> BOOLEAN]
         /\ \A u \in Threads \ {t} : fetched'[u] = fetched[u]
         /\ fetched'[t] => fetched[t] \/ MayDownload(t)
<1>1. /\ pc[t] = "fetch" /\ pc' = [pc EXCEPT ![t] = "raised"]
      /\ UNCHANGED <<shell, flags, loader, load, saved, overlapped>>
      /\ local' = local \/ (MayDownload(t) /\ local' = local \cup {load[t].model})
      /\ fetched' = fetched \/ (MayDownload(t) /\ fetched' = [fetched EXCEPT ![t] = TRUE])
  BY DEF BuildFail, Goto
<1> HIDE DEF MayDownload
<1>2. /\ fetched' \in [Threads -> BOOLEAN]
      /\ \A u \in Threads \ {t} : fetched'[u] = fetched[u]
      /\ fetched'[t] => fetched[t] \/ MayDownload(t)
  BY <1>1 DEF TypeOK
<1> QED BY <1>1, <1>2

LEMMA TypeInvNext == TypeInv /\ [Next]_vars => TypeInv'
<1> SUFFICES ASSUME TypeInv, [Next]_vars PROVE TypeInv'
  OBVIOUS
<1> USE DEF Goto
<1>1. TypeOK /\ FlagsOf(shell) \in FlagType
  BY ShellType DEF TypeInv, TypeOK
<1>2. ASSUME NEW t \in Threads, Entry(t)
      PROVE  TypeInv'
  <2>1. PICK f \in Families, m \in Models, l \in Loaders, stated \in Offlines,
             allow \in BOOLEAN : Enter(t, f, m, l, stated, allow)
    BY <1>2 DEF Entry
  <2>2. [family |-> f, model |-> m, loader |-> l, stated |-> stated,
         offline |-> Offline(stated)] \in LoadType
    BY DEF LoadType, Offline
  <2> QED BY <1>1, <2>1, <2>2 DEF TypeInv, TypeOK, Enter
<1>3. ASSUME NEW t \in Threads, Snapshot(t)
      PROVE  TypeInv'
  BY <1>1, <1>3 DEF TypeInv, TypeOK, Snapshot
<1>4. ASSUME NEW t \in Threads, SetFlags(t)
      PROVE  TypeInv'
  <2>1. flags' \in FlagType
    BY <1>4 DEF SetFlags, FlagType, Flags, EnvVars, Values
  <2> QED BY <1>1, <1>4, <2>1 DEF TypeInv, TypeOK, SetFlags
<1>5. ASSUME NEW t \in Threads, Hit(t)
      PROVE  TypeInv'
  <2>1. load[t] \in LoadType
    BY <1>5 DEF TypeInv, Hit
  <2>2. load[t].loader \in Loaders /\ load[t].model \in Models
    BY <2>1 DEF LoadType
  <2>3. MovedToEnd(loader[load[t].loader], load[t].model) \in Seq(Models)
    BY <1>1, <1>5, <2>2, MovedToEndProperties DEF TypeOK, Hit
  <2> QED BY <1>1, <1>5, <2>2, <2>3 DEF TypeInv, TypeOK, Hit
<1>6. ASSUME NEW t \in Threads, Miss(t)
      PROVE  TypeInv'
  BY <1>1, <1>6 DEF TypeInv, TypeOK, Miss
<1>7. ASSUME NEW t \in Threads, Ort(t) \/ BuildStatic(t)
      PROVE  TypeInv'
  <2>1. load[t] \in LoadType /\ load[t].model \in Models
    BY <1>7 DEF TypeInv, Ort, BuildOrt, BuildStatic, LoadType
  <2>2. loader' \in [Loaders -> Seq(Models)]
    BY <1>1, <1>7, <2>1, StoreType DEF Ort, BuildOrt, BuildStatic
  <2>3. /\ UNCHANGED <<local, fetched>> \/ Download(t)
        /\ pc' = [pc EXCEPT ![t] = "built"]
        /\ UNCHANGED <<shell, flags, load, saved, overlapped>>
        /\ pc[t] = "fetch"
    BY <1>7 DEF Ort, BuildOrt, BuildStatic
  <2>4. local' \subseteq Models /\ fetched' \in [Threads -> BOOLEAN]
        /\ \A u \in Threads \ {t} : fetched'[u] = fetched[u]
    BY <1>1, <2>1, <2>3 DEF TypeOK, Download
  <2> QED BY <1>1, <2>2, <2>3, <2>4 DEF TypeInv, TypeOK
<1>8. ASSUME NEW t \in Threads, BuildFail(t)
      PROVE  TypeInv'
  <2>1. load[t] \in LoadType /\ load[t].model \in Models
    BY <1>8 DEF TypeInv, BuildFail, LoadType
  <2>2. /\ pc[t] = "fetch" /\ pc' = [pc EXCEPT ![t] = "raised"]
        /\ UNCHANGED <<shell, flags, loader, load, saved, overlapped>>
        /\ local' \subseteq Models /\ fetched' \in [Threads -> BOOLEAN]
        /\ \A u \in Threads \ {t} : fetched'[u] = fetched[u]
    BY <1>1, <1>8, <2>1, FailedBuild DEF TypeOK
  <2> QED BY <1>1, <2>2 DEF TypeInv, TypeOK
<1>9. ASSUME NEW t \in Threads, Leave(t)
      PROVE  TypeInv'
  BY <1>1, <1>9 DEF TypeInv, TypeOK, Leave, Out
<1>10. CASE UNCHANGED vars
  BY <1>1, <1>10 DEF TypeInv, TypeOK, vars
<1> QED BY <1>2, <1>3, <1>4, <1>5, <1>6, <1>7, <1>8, <1>9, <1>10, NextSteps

\* load() keeps every variable in its type.
THEOREM TypeCorrect == Spec => []TypeOK
<1>1. TypeInv => TypeOK
  BY DEF TypeInv
<1> QED BY TypeInvInit, TypeInvNext, <1>1, PTL DEF Spec

LEMMA TypeInvAlways == Spec => []TypeInv
BY TypeInvInit, TypeInvNext, PTL DEF Spec


(***************************************************************************)
(* The gate of each class.                                                 *)
(***************************************************************************)

\* A load in progress is of a model its class does not exclude, and with a
\* cached loader of its class.
GatePassed(ld) ==
  /\ ld.model \notin Excluded[ld.family]
  /\ ld.loader = ld.family \/ (ld.loader = "model2vec" /\ ld.family = "embedding")

LicenseInv ==
  /\ OwnGateHolds
  /\ \A t \in Threads : pc[t] # "idle" => GatePassed(load[t])

\* Whatever the cached loaders hold after Hit or Store was there before or is
\* the model of the load that took the step.
LEMMA LoadedAfter ==
  ASSUME TypeOK, NEW t \in Threads, load[t] \in LoadType,
         NEW l \in Loaders, NEW m, Loaded(loader'[l], m),
         Store(t) \/ Hit(t)
  PROVE  Loaded(loader[l], m) \/ (Store(t) /\ l = load[t].loader /\ m = load[t].model)
<1>1. load[t].loader \in Loaders /\ load[t].model \in Models
  BY DEF LoadType
<1>2. loader[load[t].loader] \in Seq(Models)
  BY <1>1 DEF TypeOK
<1>3. CASE Hit(t)
  <2>1. \A i \in DOMAIN MovedToEnd(loader[load[t].loader], load[t].model) :
          \E j \in DOMAIN loader[load[t].loader] :
            MovedToEnd(loader[load[t].loader], load[t].model)[i] = loader[load[t].loader][j]
    <3>1. Loaded(loader[load[t].loader], load[t].model)
      BY <1>3 DEF Hit
    <3> QED BY <1>2, <3>1, MovedToEndProperties
  <2>2. loader'[l] = IF l = load[t].loader
                     THEN MovedToEnd(loader[l], load[t].model) ELSE loader[l]
    BY <1>3 DEF Hit, TypeOK
  <2> QED BY <2>1, <2>2 DEF Loaded
<1>4. CASE Store(t)
  <2>1. \A i \in DOMAIN Stored(loader[load[t].loader], load[t].model, LoaderSize[load[t].loader]) :
          \/ Stored(loader[load[t].loader], load[t].model, LoaderSize[load[t].loader])[i] = load[t].model
          \/ \E j \in DOMAIN loader[load[t].loader] :
               Stored(loader[load[t].loader], load[t].model, LoaderSize[load[t].loader])[i] = loader[load[t].loader][j]
    BY <1>1, <1>2, StoredProperties, SizeAssumption
  <2>2. loader'[l] = IF l = load[t].loader
                     THEN Stored(loader[l], load[t].model, LoaderSize[l]) ELSE loader[l]
    BY <1>4 DEF Store, TypeOK
  <2> QED BY <1>4, <2>1, <2>2 DEF Loaded
<1> QED BY <1>3, <1>4

LEMMA LicenseInvInit == Init => LicenseInv
<1> SUFFICES ASSUME Init PROVE LicenseInv
  OBVIOUS
<1>1. \A l \in Loaders : DOMAIN loader[l] = {}
  BY LenProperties, EmptySeq DEF Init
<1>2. local \subseteq AllRegistered
  BY LocalAssumption DEF Init, AllRegistered
<1> QED BY <1>1, <1>2 DEF Init, LicenseInv, OwnGateHolds, Loaded, Loaders

LEMMA LicenseInvNext == TypeInv /\ LicenseInv /\ [Next]_vars => LicenseInv'
<1> SUFFICES ASSUME TypeInv, LicenseInv, [Next]_vars PROVE LicenseInv'
  OBVIOUS
<1> USE DEF Goto
<1>1. TypeOK
  BY DEF TypeInv
<1>2. ASSUME NEW t \in Threads, Entry(t)
      PROVE  LicenseInv'
  <2>1. PICK f \in Families, m \in Models, l \in Loaders, stated \in Offlines,
             allow \in BOOLEAN :
          /\ l = f \/ (l = "model2vec" /\ f = "embedding")
          /\ Enter(t, f, m, l, stated, allow)
    BY <1>2 DEF Entry
  <2>2. \A u \in Threads \ {t} : pc'[u] = pc[u] /\ load'[u] = load[u]
    BY <1>1, <2>1 DEF Enter, TypeOK
  <2>3. load'[t] = [family |-> f, model |-> m, loader |-> l, stated |-> stated,
                    offline |-> Offline(stated)]
    BY <1>1, <2>1 DEF Enter, TypeOK
  <2>4. GatePassed(load'[t])
    BY <2>1, <2>3 DEF GatePassed, Enter, Refused
  <2>5. UNCHANGED <<loader, local>>
    BY <2>1 DEF Enter
  <2> QED BY <2>2, <2>4, <2>5 DEF LicenseInv, OwnGateHolds
<1>3. ASSUME NEW t \in Threads, Snapshot(t) \/ SetFlags(t) \/ Miss(t)
      PROVE  LicenseInv'
  <2>1. pc[t] # "idle" /\ UNCHANGED <<loader, local, load>>
        /\ \A u \in Threads : pc'[u] # "idle" => pc[u] # "idle"
    BY <1>1, <1>3 DEF Snapshot, SetFlags, Miss, TypeOK
  <2> QED BY <2>1 DEF LicenseInv, OwnGateHolds
<1>4. ASSUME NEW t \in Threads, Hit(t)
      PROVE  LicenseInv'
  <2>1. load[t] \in LoadType /\ UNCHANGED <<local, load>>
        /\ \A u \in Threads : pc'[u] # "idle" => pc[u] # "idle"
    BY <1>1, <1>4 DEF TypeInv, TypeOK, Hit
  <2>2. \A l \in Loaders : \A m : Loaded(loader'[l], m) =>
          Loaded(loader[l], m) \/ (Store(t) /\ l = load[t].loader /\ m = load[t].model)
    <3> SUFFICES ASSUME NEW l \in Loaders, NEW m, Loaded(loader'[l], m)
                 PROVE  Loaded(loader[l], m) \/ (Store(t) /\ l = load[t].loader /\ m = load[t].model)
      OBVIOUS
    <3> QED BY <1>1, <1>4, <2>1, LoadedAfter
  <2>3. \A l \in Loaders : \A m : Loaded(loader'[l], m) => Loaded(loader[l], m)
    <3> SUFFICES ASSUME NEW l \in Loaders, NEW m, Loaded(loader'[l], m)
                 PROVE  Loaded(loader[l], m)
      OBVIOUS
    <3>1. CASE l = load[t].loader /\ m = load[t].model
      BY <1>4, <3>1 DEF Hit
    <3> QED BY <2>2, <3>1
  <2> QED BY <2>1, <2>3 DEF LicenseInv, OwnGateHolds, Loaders
<1>5. ASSUME NEW t \in Threads, Ort(t) \/ BuildStatic(t)
      PROVE  LicenseInv'
  <2>1. /\ load[t] \in LoadType /\ load[t].model \in Models
        /\ GatePassed(load[t])
        /\ load[t].loader \in Families => load[t].model \in InRust[load[t].loader]
        /\ UNCHANGED load /\ Store(t)
        /\ \A u \in Threads : pc'[u] # "idle" => pc[u] # "idle"
        /\ local' \subseteq local \cup {load[t].model}
    BY <1>1, <1>5 DEF TypeInv, TypeOK, LicenseInv, Ort, BuildOrt, BuildStatic, Download,
                      LoadType, Families
  <2>2. \A l \in Loaders : \A m : Loaded(loader'[l], m) =>
          Loaded(loader[l], m) \/ (l = load[t].loader /\ m = load[t].model)
    BY <1>1, <2>1, LoadedAfter
  <2>3. \A f \in Families : \A m \in Models : Loaded(loader'[f], m) => m \in InRust[f]
    BY <2>1, <2>2 DEF LicenseInv, OwnGateHolds, Loaders
  <2>4. load[t].loader \notin Families => load[t].model \notin Excluded["embedding"]
    BY <2>1 DEF GatePassed, LoadType
  <2>5. \A m \in Excluded["embedding"] : ~Loaded(loader'["model2vec"], m)
    BY <2>1, <2>2, <2>4 DEF LicenseInv, OwnGateHolds, Loaders, Families
  <2>6. load[t].loader \in Families => load[t].model \in AllRegistered
    BY <2>1, ModelsAssumption DEF AllRegistered
  <2>7. local' \cap Excluded["embedding"] \subseteq AllRegistered
    BY <2>1, <2>4, <2>6 DEF LicenseInv, OwnGateHolds
  <2> QED BY <2>1, <2>3, <2>5, <2>7 DEF LicenseInv, OwnGateHolds
<1>6. ASSUME NEW t \in Threads, Leave(t)
      PROVE  LicenseInv'
  <2>1. /\ UNCHANGED <<loader, local>>
        /\ pc'[t] = "idle"
        /\ \A u \in Threads \ {t} : pc'[u] = pc[u] /\ load'[u] = load[u]
    BY <1>1, <1>6 DEF TypeOK, Leave, Out
  <2> QED BY <2>1 DEF LicenseInv, OwnGateHolds
<1>7. ASSUME NEW t \in Threads, BuildFail(t)
      PROVE  LicenseInv'
  <2>1. /\ UNCHANGED <<loader, load>>
        /\ \A u \in Threads : pc'[u] # "idle" => pc[u] # "idle"
        /\ load[t] \in LoadType /\ GatePassed(load[t])
    BY <1>1, <1>7, FailedBuild DEF TypeInv, TypeOK, LicenseInv
  <2>2. CASE local' = local
    BY <2>1, <2>2 DEF LicenseInv, OwnGateHolds
  <2>3. CASE MayDownload(t) /\ local' = local \cup {load[t].model}
    <3>1. load[t].loader \in Families => load[t].model \in AllRegistered
      BY <2>3, ModelsAssumption DEF MayDownload, AllRegistered, Families
    <3>2. load[t].loader \notin Families => load[t].model \notin Excluded["embedding"]
      BY <2>1 DEF GatePassed, LoadType
    <3> QED BY <2>1, <2>3, <3>1, <3>2 DEF LicenseInv, OwnGateHolds
  <2> QED BY <1>1, <1>7, <2>2, <2>3, FailedBuild
<1>8. CASE UNCHANGED vars
  BY <1>8 DEF LicenseInv, OwnGateHolds, vars
<1> QED BY <1>2, <1>3, <1>4, <1>5, <1>6, <1>7, <1>8, NextSteps

\* Whatever allow_unregistered says, no class keeps an ort backend of a model
\* outside its own Rust registry, and the embedding class no model2vec backend of
\* a model it excludes.
THEOREM OwnGateHoldsAlways == Spec => []OwnGateHolds
<1>1. LicenseInv => OwnGateHolds
  BY DEF LicenseInv
<1> QED BY LicenseInvInit, LicenseInvNext, TypeInvAlways, <1>1, PTL DEF Spec

(***************************************************************************)
(* The size of the cached loaders.                                         *)
(***************************************************************************)

LEMMA LoaderBoundedInit == Init => LoaderBounded
<1> SUFFICES ASSUME Init, NEW l \in Loaders
             PROVE  Len(loader[l]) = 0 /\ DOMAIN loader[l] = {}
  BY SizeAssumption DEF LoaderBounded
<1> QED BY LenProperties, EmptySeq DEF Init

LEMMA LoaderBoundedNext == TypeInv /\ LoaderBounded /\ [Next]_vars => LoaderBounded'
<1> SUFFICES ASSUME TypeInv, LoaderBounded, [Next]_vars, NEW l \in Loaders
             PROVE  Len(loader'[l]) <= LoaderSize[l] /\ Distinct(loader'[l])
  BY DEF LoaderBounded, Distinct
<1>1. /\ TypeOK /\ loader[l] \in Seq(Models)
      /\ Len(loader[l]) <= LoaderSize[l] /\ Distinct(loader[l])
  BY DEF TypeInv, TypeOK, LoaderBounded, Distinct
<1>2. CASE UNCHANGED loader
  BY <1>1, <1>2
<1>3. ASSUME NEW t \in Threads, Hit(t)
      PROVE  Len(loader'[l]) <= LoaderSize[l] /\ Distinct(loader'[l])
  <2>1. CASE l = load[t].loader
    <3>1. loader'[l] = MovedToEnd(loader[l], load[t].model) /\ Loaded(loader[l], load[t].model)
      BY <1>1, <1>3, <2>1 DEF Hit, TypeOK
    <3> QED BY <1>1, <3>1, MovedToEndProperties
  <2>2. CASE l # load[t].loader
    BY <1>1, <1>3, <2>2 DEF Hit, TypeOK
  <2> QED BY <2>1, <2>2
<1>4. ASSUME NEW t \in Threads, pc[t] # "idle", Store(t)
      PROVE  Len(loader'[l]) <= LoaderSize[l] /\ Distinct(loader'[l])
  <2>1. load[t].model \in Models
    BY <1>4 DEF TypeInv, LoadType
  <2>2. CASE l = load[t].loader
    <3>1. loader'[l] = Stored(loader[l], load[t].model, LoaderSize[l])
      BY <1>1, <1>4, <2>2 DEF Store, TypeOK
    <3> QED BY <1>1, <2>1, <3>1, StoredProperties, SizeAssumption
  <2>3. CASE l # load[t].loader
    BY <1>1, <1>4, <2>3 DEF Store, TypeOK
  <2> QED BY <2>2, <2>3
<1>5. \/ UNCHANGED loader
      \/ \E t \in Threads : Hit(t) \/ (pc[t] # "idle" /\ Store(t))
  BY NextSteps DEF vars, Entry, Enter, Snapshot, SetFlags, Miss, Ort, BuildOrt, BuildStatic,
         BuildFail, Leave, Out
<1> QED BY <1>2, <1>3, <1>4, <1>5

\* Neither cached loader outgrows its maxsize or keeps a model twice.
THEOREM LoaderBoundedAlways == Spec => []LoaderBounded
BY LoaderBoundedInit, LoaderBoundedNext, TypeInvAlways, PTL DEF Spec

(***************************************************************************)
(* The operator's HF_HUB_OFFLINE=1.                                        *)
(***************************************************************************)

\* The flags and every snapshot of them are offline if the shell is.
ShellInv ==
  /\ ShellOfflineKept
  /\ shell["HF_HUB_OFFLINE"] = "1" =>
       \A t \in Threads : saved[t]["HF_HUB_OFFLINE"] = "1" /\ saved[t]["constant"] = "1"

LEMMA OfflineShell ==
  ASSUME NEW e, e["HF_HUB_OFFLINE"] = "1"
  PROVE  FlagsOf(e)["HF_HUB_OFFLINE"] = "1" /\ FlagsOf(e)["constant"] = "1"
BY DEF FlagsOf, Flags, EnvVars

LEMMA ShellInvInit == Init => ShellInv
BY OfflineShell DEF Init, ShellInv, ShellOfflineKept

LEMMA ShellInvNext == TypeInv /\ ShellInv /\ [Next]_vars => ShellInv'
<1> SUFFICES ASSUME TypeInv, ShellInv, [Next]_vars, shell'["HF_HUB_OFFLINE"] = "1"
             PROVE  /\ flags'["HF_HUB_OFFLINE"] = "1" /\ flags'["constant"] = "1"
                    /\ \A u \in Threads : fetched'[u] => load'[u].loader # "model2vec"
                    /\ \A u \in Threads : saved'[u]["HF_HUB_OFFLINE"] = "1"
                                          /\ saved'[u]["constant"] = "1"
  BY DEF ShellInv, ShellOfflineKept
<1> USE DEF Goto
<1>1. shell' = shell /\ shell["HF_HUB_OFFLINE"] = "1"
  BY NextSteps DEF vars, Entry, Enter, Snapshot, SetFlags, Hit, Miss, Ort, BuildOrt, BuildStatic,
         BuildFail, Leave, Out
<1>2. /\ flags["HF_HUB_OFFLINE"] = "1" /\ flags["constant"] = "1"
      /\ \A u \in Threads : fetched[u] => load[u].loader # "model2vec"
      /\ \A u \in Threads : saved[u]["HF_HUB_OFFLINE"] = "1" /\ saved[u]["constant"] = "1"
      /\ TypeOK
  BY <1>1 DEF ShellInv, ShellOfflineKept, TypeInv
<1>3. ASSUME NEW t \in Threads, Entry(t)
      PROVE  \A u \in Threads : fetched'[u] => load'[u].loader # "model2vec"
  <2>1. ~fetched[t] /\ UNCHANGED fetched
    BY <1>3 DEF TypeInv, Entry, Enter
  <2>2. \A u \in Threads \ {t} : load'[u] = load[u]
    BY <1>2, <1>3 DEF Entry, Enter, TypeOK
  <2> QED BY <1>2, <2>1, <2>2
<1>4. ASSUME NEW t \in Threads, Entry(t)
      PROVE  UNCHANGED <<flags, saved>>
  BY <1>4 DEF Entry, Enter
<1>5. ASSUME NEW t \in Threads, Snapshot(t)
      PROVE  /\ UNCHANGED <<flags, fetched, load>>
             /\ \A u \in Threads : saved'[u] \in {saved[u], flags}
  BY <1>2, <1>5 DEF Snapshot, TypeOK
<1>6. ASSUME NEW t \in Threads, SetFlags(t)
      PROVE  /\ UNCHANGED <<saved, fetched, load>>
             /\ flags'["HF_HUB_OFFLINE"] = "1" /\ flags'["constant"] = "1"
  BY <1>6 DEF SetFlags, Flags, EnvVars
<1>7. ASSUME NEW t \in Threads, Hit(t) \/ Miss(t)
      PROVE  UNCHANGED <<flags, saved, fetched, load>>
  BY <1>7 DEF Hit, Miss
<1>8. ASSUME NEW t \in Threads, Ort(t) \/ BuildStatic(t) \/ BuildFail(t)
      PROVE  /\ UNCHANGED <<flags, saved, load>>
             /\ \A u \in Threads : fetched'[u] => load'[u].loader # "model2vec"
  <2>1. CASE Ort(t)
    BY <1>2, <2>1 DEF Ort, BuildOrt, Download, TypeOK, Families
  <2>2. CASE BuildStatic(t)
    BY <1>2, <2>2 DEF BuildStatic, MayDownload
  <2>3. CASE BuildFail(t)
    <3>1. MayDownload(t) => load[t].loader # "model2vec"
      BY <1>2 DEF MayDownload
    <3> QED BY <1>2, <2>3, <3>1, FailedBuild
  <2> QED BY <1>8, <2>1, <2>2, <2>3 DEF Ort, BuildOrt, BuildStatic
<1>9. ASSUME NEW t \in Threads, Leave(t)
      PROVE  /\ flags' \in {saved[t], flags}
             /\ \A u \in Threads : saved'[u] \in {saved[u], FlagsOf(shell)}
             /\ \A u \in Threads : fetched'[u] => fetched[u] /\ load'[u] = load[u]
  BY <1>2, <1>9 DEF Leave, Out, TypeOK
<1>10. CASE UNCHANGED vars
  BY <1>2, <1>10 DEF vars
<1>11. ASSUME NEW t \in Threads, Leave(t)
       PROVE  /\ flags'["HF_HUB_OFFLINE"] = "1" /\ flags'["constant"] = "1"
              /\ \A u \in Threads : fetched'[u] => load'[u].loader # "model2vec"
              /\ \A u \in Threads : saved'[u]["HF_HUB_OFFLINE"] = "1"
                                    /\ saved'[u]["constant"] = "1"
  BY <1>1, <1>2, <1>9, <1>11, OfflineShell
<1> QED BY <1>2, <1>3, <1>4, <1>5, <1>6, <1>7, <1>8, <1>10, <1>11, NextSteps

\* No load of this program, however many overlap, turns off the offline mode
\* the operator asked for, nor lets a model2vec load download under it.
THEOREM ShellOfflineAlways == Spec => []ShellOfflineKept
<1>1. ShellInv => ShellOfflineKept
  BY DEF ShellInv
<1> QED BY ShellInvInit, ShellInvNext, TypeInvAlways, <1>1, PTL DEF Spec

(***************************************************************************)
(* Loads that come one at a time.                                          *)
(***************************************************************************)

\* What load[t].offline must be: t's own setting, or the shell's.
OwnOffline(t) ==
  \/ load[t].stated = "on"
  \/ load[t].stated = "unstated" /\ shell["HF_HUB_OFFLINE"] = "1"

\* One thread is in load() at most; its snapshot is of the shell's flags, and
\* they are all offline inside its scope and the shell's outside it.
AloneInv ==
  ~overlapped =>
    /\ \A t, u \in Threads : pc[t] # "idle" /\ pc[u] # "idle" => t = u
    /\ \A t \in Threads : pc[t] \in {"snapshot", "set"} => load[t].offline
    /\ \A t \in Threads : pc[t] = "set" \/ InScope(t) => saved[t] = FlagsOf(shell)
    /\ \A t \in Threads : InScope(t) => flags["constant"] = "1"
    /\ (\A t \in Threads : ~InScope(t)) => flags = FlagsOf(shell)
    /\ \A t \in Threads : pc[t] # "idle" =>
         /\ load[t].offline /\ load[t].loader = "model2vec" => ~fetched[t]
         /\ load[t].offline <=> OwnOffline(t)

LEMMA AloneInvInit == Init => AloneInv
BY DEF Init, AloneInv, InScope

\* A step inside load() that leaves the other threads alone.
LEMMA AloneWithin ==
  ASSUME TypeOK, AloneInv, NEW t \in Threads, pc[t] # "idle", pc'[t] # "idle",
         \A u \in Threads \ {t} : pc'[u] = pc[u],
         UNCHANGED <<shell, load, overlapped>>,
         ~overlapped =>
           /\ pc'[t] \in {"snapshot", "set"} => load[t].offline
           /\ pc'[t] = "set" \/ InScope(t)' => saved'[t] = FlagsOf(shell)
           /\ InScope(t)' => flags'["constant"] = "1"
           /\ ~InScope(t)' => flags' = FlagsOf(shell)
           /\ load[t].offline /\ load[t].loader = "model2vec" => ~fetched'[t]
  PROVE  AloneInv'
<1> SUFFICES ASSUME ~overlapped PROVE AloneInv'
  BY DEF AloneInv
<1>1. \A u \in Threads \ {t} : pc[u] = "idle" /\ pc'[u] = "idle"
  BY DEF AloneInv
<1>2. \A u \in Threads \ {t} : ~InScope(u)'
  BY <1>1 DEF InScope
<1>3. load[t].offline <=> OwnOffline(t)
  BY DEF AloneInv
<1> QED BY <1>1, <1>2, <1>3 DEF AloneInv, OwnOffline

LEMMA AloneInvNext == TypeInv /\ AloneInv /\ [Next]_vars => AloneInv'
<1> SUFFICES ASSUME TypeInv, AloneInv, [Next]_vars PROVE AloneInv'
  OBVIOUS
<1> USE DEF Goto
<1>1. TypeOK
  BY DEF TypeInv
<1>2. ASSUME NEW t \in Threads, Entry(t), ~overlapped'
      PROVE  AloneInv'
  <2>1. /\ ~overlapped /\ pc[t] = "idle" /\ ~fetched[t]
        /\ \A u \in Threads : pc[u] = "idle"
        /\ UNCHANGED <<shell, flags, saved, fetched>>
    BY <1>2 DEF Entry, Enter, TypeInv
  <2>2. flags = FlagsOf(shell) /\ flags["HF_HUB_OFFLINE"] = shell["HF_HUB_OFFLINE"]
    BY <2>1 DEF AloneInv, InScope, FlagsOf, Flags, EnvVars
  <2>3. PICK f \in Families, m \in Models, l \in Loaders, stated \in Offlines,
             allow \in BOOLEAN : Enter(t, f, m, l, stated, allow)
    BY <1>2 DEF Entry
  <2>4. /\ load'[t].offline = Offline(stated) /\ load'[t].stated = stated
        /\ pc'[t] = IF Offline(stated) THEN "snapshot" ELSE "lookup"
        /\ \A u \in Threads \ {t} : pc'[u] = "idle"
    BY <1>1, <2>1, <2>3 DEF TypeOK, Enter
  <2>5. \A u \in Threads : ~InScope(u)'
    BY <2>4 DEF InScope
  <2>6. load'[t].offline <=> OwnOffline(t)'
    BY <2>1, <2>2, <2>4 DEF Offline, OwnOffline
  <2> QED BY <2>1, <2>2, <2>4, <2>5, <2>6 DEF AloneInv
<1>3. ASSUME NEW t \in Threads, Snapshot(t)
      PROVE  AloneInv'
  <2>1. ~overlapped => flags = FlagsOf(shell) /\ load[t].offline
    <3> SUFFICES ASSUME ~overlapped
                 PROVE  flags = FlagsOf(shell) /\ load[t].offline
      OBVIOUS
    <3>1. \A u \in Threads : ~InScope(u)
      BY <1>3 DEF AloneInv, InScope, Snapshot
    <3> QED BY <1>3, <3>1 DEF AloneInv, Snapshot
  <2>2. /\ pc[t] = "snapshot" /\ pc'[t] = "set" /\ saved'[t] = flags
        /\ \A u \in Threads \ {t} : pc'[u] = pc[u]
        /\ UNCHANGED <<shell, flags, load, fetched, overlapped>>
    BY <1>1, <1>3 DEF Snapshot, TypeOK
  <2>3. ~InScope(t)'
    BY <2>2 DEF InScope
  <2>4. ~overlapped => (load[t].offline /\ load[t].loader = "model2vec" => ~fetched[t])
    BY <2>2 DEF AloneInv
  <2> QED BY <1>1, <2>1, <2>2, <2>3, <2>4, AloneWithin
<1>4. ASSUME NEW t \in Threads, SetFlags(t)
      PROVE  AloneInv'
  <2>1. /\ pc[t] = "set" /\ pc'[t] = "lookup" /\ flags'["constant"] = "1"
        /\ \A u \in Threads \ {t} : pc'[u] = pc[u]
        /\ UNCHANGED <<shell, load, saved, fetched, overlapped>>
    BY <1>1, <1>4 DEF SetFlags, TypeOK, Flags
  <2>2. ~overlapped =>
          /\ load[t].offline /\ saved[t] = FlagsOf(shell)
          /\ load[t].offline /\ load[t].loader = "model2vec" => ~fetched[t]
    BY <2>1 DEF AloneInv
  <2>3. ~overlapped => InScope(t)'
    BY <2>1, <2>2 DEF InScope
  <2> QED BY <1>1, <2>1, <2>2, <2>3, AloneWithin
<1>5. ASSUME NEW t \in Threads,
             Hit(t) \/ Miss(t) \/ Ort(t) \/ BuildStatic(t) \/ BuildFail(t)
      PROVE  AloneInv'
  <2>1. /\ pc[t] \in {"lookup", "fetch"} /\ pc'[t] \in {"fetch", "built", "raised"}
        /\ \A u \in Threads \ {t} : pc'[u] = pc[u]
        /\ UNCHANGED <<shell, flags, load, saved, overlapped>>
    BY <1>1, <1>5 DEF Hit, Miss, Ort, BuildOrt, BuildStatic, BuildFail, TypeOK
  <2>2. InScope(t)' <=> InScope(t)
    BY <2>1 DEF InScope
  <2>3. ASSUME ~overlapped
        PROVE  /\ InScope(t) => saved[t] = FlagsOf(shell) /\ flags["constant"] = "1"
               /\ ~InScope(t) => flags = FlagsOf(shell)
               /\ load[t].offline /\ load[t].loader = "model2vec" => ~fetched[t]
    <3>1. \A u \in Threads \ {t} : ~InScope(u)
      BY <2>1, <2>3 DEF AloneInv, InScope
    <3> QED BY <2>1, <2>3, <3>1 DEF AloneInv
  <2>4. ~overlapped => (load[t].offline /\ load[t].loader = "model2vec" => ~fetched'[t])
    <3>1. CASE BuildStatic(t)
      <4>1. load[t].offline => InScope(t)
        BY <2>1 DEF InScope
      <4> QED BY <2>3, <3>1, <4>1 DEF BuildStatic, MayDownload
    <3>2. CASE Ort(t)
      BY <3>2 DEF Ort, Families
    <3>3. CASE Hit(t) \/ Miss(t)
      BY <2>3, <3>3 DEF Hit, Miss
    <3>4. CASE BuildFail(t)
      <4>1. load[t].offline => InScope(t)
        BY <2>1 DEF InScope
      <4>2. fetched'[t] => fetched[t] \/ MayDownload(t)
        BY <1>1, <3>4, FailedBuild
      <4> QED BY <2>3, <4>1, <4>2 DEF MayDownload
    <3> QED BY <1>5, <3>1, <3>2, <3>3, <3>4
  <2> QED BY <1>1, <2>1, <2>2, <2>3, <2>4, AloneWithin
<1>6. ASSUME NEW t \in Threads, Leave(t), ~overlapped
      PROVE  AloneInv'
  <2>1. /\ pc[t] \in {"built", "raised"} /\ pc'[t] = "idle"
        /\ \A u \in Threads \ {t} : pc'[u] = pc[u]
        /\ UNCHANGED <<shell, overlapped>>
        /\ flags' = IF load[t].offline THEN saved[t] ELSE flags
    BY <1>1, <1>6 DEF Leave, Out, TypeOK
  <2>2. \A u \in Threads : pc'[u] = "idle"
    BY <1>6, <2>1 DEF AloneInv
  <2>3. flags' = FlagsOf(shell)
    <3>1. InScope(t) <=> load[t].offline
      BY <2>1 DEF InScope
    <3>2. \A u \in Threads \ {t} : ~InScope(u)
      BY <1>6, <2>1 DEF AloneInv, InScope
    <3> QED BY <1>6, <2>1, <3>1, <3>2 DEF AloneInv
  <2> QED BY <2>1, <2>2, <2>3 DEF AloneInv, InScope
<1>7. CASE UNCHANGED vars
  BY <1>7 DEF AloneInv, InScope, OwnOffline, vars
<1>8. \/ overlapped'
      \/ UNCHANGED vars
      \/ \E t \in Threads : Entry(t) /\ ~overlapped'
      \/ ~overlapped /\ \E t \in Threads :
           \/ Snapshot(t) \/ SetFlags(t) \/ Hit(t) \/ Miss(t)
           \/ Ort(t) \/ BuildStatic(t) \/ BuildFail(t) \/ Leave(t)
  BY NextSteps DEF Snapshot, SetFlags, Hit, Miss, Ort, BuildOrt, BuildStatic, BuildFail,
         Leave, Out
<1>9. overlapped' => AloneInv'
  BY DEF AloneInv
<1> QED BY <1>2, <1>3, <1>4, <1>5, <1>6, <1>7, <1>8, <1>9

LEMMA AloneInvAlways == Spec => []AloneInv
BY AloneInvInit, AloneInvNext, TypeInvAlways, PTL DEF Spec

\* While loads come one at a time, every flag is as the shell set it whenever
\* no offline scope is open, also after a load that raised.
THEOREM FlagsRestoredAlways == Spec => []FlagsRestored
<1>1. AloneInv => FlagsRestored
  BY DEF AloneInv, FlagsRestored
<1> QED BY AloneInvAlways, <1>1, PTL

\* While loads come one at a time, a load is offline exactly if its settings
\* or the shell say so, and then no model2vec load downloads.
THEOREM OfflineIsOwnAlways == Spec => []OfflineIsOwn
<1>1. AloneInv => OfflineIsOwn
  BY DEF AloneInv, OfflineIsOwn, OwnOffline
<1> QED BY AloneInvAlways, <1>1, PTL

=============================================================================
