--------------------------- MODULE Prefetch_proofs ---------------------------
(***************************************************************************)
(* Theorems about Prefetch, for all commands, registries, environments and *)
(* interleavings: a prefetch loads as ModelLoad says, its report is true,  *)
(* and its exit code tells what became of the models.                      *)
(***************************************************************************)
EXTENDS Prefetch, ModelLoad_proofs, FiniteSetTheorems

(***************************************************************************)
(* The jobs.                                                               *)
(***************************************************************************)

Pairs == Families \X Models

\* A job of the list loads m.
Has(s, m) == \E n \in DOMAIN s : s[n][2] = m

LEMMA ConcatHas ==
  ASSUME NEW s \in Seq(Pairs), NEW t \in Seq(Pairs)
  PROVE  /\ s \o t \in Seq(Pairs)
         /\ \A m : Has(s, m) \/ Has(t, m) => Has(s \o t, m)
<1>1. /\ s \o t \in Seq(Pairs) /\ Len(s \o t) = Len(s) + Len(t)
      /\ \A i \in 1..(Len(s) + Len(t)) :
           (s \o t)[i] = IF i <= Len(s) THEN s[i] ELSE t[i - Len(s)]
  BY ConcatProperties
<1>2. /\ Len(s) \in Nat /\ DOMAIN s = 1..Len(s)
      /\ Len(t) \in Nat /\ DOMAIN t = 1..Len(t)
      /\ DOMAIN (s \o t) = 1..(Len(s) + Len(t))
  BY <1>1, LenProperties
<1> DEFINE both == s \o t
<1> HIDE DEF both
<1>3. ASSUME NEW m, Has(s, m) PROVE Has(both, m)
  <2>1. PICK n \in 1..Len(s) : s[n][2] = m
    BY <1>2, <1>3 DEF Has
  <2>2. n \in DOMAIN both /\ both[n] = s[n]
    BY <1>1, <1>2 DEF both
  <2> QED BY <2>1, <2>2 DEF Has
<1>4. ASSUME NEW m, Has(t, m) PROVE Has(both, m)
  <2>1. PICK n \in 1..Len(t) : t[n][2] = m
    BY <1>2, <1>4 DEF Has
  <2>2. n + Len(s) \in DOMAIN both /\ both[n + Len(s)] = t[n]
    BY <1>1, <1>2 DEF both
  <2> QED BY <2>1, <2>2 DEF Has
<1> QED BY <1>1, <1>3, <1>4 DEF both

\* The family found for a registered id is one that registers it.
LEMMA FamilyOfRegistered ==
  ASSUME NEW m \in AllRegistered
  PROVE  FamilyOf(m) \in Families
<1> DEFINE S == {n \in DOMAIN FamilyOrder : m \in Registered[FamilyOrder[n]]}
<1>1. DOMAIN FamilyOrder = 1..5
  BY DEF FamilyOrder
<1>2. \A n \in 1..5 : FamilyOrder[n] \in Families
  BY DEF FamilyOrder, Families
<1>3. \A f \in Families : \E n \in 1..5 : FamilyOrder[n] = f
  <2>1. /\ FamilyOrder[1] = "embedding" /\ FamilyOrder[2] = "reranker"
        /\ FamilyOrder[3] = "nli" /\ FamilyOrder[4] = "ner" /\ FamilyOrder[5] = "pii"
    BY DEF FamilyOrder
  <2> QED BY <2>1 DEF Families
<1>4. S \subseteq 1..5 /\ S # {}
  BY <1>1, <1>3 DEF AllRegistered
<1> HIDE DEF S
<1>5. \E x \in S : \A y \in S : x >= y
  <2>1. CASE 5 \in S
    BY <1>4, <2>1
  <2>2. CASE 5 \notin S /\ 4 \in S
    BY <1>4, <2>2
  <2>3. CASE 5 \notin S /\ 4 \notin S /\ 3 \in S
    BY <1>4, <2>3
  <2>4. CASE 5 \notin S /\ 4 \notin S /\ 3 \notin S /\ 2 \in S
    BY <1>4, <2>4
  <2>5. CASE S \subseteq {1}
    <3>1. PICK x \in S : TRUE
      BY <1>4
    <3>2. x = 1 /\ \A y \in S : y = 1
      BY <2>5, <3>1
    <3>3. 1 >= 1
      OBVIOUS
    <3> QED BY <3>1, <3>2, <3>3
  <2> QED BY <1>4, <2>1, <2>2, <2>3, <2>4, <2>5
<1>6. Max(S) \in S
  BY <1>5 DEF Max
<1>7. FamilyOf(m) = FamilyOrder[Max(S)]
  BY DEF FamilyOf, S
<1> QED BY <1>2, <1>4, <1>6, <1>7

\* The jobs of a command are of known classes, and each model that the command
\* is for has one.
LEMMA JobsForProperties ==
  ASSUME NEW c \in Command, ~Unknown(c)
  PROVE  /\ JobsFor(c) \in Seq(Pairs)
         /\ \A m \in Wanted(c) : Has(JobsFor(c), m)
<1>1. CASE c.ids # <<>>
  <2>1. c.ids \in Seq(Models)
    BY DEF Command
  <2>2. /\ Len(c.ids) \in Nat /\ DOMAIN c.ids = 1..Len(c.ids)
        /\ \A n \in DOMAIN c.ids : c.ids[n] \in Models /\ c.ids[n] \in AllRegistered
    BY <2>1, LenProperties, ElementOfSeq DEF Unknown
  <2> DEFINE j == [n \in 1..Len(c.ids) |-> <<FamilyOf(c.ids[n]), c.ids[n]>>]
  <2>3. JobsFor(c) = j
    BY <1>1, <2>2 DEF JobsFor, ExplicitJobs
  <2>4. \A n \in 1..Len(c.ids) : j[n] \in Pairs /\ j[n][2] = c.ids[n]
    BY <2>2, FamilyOfRegistered DEF Pairs
  <2>5. j \in Seq(Pairs) /\ DOMAIN j = 1..Len(c.ids)
    <3>1. j \in [1..Len(c.ids) -> Pairs]
      BY <2>4
    <3> HIDE DEF j
    <3> QED BY <2>2, <3>1
  <2>6. Wanted(c) = {c.ids[n] : n \in 1..Len(c.ids)}
    BY <1>1, <2>2 DEF Wanted, ToSet
  <2> HIDE DEF j
  <2> QED BY <2>3, <2>4, <2>5, <2>6 DEF Has
<1>2. CASE c.ids = <<>>
  <2> DEFINE Of(f) == IF c.include = {} \/ f \in c.include THEN JobsOf(f) ELSE <<>>
             e1 == Of("embedding") \o Of("reranker")
             e2 == e1 \o Of("nli")
             e3 == e2 \o Of("ner")
             e4 == e3 \o Of("pii")
  <2>1. JobsFor(c) = e4
    BY <1>2 DEF JobsFor, FamilyJobs
  <2>2. ASSUME NEW f \in Families
        PROVE  /\ Of(f) \in Seq(Pairs)
               /\ (c.include = {} \/ f \in c.include) =>
                    \A m \in Registered[f] : Has(Of(f), m)
    <3>1. /\ SortedIds[f] \in Seq(Models) /\ DOMAIN SortedIds[f] = 1..Len(SortedIds[f])
          /\ Len(SortedIds[f]) \in Nat /\ \A n \in DOMAIN SortedIds[f] : SortedIds[f][n] \in Models
      BY OrderAssumption, LenProperties, ElementOfSeq
    <3>2. /\ JobsOf(f) \in Seq(Pairs) /\ DOMAIN JobsOf(f) = DOMAIN SortedIds[f]
          /\ \A n \in DOMAIN SortedIds[f] : JobsOf(f)[n][2] = SortedIds[f][n]
      BY <3>1 DEF JobsOf, Pairs
    <3>3. \A m \in Registered[f] : \E n \in DOMAIN SortedIds[f] : SortedIds[f][n] = m
      BY OrderAssumption DEF ToSet
    <3>4. \A m \in Registered[f] : Has(JobsOf(f), m)
      BY <3>2, <3>3 DEF Has
    <3>5. <<>> \in Seq(Pairs)
      BY EmptySeq
    <3> QED BY <3>2, <3>4, <3>5
  <2> HIDE DEF Of
  <2>3. /\ Of("embedding") \in Seq(Pairs) /\ Of("reranker") \in Seq(Pairs)
        /\ Of("nli") \in Seq(Pairs) /\ Of("ner") \in Seq(Pairs) /\ Of("pii") \in Seq(Pairs)
    BY <2>2 DEF Families
  <2> HIDE DEF e1, e2, e3, e4
  <2>4. /\ e1 \in Seq(Pairs)
        /\ \A m : Has(Of("embedding"), m) \/ Has(Of("reranker"), m) => Has(e1, m)
    BY <2>3, ConcatHas DEF e1
  <2>5. e2 \in Seq(Pairs) /\ \A m : Has(e1, m) \/ Has(Of("nli"), m) => Has(e2, m)
    BY <2>3, <2>4, ConcatHas DEF e2
  <2>6. e3 \in Seq(Pairs) /\ \A m : Has(e2, m) \/ Has(Of("ner"), m) => Has(e3, m)
    BY <2>3, <2>5, ConcatHas DEF e3
  <2>7. e4 \in Seq(Pairs) /\ \A m : Has(e3, m) \/ Has(Of("pii"), m) => Has(e4, m)
    BY <2>3, <2>6, ConcatHas DEF e4
  <2>8. \A f \in Families : \A m : Has(Of(f), m) => Has(e4, m)
    BY <2>4, <2>5, <2>6, <2>7 DEF Families
  <2>9. ASSUME NEW m \in Wanted(c) PROVE Has(e4, m)
    <3>1. PICK f \in Families : (c.include = {} \/ f \in c.include) /\ m \in Registered[f]
      BY <1>2, <2>9 DEF Wanted
    <3> QED BY <2>2, <2>8, <3>1
  <2> QED BY <2>1, <2>7, <2>9
<1> QED BY <1>1, <1>2

(***************************************************************************)
(* What is loaded is on disk.                                              *)
(***************************************************************************)

OnDisk(m) == m \in local \cup Vendored

DiskInv ==
  /\ \A l \in Loaders, m \in Models : Loaded(loader[l], m) => OnDisk(m)
  /\ \A t \in Threads : pc[t] = "built" => OnDisk(load[t].model)

LEMMA DiskInvInit == Init => DiskInv
<1> SUFFICES ASSUME Init PROVE DiskInv
  OBVIOUS
<1>1. \A l \in Loaders : DOMAIN loader[l] = {}
  BY LenProperties, EmptySeq DEF Init
<1> QED BY <1>1 DEF Init, DiskInv, Loaded

\* Nothing is ever removed from the local cache.
LEMMA LocalGrows == [Next]_vars => local \subseteq local'
<1> SUFFICES ASSUME [Next]_vars PROVE local \subseteq local'
  OBVIOUS
<1> QED BY NextSteps DEF Entry, Enter, Snapshot, SetFlags, Hit, Miss, Ort, BuildOrt, BuildStatic,
                         Download, BuildFail, Leave, Out, vars

LEMMA DiskInvNext == TypeInv /\ DiskInv /\ [Next]_vars => DiskInv'
<1> SUFFICES ASSUME TypeInv, DiskInv, [Next]_vars PROVE DiskInv'
  OBVIOUS
<1>1. TypeOK /\ \A m : OnDisk(m) => OnDisk(m)'
  BY LocalGrows DEF TypeInv, OnDisk
<1> USE DEF Goto
<1>2. ASSUME NEW t \in Threads, Entry(t)
      PROVE  DiskInv'
  <2>1. /\ loader' = loader /\ pc'[t] # "built"
        /\ \A u \in Threads \ {t} : pc'[u] = pc[u] /\ load'[u] = load[u]
    BY <1>1, <1>2 DEF Entry, Enter, TypeOK
  <2> QED BY <1>1, <2>1 DEF DiskInv
<1>3. ASSUME NEW t \in Threads, Snapshot(t) \/ SetFlags(t) \/ Miss(t) \/ BuildFail(t) \/ Leave(t)
      PROVE  DiskInv'
  <2>1. /\ loader' = loader /\ pc'[t] # "built"
        /\ \A u \in Threads \ {t} : pc'[u] = pc[u] /\ load'[u] = load[u]
    BY <1>1, <1>3 DEF Snapshot, SetFlags, Miss, BuildFail, Leave, Out, TypeOK
  <2> QED BY <1>1, <2>1 DEF DiskInv
<1>4. ASSUME NEW t \in Threads, Hit(t)
      PROVE  DiskInv'
  <2>1. load[t] \in LoadType /\ load[t].loader \in Loaders /\ load[t].model \in Models
    BY <1>4 DEF TypeInv, Hit, LoadType
  <2>2. \A l \in Loaders, m \in Models : Loaded(loader'[l], m) => Loaded(loader[l], m)
    <3>1. Loaded(loader[load[t].loader], load[t].model)
      BY <1>4 DEF Hit
    <3> QED BY <1>1, <1>4, <2>1, <3>1, LoadedAfter
  <2>3. OnDisk(load[t].model)
    BY <1>4, <2>1 DEF Hit, DiskInv
  <2>4. load' = load /\ \A u \in Threads \ {t} : pc'[u] = pc[u]
    BY <1>1, <1>4 DEF Hit, TypeOK
  <2> QED BY <1>1, <2>2, <2>3, <2>4 DEF DiskInv
<1>5. ASSUME NEW t \in Threads, Ort(t) \/ BuildStatic(t)
      PROVE  DiskInv'
  <2>1. load[t] \in LoadType /\ load[t].model \in Models
    BY <1>5 DEF TypeInv, Ort, BuildOrt, BuildStatic, LoadType
  <2>2. Store(t) /\ load' = load /\ OnDisk(load[t].model)'
    BY <1>5 DEF Ort, BuildOrt, BuildStatic, Download, OnDisk
  <2>3. \A u \in Threads \ {t} : pc'[u] = pc[u]
    BY <1>1, <1>5 DEF Ort, BuildOrt, BuildStatic, TypeOK
  <2>4. \A l \in Loaders, m \in Models :
          Loaded(loader'[l], m) => Loaded(loader[l], m) \/ m = load[t].model
    BY <1>1, <2>1, <2>2, LoadedAfter
  <2> QED BY <1>1, <2>2, <2>3, <2>4 DEF DiskInv
<1>6. CASE UNCHANGED vars
  BY <1>1, <1>6 DEF DiskInv, vars
<1> QED BY <1>2, <1>3, <1>4, <1>5, <1>6, NextSteps

(***************************************************************************)
(* The command.                                                            *)
(***************************************************************************)

Statuses == {"ok", "failed", "planned"}
RowType == [family : Families, model : Models, status : Statuses]

\* The rows of a status, and their number.
RowsOf(status) == {n \in DOMAIN rows : rows[n].status = status}
Counted == \A status \in {"ok", "failed"} : count[status] = Cardinality(RowsOf(status))

\* Row n is about job n, and if it is ok, the model is there.
RowTrue(n) ==
  /\ rows[n].family = jobs[n][1] /\ rows[n].model = jobs[n][2]
  /\ rows[n].status = "ok" => OnDisk(rows[n].model)

CommandType ==
  /\ phase \in {"application", "started", "loading", "ended"}
  /\ phase = "application" => command = NoCommand
  /\ phase # "application" => command \in Command
  /\ jobs \in Seq(Pairs) /\ rows \in Seq(RowType)
  /\ count \in [{"ok", "failed"} -> Nat]

\* Before there are jobs nothing is loaded or reported, and a load of the command
\* is always that of the job whose row is next.
CommandInv ==
  /\ CommandType
  /\ Len(rows) <= Len(jobs) /\ Counted
  /\ \A n \in DOMAIN rows : RowTrue(n)
  /\ phase # "ended" => exit = "none"
  /\ phase \in {"application", "started"} => rows = <<>>
  /\ phase = "started" => (\A l \in Loaders : loader[l] = <<>>) /\ pc[Cli] = "idle"
  /\ phase = "loading" =>
       /\ ~Unparsable(command) /\ ~Unknown(command) /\ jobs = JobsFor(command)
       /\ \A n \in DOMAIN rows : rows[n].status \in {"ok", "failed"}
       /\ pc[Cli] # "idle" => Len(rows) < Len(jobs) /\ load[Cli].model = Job[2]
  /\ ExitCodeTells

LEMMA CommandInvInit == PrefetchInit => CommandInv
<1> SUFFICES ASSUME PrefetchInit PROVE CommandInv
  OBVIOUS
<1>1. /\ jobs = <<>> /\ rows = <<>> /\ exit = "none"
      /\ count = [ok |-> 0, failed |-> 0]
      /\ phase \in {"application", "started"}
      /\ phase = "application" => command = NoCommand
      /\ phase # "application" => command \in Command
  BY CommandsAssumption DEF PrefetchInit
<1>2. DOMAIN rows = {} /\ Len(rows) = 0 /\ Len(jobs) = 0
  BY <1>1
<1>3. Counted
  <2>1. \A status : RowsOf(status) = {}
    BY <1>2 DEF RowsOf
  <2> QED BY <1>1, <2>1, FS_EmptySet DEF Counted
<1>4. CommandType
  BY <1>1 DEF CommandType
<1>5. (\A l \in Loaders : loader[l] = <<>>) /\ pc[Cli] = "idle"
  BY CliAssumption DEF PrefetchInit, Init
<1>6. ExitCodeTells
  BY <1>1, <1>5 DEF ExitCodeTells
<1> QED BY <1>1, <1>2, <1>3, <1>4, <1>5, <1>6 DEF CommandInv

\* The job that is next.
LEMMA JobType ==
  ASSUME CommandInv, Pending
  PROVE  Job \in Pairs /\ Job[1] \in Families /\ Job[2] \in Models
<1>1. Len(rows) + 1 \in DOMAIN jobs
  BY LenProperties DEF CommandInv, CommandType, Pending
<1>2. Job \in Pairs
  BY <1>1, ElementOfSeq, LenProperties DEF CommandInv, CommandType, Job
<1> QED BY <1>2 DEF Pairs

\* A step of a prefetch is a step of ModelLoad, or leaves its state alone.
LEMMA StepRefines ==
  ASSUME CommandInv, [PrefetchNext]_allVars
  PROVE  [Next]_vars
<1>1. CASE RejectArguments \/ RejectIds \/ NothingToDo \/ DryRun \/ Plan \/ JobRefused
             \/ Finish \/ Ended
  BY <1>1 DEF RejectArguments, RejectIds, NothingToDo, DryRun, Plan, JobRefused, Finish, Ended, allVars
<1>2. CASE StartJob
  <2>1. PICK stated \in Offlines, requested \in Requests :
          LoadOf(Cli, Job[1], Job[2], requested, stated, command.allow)
    BY <1>2 DEF StartJob
  <2>2. Pending /\ command.allow \in BOOLEAN
    BY <1>2 DEF StartJob, Pending, CommandInv, CommandType, Command
  <2>3. Job[1] \in Families /\ Job[2] \in Models
    BY <2>2, JobType
  <2>4. Begin(Cli, Job[1], Job[2])
    BY <2>1, <2>2, Zenon DEF Begin
  <2> QED BY <2>3, <2>4, CliAssumption DEF Next
<1>3. CASE InsideJob \/ EndJob
  BY <1>3, CliAssumption DEF InsideJob, EndJob, Next, Step
<1>4. ASSUME NEW t \in Threads \ {Cli}, CallLoad(t) \/ GoOn(t)
      PROVE  Next
  BY <1>4, AskedAssumption DEF CallLoad, GoOn, Next
<1>5. CASE UNCHANGED allVars
  BY <1>5 DEF allVars
<1> QED BY <1>1, <1>2, <1>3, <1>4, <1>5 DEF PrefetchNext

\* A step of ModelLoad inside the load of the job that is next: the command's
\* own state stays, and the loads of others and what is loaded do not matter.
LEMMA CommandInvFramed ==
  ASSUME CommandInv, TypeInv, [Next]_vars, UNCHANGED cmdVars,
         phase \in {"application", "loading"},
         phase = "loading" /\ pc'[Cli] # "idle" =>
           Len(rows) < Len(jobs) /\ load'[Cli].model = Job[2]
  PROVE  CommandInv'
<1> USE DEF cmdVars
<1>1. \A m : OnDisk(m) => OnDisk(m)'
  BY LocalGrows DEF OnDisk
<1>2. CommandType' /\ Counted'
  BY DEF CommandInv, CommandType, Counted, RowsOf
<1>3. \A n \in DOMAIN rows' : RowTrue(n)'
  BY <1>1 DEF CommandInv, RowTrue
<1>4. ExitCodeTells'
  <2>1. exit' = "none" /\ ~Unparsable(command)'
    BY DEF CommandInv, CommandType, Unparsable, NoCommand
  <2> QED BY <2>1 DEF ExitCodeTells
<1> QED BY <1>2, <1>3, <1>4 DEF CommandInv, Job

\* A row is added for the job that is next.
LEMMA CommandInvReport ==
  ASSUME CommandInv, TypeInv, [Next]_vars, Pending, NEW status \in {"ok", "failed"},
         Report(status), pc'[Cli] = "idle", status = "ok" => OnDisk(Job[2])
  PROVE  CommandInv'
<1> DEFINE row == Row(Job, status)
<1>1. /\ rows' = Append(rows, row) /\ count' = [count EXCEPT ![status] = @ + 1]
      /\ command' = command /\ phase' = phase /\ jobs' = jobs /\ exit' = exit
      /\ phase = "loading" /\ Len(rows) < Len(jobs) /\ exit = "none"
  BY DEF Report, Pending, CommandInv
<1>2. Job \in Pairs /\ row \in RowType
  BY JobType DEF Pairs, Row, RowType, Statuses
<1>3. /\ row.family = Job[1] /\ row.model = Job[2] /\ row.status = status
  BY DEF Row
<1> HIDE DEF row
<1>4. /\ rows \in Seq(RowType) /\ jobs \in Seq(Pairs) /\ Len(rows) \in Nat /\ Len(jobs) \in Nat
      /\ DOMAIN rows = 1..Len(rows) /\ DOMAIN jobs = 1..Len(jobs)
  BY LenProperties DEF CommandInv, CommandType
<1>5. /\ rows' \in Seq(RowType) /\ Len(rows') = Len(rows) + 1
      /\ DOMAIN rows' = 1..(Len(rows) + 1)
      /\ rows'[Len(rows) + 1] = row
      /\ \A n \in 1..Len(rows) : rows'[n] = rows[n]
  BY <1>1, <1>2, <1>4, AppendProperties, LenProperties
<1>6. \A m : OnDisk(m) => OnDisk(m)'
  BY LocalGrows DEF OnDisk
<1>7. ASSUME NEW n \in DOMAIN rows' PROVE RowTrue(n)'
  <2>1. CASE n = Len(rows) + 1
    <3>1. Job = jobs[n]
      BY <2>1 DEF Job
    <3> QED BY <1>1, <1>3, <1>5, <1>6, <2>1, <3>1 DEF RowTrue
  <2>2. CASE n \in 1..Len(rows)
    <3>1. RowTrue(n)
      BY <1>4, <2>2 DEF CommandInv
    <3> QED BY <1>1, <1>5, <1>6, <2>2, <3>1 DEF RowTrue
  <2> QED BY <1>4, <1>5, <2>1, <2>2
<1>8. Counted'
  <2>1. ASSUME NEW s \in {"ok", "failed"}
        PROVE  count'[s] = Cardinality(RowsOf(s)')
    <3>1. IsFiniteSet(RowsOf(s)) /\ Len(rows) + 1 \notin RowsOf(s)
      <4>1. RowsOf(s) \subseteq 1..Len(rows) /\ IsFiniteSet(1..Len(rows))
        BY <1>4, FS_Interval DEF RowsOf
      <4> QED BY <1>4, <4>1, FS_Subset
    <3>2. count[s] = Cardinality(RowsOf(s)) /\ Cardinality(RowsOf(s)) \in Nat
      BY <3>1, FS_CardinalityType DEF CommandInv, Counted
    <3>3. CASE s = status
      <4>1. RowsOf(s)' = RowsOf(s) \cup {Len(rows) + 1}
        BY <1>3, <1>4, <1>5, <3>3 DEF RowsOf
      <4>2. count'[s] = count[s] + 1
        BY <1>1, <3>3 DEF CommandInv, CommandType
      <4>3. Cardinality(RowsOf(s) \cup {Len(rows) + 1}) = Cardinality(RowsOf(s)) + 1
        BY <3>1, FS_AddElement
      <4> QED BY <3>2, <4>1, <4>2, <4>3
    <3>4. CASE s # status
      <4>1. RowsOf(s)' = RowsOf(s)
        BY <1>3, <1>4, <1>5, <3>4 DEF RowsOf
      <4>2. count'[s] = count[s]
        BY <1>1, <3>4 DEF CommandInv, CommandType
      <4> QED BY <3>2, <4>1, <4>2
    <3> QED BY <3>3, <3>4
  <2> QED BY <2>1 DEF Counted
<1>9. CommandType'
  BY <1>1, <1>5 DEF CommandInv, CommandType
<1>10. \A n \in DOMAIN rows' : rows'[n].status \in {"ok", "failed"}
  BY <1>1, <1>3, <1>4, <1>5 DEF CommandInv
<1>11. ~Unparsable(command)' /\ ~Unknown(command)' /\ (jobs = JobsFor(command))'
  BY <1>1 DEF CommandInv, Unparsable, Unknown, JobsFor, ExplicitJobs, FamilyJobs
<1>12. ExitCodeTells'
  BY <1>1, <1>11 DEF ExitCodeTells
<1>13. Len(rows') <= Len(jobs')
  BY <1>1, <1>4, <1>5
<1> QED BY <1>1, <1>7, <1>8, <1>9, <1>10, <1>11, <1>12, <1>13 DEF CommandInv

\* The command ends, with no more rows.
LEMMA CommandInvEnds ==
  ASSUME CommandInv, UNCHANGED <<vars, command, jobs, rows, count>>, phase' = "ended",
         phase # "application", ExitCodeTells'
  PROVE  CommandInv'
<1>1. CommandType' /\ Counted'
  BY DEF CommandInv, CommandType, Counted, RowsOf
<1>2. \A n \in DOMAIN rows' : RowTrue(n)'
  BY DEF CommandInv, RowTrue, OnDisk, vars
<1> QED BY <1>1, <1>2 DEF CommandInv

\* When every job has its row, the exit code is right.
LEMMA ExitCodeRight ==
  ASSUME CommandInv, Finish
  PROVE  ExitCodeTells'
<1>1. /\ phase = "loading" /\ Len(rows) = Len(jobs) /\ UNCHANGED <<vars, command, rows>>
      /\ exit' = IF command.api THEN "returned" ELSE ExitCode
  BY DEF Finish, End
<1>2. /\ command \in Command /\ ~Unparsable(command)' /\ ~Unknown(command)
      /\ jobs = JobsFor(command)
      /\ \A n \in DOMAIN rows : rows[n].status \in {"ok", "failed"} /\ RowTrue(n)
      /\ DOMAIN rows = 1..Len(rows) /\ DOMAIN jobs = 1..Len(jobs)
  BY <1>1, LenProperties DEF CommandInv, CommandType, Unparsable
<1>3. /\ count.failed = 0 <=> RowsOf("failed") = {}
  <2>1. IsFiniteSet(RowsOf("failed"))
    <3>1. RowsOf("failed") \subseteq 1..Len(rows) /\ IsFiniteSet(1..Len(rows))
      BY <1>2, LenProperties, FS_Interval DEF RowsOf, CommandInv, CommandType
    <3> QED BY <3>1, FS_Subset
  <2>2. count["failed"] = Cardinality(RowsOf("failed"))
    BY DEF CommandInv, Counted
  <2> QED BY <2>1, <2>2, FS_EmptySet
<1>4. CASE exit' = "0"
  <2>1. RowsOf("failed") = {}
    BY <1>1, <1>3, <1>4 DEF ExitCode
  <2>2. \A n \in DOMAIN jobs : OnDisk(jobs[n][2])
    BY <1>1, <1>2, <2>1 DEF RowsOf, RowTrue
  <2>3. \A m \in Wanted(command) : OnDisk(m)
    BY <1>2, <2>2, JobsForProperties DEF Has
  <2>4. Wanted(command') \subseteq local' \cup Vendored
    BY <1>1, <2>3 DEF OnDisk, vars
  <2> QED BY <1>2, <1>4, <2>4 DEF ExitCodeTells
<1>5. CASE exit' = "2"
  <2>1. RowsOf("failed") # {}
    BY <1>1, <1>3, <1>5 DEF ExitCode
  <2> QED BY <1>1, <1>2, <1>5, <2>1 DEF ExitCodeTells, RowsOf
<1>6. exit' \in {"0", "2", "returned"}
  BY <1>1 DEF ExitCode
<1> QED BY <1>2, <1>4, <1>5, <1>6 DEF ExitCodeTells

LEMMA CommandInvNext ==
  TypeInv /\ DiskInv /\ CommandInv /\ [PrefetchNext]_allVars => CommandInv'
<1> SUFFICES ASSUME TypeInv, DiskInv, CommandInv, [PrefetchNext]_allVars
             PROVE  CommandInv'
  OBVIOUS
<1>1. [Next]_vars
  BY StepRefines
<1>2. TypeOK
  BY DEF TypeInv
<1>3. CASE RejectArguments \/ RejectIds \/ NothingToDo
  <2>1. /\ phase = "started" /\ phase' = "ended"
        /\ \/ exit' = "2" /\ Unparsable(command)
           \/ exit' \in {"1", "returned"} /\ ~Unparsable(command)
        /\ UNCHANGED <<vars, command, jobs, rows, count>>
    BY <1>3 DEF RejectArguments, RejectIds, NothingToDo, Parsed, End
  <2>2. Unparsable(command)' <=> Unparsable(command)
    BY <2>1 DEF Unparsable
  <2>3. rows' = <<>> /\ \A l \in Loaders : loader'[l] = <<>>
    BY <2>1 DEF CommandInv, vars
  <2>4. ExitCodeTells'
    BY <2>1, <2>2, <2>3 DEF ExitCodeTells
  <2> QED BY <2>1, <2>4, CommandInvEnds
<1>4. CASE DryRun
  <2>1. /\ phase = "started" /\ phase' = "ended" /\ exit' = "0" /\ command.dry
        /\ ~Unparsable(command)' /\ ~Unknown(command) /\ jobs' = JobsFor(command)
        /\ rows' = [n \in DOMAIN jobs' |-> Row(jobs'[n], "planned")]
        /\ UNCHANGED <<vars, command, count>>
    BY <1>4 DEF DryRun, Parsed, Unparsable, End
  <2>2. command \in Command /\ rows = <<>> /\ Counted /\ count \in [{"ok", "failed"} -> Nat]
    BY <2>1 DEF CommandInv, CommandType
  <2>3. /\ jobs' \in Seq(Pairs) /\ Len(jobs') \in Nat /\ DOMAIN jobs' = 1..Len(jobs')
        /\ \A n \in DOMAIN jobs' : jobs'[n] \in Pairs
    BY <2>1, <2>2, JobsForProperties, LenProperties, ElementOfSeq
  <2>4. \A n \in DOMAIN jobs' :
          /\ Row(jobs'[n], "planned") \in RowType
          /\ Row(jobs'[n], "planned").family = jobs'[n][1]
          /\ Row(jobs'[n], "planned").model = jobs'[n][2]
          /\ Row(jobs'[n], "planned").status = "planned"
    BY <2>3 DEF Row, RowType, Statuses, Pairs
  <2>5. /\ DOMAIN rows' = DOMAIN jobs'
        /\ \A n \in DOMAIN jobs' : rows'[n] = Row(jobs'[n], "planned")
    BY <2>1
  <2>6. rows' \in Seq(RowType) /\ Len(rows') = Len(jobs')
    <3>1. rows' \in [1..Len(jobs') -> RowType]
      BY <2>1, <2>3, <2>4
    <3> QED BY <2>3, <3>1
  <2>7. Counted'
    <3>1. \A s \in {"ok", "failed"} : RowsOf(s)' = {} /\ RowsOf(s) = {}
      BY <2>2, <2>4, <2>5 DEF RowsOf
    <3> QED BY <2>1, <2>2, <3>1 DEF Counted
  <2>8. \A n \in DOMAIN rows' : RowTrue(n)'
    BY <2>4, <2>5 DEF RowTrue
  <2>9. ExitCodeTells'
    BY <2>1 DEF ExitCodeTells
  <2> QED BY <2>1, <2>2, <2>3, <2>6, <2>7, <2>8, <2>9 DEF CommandInv, CommandType
<1>5. CASE Plan
  <2>1. /\ phase = "started" /\ phase' = "loading" /\ ~Unparsable(command) /\ ~Unknown(command)
        /\ jobs' = JobsFor(command) /\ UNCHANGED <<vars, command, rows, count, exit>>
    BY <1>5 DEF Plan, Parsed
  <2>2. command \in Command /\ rows = <<>> /\ exit = "none" /\ pc[Cli] = "idle"
    BY <2>1 DEF CommandInv, CommandType
  <2>3. jobs' \in Seq(Pairs) /\ Len(jobs') \in Nat
    BY <2>1, <2>2, JobsForProperties, LenProperties
  <2>4. DOMAIN rows' = {} /\ Len(rows') = 0
    BY <2>1, <2>2
  <2>5. Counted'
    BY <2>1 DEF CommandInv, Counted, RowsOf
  <2>6. CommandType'
    BY <2>1, <2>2, <2>3 DEF CommandInv, CommandType
  <2>7. /\ ~Unparsable(command)' /\ ~Unknown(command)' /\ (jobs = JobsFor(command))'
        /\ pc'[Cli] = "idle"
    BY <2>1, <2>2 DEF Unparsable, Unknown, JobsFor, ExplicitJobs, FamilyJobs, vars
  <2>8. ExitCodeTells'
    BY <2>1, <2>2, <2>7 DEF ExitCodeTells
  <2> QED BY <2>1, <2>2, <2>3, <2>4, <2>5, <2>6, <2>7, <2>8 DEF CommandInv
<1>6. CASE StartJob
  <2>1. PICK stated \in Offlines, requested \in Requests :
          LoadOf(Cli, Job[1], Job[2], requested, stated, command.allow)
    BY <1>6 DEF StartJob
  <2>2. \E f, l : Enter(Cli, f, Job[2], l, stated, command.allow)
    BY <2>1 DEF LoadOf, LoadEmbedding, LoadReranker, LoadNli, LoadNer, LoadPii
  <2>3. load'[Cli].model = Job[2]
    BY <1>2, <2>2, CliAssumption DEF Enter, TypeOK
  <2>4. Pending /\ UNCHANGED cmdVars
    BY <1>6 DEF StartJob
  <2> QED BY <1>1, <2>3, <2>4, CommandInvFramed DEF Pending
<1>7. CASE InsideJob
  <2>1. Pending /\ Inside(Cli) /\ UNCHANGED cmdVars
    BY <1>7 DEF InsideJob
  <2>2. load' = load /\ pc[Cli] # "idle"
    BY <2>1 DEF Inside, Snapshot, SetFlags, Hit, Miss, BuildEmbedding, BuildReranker, BuildNli,
                BuildNer, BuildPii, BuildOrt, BuildStatic, BuildFail
  <2>3. load'[Cli].model = Job[2]
    BY <2>1, <2>2 DEF CommandInv, Pending
  <2> QED BY <1>1, <2>1, <2>3, CommandInvFramed DEF Pending
<1>8. CASE JobRefused
  <2>1. Pending /\ Report("failed") /\ pc'[Cli] = "idle"
    BY <1>8 DEF JobRefused, vars
  <2> QED BY <1>1, <2>1, CommandInvReport
<1>9. CASE EndJob
  <2> DEFINE status == IF pc[Cli] = "built" THEN "ok" ELSE "failed"
  <2>1. Pending /\ Leave(Cli) /\ Report(status)
    BY <1>9 DEF EndJob
  <2>2. pc[Cli] \in {"built", "raised"} /\ pc'[Cli] = "idle"
    BY <1>2, <2>1, CliAssumption DEF Leave, Out, Goto, TypeOK
  <2>3. load[Cli].model = Job[2]
    BY <2>1, <2>2 DEF CommandInv, Pending
  <2>4. status \in {"ok", "failed"} /\ (status = "ok" => OnDisk(Job[2]))
    BY <2>3, CliAssumption DEF DiskInv
  <2> HIDE DEF status
  <2> QED BY <1>1, <2>1, <2>2, <2>4, CommandInvReport
<1>10. CASE Finish
  <2>1. /\ phase = "loading" /\ phase' = "ended"
        /\ UNCHANGED <<vars, command, jobs, rows, count>>
    BY <1>10 DEF Finish, End
  <2> QED BY <1>10, <2>1, ExitCodeRight, CommandInvEnds
<1>11. CASE Ended \/ UNCHANGED allVars
  <2>1. UNCHANGED <<vars, cmdVars>>
    BY <1>11 DEF Ended, allVars
  <2>2. CommandType' /\ Counted'
    BY <2>1 DEF CommandInv, CommandType, Counted, RowsOf, cmdVars
  <2>3. \A n \in DOMAIN rows' : RowTrue(n)'
    BY <2>1 DEF CommandInv, RowTrue, OnDisk, vars, cmdVars
  <2>4. ExitCodeTells'
    BY <2>1 DEF CommandInv, ExitCodeTells, Unparsable, Wanted, vars, cmdVars
  <2> QED BY <2>1, <2>2, <2>3, <2>4 DEF CommandInv, Job, vars, cmdVars
<1>12. ASSUME NEW t \in Threads \ {Cli}, CallLoad(t) \/ GoOn(t)
       PROVE  CommandInv'
  <2>1. phase = "application" /\ UNCHANGED cmdVars
    BY <1>12 DEF CallLoad, GoOn
  <2> QED BY <1>1, <2>1, CommandInvFramed
<1> QED BY <1>3, <1>4, <1>5, <1>6, <1>7, <1>8, <1>9, <1>10, <1>11, <1>12 DEF PrefetchNext

(***************************************************************************)
(* Theorems.                                                               *)
(***************************************************************************)

PrefetchInv == TypeInv /\ DiskInv /\ CommandInv

LEMMA PrefetchInvAlways == PrefetchSpec => []PrefetchInv
<1>1. PrefetchInit => PrefetchInv
  BY TypeInvInit, DiskInvInit, CommandInvInit DEF PrefetchInit, PrefetchInv
<1>2. PrefetchInv /\ [PrefetchNext]_allVars => PrefetchInv'
  BY StepRefines, TypeInvNext, DiskInvNext, CommandInvNext DEF PrefetchInv
<1> QED BY <1>1, <1>2, PTL DEF PrefetchSpec

\* Whatever a process loads, as an application or as a prefetch, it loads as
\* ModelLoad says.
THEOREM Implements == PrefetchSpec => Spec
<1>1. PrefetchInit => Init
  BY DEF PrefetchInit
<1>2. PrefetchInv /\ [PrefetchNext]_allVars => [Next]_vars
  BY StepRefines DEF PrefetchInv
<1> QED BY <1>1, <1>2, PrefetchInvAlways, PTL DEF PrefetchSpec, Spec

\* So what holds of loads holds in a process that also runs the command line,
\* whatever its command and whatever else it loads: of the flags, the offline
\* mode, the gate of each class and the loaders' sizes.
THEOREM LoadsKept ==
  PrefetchSpec => [](/\ TypeOK /\ ShellOfflineKept /\ FlagsRestored /\ OfflineIsOwn
                     /\ OwnGateHolds /\ LoaderBounded)
BY Implements, TypeCorrect, ShellOfflineAlways, FlagsRestoredAlways, OfflineIsOwnAlways,
   OwnGateHoldsAlways, LoaderBoundedAlways, PTL

\* The report has a row for each job, in order, with the right totals, and what
\* it calls ok is on disk.
THEOREM ReportTrueAlways == PrefetchSpec => []ReportTrue
<1>1. PrefetchInv => ReportTrue
  BY DEF PrefetchInv, CommandInv, RowTrue, OnDisk, Counted, RowsOf, ReportTrue
<1> QED BY <1>1, PrefetchInvAlways, PTL

\* Of a command whose arguments parse, exit code 0 means that every model asked for
\* is on disk, 2 that one failed, and 1 that nothing was loaded; a command whose
\* arguments do not parse has loaded and reported nothing, and exits with 2.
THEOREM ExitCodeTellsAlways == PrefetchSpec => []ExitCodeTells
<1>1. PrefetchInv => ExitCodeTells
  BY DEF PrefetchInv, CommandInv
<1> QED BY <1>1, PrefetchInvAlways, PTL

=============================================================================
