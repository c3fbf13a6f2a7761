------------------------------ MODULE Prefetch ------------------------------
(***************************************************************************)
(* A process that loads models: an application, whose threads call load()  *)
(* as ModelLoad has it, or `kaos-nlp-transformers prefetch` of cli.py,     *)
(* which loads model after model to fill the local cache and reports what  *)
(* became of each.  prefetch_models() is the same without a dry run and    *)
(* without exit codes: it returns the report, also an empty one.           *)
(*                                                                         *)
(* A behaviour is the life of one process.  A command has one thread.      *)
(***************************************************************************)
EXTENDS ModelLoad, Registries, FiniteSets, FiniteSetsExt

CONSTANTS
  Asked,      \* Asked[f]: models that the application's threads ask f for
  Cli,        \* the thread of the command
  SortedIds,  \* SortedIds[f]: the registered ids of f, sorted
  Commands    \* command lines: of which some process is started

\* include: the families of --include, "other" for what names none; ids: those of
\* --model, in order; api: a call of prefetch_models(), not the command.
Command == [include : SUBSET (Families \cup {"other"}), ids : Seq(Models), allow : BOOLEAN,
            dry : BOOLEAN, api : BOOLEAN]
NoCommand == [include |-> {}, ids |-> <<>>, allow |-> FALSE, dry |-> FALSE, api |-> FALSE,
              app |-> TRUE]

ASSUME CliAssumption == Cli \in Threads
ASSUME AskedAssumption == \A f \in Families : Asked[f] \subseteq Models
ASSUME OrderAssumption ==
  \A f \in Families : SortedIds[f] \in Seq(Models) /\ ToSet(SortedIds[f]) = Registered[f]
ASSUME CommandsAssumption == Commands \subseteq Command

VARIABLES
  command,   \* the command the process was started with
  phase,     \* how far it is: "started", "loading", "ended"; or "application"
  jobs,      \* what it will load: <<family, model>>, in order
  rows,      \* the report: one row per job so far
  count,     \* n_ok and n_failed
  exit       \* the exit code, or "none"; of prefetch_models(), "returned"

cmdVars == <<command, phase, jobs, rows, count, exit>>
allVars == <<vars, cmdVars>>

PrefetchInit ==
  /\ Init
  /\ command \in Commands \cup {NoCommand}
  /\ phase = IF command = NoCommand THEN "application" ELSE "started"
  /\ jobs = <<>> /\ rows = <<>>
  /\ count = [ok |-> 0, failed |-> 0]
  /\ exit = "none"

-----------------------------------------------------------------------------
(***************************************************************************)
(* What to load.                                                           *)
(***************************************************************************)

\* family_for: the last family, in order, that registers m.
FamilyOf(m) ==
  FamilyOrder[Max({n \in DOMAIN FamilyOrder : m \in Registered[FamilyOrder[n]]})]

Unknown(c) == \E n \in DOMAIN c.ids : c.ids[n] \notin AllRegistered

\* _resolve_explicit_models, when every id is known.
ExplicitJobs(c) == [n \in DOMAIN c.ids |-> <<FamilyOf(c.ids[n]), c.ids[n]>>]

JobsOf(f) == [n \in DOMAIN SortedIds[f] |-> <<f, SortedIds[f][n]>>]

\* Every model of the families included, or of all families.
FamilyJobs(c) ==
  LET Of(f) == IF c.include = {} \/ f \in c.include THEN JobsOf(f) ELSE <<>>
  IN  Of("embedding") \o Of("reranker") \o Of("nli") \o Of("ner") \o Of("pii")

JobsFor(c) == IF c.ids # <<>> THEN ExplicitJobs(c) ELSE FamilyJobs(c)

End(code) == phase' = "ended" /\ exit' = code

\* Arguments that argparse refuses, of which a family that is none stands for all:
\* the parser itself ends the process, with its own code.  prefetch_models() has
\* no parser, and no such check.
Unparsable(c) == ~c.api /\ "other" \in c.include

RejectArguments ==
  /\ phase = "started" /\ Unparsable(command)
  /\ End("2")
  /\ UNCHANGED <<vars, command, jobs, rows, count>>

Parsed == phase = "started" /\ ~Unparsable(command)

\* An id in no registry, which --allow-unregistered does not change: SystemExit.
RejectIds ==
  /\ Parsed /\ Unknown(command)
  /\ End("1")
  /\ UNCHANGED <<vars, command, jobs, rows, count>>

\* No jobs: an error of the command, an empty report of prefetch_models(), which
\* passes over families that are none.
NothingToDo ==
  /\ Parsed /\ ~Unknown(command) /\ JobsFor(command) = <<>>
  /\ End(IF command.api THEN "returned" ELSE "1")
  /\ UNCHANGED <<vars, command, jobs, rows, count>>

Row(job, status) == [family |-> job[1], model |-> job[2], status |-> status]

DryRun ==
  /\ Parsed /\ command.dry /\ ~Unknown(command) /\ JobsFor(command) # <<>>
  /\ jobs' = JobsFor(command)
  /\ rows' = [n \in DOMAIN jobs' |-> Row(jobs'[n], "planned")]
  /\ End("0")
  /\ UNCHANGED <<vars, command, count>>

Plan ==
  /\ Parsed /\ ~command.dry /\ ~Unknown(command) /\ JobsFor(command) # <<>>
  /\ jobs' = JobsFor(command)
  /\ phase' = "loading"
  /\ UNCHANGED <<vars, command, rows, count, exit>>

-----------------------------------------------------------------------------
(***************************************************************************)
(* _prefetch_one for one job after the other: the settings are those of    *)
(* the environment but for allow_unregistered.                             *)
(***************************************************************************)

Job == jobs[Len(rows) + 1]
Pending == phase = "loading" /\ Len(rows) < Len(jobs)

Report(status) ==
  /\ rows' = Append(rows, Row(Job, status))
  /\ count' = [count EXCEPT ![status] = @ + 1]
  /\ UNCHANGED <<command, phase, jobs, exit>>

StartJob ==
  /\ Pending
  /\ \E stated \in Offlines, requested \in Requests :
       LoadOf(Cli, Job[1], Job[2], requested, stated, command.allow)
  /\ UNCHANGED cmdVars

\* load() raises before its scope: the device is not there, or the gate is shut.
JobRefused ==
  /\ Pending /\ pc[Cli] = "idle"
  /\ Report("failed")
  /\ UNCHANGED vars

\* MUTANT of EndJob: only what is raised before the loader runs counts.
EndJobOk ==
  /\ Pending /\ Leave(Cli)
  /\ Report("ok")

\* load() is over: an exception of any class is a row of the report.
EndJob ==
  /\ Pending /\ Leave(Cli)
  /\ Report(IF pc[Cli] = "built" THEN "ok" ELSE "failed")

\* MUTANT of ExitCode: partial success is success.
ExitCodeOfSome == IF count.ok > 0 THEN "0" ELSE "2"

ExitCode == IF count.failed = 0 THEN "0" ELSE "2"

Finish ==
  /\ phase = "loading" /\ Len(rows) = Len(jobs)
  /\ End(IF command.api THEN "returned" ELSE ExitCode)
  /\ UNCHANGED <<vars, command, jobs, rows, count>>

\* The command inside one load.
InsideJob == Pending /\ Inside(Cli) /\ UNCHANGED cmdVars

\* The process is gone.
Ended == phase = "ended" /\ UNCHANGED allVars

\* A thread of an application calls load(), and goes on with it.
CallLoad(t) ==
  /\ phase = "application"
  /\ \E f \in Families : \E m \in Asked[f] : Begin(t, f, m)
  /\ UNCHANGED cmdVars

GoOn(t) == phase = "application" /\ Step(t) /\ UNCHANGED cmdVars

PrefetchNext ==
  \/ RejectArguments \/ RejectIds \/ NothingToDo \/ DryRun \/ Plan
  \/ StartJob \/ InsideJob \/ JobRefused \/ EndJob \/ Finish \/ Ended
  \/ \E t \in Threads \ {Cli} : CallLoad(t) \/ GoOn(t)

PrefetchSpec == PrefetchInit /\ [][PrefetchNext]_allVars

-----------------------------------------------------------------------------
(***************************************************************************)
(* Properties.                                                             *)
(***************************************************************************)

\* The report has one row for each job, in their order, and the totals of its
\* rows; a model that is reported ok is on disk, and not because the loader
\* only said so: in the local cache, or in the wheel.
ReportTrue ==
  /\ Len(rows) <= Len(jobs)
  /\ \A n \in DOMAIN rows :
       /\ rows[n].family = jobs[n][1] /\ rows[n].model = jobs[n][2]
       /\ rows[n].status = "ok" => rows[n].model \in local \cup Vendored
  /\ \A status \in {"ok", "failed"} :
       count[status] = Cardinality({n \in DOMAIN rows : rows[n].status = status})

\* The models that command c is for.
Wanted(c) ==
  IF c.ids # <<>> THEN ToSet(c.ids)
  ELSE UNION {Registered[f] : f \in IF c.include = {} THEN Families ELSE c.include \cap Families}

\* A prefetch that exits with 0 has left every model it was asked for on disk
\* ("so the first inference call doesn't pay the full network cost", cli.py).  One
\* whose arguments parsed and that exits with 2 has reported a failure.  One whose
\* arguments did not parse exits with 2 all the same, and like one that exits with
\* 1 it has loaded and reported nothing: 2 alone does not tell the two apart.
ExitCodeTells ==
  /\ exit = "0" /\ ~command.dry => Wanted(command) \subseteq local \cup Vendored
  /\ exit = "2" /\ ~Unparsable(command) =>
       \E n \in DOMAIN rows : rows[n].status = "failed"
  /\ Unparsable(command) => exit \in {"none", "2"}
  /\ exit = "1" \/ Unparsable(command) => rows = <<>> /\ \A l \in Loaders : loader[l] = <<>>

=============================================================================
