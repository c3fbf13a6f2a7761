------------------------------ MODULE ModelLoad ------------------------------
(***************************************************************************)
(* load() of the five model classes and the process state it works on: the *)
(* offline flags it scopes around the backend construction, the lru_caches *)
(* of built backends and the local Hugging Face cache.  The embedding      *)
(* class has two backends, and so two cached loaders; each other has one.  *)
(*                                                                         *)
(* Threads of one process load at the same time: RetrieveTool loads in a   *)
(* worker thread while the other tools load on the event loop.  A step is  *)
(* what one thread does between two points where another may run.          *)
(*                                                                         *)
(* The embedding cache's capacity, which EmbeddingModel.load() also sets,  *)
(* is in EmbeddingCache.  huggingface_hub is already imported in Init.     *)
(* from_local_path() reads and changes none of this state.  An id given to *)
(* a load() is the caller's or the class's default.                        *)
(***************************************************************************)
EXTENDS Naturals, Sequences, SequencesExt

CONSTANTS
  Threads,        \* threads of the process
  Models,         \* model ids
  Registered,     \* Registered[f]: those in f's registry of models.py
  Excluded,       \* Excluded[f]: those in f's list of excluded models
  Static,         \* embedding models registered with backend "model2vec"
  InRust,         \* InRust[f]: those in f's registry of model_registry.rs
  Vendored,       \* those bundled in the wheel under _vendor/
  Shells,         \* values of the two environment variables at start
  LocalAtStart,   \* what the local cache may hold at the start
  LoaderSize      \* LoaderSize[l]: lru_cache(maxsize=...) of cached loader l

EnvVars == {"HF_HUB_OFFLINE", "TRANSFORMERS_OFFLINE"}

\* The flags of the scope: the variables, and the constant huggingface_hub
\* read from the first of them when it was imported.
Flags == EnvVars \cup {"constant"}
Values == {"unset", "0", "1"}

\* settings.backend and settings.offline, and the latter not given at all.
Requests == {"auto", "ort", "model2vec"}
Offlines == {"on", "off", "unstated"}

\* The classes of models, by the names the command line has for them, and the
\* cached loaders: one of each class, of ort backends, and model2vec's.
Families == {"embedding", "reranker", "nli", "ner", "pii"}
Loaders == Families \cup {"model2vec"}

ASSUME ModelsAssumption ==
  /\ \A f \in Families :
       /\ Registered[f] \subseteq Models
       /\ Excluded[f] \cap Registered[f] = {}
       /\ InRust[f] = Registered[f] \ Static
  /\ Static \subseteq Registered["embedding"] /\ Vendored \subseteq Models
ASSUME ShellsAssumption == Shells \subseteq [EnvVars -> Values]
ASSUME LocalAssumption == LocalAtStart \subseteq SUBSET UNION {Registered[f] : f \in Families}
ASSUME SizeAssumption == LoaderSize \in [Loaders -> Nat \ {0}]

VARIABLES
  shell,       \* the environment the process was started with
  flags,       \* the current value of each flag
  loader,      \* loader[l]: the entries of cached loader l, oldest first
  local,       \* models whose files are in the local Hugging Face cache
  pc,          \* pc[t]: where thread t is in load()
  load,        \* load[t]: the arguments of t's load(), once resolved
  saved,       \* saved[t]: t's snapshot of the flags
  fetched,     \* fetched[t]: t's load has downloaded files
  overlapped   \* two loads have been in progress at once (a history variable)

vars == <<shell, flags, loader, local, pc, load, saved, fetched, overlapped>>

NoLoad == [family |-> "embedding", model |-> "none", loader |-> "embedding",
           stated |-> "unstated", offline |-> FALSE]

AllRegistered == UNION {Registered[f] : f \in Families}

Goto(t, where) == pc' = [pc EXCEPT ![t] = where]

\* The flags of a process started with environment e.
FlagsOf(e) ==
  [f \in Flags |->
     IF f \in EnvVars THEN e[f] ELSE IF e["HF_HUB_OFFLINE"] = "1" THEN "1" ELSE "0"]

Init ==
  /\ shell \in Shells
  /\ flags = FlagsOf(shell)
  /\ loader = [l \in Loaders |-> <<>>]
  /\ local \in LocalAtStart
  /\ pc = [t \in Threads |-> "idle"]
  /\ load = [t \in Threads |-> NoLoad]
  /\ saved = [t \in Threads |-> FlagsOf(shell)]
  /\ fetched = [t \in Threads |-> FALSE]
  /\ overlapped = FALSE

-----------------------------------------------------------------------------
(***************************************************************************)
(* Up to the offline scope.                                                *)
(***************************************************************************)

\* settings.offline: as stated, or by the legacy HF_HUB_OFFLINE at the moment
\* the settings are built.
Offline(stated) ==
  stated = "on" \/ (stated = "unstated" /\ flags["HF_HUB_OFFLINE"] = "1")

\* MUTANT of Refused: allow_unregistered lets excluded models through.
RefusedUnlessAllowed(f, m, allow) == m \notin Registered[f] /\ ~allow

\* The registry gate of family f.
Refused(f, m, allow) ==
  m \in Excluded[f] \/ (m \notin Registered[f] /\ ~allow)

\* _resolve_backend of a request that names a valid backend or "auto", and the
\* cached loader of the backend.
BackendOf(m, requested) ==
  IF requested # "auto" THEN requested
  ELSE IF m \in Static THEN "model2vec" ELSE "ort"
LoaderOf(backend) == IF backend = "ort" THEN "embedding" ELSE backend

\* What every load() does first: settings, gate, device.  A load that is
\* refused, or whose device or backend is not one there is, raises here, having
\* changed nothing.  Without offline the scope is a no-op.
Enter(t, f, m, l, stated, allow) ==
  /\ pc[t] = "idle"
  /\ ~Refused(f, m, allow)
  /\ load' = [load EXCEPT ![t] = [family |-> f, model |-> m, loader |-> l,
                                  stated |-> stated, offline |-> Offline(stated)]]
  /\ Goto(t, IF Offline(stated) THEN "snapshot" ELSE "lookup")
  /\ overlapped' = (overlapped \/ \E u \in Threads \ {t} : pc[u] # "idle")
  /\ UNCHANGED <<shell, flags, loader, local, saved, fetched>>

\* EmbeddingModel.load(): the backend is the caller's choice or the registry's.
LoadEmbedding(t, m, requested, stated, allow) ==
  Enter(t, "embedding", m, LoaderOf(BackendOf(m, requested)), stated, allow)

\* CrossEncoderReranker.load(), NliModel.load(), GLiNERExtractor.load() and
\* PiiDetector.load(): each has a registry and a cached loader of its own, and
\* only the ort backend.
LoadReranker(t, m, stated, allow) == Enter(t, "reranker", m, "reranker", stated, allow)
LoadNli(t, m, stated, allow) == Enter(t, "nli", m, "nli", stated, allow)
LoadNer(t, m, stated, allow) == Enter(t, "ner", m, "ner", stated, allow)
LoadPii(t, m, stated, allow) == Enter(t, "pii", m, "pii", stated, allow)

\* The load() of class f; only the embedding class reads settings.backend.
LoadOf(t, f, m, requested, stated, allow) ==
  \/ f = "embedding" /\ LoadEmbedding(t, m, requested, stated, allow)
  \/ f = "reranker" /\ LoadReranker(t, m, stated, allow)
  \/ f = "nli" /\ LoadNli(t, m, stated, allow)
  \/ f = "ner" /\ LoadNer(t, m, stated, allow)
  \/ f = "pii" /\ LoadPii(t, m, stated, allow)

Begin(t, f, m) ==
  \E stated \in Offlines, allow \in BOOLEAN, requested \in Requests :
    LoadOf(t, f, m, requested, stated, allow)

\* MUTANT of Snapshot: the hub's constant forgotten.
SnapshotOfEnv(t) ==
  /\ pc[t] = "snapshot"
  /\ saved' = [saved EXCEPT ![t] = [f \in EnvVars |-> flags[f]]]
  /\ Goto(t, "set")
  /\ UNCHANGED <<shell, flags, loader, local, load, fetched, overlapped>>

\* _offline_env_scope, on entry: the values to restore.
Snapshot(t) ==
  /\ pc[t] = "snapshot"
  /\ saved' = [saved EXCEPT ![t] = flags]
  /\ Goto(t, "set")
  /\ UNCHANGED <<shell, flags, loader, local, load, fetched, overlapped>>

\* MUTANT of SetFlags: os.environ.setdefault, and no hub constant.
SetFlagsByDefault(t) ==
  /\ pc[t] = "set"
  /\ flags' = [f \in Flags |-> IF flags[f] = "unset" THEN "1" ELSE flags[f]]
  /\ Goto(t, "lookup")
  /\ UNCHANGED <<shell, loader, local, load, saved, fetched, overlapped>>

\* Both variables and the constant.
SetFlags(t) ==
  /\ pc[t] = "set"
  /\ flags' = [f \in Flags |-> "1"]
  /\ Goto(t, "lookup")
  /\ UNCHANGED <<shell, loader, local, load, saved, fetched, overlapped>>

-----------------------------------------------------------------------------
(***************************************************************************)
(* The cached loader, inside the scope.                                    *)
(***************************************************************************)

Loaded(s, m) == \E n \in DOMAIN s : s[n] = m

\* s with its entry m, wherever it is, as the newest.
MovedToEnd(s, m) ==
  Append(RemoveAt(s, CHOOSE i \in DOMAIN s : s[i] = m), m)

\* lru_cache, hit: the entry becomes the newest.
Hit(t) ==
  /\ pc[t] = "lookup"
  /\ LET l == load[t].loader
         m == load[t].model
     IN  /\ Loaded(loader[l], m)
         /\ loader' = [loader EXCEPT ![l] = MovedToEnd(@, m)]
  /\ Goto(t, "built")
  /\ UNCHANGED <<shell, flags, local, load, saved, fetched, overlapped>>

\* lru_cache, miss: the loader runs, outside the lru_cache's own lock.
Miss(t) ==
  /\ pc[t] = "lookup"
  /\ ~Loaded(loader[load[t].loader], load[t].model)
  /\ Goto(t, "fetch")
  /\ UNCHANGED <<shell, flags, loader, local, load, saved, fetched, overlapped>>

\* MUTANT of Stored: no maximum.
StoredUnbounded(s, m, size) == IF Loaded(s, m) THEN s ELSE Append(s, m)

\* lru_cache, after the loader returned: nothing if another thread stored the
\* same key meanwhile, else the oldest entry makes room.
Stored(s, m, size) ==
  IF Loaded(s, m) THEN s
  ELSE IF Len(s) < size THEN Append(s, m) ELSE Append(Tail(s), m)

Store(t) ==
  LET l == load[t].loader
  IN  loader' = [loader EXCEPT ![l] = Stored(@, load[t].model, LoaderSize[l])]

\* Files of t's model that the network would have to provide.
Download(t) ==
  /\ local' = local \cup {load[t].model}
  /\ fetched' = [fetched EXCEPT ![t] = TRUE]

\* t's loader would have to fetch its model, and gets as far as doing so: the Rust
\* loader if its own registry has the model, whatever the flags; huggingface_hub
\* unless its constant forbids it.
MayDownload(t) ==
  /\ load[t].model \notin local
  /\ IF load[t].loader = "model2vec" THEN flags["constant"] # "1"
     ELSE load[t].model \in InRust[load[t].loader]

\* load() of a Rust backend: its family's own registry, then resolve_paths,
\* which takes what is in the local cache and downloads what is not.  It reads
\* none of the flags.
BuildOrt(t) ==
  /\ pc[t] = "fetch"
  /\ load[t].model \in InRust[load[t].loader]
  /\ IF load[t].model \in local THEN UNCHANGED <<local, fetched>> ELSE Download(t)
  /\ Store(t)
  /\ Goto(t, "built")
  /\ UNCHANGED <<shell, flags, load, saved, overlapped>>

\* The cached loader of each class, when the backend is built.
BuildEmbedding(t) == load[t].loader = "embedding" /\ BuildOrt(t)
BuildReranker(t) == load[t].loader = "reranker" /\ BuildOrt(t)
BuildNli(t) == load[t].loader = "nli" /\ BuildOrt(t)
BuildNer(t) == load[t].loader = "ner" /\ BuildOrt(t)
BuildPii(t) == load[t].loader = "pii" /\ BuildOrt(t)

\* _load_model2vec_cached: the vendored copy, or, if there is none or it does
\* not load, snapshot_download, which obeys the hub's constant.
BuildStatic(t) ==
  /\ pc[t] = "fetch" /\ load[t].loader = "model2vec"
  /\ \/ /\ load[t].model \in Vendored \cup local
        /\ UNCHANGED <<local, fetched>>
     \/ MayDownload(t) /\ Download(t)
  /\ Store(t)
  /\ Goto(t, "built")
  /\ UNCHANGED <<shell, flags, load, saved, overlapped>>

\* The loader raises: not in the Rust registry, no network, a file that does
\* not load.  Some or all of the model's files may have been downloaded before,
\* and stay.  lru_cache keeps no exceptions.
BuildFail(t) ==
  /\ pc[t] = "fetch"
  /\ \/ UNCHANGED <<local, fetched>>
     \/ /\ MayDownload(t)
        /\ local' \in {local, local \cup {load[t].model}}
        /\ fetched' = [fetched EXCEPT ![t] = TRUE]
  /\ Goto(t, "raised")
  /\ UNCHANGED <<shell, flags, loader, load, saved, overlapped>>

\* t is out of load(), with its model or an exception.
Out(t) ==
  /\ Goto(t, "idle")
  /\ load' = [load EXCEPT ![t] = NoLoad]
  /\ saved' = [saved EXCEPT ![t] = FlagsOf(shell)]
  /\ fetched' = [fetched EXCEPT ![t] = FALSE]
  /\ UNCHANGED <<shell, loader, local, overlapped>>

\* MUTANT of Leave: no finally clause.
LeaveOnSuccess(t) ==
  /\ pc[t] \in {"built", "raised"}
  /\ flags' = IF load[t].offline /\ pc[t] = "built" THEN saved[t] ELSE flags
  /\ Out(t)

\* MUTANT of Leave: flags popped instead of restored.
LeavePopped(t) ==
  /\ pc[t] \in {"built", "raised"}
  /\ flags' = IF load[t].offline
              THEN [f \in Flags |-> IF f \in EnvVars THEN "unset" ELSE "0"]
              ELSE flags
  /\ Out(t)

\* The end of the scope, also when the loader raised, and of load().
Leave(t) ==
  /\ pc[t] \in {"built", "raised"}
  /\ flags' = IF load[t].offline THEN saved[t] ELSE flags
  /\ Out(t)

Inside(t) ==
  \/ Snapshot(t) \/ SetFlags(t) \/ Hit(t) \/ Miss(t)
  \/ BuildEmbedding(t) \/ BuildReranker(t) \/ BuildNli(t) \/ BuildNer(t) \/ BuildPii(t)
  \/ BuildStatic(t) \/ BuildFail(t)

Step(t) == Inside(t) \/ Leave(t)

Next ==
  \E t \in Threads :
    \/ \E f \in Families, m \in Models : Begin(t, f, m)
    \/ Step(t)

Spec == Init /\ [][Next]_vars

-----------------------------------------------------------------------------
(***************************************************************************)
(* Properties.                                                             *)
(***************************************************************************)

LoadType == [family : Families, model : Models, loader : Loaders,
             stated : Offlines, offline : BOOLEAN]

\* The constant is a Boolean in the code.
FlagType == {f \in [Flags -> Values] : f["constant"] # "unset"}

\* The type of every variable.
TypeOK ==
  /\ shell \in Shells
  /\ flags \in FlagType
  /\ loader \in [Loaders -> Seq(Models)]
  /\ local \subseteq Models
  /\ pc \in [Threads -> {"idle", "snapshot", "set", "lookup", "fetch", "built",
                         "raised"}]
  /\ load \in [Threads -> LoadType \cup {NoLoad}]
  /\ saved \in [Threads -> FlagType]
  /\ fetched \in [Threads -> BOOLEAN]
  /\ overlapped \in BOOLEAN

\* t is between setting the flags and restoring them.
InScope(t) ==
  load[t].offline /\ pc[t] \in {"lookup", "fetch", "built", "raised"}

\* An operator's HF_HUB_OFFLINE=1 outlives every load, however loads overlap:
\* no scope ever turns the flags of the shell off, and no model2vec load
\* downloads ("callers may have other reasons to keep huggingface_hub
\* offline", embedding.py).
ShellOfflineKept ==
  shell["HF_HUB_OFFLINE"] = "1" =>
    /\ flags["HF_HUB_OFFLINE"] = "1" /\ flags["constant"] = "1"
    /\ \A t \in Threads : fetched[t] => load[t].loader # "model2vec"

\* As long as loads have come one at a time, every flag has its value from
\* the shell whenever no scope is open, also after loads that raised.
FlagsRestored ==
  ~overlapped /\ (\A t \in Threads : ~InScope(t)) => flags = FlagsOf(shell)

\* As long as loads have come one at a time, an offline model2vec load never
\* downloads, whatever the shell says, and a load is offline only if its own
\* settings or the shell say so.
OfflineIsOwn ==
  ~overlapped => \A t \in Threads : pc[t] # "idle" =>
    /\ load[t].offline /\ load[t].loader = "model2vec" => ~fetched[t]
    /\ load[t].offline <=>
         \/ load[t].stated = "on"
         \/ load[t].stated = "unstated" /\ shell["HF_HUB_OFFLINE"] = "1"

\* Each class's own gate holds whatever allow_unregistered says, also where the
\* messages of the gate and the settings say that it opens (see the README): a
\* class keeps an ort backend only of a model its own Rust registry pins, also if
\* another class knows the model; model2vec none of a model the embedding class
\* excludes, which is not downloaded either, unless another class registers it.
\* Of what only the other classes exclude it says nothing: with
\* backend="model2vec" and allow_unregistered the embedding class takes that.
OwnGateHolds ==
  /\ \A f \in Families : \A m \in Models : Loaded(loader[f], m) => m \in InRust[f]
  /\ \A m \in Excluded["embedding"] : ~Loaded(loader["model2vec"], m)
  /\ local \cap Excluded["embedding"] \subseteq AllRegistered

\* No cached loader keeps more backends than its maxsize, nor one twice, though
\* two threads may build the same one at the same time.
LoaderBounded ==
  \A l \in Loaders :
    /\ Len(loader[l]) <= LoaderSize[l]
    /\ \A a, b \in DOMAIN loader[l] : loader[l][a] = loader[l][b] => a = b

\* "we only promise that *our* offline mode does not leak across calls": with
\* no scope open, every flag is as the shell set it, overlapping loads or not.
OfflineDoesNotLeak ==
  (\A t \in Threads : pc[t] = "idle") => flags = FlagsOf(shell)

\* The Rust loader "honors KAOS_NLP_TRANSFORMERS_OFFLINE and HF_HUB_OFFLINE":
\* a load under either downloads nothing.
OfflineHonored == \A t \in Threads : load[t].offline => ~fetched[t]

=============================================================================
