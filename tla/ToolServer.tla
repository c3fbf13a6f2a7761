----------------------------- MODULE ToolServer -----------------------------
(***************************************************************************)
(* The MCP server: serve.py starts it, tools.py registers seven tools and  *)
(* handles their calls.  One event loop runs the handlers; a handler keeps *)
(* it until it returns or awaits a job it gave to the pool of worker       *)
(* threads.  The models are loaded on the loop, but for RetrieveTool's,    *)
(* which is loaded by its job; inference runs in jobs, but for the query   *)
(* of RetrieveTool, which is embedded on the loop.                         *)
(*                                                                         *)
(* Loop and workers share the snapshot of the devices (device.py), the     *)
(* cached backends (ModelLoad has how they are loaded) and the mutex each  *)
(* backend has around its ort session (ort_runtime.rs and its siblings).   *)
(* A backend is named by the call that built it.  A call infers one batch, *)
(* with the default model of its tool; hits, spans and vectors are those   *)
(* of Retriever, GreedySpans, BioDecode and EmbeddingCache.                *)
(***************************************************************************)
EXTENDS Devices, FiniteSets, FiniteSetsExt

CONSTANTS
  Calls,      \* the calls of the server's clients
  NoCall,
  Asks,       \* Asks[c]: the requests call c may make
  Hosts,      \* hosts: the server runs on one
  Starts,     \* how the server may be started
  Workers,    \* worker threads of the loop's pool
  Cap,        \* Cap[tool]: the most items per call, for the tools with a cap
  LoadErrors, \* errors of rust/core/error.rs that a load may end in
  Levels      \* the scores a model may give, by their order

Tools == {"info", "embed", "retrieve", "rerank", "nli-classify", "ner-extract", "pii-detect"}
Capped == {"embed", "retrieve", "rerank"}

\* An element of the list a tool is given: a string; an object with a text;
\* one whose doc_id or score is no number; anything else.
Items == {"text", "object", "misnumbered", "other"}

\* items: the texts, documents, candidates or hypotheses; rest: the query,
\* premise or labels are as they have to be; number: the integer given for
\* top_k, batch_size or a threshold, if any, unless it is given but is not
\* convertible.
Request == [tool : Tools, device : DeviceNames, items : Seq(Items), rest : BOOLEAN,
            number : Seq(Int), convertible : BOOLEAN]
NoRequest == [tool |-> "none", device |-> <<"cpu">>, items |-> <<>>, rest |-> FALSE,
              number |-> <<>>, convertible |-> FALSE]

\* packages: kaos-core and kaos-mcp are installed; token: the HTTP token is set.
Start == [packages : BOOLEAN, http : BOOLEAN, token : BOOLEAN]

ASSUME CallsAssumption == IsFiniteSet(Calls) /\ NoCall \notin Calls
ASSUME AsksAssumption == \A c \in Calls : Asks[c] \subseteq Request
ASSUME HostsAssumption == Hosts \subseteq Host
ASSUME StartsAssumption == Starts \subseteq Start
ASSUME WorkersAssumption == Workers \in Nat \ {0}
ASSUME CapAssumption == Cap \in [Capped -> Nat]
ASSUME LoadErrorsAssumption == LoadErrors \subseteq STRING
ASSUME LevelsAssumption == Levels \subseteq Int

VARIABLES
  start,      \* how the server was started
  phase,      \* "starting", "serving", or the code it exited with
  tools,      \* the tools registered
  host,       \* the host
  system,     \* _cached_system
  loop,       \* the call whose handler has the event loop
  queue,      \* jobs waiting for a worker, by their call
  busy,       \* calls whose job a worker runs
  loaded,     \* the cached backends
  holder,     \* holder[b]: the call that holds the mutex of backend b
  poisoned,   \* backends whose mutex is poisoned
  pc,         \* pc[c]: where call c is
  req,        \* req[c]: its request
  smi,        \* smi[c]: what nvidia-smi answered it first
  probed,     \* probed[c]: its detection, not published yet
  found,      \* found[c]: the device it resolved, or the exception
  held,       \* held[c]: its backend
  outcome,    \* outcome[c]: how its job or its work on the loop ended
  scores,     \* scores[c]: the scores of its items
  reply,      \* reply[c]: what its client gets
  failed,     \* an nvidia-smi call has not listed all cards (a history variable)
  raced       \* two detections have been in progress at once (another)

srvVars == <<start, phase, tools, host>>
cacheVars == <<system, loaded, failed, raced>>
mutexVars == <<holder, poisoned>>
threadVars == <<loop, queue, busy>>
callVars == <<req, smi, probed, found, held, outcome, scores, reply>>
vars == <<srvVars, cacheVars, mutexVars, threadVars, pc, callVars>>

NoSystem == [devices |-> <<>>, latent |-> <<>>, providers |-> {}]
NotResolved == [device |-> <<"none">>, error |-> "unresolved"]
NoReply == [status |-> "none", rows |-> <<>>]

Init ==
  /\ start \in Starts /\ phase = "starting" /\ tools = {}
  /\ host \in Hosts
  /\ system = NoSystem /\ loaded = {}
  /\ loop = NoCall /\ queue = <<>> /\ busy = {}
  /\ holder = [b \in Calls |-> NoCall] /\ poisoned = {}
  /\ pc = [c \in Calls |-> "absent"]
  /\ req = [c \in Calls |-> NoRequest]
  /\ smi = [c \in Calls |-> <<>>]
  /\ probed = [c \in Calls |-> NoSystem]
  /\ found = [c \in Calls |-> NotResolved]
  /\ held = [c \in Calls |-> NoCall]
  /\ outcome = [c \in Calls |-> "none"]
  /\ scores = [c \in Calls |-> <<>>]
  /\ reply = [c \in Calls |-> NoReply]
  /\ failed = FALSE /\ raced = FALSE

Goto(c, where) == pc' = [pc EXCEPT ![c] = where]

-----------------------------------------------------------------------------
(***************************************************************************)
(* The server.                                                             *)
(***************************************************************************)

\* main, and register_transformers_tools.
Serve ==
  /\ phase = "starting"
  /\ phase' = CASE ~start.packages -> "exit 1"
                [] start.packages /\ start.http /\ ~start.token -> "exit 2"
                [] OTHER -> "serving"
  /\ tools' = IF phase' = "serving" THEN Tools ELSE {}
  /\ UNCHANGED <<start, host, cacheVars, mutexVars, threadVars, pc, callVars>>

\* A client calls a tool.
Arrive(c) ==
  /\ phase = "serving" /\ pc[c] = "absent"
  /\ \E q \in Asks[c] : q.tool \in tools /\ req' = [req EXCEPT ![c] = q]
  /\ Goto(c, "arrived")
  /\ UNCHANGED <<srvVars, cacheVars, mutexVars, threadVars, smi, probed, found, held,
                 outcome, scores, reply>>

-----------------------------------------------------------------------------
(***************************************************************************)
(* The arguments.                                                          *)
(***************************************************************************)

\* Lists whose elements may be objects.
OfObjects == {"retrieve", "rerank"}

\* A document or candidate is the first that cannot be taken, and is no object
\* with a text at all.
Malformed(q) ==
  \E n \in DOMAIN q.items :
    q.items[n] = "other" /\ \A m \in 1..(n - 1) : q.items[m] # "misnumbered"

\* The checks that end in ToolResult.create_error.
Refused(q) ==
  /\ q.tool # "info"
  /\ \/ ~q.rest
     \/ q.items = <<>>
     \/ q.tool \in Capped /\ Len(q.items) > Cap[q.tool]
     \/ q.tool \in OfObjects /\ Malformed(q)
     \/ q.tool \notin OfObjects /\ \E n \in DOMAIN q.items : q.items[n] # "text"

\* int() or float() of an argument raises, before the handler's try.
Unconvertible(q) ==
  \/ q.tool \notin {"info", "nli-classify"} /\ ~q.convertible
  \/ q.tool \in OfObjects /\ \E n \in DOMAIN q.items : q.items[n] = "misnumbered"

\* PiiDetector.detect raises ValueError for a threshold out of 0 to 1; an
\* absent one, and a 0, are 0.5.
OutOfRange(q) ==
  q.tool = "pii-detect" /\ q.number # <<>> /\ q.number[1] \notin 0..1

-----------------------------------------------------------------------------
(***************************************************************************)
(* Exceptions, and how a handler ends.                                     *)
(***************************************************************************)

\* errors.py, and map_backend_error of the bindings.  "Poisoned" is the
\* Inference error that a poisoned mutex gives.
PackageErrors == {"ModelNotRegisteredError", "ModelLoadError", "EmbeddingError",
                  "BackendNotInstalledError", "DeviceNotReachableError"}
PyError ==
  [ModelNotRegistered |-> "ModelNotRegisteredError", ModelLoad |-> "ModelLoadError",
   BackendNotInstalled |-> "BackendNotInstalledError", Device |-> "ModelLoadError",
   Io |-> "ModelLoadError", Tokenization |-> "EmbeddingError",
   Inference |-> "EmbeddingError", Poisoned |-> "EmbeddingError"]
Raised(e) == IF e \in DOMAIN PyError THEN PyError[e] ELSE e

\* What a cached loader raises for an error of the Rust load: these as they
\* are, and ModelLoadError for others.
LoadRaises(e) ==
  IF Raised(e) \in {"BackendNotInstalledError", "ModelLoadError", "ModelNotRegisteredError"}
  THEN Raised(e) ELSE "ModelLoadError"

\* The exceptions a handler catches by name.
CaughtByName(tool) ==
  IF tool \in {"embed", "retrieve"} THEN PackageErrors ELSE PackageErrors \ {"EmbeddingError"}

\* MUTANT of Ending: the handlers have no `except Exception`.
EndingByName(tool, e) ==
  CASE tool = "info" -> "raised"
    [] tool # "info" /\ Raised(e) \in CaughtByName(tool) -> "named"
    [] OTHER -> "raised"

\* InfoTool catches nothing.  The panic of a Rust thread is no Exception.
Ending(tool, e) ==
  CASE tool = "info" \/ e = "panic" -> "raised"
    [] tool # "info" /\ Raised(e) \in CaughtByName(tool) -> "named"
    [] OTHER -> "wrapped"

\* The handler of c, which has the loop, returns or raises.
Reply(c, status, rows) ==
  /\ reply' = [reply EXCEPT ![c] = [status |-> status, rows |-> rows]]
  /\ Goto(c, "answered")
  /\ loop' = NoCall

\* What c's thread runs raises e: its handler, or its job.
Fail(c, e) ==
  /\ outcome' = [outcome EXCEPT ![c] = e]
  /\ IF loop = c
     THEN Reply(c, Ending(req[c].tool, e), <<>>) /\ UNCHANGED busy
     ELSE /\ busy' = busy \ {c}
          /\ Goto(c, "done")
          /\ UNCHANGED <<loop, reply>>

-----------------------------------------------------------------------------
(***************************************************************************)
(* The loop and the workers.                                               *)
(***************************************************************************)

\* The handler of c awaits a job: the workers take jobs in order.
Submit(c) ==
  /\ queue' = Append(queue, c)
  /\ Goto(c, "queued")
  /\ loop' = NoCall

\* MUTANT of Enter: InfoTool drops the snapshot, to have a fresh one.
EnterFresh(c) ==
  /\ pc[c] = "arrived" /\ loop = NoCall
  /\ \/ /\ Refused(req[c]) \/ Unconvertible(req[c])
        /\ Reply(c, IF Refused(req[c]) THEN "refused" ELSE "raised", <<>>)
        /\ UNCHANGED <<queue, system>>
     \/ /\ ~Refused(req[c]) /\ ~Unconvertible(req[c])
        /\ IF req[c].tool = "retrieve"
           THEN Submit(c) /\ UNCHANGED system
           ELSE /\ loop' = c /\ Goto(c, "resolving") /\ UNCHANGED queue
                /\ system' = IF req[c].tool = "info" THEN NoSystem ELSE system
        /\ UNCHANGED reply
  /\ UNCHANGED <<srvVars, loaded, failed, raced, mutexVars, busy, req, smi, probed, found,
                 held, outcome, scores>>

\* The handler of c starts: it checks the arguments, and then loads the model
\* or has it loaded, or describes the devices.
Enter(c) ==
  /\ pc[c] = "arrived" /\ loop = NoCall
  /\ \/ /\ Refused(req[c]) \/ Unconvertible(req[c])
        /\ Reply(c, IF Refused(req[c]) THEN "refused" ELSE "raised", <<>>)
        /\ UNCHANGED queue
     \/ /\ ~Refused(req[c]) /\ ~Unconvertible(req[c])
        /\ IF req[c].tool = "retrieve"
           THEN Submit(c)
           ELSE loop' = c /\ Goto(c, "resolving") /\ UNCHANGED queue
        /\ UNCHANGED reply
  /\ UNCHANGED <<srvVars, cacheVars, mutexVars, busy, req, smi, probed, found, held, outcome,
                 scores>>

\* MUTANT of Take: a thread for each job.
TakeUnbounded(c) ==
  /\ pc[c] = "queued" /\ Head(queue) = c
  /\ queue' = Tail(queue) /\ busy' = busy \cup {c}
  /\ Goto(c, IF held[c] = NoCall THEN "resolving" ELSE "ready")
  /\ UNCHANGED <<srvVars, cacheVars, mutexVars, loop, callVars>>

\* A worker takes the first job: RetrieveTool's, from_texts, loads the model
\* first; the others run one that is loaded.
Take(c) ==
  /\ pc[c] = "queued" /\ Head(queue) = c
  /\ Cardinality(busy) < Workers
  /\ queue' = Tail(queue) /\ busy' = busy \cup {c}
  /\ Goto(c, IF held[c] = NoCall THEN "resolving" ELSE "ready")
  /\ UNCHANGED <<srvVars, cacheVars, mutexVars, loop, callVars>>

-----------------------------------------------------------------------------
(***************************************************************************)
(* Devices.                                                                *)
(***************************************************************************)

Detecting == {"detecting", "detecting latent", "publishing"}

\* resolve_device with the snapshot, or detect_devices begins.
ResolveDevice(c) ==
  /\ pc[c] = "resolving"
  /\ IF system = NoSystem
     THEN /\ Goto(c, "detecting")
          /\ raced' = (raced \/ \E d \in Calls : pc[d] \in Detecting)
          /\ UNCHANGED <<found, outcome, reply, loop, busy>>
     ELSE LET r == Resolve(req[c].device, system)
          IN  /\ found' = [found EXCEPT ![c] = r]
              /\ CASE r.error # "none" -> Fail(c, r.error)
                   [] r.error = "none" /\ req[c].tool = "info" ->
                        Reply(c, "success", <<>>) /\ UNCHANGED <<outcome, busy>>
                   [] OTHER -> Goto(c, "loading") /\ UNCHANGED <<outcome, reply, loop, busy>>
              /\ UNCHANGED raced
  /\ UNCHANGED <<srvVars, system, loaded, failed, mutexVars, queue, req, smi, probed, held,
                 scores>>

\* The first nvidia-smi, and the second.
Detect(c) ==
  /\ pc[c] = "detecting"
  /\ \E rows \in ReachableAnswers(host) :
       /\ smi' = [smi EXCEPT ![c] = rows]
       /\ failed' = (failed \/ (host.cuda /\ rows # SmiRows(host)))
  /\ Goto(c, "detecting latent")
  /\ UNCHANGED <<srvVars, system, loaded, raced, mutexVars, threadVars, req, probed, found,
                 held, outcome, scores, reply>>

DetectLatent(c) ==
  /\ pc[c] = "detecting latent"
  /\ \E rows \in LatentAnswers(host) :
       /\ probed' = [probed EXCEPT ![c] = SystemDevices(host, smi[c], rows)]
       /\ failed' = (failed \/ (host.nodes /\ rows # SmiRows(host)))
  /\ Goto(c, "publishing")
  /\ UNCHANGED <<srvVars, system, loaded, raced, mutexVars, threadVars, req, smi, found,
                 held, outcome, scores, reply>>

\* get_system_devices stores what was detected, whatever is there by now, and
\* returns what it then reads.
Publish(c) ==
  /\ pc[c] = "publishing"
  /\ system' = probed[c]
  /\ smi' = [smi EXCEPT ![c] = <<>>]
  /\ probed' = [probed EXCEPT ![c] = NoSystem]
  /\ Goto(c, "resolving")
  /\ UNCHANGED <<srvVars, loaded, failed, raced, mutexVars, threadVars, req, found, held,
                 outcome, scores, reply>>

-----------------------------------------------------------------------------
(***************************************************************************)
(* Backends.                                                               *)
(***************************************************************************)

\* Of which family the default model is.
FamilyOf(tool) ==
  CASE tool \in {"embed", "retrieve"} -> "embedding"
    [] tool = "rerank" -> "reranker"
    [] tool = "nli-classify" -> "nli"
    [] tool = "ner-extract" -> "ner"
    [] OTHER -> "pii"

\* The entries of c's key in the cache: the model and the device.
Entries(c) ==
  {e \in loaded : e.family = FamilyOf(req[c].tool) /\ e.device = found[c].device}

\* load() returns backend b.  RetrieveTool's job goes on; another handler gives
\* its inference to a job.
Loaded(c, b) ==
  /\ held' = [held EXCEPT ![c] = b]
  /\ IF loop = c
     THEN Submit(c)
     ELSE Goto(c, "ready") /\ UNCHANGED <<queue, loop>>

Load(c) ==
  /\ pc[c] = "loading"
  /\ \/ /\ Entries(c) = {}
        /\ Goto(c, "building")
        /\ UNCHANGED <<held, queue, loop>>
     \/ \E e \in Entries(c) : Loaded(c, e.backend)
  /\ UNCHANGED <<srvVars, cacheVars, mutexVars, busy, req, smi, probed, found, outcome,
                 scores, reply>>

\* The backend is built, and stored unless another thread has stored one.
Build(c) ==
  /\ pc[c] = "building"
  /\ Loaded(c, c)
  /\ loaded' =
       IF Entries(c) # {} THEN loaded
       ELSE loaded \cup {[family |-> FamilyOf(req[c].tool), device |-> found[c].device,
                          backend |-> c]}
  /\ UNCHANGED <<srvVars, system, failed, raced, mutexVars, busy, req, smi, probed, found,
                 outcome, scores, reply>>

BuildFails(c) ==
  /\ pc[c] = "building"
  /\ \E e \in LoadErrors : Fail(c, LoadRaises(e))
  /\ UNCHANGED <<srvVars, cacheVars, mutexVars, queue, req, smi, probed, found, held, scores>>

-----------------------------------------------------------------------------
(***************************************************************************)
(* Inference.                                                              *)
(***************************************************************************)

\* The inference of c's thread has succeeded.  The query of a retrieval was the
\* last thing to embed; a job is done, and its handler goes on from there.
Succeed(c) ==
  IF loop = c
  THEN Reply(c, "success", <<>>) /\ UNCHANGED <<busy, outcome>>
  ELSE /\ outcome' = [outcome EXCEPT ![c] = "ok"]
       /\ busy' = busy \ {c}
       /\ Goto(c, "done")
       /\ UNCHANGED <<loop, reply>>

\* Before the backend is asked: EmbeddingModel.embed finds every text in its
\* caches, or does not; detect checks the threshold.
Look(c) ==
  /\ pc[c] = "ready"
  /\ \/ FamilyOf(req[c].tool) = "embedding" /\ Succeed(c)
     \/ OutOfRange(req[c]) /\ Fail(c, "ValueError")
     \/ /\ ~OutOfRange(req[c])
        /\ Goto(c, "locking")
        /\ UNCHANGED <<outcome, reply, loop, busy>>
  /\ UNCHANGED <<srvVars, cacheVars, mutexVars, queue, req, smi, probed, found, held, scores>>

\* session.lock(): waits while another thread has it, and fails if poisoned.
Lock(c) ==
  /\ pc[c] = "locking" /\ holder[held[c]] = NoCall
  /\ IF held[c] \in poisoned
     THEN Fail(c, "Poisoned") /\ UNCHANGED holder
     ELSE /\ holder' = [holder EXCEPT ![held[c]] = c]
          /\ Goto(c, "running")
          /\ UNCHANGED <<outcome, reply, loop, busy>>
  /\ UNCHANGED <<srvVars, cacheVars, poisoned, queue, req, smi, probed, found, held, scores>>

\* The tools whose reply depends on the order of the scores.
Scored == {"rerank", "nli-classify"}
Scorings(c) ==
  IF req[c].tool \in Scored THEN [DOMAIN req[c].items -> Levels] ELSE {<<>>}

Run(c) ==
  /\ pc[c] = "running"
  /\ holder' = [holder EXCEPT ![held[c]] = NoCall]
  /\ \/ \E s \in Scorings(c) : scores' = [scores EXCEPT ![c] = s] /\ Succeed(c)
     \/ Fail(c, "Inference") /\ UNCHANGED scores
  /\ UNCHANGED <<srvVars, cacheVars, poisoned, queue, req, smi, probed, found, held>>

\* MUTANT of Panic: one mutex for all backends.
PanicForAll(c) ==
  /\ pc[c] = "running"
  /\ holder' = [holder EXCEPT ![held[c]] = NoCall]
  /\ poisoned' = Calls
  /\ Fail(c, "panic")
  /\ UNCHANGED <<srvVars, cacheVars, queue, req, smi, probed, found, held, scores>>

\* MUTANT of Panic: the guard is not dropped.
PanicHolding(c) ==
  /\ pc[c] = "running"
  /\ poisoned' = poisoned \cup {held[c]}
  /\ Fail(c, "panic")
  /\ UNCHANGED <<srvVars, cacheVars, holder, queue, req, smi, probed, found, held, scores>>

\* The thread panics while it holds the mutex.
Panic(c) ==
  /\ pc[c] = "running"
  /\ holder' = [holder EXCEPT ![held[c]] = NoCall]
  /\ poisoned' = poisoned \cup {held[c]}
  /\ Fail(c, "panic")
  /\ UNCHANGED <<srvVars, cacheVars, queue, req, smi, probed, found, held, scores>>

-----------------------------------------------------------------------------
(***************************************************************************)
(* The handler goes on when its job is done.                               *)
(***************************************************************************)

\* ranked[:top_k]
Kept(q, n) ==
  CASE q.number = <<>> -> n
    [] q.number # <<>> /\ q.number[1] >= 0 -> Min({n, q.number[1]})
    [] OTHER -> Max({0, n + q.number[1]})

\* MUTANT of Ranked: cut, then sorted.
RankedCutFirst(q, s) == BestFirst(SubSeq(s, 1, Kept(q, Len(s))))

\* CrossEncoderReranker.rerank: the candidates, best first, the top_k of them.
Ranked(q, s) == SubSeq(BestFirst(s), 1, Kept(q, Len(s)))

\* The best hypothesis, the first of equals.
ArgMax(s) == <<BestFirst(s)[1]>>

RowsOf(c) ==
  CASE req[c].tool = "rerank" -> Ranked(req[c], scores[c])
    [] req[c].tool = "nli-classify" -> ArgMax(scores[c])
    [] OTHER -> <<>>

Resume(c) ==
  /\ pc[c] = "done" /\ loop = NoCall
  /\ CASE outcome[c] # "ok" -> Reply(c, Ending(req[c].tool, outcome[c]), <<>>)
       [] outcome[c] = "ok" /\ req[c].tool = "retrieve" ->
            loop' = c /\ Goto(c, "ready") /\ UNCHANGED reply
       [] OTHER -> Reply(c, "success", RowsOf(c))
  /\ UNCHANGED <<srvVars, cacheVars, mutexVars, queue, busy, req, smi, probed, found, held,
                 outcome, scores>>

\* A step of the handler of c or of its job.
Handle(c) ==
  \/ Enter(c) \/ Take(c)
  \/ ResolveDevice(c) \/ Detect(c) \/ DetectLatent(c) \/ Publish(c)
  \/ Load(c) \/ Build(c) \/ BuildFails(c)
  \/ Look(c) \/ Lock(c) \/ Run(c) \/ Panic(c)
  \/ Resume(c)

Next == Serve \/ \E c \in Calls : Arrive(c) \/ Handle(c)

\* A thread that can go on does: the loop and the pool are free again and again,
\* nvidia-smi is given up after two seconds, and a load or a run of a session
\* comes to an end.
Fairness == \A c \in Calls : WF_vars(Handle(c))

Spec == Init /\ [][Next]_vars /\ Fairness

-----------------------------------------------------------------------------
(***************************************************************************)
(* Properties.                                                             *)
(***************************************************************************)

PcValues == {"absent", "arrived", "queued", "resolving", "loading", "building", "ready",
             "locking", "running", "done", "answered"} \cup Detecting
Outcomes == {"none", "ok", "panic", "ValueError"} \cup PackageErrors \cup DOMAIN PyError
Statuses == {"none", "refused", "raised", "named", "wrapped", "success"}

\* The types; the pool runs no more jobs than it has threads.
TypeOK ==
  /\ start \in Starts /\ phase \in {"starting", "serving", "exit 1", "exit 2"}
  /\ tools \subseteq Tools /\ host \in Hosts
  /\ system.latent \in Seq(Kinds) /\ system.providers \subseteq {"CPU", "CUDA", "OpenVINO"}
  /\ loop \in Calls \cup {NoCall} /\ queue \in Seq(Calls)
  /\ busy \subseteq Calls /\ Cardinality(busy) <= Workers
  /\ \A e \in loaded : e.backend \in Calls
  /\ holder \in [Calls -> Calls \cup {NoCall}] /\ poisoned \subseteq Calls
  /\ pc \in [Calls -> PcValues]
  /\ \A c \in Calls : req[c] \in Asks[c] \cup {NoRequest}
  /\ held \in [Calls -> Calls \cup {NoCall}]
  /\ outcome \in [Calls -> Outcomes]
  /\ \A c \in Calls : reply[c].status \in Statuses
  /\ failed \in BOOLEAN /\ raced \in BOOLEAN

\* A call gets an exception instead of a result for a number that is none, for a
\* panic of its inference, and from InfoTool for a device that there is not or
\* that the build cannot drive, and for nothing else: the except clauses of the
\* handlers let no other through, from whatever thread.  The third case is
\* against the module's comment, by which "each tool catches package-level
\* exceptions", DeviceNotReachableError among them: InfoTool has no try.
RaisedExactlyFor ==
  \A c \in Calls : pc[c] = "answered" =>
    (reply[c].status = "raised" <=>
       \/ ~Refused(req[c]) /\ Unconvertible(req[c])
       \/ outcome[c] = "panic"
       \/ req[c].tool = "info" /\ found[c].error # "none")

\* What get_system_devices keeps is sound, however the two nvidia-smi calls of a
\* detection went: the largest GPU is first and the CPU last; no card is counted
\* twice, and none is missing unless an nvidia-smi call left it out or was not to
\* be made; and a build that has CUDA is told to install it only where the first
\* of them listed some of the cards and not others, as the count of those it
\* reached then covers too few of the candidates.
DevicesTrue ==
  system # NoSystem =>
    LET gpus == Front(system.devices)
        latentCards == {n \in DOMAIN system.latent : system.latent[n] = "cuda"}
    IN  /\ system.devices[Len(system.devices)] = CPU
        /\ \A a, b \in DOMAIN gpus :
             a < b => /\ gpus[a].device # gpus[b].device
                      /\ gpus[a].memory >= gpus[b].memory
        /\ ~failed /\ (host.cuda \/ host.nodes)
             => Len(gpus) + Cardinality(latentCards) = Len(host.cards)
        /\ Len(gpus) + Cardinality(latentCards) <= Len(host.cards)
        /\ host.cuda /\ Len(gpus) \in {0, Len(host.cards)} => latentCards = {}

\* Calls that ask for the same device get the same, or the same exception,
\* whatever nvidia-smi answers when, unless two first calls detected at once.
AgreeUnlessRaced ==
  ~raced =>
    \A c, d \in Calls :
      /\ req[c].device = req[d].device
      /\ NotResolved \notin {found[c], found[d]}
      => found[c] = found[d]

\* No candidate that RerankTool left out scored higher than one it kept, and
\* none it kept higher than one before it; NliClassifyTool names a hypothesis
\* that none outscored.
BestKept ==
  \A c \in Calls :
    reply[c].status = "success" /\ req[c].tool \in Scored =>
      LET rows == reply[c].rows
          s == scores[c]
      IN  /\ \A a \in DOMAIN rows, n \in DOMAIN s :
               (\A b \in 1..a : rows[b] # n) => s[n] <= s[rows[a]]
          /\ Len(rows) = IF req[c].tool = "rerank" THEN Kept(req[c], Len(s)) ELSE 1

\* A poisoned mutex fails only calls on the very backend whose inference has
\* panicked; those of other models, or on other devices, go on.
PoisonContained ==
  \A c \in Calls : outcome[c] = "Poisoned" =>
    \E d \in Calls : outcome[d] = "panic" /\ held[d] = held[c]

\* Every call is answered: neither the pool nor a mutex nor the loop is lost to
\* a failed call, and none waits for another in a circle.
EveryCallAnswered ==
  \A c \in Calls : pc[c] = "arrived" ~> pc[c] = "answered"

=============================================================================
