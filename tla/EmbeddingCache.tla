--------------------------- MODULE EmbeddingCache ---------------------------
(***************************************************************************)
(* EmbeddingModel.embed() with its two cache layers: the process-wide LRU  *)
(* of embedding.py and the disk cache of disk_cache.py.                    *)
(*                                                                         *)
(* Several processes, each with its own LRU and several threads, share one *)
(* cache directory.  A step is what one thread does between two points     *)
(* where another thread or process can act: one critical section of        *)
(* _EMBED_CACHE_LOCK, one file-system call, one forward pass.  A process   *)
(* may crash between any two steps; its LRU and its threads' calls are     *)
(* gone, the directory stays.                                              *)
(*                                                                         *)
(* Abstractions.  A vector is the key <<model, text>> it is the embedding  *)
(* of (floating-point noise between batches is not a difference).  A model *)
(* stands for its (id, revision, dim, dtype): the LRU's key and the disk   *)
(* namespace both separate exactly those, since the registry's ids map to  *)
(* distinct _safe_segment directories.  blake2b does not collide.          *)
(***************************************************************************)
EXTENDS Naturals, Sequences, SequencesExt, BatchedEmbed

CONSTANTS
  Procs,        \* operating-system processes sharing the cache directory
  Threads,      \* their threads
  ProcOf,       \* ProcOf[t]: the process of thread t
  Models,       \* registered models
  Texts,        \* the texts of interest
  Requests,     \* lists of texts passed to embed()
  BatchSizes,   \* values passed as batch_size
  Capacities,   \* values of settings.embedding_cache_size seen by load()
  DiskOn,       \* settings.embedding_cache_dir is set
  Touched,      \* the keys whose files someone else prunes or damages
  Unreadable,   \* the keys a read of whose files may fail though they are whole
  Missing,      \* no file, or no row yet
  Torn,         \* a file with only part of its bytes written
  Damaged       \* a file np.load rejects, or of another shape or dtype

Key == Models \X Texts
Row == Key \cup {Zero}

ASSUME ThreadsAssumption == ProcOf \in [Threads -> Procs]
ASSUME RequestsAssumption == Requests \subseteq Seq(Texts)
ASSUME SizesAssumption == BatchSizes \subseteq Nat /\ Capacities \subseteq Nat
ASSUME DirectoryAssumption ==
  DiskOn \in BOOLEAN /\ Touched \subseteq Key /\ Unreadable \subseteq Key
ASSUME MarkersAssumption ==
  /\ Missing \notin Row \cup {Torn, Damaged}
  /\ Torn \notin Row \cup {Damaged}
  /\ Damaged \notin Row
  /\ Zero \notin Key

VARIABLES
  lru,    \* lru[p]: _EMBED_CACHE of process p, oldest entry first
  cap,    \* cap[p]: _EMBED_CACHE_SIZE of process p
  disk,   \* disk[k]: content of <key>.npy
  tmp,    \* tmp[t]: content of the temporary file of t's running put()
  pc,     \* pc[t]: where thread t is in embed()
  call,   \* call[t]: the arguments of t's call and its lru_on
  pos,    \* pos[t]: loop index, over the texts and then over the misses
  rows,   \* rows[t]: cached_rows
  miss,   \* miss[t]: miss_indices
  fresh   \* fresh[t]: miss_arr, the rows of the forward pass

shared == <<lru, cap, disk>>
local == <<call, pos, rows, miss, fresh>>
vars == <<lru, cap, disk, tmp, pc, call, pos, rows, miss, fresh>>

NoCall == [model |-> "none", texts |-> <<>>, batch |-> 1, lruOn |-> FALSE]

\* The key of the n-th text of t's call: (model_id, revision, digest).
KeyAt(t, n) == <<call[t].model, call[t].texts[n]>>

\* MUTANT of Here: the offset in miss_arr taken for the index in cached_rows.
HereByOffset(t) == pos[t]

\* The text position t is working on: its own loop index while it looks
\* texts up, the index held in miss_indices while it writes misses back.
Here(t) == IF pc[t] \in {"writeback", "create", "write", "replace"}
           THEN miss[t][pos[t]]
           ELSE pos[t]

Goto(t, where) == pc' = [pc EXCEPT ![t] = where]

Init ==
  /\ lru = [p \in Procs |-> <<>>]
  /\ cap = [p \in Procs |-> 0]
  /\ disk = [k \in Key |-> Missing]
  /\ tmp = [t \in Threads |-> Missing]
  /\ pc = [t \in Threads |-> "idle"]
  /\ call = [t \in Threads |-> NoCall]
  /\ pos = [t \in Threads |-> 1]
  /\ rows = [t \in Threads |-> <<>>]
  /\ miss = [t \in Threads |-> <<>>]
  /\ fresh = [t \in Threads |-> <<>>]

-----------------------------------------------------------------------------
(***************************************************************************)
(* The LRU: an OrderedDict, as the sequence of its entries.                *)
(***************************************************************************)

Cached(s, k) == \E n \in DOMAIN s : s[n].key = k

\* The entries of s other than k's, in order.
Without(s, k) ==
  IF Cached(s, k) THEN RemoveAt(s, CHOOSE m \in DOMAIN s : s[m].key = k) ELSE s

\* MUTANT of Evict: len > size tested before the insertion instead of after.
EvictLate(s, n) == IF Len(s) > n + 1 THEN SubSeq(s, Len(s) - n, Len(s)) ELSE s

\* MUTANT of Evict: popitem(last=True).
EvictNewest(s, n) == IF Len(s) > n THEN SubSeq(s, 1, n) ELSE s

\* popitem(last=False) while there are more than n entries.
Evict(s, n) == IF Len(s) > n THEN SubSeq(s, Len(s) - n + 1, Len(s)) ELSE s

EntryOf(s, k) == s[CHOOSE m \in DOMAIN s : s[m].key = k]

\* _embed_cache_get_digest on a hit: move_to_end.
Touch(s, k) == Append(Without(s, k), EntryOf(s, k))

\* _embed_cache_put_digest: assign, move_to_end, evict.  The test of
\* _EMBED_CACHE_SIZE <= 0 comes before the lock.
Put(s, k, v, n) ==
  IF n = 0 THEN s ELSE Evict(Append(Without(s, k), [key |-> k, vec |-> v]), n)

\* MUTANT of PutLru: the digest of the loop index, not of original_idx.
PutLruAtPos(t, k, v) ==
  LET p == ProcOf[t]
  IN  lru' = [lru EXCEPT ![p] = Put(@, KeyAt(t, pos[t]), v, cap[p])]

PutLru(t, k, v) ==
  LET p == ProcOf[t] IN lru' = [lru EXCEPT ![p] = Put(@, k, v, cap[p])]

\* MUTANT of Resized: the last setting wins.
ResizedToLast(old, size) == size

\* _embed_cache_set_size: the first non-zero size is taken, later ones only
\* shrink, and shrinking evicts.
Resized(old, size) == IF old = 0 \/ size < old THEN size ELSE old

\* EmbeddingModel.load() in process p, as the cache sees it.  The size is set
\* before the registry gate, so this is what a refused load does too.
SetSize(p) ==
  \E size \in Capacities \ {0} :
    /\ cap' = [cap EXCEPT ![p] = Resized(@, size)]
    /\ lru' = [lru EXCEPT ![p] = Evict(@, cap'[p])]
    /\ UNCHANGED <<disk, tmp, pc, local>>

-----------------------------------------------------------------------------
(***************************************************************************)
(* embed(): the lookup loop.                                               *)
(***************************************************************************)

\* Entry.  _EMBED_CACHE_SIZE is read once, without the lock.  No texts, no
\* work; with neither layer on, every text goes to the forward pass.
Embed(t) ==
  /\ pc[t] = "idle"
  /\ \E m \in Models, ts \in Requests, b \in BatchSizes :
       LET on == cap[ProcOf[t]] > 0
           n == Len(ts)
           direct == ~on /\ ~DiskOn
       IN  /\ call' = [call EXCEPT ![t] = [model |-> m, texts |-> ts,
                                           batch |-> b, lruOn |-> on]]
           /\ rows' = [rows EXCEPT ![t] = [i \in 1..n |-> Missing]]
           /\ miss' = [miss EXCEPT ![t] = IF direct THEN [i \in 1..n |-> i]
                                                    ELSE <<>>]
           /\ Goto(t, CASE n = 0 -> "done"
                        [] n # 0 /\ direct -> "infer"
                        [] OTHER -> "lookup")
  /\ UNCHANGED <<shared, tmp, pos, fresh>>

\* cached_rows[i] = row, and on to the next text.
Found(t, row) ==
  /\ rows' = [rows EXCEPT ![t][pos[t]] = row]
  /\ pos' = [pos EXCEPT ![t] = @ + 1]
  /\ Goto(t, "lookup")

\* MUTANT of Missed: miss_indices off by one.
MissedOffByOne(t) ==
  /\ miss' = [miss EXCEPT ![t] = Append(@, pos[t] - 1)]
  /\ pos' = [pos EXCEPT ![t] = @ + 1]
  /\ Goto(t, "lookup")

\* cached_rows[i] = None and miss_indices.append(i).
Missed(t) ==
  /\ miss' = [miss EXCEPT ![t] = Append(@, pos[t])]
  /\ pos' = [pos EXCEPT ![t] = @ + 1]
  /\ Goto(t, "lookup")

Looking(t) == pc[t] = "lookup" /\ pos[t] <= Len(call[t].texts)

InLru(t) == call[t].lruOn /\ Cached(lru[ProcOf[t]], KeyAt(t, pos[t]))

LruHit(t) ==
  /\ Looking(t) /\ InLru(t)
  /\ LET p == ProcOf[t]
         k == KeyAt(t, pos[t])
     IN  /\ Found(t, EntryOf(lru[p], k).vec)
         /\ lru' = [lru EXCEPT ![p] = Touch(@, k)]
  /\ UNCHANGED <<cap, disk, tmp, call, miss, fresh>>

\* Not in the LRU: a miss, or a question for the disk.  disk.get starts with
\* path.is_file().
LruMiss(t) ==
  /\ Looking(t) /\ ~InLru(t)
  /\ IF DiskOn /\ disk[KeyAt(t, pos[t])] # Missing
     THEN Goto(t, "load") /\ UNCHANGED <<pos, miss>>
     ELSE Missed(t)
  /\ UNCHANGED <<shared, tmp, call, rows, fresh>>

\* np.load and the shape/dtype test: the file may have changed, or gone,
\* since is_file().  Any exception counts as a bad file, one of the read itself
\* (no descriptor left, no memory, an I/O error) too.
DiskLoad(t) ==
  /\ pc[t] = "load"
  /\ LET k == KeyAt(t, pos[t])
     IN  \/ /\ disk[k] \in Row
            /\ IF call[t].lruOn
               THEN /\ rows' = [rows EXCEPT ![t][pos[t]] = disk[k]]
                    /\ Goto(t, "promote") /\ UNCHANGED pos
               ELSE Found(t, disk[k])
         \/ /\ disk[k] \notin Row \/ k \in Unreadable
            /\ Goto(t, "discard") /\ UNCHANGED <<pos, rows>>
  /\ UNCHANGED <<shared, tmp, call, miss, fresh>>

\* A disk hit is copied into the LRU.
Promote(t) ==
  /\ pc[t] = "promote"
  /\ PutLru(t, KeyAt(t, pos[t]), rows[t][pos[t]])
  /\ pos' = [pos EXCEPT ![t] = @ + 1]
  /\ Goto(t, "lookup")
  /\ UNCHANGED <<cap, disk, tmp, call, rows, miss, fresh>>

\* The file that failed to load is unlinked, whatever is there by now and if
\* it can be (an OSError is suppressed), and the text is a miss.
Discard(t) ==
  /\ pc[t] = "discard"
  /\ disk' \in {disk, [disk EXCEPT ![KeyAt(t, pos[t])] = Missing]}
  /\ Missed(t)
  /\ UNCHANGED <<lru, cap, tmp, call, rows, fresh>>

\* MUTANT of LookedUp: "all hits" decided by the last text alone.
LookedUpByLast(t) ==
  /\ pc[t] = "lookup" /\ pos[t] > Len(call[t].texts)
  /\ Goto(t, IF Last(rows[t]) # Missing THEN "done" ELSE "infer")
  /\ UNCHANGED <<shared, tmp, local>>

LookedUp(t) ==
  /\ pc[t] = "lookup" /\ pos[t] > Len(call[t].texts)
  /\ Goto(t, IF miss[t] = <<>> THEN "done" ELSE "infer")
  /\ UNCHANGED <<shared, tmp, local>>

-----------------------------------------------------------------------------
(***************************************************************************)
(* embed(): the forward pass over the misses and the write-back.           *)
(***************************************************************************)

\* The vectors the backend computes for the missing texts, in their order.
MissVectors(t) == [n \in DOMAIN miss[t] |-> KeyAt(t, miss[t][n])]

Infer(t) ==
  /\ pc[t] = "infer"
  /\ fresh' = [fresh EXCEPT ![t] = OutputRows(MissVectors(t), call[t].batch)]
  /\ pos' = [pos EXCEPT ![t] = 1]
  /\ Goto(t, "writeback")
  /\ UNCHANGED <<shared, tmp, call, rows, miss>>

\* MUTANT of InferFail: the exception is logged and the hits returned.
InferFailSwallowed(t) ==
  /\ pc[t] = "infer"
  /\ Goto(t, "done")
  /\ UNCHANGED <<shared, tmp, local>>

\* The backend raises, or its array fails the shape checks: EmbeddingError.
InferFail(t) ==
  /\ pc[t] = "infer"
  /\ Goto(t, "failed")
  /\ UNCHANGED <<shared, tmp, local>>

\* cached_rows[original_idx] = row and the LRU write; disk.put follows.
WriteBack(t) ==
  /\ pc[t] = "writeback" /\ pos[t] <= Len(miss[t])
  /\ LET row == fresh[t][pos[t]]
     IN  /\ rows' = [rows EXCEPT ![t][Here(t)] = row]
         /\ IF call[t].lruOn
            THEN PutLru(t, KeyAt(t, Here(t)), row)
            ELSE UNCHANGED lru
  /\ IF DiskOn
     THEN Goto(t, "create") /\ UNCHANGED pos
     ELSE pos' = [pos EXCEPT ![t] = @ + 1] /\ UNCHANGED pc
  /\ UNCHANGED <<cap, disk, tmp, call, miss, fresh>>

\* MUTANT of CreateTmp: the entry is opened in place, without a rename.
CreateInPlace(t) ==
  /\ pc[t] = "create"
  /\ disk' = [disk EXCEPT ![KeyAt(t, Here(t))] = Torn]
  /\ tmp' = [tmp EXCEPT ![t] = Torn]
  /\ Goto(t, "write")
  /\ UNCHANGED <<lru, cap, local>>

\* tmp.open("wb"): the pid and a random suffix make the name this put's own.
CreateTmp(t) ==
  /\ pc[t] = "create"
  /\ tmp' = [tmp EXCEPT ![t] = Torn]
  /\ Goto(t, "write")
  /\ UNCHANGED <<shared, local>>

\* MUTANT of WriteTmp: renamed without the flush and fsync.
WriteTmpUnsynced(t) ==
  /\ pc[t] = "write"
  /\ \E content \in {Torn, fresh[t][pos[t]]} : tmp' = [tmp EXCEPT ![t] = content]
  /\ Goto(t, "replace")
  /\ UNCHANGED <<shared, local>>

\* np.save, flush, fsync.
WriteTmp(t) ==
  /\ pc[t] = "write"
  /\ tmp' = [tmp EXCEPT ![t] = fresh[t][pos[t]]]
  /\ Goto(t, "replace")
  /\ UNCHANGED <<shared, local>>

\* tmp.replace(final).
Replace(t) ==
  /\ pc[t] = "replace"
  /\ disk' = [disk EXCEPT ![KeyAt(t, Here(t))] = tmp[t]]
  /\ tmp' = [tmp EXCEPT ![t] = Missing]
  /\ pos' = [pos EXCEPT ![t] = @ + 1]
  /\ Goto(t, "writeback")
  /\ UNCHANGED <<lru, cap, call, rows, miss, fresh>>

\* MUTANT of PutFail: the write is tried again until it works.
PutFailRetries(t) ==
  /\ pc[t] \in {"create", "write", "replace"}
  /\ tmp' = [tmp EXCEPT ![t] = Missing]
  /\ Goto(t, "create")
  /\ UNCHANGED <<shared, local>>

\* Any of the three raises: the exception is swallowed and the loop goes on.
\* The temporary file is unlinked if it can be; one that stays is an orphan
\* like those of Crash, whose name is never opened again, and out of the state.
PutFail(t) ==
  /\ pc[t] \in {"create", "write", "replace"}
  /\ tmp' = [tmp EXCEPT ![t] = Missing]
  /\ pos' = [pos EXCEPT ![t] = @ + 1]
  /\ Goto(t, "writeback")
  /\ UNCHANGED <<shared, call, rows, miss, fresh>>

WrittenBack(t) ==
  /\ pc[t] = "writeback" /\ pos[t] > Len(miss[t])
  /\ Goto(t, "done")
  /\ UNCHANGED <<shared, tmp, local>>

\* The threads of gone are out of embed(); nothing of their calls remains.
Leave(gone) ==
  /\ pc' = [t \in Threads |-> IF t \in gone THEN "idle" ELSE pc[t]]
  /\ call' = [t \in Threads |-> IF t \in gone THEN NoCall ELSE call[t]]
  /\ pos' = [t \in Threads |-> IF t \in gone THEN 1 ELSE pos[t]]
  /\ rows' = [t \in Threads |-> IF t \in gone THEN <<>> ELSE rows[t]]
  /\ miss' = [t \in Threads |-> IF t \in gone THEN <<>> ELSE miss[t]]
  /\ fresh' = [t \in Threads |-> IF t \in gone THEN <<>> ELSE fresh[t]]

\* The caller has its array or its EmbeddingError.
Return(t) ==
  /\ pc[t] \in {"done", "failed"}
  /\ Leave({t})
  /\ UNCHANGED <<shared, tmp>>

-----------------------------------------------------------------------------
(***************************************************************************)
(* What happens to a process and to the directory.                         *)
(***************************************************************************)

\* Process p dies and starts again.  A temporary file it was writing stays
\* behind as an orphan: its name is never opened again.
Crash(p) ==
  LET dead == {t \in Threads : ProcOf[t] = p}
  IN  /\ Leave(dead)
      /\ tmp' = [t \in Threads |-> IF t \in dead THEN Missing ELSE tmp[t]]
      /\ lru' = [lru EXCEPT ![p] = <<>>]
      /\ cap' = [cap EXCEPT ![p] = 0]
      /\ UNCHANGED disk

\* "An operator prunes by deleting files": disk_cache.py.
Prune(k) ==
  /\ disk' = [disk EXCEPT ![k] = Missing]
  /\ UNCHANGED <<lru, cap, tmp, pc, local>>

\* An existing entry is damaged by something other than this program.
Damage(k) ==
  /\ disk[k] # Missing
  /\ disk' = [disk EXCEPT ![k] = Damaged]
  /\ UNCHANGED <<lru, cap, tmp, pc, local>>

Step(t) ==
  \/ LruHit(t) \/ LruMiss(t) \/ DiskLoad(t) \/ Promote(t) \/ Discard(t)
  \/ LookedUp(t) \/ Infer(t) \/ InferFail(t) \/ WriteBack(t)
  \/ CreateTmp(t) \/ WriteTmp(t) \/ Replace(t) \/ PutFail(t)
  \/ WrittenBack(t) \/ Return(t)

Next ==
  \/ \E t \in Threads : Embed(t) \/ Step(t)
  \/ \E p \in Procs : SetSize(p) \/ Crash(p)
  \/ \E k \in Touched : Prune(k) \/ Damage(k)

Spec == Init /\ [][Next]_vars

\* A thread inside embed() is scheduled again: the lock is held for a few
\* dictionary operations and never across I/O or inference.
FairSpec == Spec /\ \A t \in Threads : WF_vars(Step(t))

-----------------------------------------------------------------------------
(***************************************************************************)
(* Properties.                                                             *)
(***************************************************************************)

EntryType == [key : Key, vec : Row]
CallType == [model : Models, texts : Seq(Texts), batch : Nat, lruOn : BOOLEAN]
Places == {"idle", "lookup", "load", "promote", "discard", "infer", "writeback",
           "create", "write", "replace", "done", "failed"}

\* The type of every variable.
TypeOK ==
  /\ lru \in [Procs -> Seq(EntryType)]
  /\ cap \in [Procs -> Nat]
  /\ disk \in [Key -> Row \cup {Missing, Torn, Damaged}]
  /\ tmp \in [Threads -> Row \cup {Missing, Torn}]
  /\ pc \in [Threads -> Places]
  /\ call \in [Threads -> CallType \cup {NoCall}]
  /\ pos \in [Threads -> Nat \ {0}]
  /\ rows \in [Threads -> Seq(Row \cup {Missing})]
  /\ miss \in [Threads -> Seq(Nat \ {0})]
  /\ fresh \in [Threads -> Seq(Row)]

\* embed() returns one row per text, in the order of the texts, each the
\* vector of that very text under the model of the call, whichever layer it
\* came from and whatever the other threads and processes did meanwhile.
AnswersRight ==
  \A t \in Threads : pc[t] = "done" =>
    /\ Len(rows[t]) = Len(call[t].texts)
    /\ \A n \in DOMAIN rows[t] : rows[t][n] = KeyAt(t, n)

\* No layer ever holds a vector under another text's key, so no later call,
\* thread, process or restart can be served one; and no reader can find a
\* half-written file, even after a crash in the middle of put().
CachesSound ==
  /\ \A p \in Procs : \A n \in DOMAIN lru[p] : lru[p][n].vec = lru[p][n].key
  /\ \A k \in Key : disk[k] \in {k, Missing} \cup (IF k \in Touched THEN {Damaged} ELSE {})

\* Whenever the lock is free the LRU holds at most _EMBED_CACHE_SIZE entries,
\* with one entry per key, also while load() shrinks it under running calls.
LruBounded ==
  \A p \in Procs :
    /\ Len(lru[p]) <= cap[p]
    /\ \A a, b \in DOMAIN lru[p] : lru[p][a].key = lru[p][b].key => a = b

\* Once the process has a capacity it keeps one, and it never grows: load()
\* with another embedding_cache_size can only shrink it.
CapacityOnlyShrinks ==
  [][\A p \in Procs :
       cap[p] # 0 /\ cap'[p] # cap[p] =>
         cap'[p] < cap[p] /\ (cap'[p] = 0 => lru'[p] = <<>>)]_vars

\* The LRU drops an entry only together with every entry older than it, by an
\* insertion or by a shrinking load() alike (a crash drops all).
EvictsOldestFirst ==
  [][\A p \in Procs : \A a, b \in DOMAIN lru[p] :
       a < b /\ Cached(lru'[p], lru[p][a].key) => Cached(lru'[p], lru[p][b].key)]_vars

\* A step no thread takes: someone else's hand in the directory.
ByHand == UNCHANGED pc

\* The vector in k's file is lost in this step.
Lost(k) == disk[k] = k /\ disk'[k] # k

\* In this step, a reader whose np.load raised, or found a wrong array, unlinks
\* the file.
Discarded(k) == \E t \in Threads : Discard(t) /\ KeyAt(t, pos[t]) = k

\* "an incremental corpus should keep every vector it has paid for"
\* (disk_cache.py): a vector once in the directory stays there, across crashes,
\* restarts and concurrent readers and writers of its key, unless someone else
\* prunes or damages its file, or a read of it fails and the file is discarded
\* though nothing is wrong with it.
PaidVectorsKept ==
  [][\A k \in Key : Lost(k) =>
       \/ k \in Touched /\ (ByHand \/ Discarded(k))
       \/ k \in Unreadable /\ Discarded(k)]_vars

\* That promise without exception: also a file pruned or damaged by someone else
\* and then written again stays like any other until a hand takes it.
RepairedVectorsKept == [][\A k \in Key : Lost(k) => ByHand]_vars

\* Every call ends, with its array, with an EmbeddingError, or because its
\* process died.
CallsEnd == \A t \in Threads : (pc[t] # "idle") ~> (pc[t] = "idle")

-----------------------------------------------------------------------------
(***************************************************************************)
(* The caches are invisible: embed() implements the stateless service.     *)
(***************************************************************************)
\* What the callers see of a thread's call.
Status == [t \in Threads |-> CASE pc[t] = "idle" -> "idle"
                               [] pc[t] = "done" -> "ok"
                               [] pc[t] = "failed" -> "error"
                               [] OTHER -> "busy"]
Asked == [t \in Threads |-> [model |-> call[t].model, texts |-> call[t].texts]]
Answered == [t \in Threads |-> IF pc[t] = "done" THEN rows[t] ELSE <<>>]

Service == INSTANCE EmbedService WITH
  status <- Status, ask <- Asked, answer <- Answered

\* Every behaviour of the cached embed() is one of EmbedService.
ServiceSpec == Service!Spec

=============================================================================
