# Verification of kaos-nlp-transformers

TLA+ models of the parts of this package where the order of things matters: the
cached `embed()` call and the disk cache behind it, the way models are loaded
under an offline policy and prefetched, the retriever, the devices, the MCP
server with its tools, and the two decoders that turn logits into entities. TLC
checks each model on small instances; TLAPS proves the properties that matter
most for any number of threads, processes, models, texts, documents, words and
labels.

## 1. The system

`kaos_nlp_transformers` embeds texts, reranks, classifies, extracts entities and
finds personal data with ONNX models run from a Rust extension (`rust/`), and
with static model2vec models run from Python. It is used as a library, from a
command line and as a set of MCP tools, whose server keeps models and caches
alive for long.

| Component | State it keeps | Operations | What has to hold |
|---|---|---|---|
| `EmbeddingModel.embed` and the LRU (`embedding.py`) | `_EMBED_CACHE`, `_EMBED_CACHE_SIZE`, one lock, per process | lookup, promote, write back, shrink | every text gets its own vector; the LRU stays bounded and evicts the oldest |
| Disk cache (`disk_cache.py`) | one `.npy` file per text under a namespace, shared by processes | `get`, `put` | never a wrong or torn vector; a good vector is lost only where a read of it fails or to another hand |
| Batched inference (`rust/core/ort_runtime.rs`) | the session behind a mutex | chunk, run, copy rows | row n is text n's |
| Model loading (`embedding.py`, `reranker.py`, `nli.py`, `ner.py`, `pii.py`, `settings.py`) | two environment variables, one constant of `huggingface_hub`, the `lru_cache`s | settings, registry gate, offline scope, cached loader | our offline mode stays ours; each class's own licence gate holds |
| Registries (`models.py`, `model_registry.rs`) | tables, kept twice | look up | the tables agree; nothing excluded is registered |
| File resolution (`rust/core/model_loader.rs`) | the local Hugging Face cache | look up, download | offline loads do not download |
| Prefetch (`cli.py`) | a report and two counters, per command | select, load one model after the other, report | the report and the exit code tell what is on disk |
| Retriever (`retrieval.py`) | a matrix and four parallel lists, no lock | `from_*`, `add_documents`, `retrieve` | the lists stay parallel, a hit is one document, none is missed |
| Devices (`device.py`, `device.rs`) | one cached probe | detect, reconcile, resolve | no card twice, none missing but by a probe's failure, the same request gives the same device |
| MCP tools and server (`tools.py`, `serve.py`) | the event loop, the pool, and all caches above | start, seven handlers | every call is answered, a failure stays with its call |
| GLiNER NER (`rust/core/ner.rs`) | none between calls | lay out prompts with their word mask, enumerate spans, decode, greedy filter | encoder and decoder agree on words and spans; kept spans respect the overlap flags |
| PII (`rust/core/token_classify.rs`) | none between calls | tag decode, BIO grouping, threshold | ordered disjoint spans with the right label |
| Reranker, NLI | none between calls | batched pass, sort or softmax | the best first, none better left out |
| Extraction (`extraction.py`) | none | MMR selection | k distinct picks, best first; not modelled, see section 7 |
| Chunking, tokenizer wrapper, scripts | none of their own | formatting and delegation | not modelled, see section 7 |

How they interact: `embed()` asks the LRU, then the disk cache, then the
backend, and writes back in that order. `load()` sets the LRU's capacity, opens
the offline scope and asks a cached loader, which goes to the vendored copy, the
local Hugging Face cache or the network. `prefetch` is a loop of such loads. The
MCP tools call `load()` on the event loop and, for retrieval, in a worker thread
(`tools.py:598`), and run inference in worker threads, but for a retrieval's
query, which is embedded on the loop (`tools.py:607`); so all the process-wide
state above is reached by several threads, and the session mutex of a backend by
the loop and by workers. The disk cache is also reached by several processes.

What is hard here: a hit, a miss, an eviction and a shrink interleaved between
threads; two index spaces in one call with some hits and some misses; a crash
between two file-system calls; a file damaged, replaced and unlinked by three
hands; flags of the whole process scoped per call; a loader that runs outside its
own cache's lock; a matrix and four lists that are read while they are replaced
one by one; a mutex poisoned by a panic; two answers of one external program that
have to be reconciled. `PROJECT.json` lists every hazard at its line.

## 2. The modules

| Module | Models | How it corresponds to the code |
|---|---|---|
| `EmbedService` | what `embed()` promises | abstract: a call asks, and gets the right rows or an error. No cache, no memory of earlier calls |
| `BatchedEmbed` | the array arithmetic of `OrtBackend::embed` | functions: the chunk width, the output row of a text, the returned array |
| `EmbeddingCache` | `embed()`, the LRU and the disk cache | one action per critical section of `_EMBED_CACHE_LOCK`, per file-system call, per forward pass; several processes with several threads; crashes, failed writes, a failing backend, an operator's pruning |
| `Registries` | the tables of `models.py` and `model_registry.rs` | the tables, and as assumptions what the rest takes for granted about them |
| `ModelLoad` | `load()` of the five classes | one action per step of a load that another thread can come between: gate, snapshot, set, cached loader hit or miss, build, restore |
| `Prefetch` | `kaos-nlp-transformers prefetch` and `prefetch_models()` | composes a command, or an application, with `ModelLoad`: selection of jobs, one load per job, report, exit code |
| `DocIndex` | what a retriever promises | abstract: an index that grows by whole batches, queries answered from a version of it |
| `Retriever` | `EmbeddingRetriever` | one action per assignment of `add_documents` and per read of shared state in `retrieve`; the three ways to build one |
| `Devices` | the rules of `device.py` | functions of the probes' answers: reachable and latent devices, their order, `resolve_device` |
| `ToolServer` | `serve.py`, the handlers of `tools.py`, and the threads, caches and mutexes below them | one action per stretch of a handler or job between two points where another thread runs |
| `GreedySpans` | `decode_spans`, the sort and `greedy_search` of `ner.rs` | one action per accepted cell of the logits, one for the sort, one per comparison of the search |
| `NerPrompt` | `OrtGlinerExtractor::extract`: `encode_prompts`, `make_span_tensors`, the session | composes with `GreedySpans`, for one text of the batch; one action per element written to a row, per row, for the tensors, the session's answer or failure |
| `BioDecode` | `decode_sequence` of `token_classify.rs` | one action for each way through the loop's body, and the end of the loop |
| `MCEmbeddingCache`, `MCModelLoad`, `MCPrefetch`, `MCNerPrompt`, `MCRetriever`, `MCToolServer` | the instances TLC runs | values of the constants and symmetry only |
| `SequenceLemmas` | facts about `SubSeq`, `RemoveAt`, least and greatest numbers, and induction | used by the proofs |
| `EmbeddingCache_proofs`, `ModelLoad_proofs`, `Prefetch_proofs`, `Retriever_proofs`, `ToolServer_proofs`, `GreedySpans_proofs`, `BioDecode_proofs` | the theorems | see section 6 |

`GreedySpans` (in `ner_dup`) and `BioDecode` have parameters only, so TLC runs
them directly.

### EmbeddingCache

`lru` and `cap` are `_EMBED_CACHE` (an `OrderedDict`: a sequence of entries,
oldest first) and `_EMBED_CACHE_SIZE`, one of each per process. `disk[k]` is the
content of the file of key `k`; `tmp[t]` the temporary file of the put that
thread `t` is in. `pc`, `call`, `pos`, `rows`, `miss`, `fresh` are the control
point and the locals of a call: the arguments and `lru_on`, the loop index,
`cached_rows`, `miss_indices`, `miss_arr`.

A vector is the pair `<<model, text>>` it embeds, so "the right vector" is an
equation. A model stands for its id, revision, dimension and dtype together: the
LRU key and the disk namespace separate by exactly these. Two different texts do
not collide under blake2b. Rounding differences between two batches that hold
the same text are not told apart. A crash is the death of a process: the files
it renamed stay (loss of power, which could undo a rename, is not modelled).

`InferFail` stands for every way `_embed_uncached` raises. `PutFail` stands for
any of the three file-system calls of a put raising, with the `finally` clause
and the swallowed exception. The clause's `unlink` is best-effort
(`disk_cache.py:190-200`), so a failed put may leave its temporary file behind,
as a crash may. Such a file has a random part in its name and is never opened
again: it is out of the state, `tmp` is the running put's, and nothing is claimed of what
is left.

`Prune` and `Damage` are someone else's hand in the directory; they act on the
keys in `Touched` only, so that a property can speak of the others. `np.load`
may also fail on a file that is good (no descriptor left, an I/O error, no
memory), and `get` takes any exception of it for corruption
(`disk_cache.py:143-145`): `DiskLoad` may do so for the keys in `Unreadable`, and
`Discard` then removes the good file, or cannot.

### Registries and ModelLoad

`Registries` has the entries of the five tables of `models.py` and of those of
`model_registry.rs`. What must be true of them is a pair of assumptions TLC
evaluates wherever models are loaded: the two sides mirror each other, revision
by revision, and nothing excluded is registered anywhere.

In `ModelLoad`, `flags` are the two variables `_offline_env_scope` sets and the
constant `huggingface_hub` read at its import; `shell` is the environment the
process was started with. A family is a model class, by the name the command
line has for it. `loader[l]` is the `lru_cache` of one cached loader, oldest
entry first: one for each family and one for model2vec; `local` the models whose
files are in the Hugging Face cache. `saved` is a scope's snapshot, `load` what
the load resolved to, `fetched` whether it downloaded. `overlapped` is a history
variable: two loads have been in progress at once.

The three flags are read, set and restored one after another in the code and
together in the model. Nothing is claimed for overlapping loads but
`ShellOfflineKept`, whose argument treats each flag by itself, and the run that
shows the leak needs no finer step. A key of the cached loaders is the model: the
revision follows from it, and device and cache directory are the same throughout.

An id left out is the default of the class and not of `settings.py:36-39`, which
only the tools read. A build that fails may have downloaded the model's files
before it does (`BuildFail`).

`allow_unregistered` does less than the texts say. The message for a model that
a class excludes offers it as the way in (`embedding.py:218-219`, and likewise in
the other four classes), and `settings.py:24-25` says a default may be out of the
registry with it; but an excluded model is refused before the setting is read,
and of models in no registry it lets in those of model2vec only, since the Rust
side has a gate of its own. `OwnGateHolds` states what the code does, and a
finding quotes the texts. Its scope is each class's own list: what only the
lists of other classes exclude, `EmbeddingModel.load(backend="model2vec",
allow_unregistered=True)` builds, and the property says nothing of it.

### Prefetch

A behaviour of `PrefetchSpec` is the life of one process: an application whose
threads load models, or a command. `jobs` are what the command will load, `rows`
its report, `count` its `n_ok` and `n_failed`, `exit` the exit code. One job is
one `load()` of `ModelLoad`, taken step by step; the settings are those of the
environment, so any `offline` may be stated. An id in no registry ends the
command whatever `--allow-unregistered` says (`cli.py:396-402`; its help at
`cli.py:70-74` speaks of gates it does not reach). With the registries present
only `prefetch_models()` can come to an empty list of jobs.

A command whose arguments `argparse` refuses, here one that includes a family
that is none, ends with `argparse`'s own code 2 before anything else
(`RejectArguments`), though the help says that argument errors exit with 1
(`cli.py:49-50`). So 2 alone does not say that a model has failed, and
`ExitCodeTells` says it only of a command that parsed. `prefetch_models()` does
not parse, and passes over such a family.

### Retriever

`embeddings` is the matrix: a row is the text it embeds, and a score is an
arbitrary function of query and text, so ties occur. `docIds`, `texts`,
`externalIds` and `metadata` are the lists. `adder` is the step `add_documents`
is before, `batch` its four lists with defaults filled in. `call[r]` has the
locals of a `retrieve()`: the matrix read, the cut, the positions chosen. Two
history variables: `docs`, the documents added so far, and in `call[r]` how many
of them there were when the call began and whether it has met a commit.

One thread adds: the class has no lock, the repository adds from one thread
only, and with two the lists would end up in different orders. The loop over the
hits is one step: the lists only grow, so reads spread over an `add_documents`
see what a read at the end would see, or raise. `from_corpus` groups by the key
`uri#section`; a uri or section with a `#` in it may give another's key, and the
instance has such a corpus: the two sections become one document, which the
properties allow since no text of the repository excludes it.

`DocIndex` says what is left of this for a caller. A query that no commit
overlaps gets the `top_k` best. One that a commit overlaps may raise
(`SelectRaises`, `Collect`) or give more than `top_k` hits (a cut taken before
the lists grew, compared with a length read after), but every hit is one
document, and no document that was there when it began is passed over for a
worse one.

### Devices and ToolServer

`Devices` has no state. `nvidia-smi` is asked twice per detection and either call
may fail, so the operators take two answers. An answer is the rows that could be
read: all cards, none, or some, since a line of other than five fields is skipped
(`device.py:264`). Vendor tools and files are facts of a `Host`.
A WSL-like host without `/dev/nvidia*` lists no latent card.

In `ToolServer`, `loop` is the call whose handler has the event loop, `queue` and
`busy` the pool's jobs, `pc[c]` where call `c` is. `system` is `_cached_system`,
`loaded` the cached backends, keyed by family and device, `holder` and `poisoned`
the session mutexes. Every except clause is in `Ending`, `Raised` and
`LoadRaises`: which exception a Rust error becomes and which handler catches it
by name, by `except Exception`, or not at all. A request is a list of items of
four kinds, whether the rest of the arguments is as it has to be, and a number;
`Refused`, `Unconvertible` and `OutOfRange` are the checks in the order of the
handlers. Loading is one step to look and one to store: its inner steps and
evictions are `ModelLoad`'s. Whether `embed()` finds all texts in its caches is
left open (`Look`). A call infers one batch and uses the default model of its
tool. The scores a model gives are any of `Levels`, of which only the order
matters.

`tools.py:52-58` says that each tool catches the package's exceptions;
`InfoTool` has no try, so a `settings.device` that the machine or the build has
not makes the diagnostic tool raise. `RaisedExactlyFor` states that it does, every
time, as one of the three reasons for which a client gets an exception, and a
finding quotes the comment. A number given as 0
is taken for absent (`or`), a poisoned backend stays in the `lru_cache` until the
process ends, and the loop, with every other call, waits while a retrieval's
query waits for the mutex of a running job: the model has all three.

### GreedySpans

`spans` is first what `decode_spans` has pushed, then the sorted list; `prev`,
`next` and `out` are the variables of `greedy_search`, counted from 1. The
logits are arbitrary: any cell may reach the threshold with any score, so
`DecodeSpan` picks any later cell of the three loops. How many starts and widths
the answer has is arbitrary too (`Starts`, `Widths`): `decode_spans` takes them
from the answer (`ner.rs:701`, `717`), no code compares them with what was asked
for, and a cell that ends behind the last word is passed over. Offsets are counted in
words, which order spans and tell overlaps as characters do, since words follow
each other and are not empty. `end` is exclusive, as in the code. A label is its
position in the caller's list, whose labels are different. `params` are the
three flags; `multi_label` FALSE forbids overlaps on its own (`ner.rs:776`),
whatever `dup_label` says. `FlatDisjoint` states that, and with it something that
`ner.rs:95` and `ner.py:212-213` deny: with `flat_ner` off and `dup_label` on they
promise overlaps of one label, which the code refuses while `multi_label` is off.

### NerPrompt

A batch is a sequence of texts, a text the sequence of the subword counts of its
words, which may be 0. `row`, `elem`, `idx` and `wordId` are the variables of the
second loop of `encode_prompts`; `mask` is `words_mask`. `attention` keeps how
far the ones of a row reach, `spanIdx` the entries of `span_idx` that `span_mask`
marks. Token ids are left out, and so is a tokenizer that fails: nothing has been
written then. `SubwordsTo` is `total_tokens` as it grows from element to element: where a word
begins in its row. The session answers (`RunSession`, which is `Extract` of
`GreedySpans` for a text of `NumWords` words) or fails (`RunEndsCall`).

Words without subwords in front of a text's first word that has some are not
counted: after SEP `idx` is `text_offset`, and they leave it there
(`ner.rs:535`). The first word with subwords then is number 1 for the session and
its text's later words follow from there, while `decode_spans` counts all words:
the entities of such a text are named too early, by the number of those words.
The same word further back is counted. `MaskNumbersWords` states exactly this for
every text: the number of word `w` is `w - Lead(text)`. A finding quotes the
comments by which it is `w` (`ner.rs:23-26`, `526-527`). Whether the shipped
tokenizer makes nothing of a word is outside this repository.

`CellsReal` compares the spans the session was told of with the cells that
`decode_spans` reads of an answer in the shape asked for, as many starts as the
batch's longest text has words and `max_width` widths. Of other answers, which
`run_session` lets pass, it says nothing; what the search makes of them is
covered by the properties of `GreedySpans`.

### BioDecode

`tokens` is the row up to `tok_idx`, each token with the prefix, the category
and the score of its best label, or without an offset. `current` is the
`Option<OpenSpan>`: a set of at most one span. Logits are arbitrary, so every
label sequence occurs, legal BIO or not. An offset counts tokens; `end` is the
last token of a span. A label without a prefix acts as a B- label
(`token_classify.rs:500-503`). The row ends at `MaxSeqLen` at the latest; what a
longer text says beyond it is never read (`token_classify.rs:194`).

## 3. Runs

| Run | Instance | Result |
|---|---|---|
| `cache_lru` | one process, 2 threads, 2 models, 2 texts, lists of up to 2 texts (repeats too), batch sizes 1 and 2, capacities 1 and 2, no disk | passes |
| `cache_disk` | 2 processes of one thread, one model, 2 texts, lists of up to 2, LRU off or 1 entry, disk on, one of the two files in other hands and hard to read | passes |
| `cache_repaired` | as `cache_disk`, LRU off, the claim made for the touched file too | violated |
| `cache_batch0` | one process, batch sizes 0 and 1 | violated |
| `load_scope` | `Prefetch`: an application with 2 threads, or one of 8 commands, of which one does not parse; 7 models (two embedding backends, the other classes' defaults, one excluded); 2 shells; an empty and a warm local cache; loaders of 1 entry | passes |
| `load_leak` | 2 threads, one model, a shell without flags | violated |
| `load_rust` | one thread, one ort model, a shell without flags | violated |
| `ner_spans` | `NerPrompt`: texts of up to 4 words of 0 to 2 subwords, alone or next to an empty, a longer or a wordier text; 2 labels of 1 or 2 subwords; 4 words decoded, spans of up to 3, answers of 3 or 5 starts and 2 or 3 widths, 2 scores, up to 4 candidates, all flags | passes |
| `ner_dup` | 3 words, 2 labels, one score, up to 3 candidates, all flags | violated |
| `retriever` | one adding and one querying thread, batches of 0, 1 and 2 documents with every combination of lists left out or one short, 3 corpora, 2 queries (one ties everything), `top_k` -1, 1 and 3, up to 3 documents | passes |
| `tool_server` | 3 calls, 2 workers, 2 hosts with two cards, `nvidia-smi` answers with both, one or none, 3 ways to start; the first call any of the tools but NER extraction, or one of five that are turned away, beside an embedding and a call that fails | passes |
| `pii_bio` | rows of up to 5 tokens, 2 categories, 3 scores, threshold 2 | passes |

What the passing runs show:

* **`cache_lru`**: in every interleaving of lookups, promotions, write-backs,
  loads that set or shrink the capacity, and crashes, an answer holds each
  text's own vector in order (`AnswersRight`); no entry holds another text's
  vector (`CachesSound`); the LRU is bounded and without duplicates
  (`LruBounded`); the capacity only shrinks (`CapacityOnlyShrinks`); eviction
  takes the oldest first (`EvictsOldestFirst`).
* **`cache_disk`**: the same answers with two processes on one directory, and:
  no torn file is ever readable (`CachesSound`), a vector in a file is lost only
  to another hand or to a reader that could not read it (`PaidVectorsKept`), every
  call ends (`CallsEnd`), and `embed()` implements `EmbedService` (`ServiceSpec`): caches,
  crashes and other processes cannot be seen in an answer, and a failing forward
  pass fails the call as a whole.
* **`load_scope`**: an operator's `HF_HUB_OFFLINE=1` survives any overlap of
  loads, of one class or of several (`ShellOfflineKept`); loads that come one at
  a time leave the flags as they found them, on every path (`FlagsRestored`), and
  are offline by their own settings or the shell only (`OfflineIsOwn`); ort keeps
  only backends of models the class's own Rust registry pins, and model2vec none
  of a model the embedding class excludes, whatever `allow_unregistered` says
  (`OwnGateHolds`); the loaders' caches stay within their bound
  (`LoaderBounded`). A prefetch reports one true row per job (`ReportTrue`); 0
  means that everything asked for is on disk, 1 that nothing was loaded, and 2,
  of a command that parsed, that a model has failed (`ExitCodeTells`).
* **`retriever`**: whatever `add_documents` was given, refused or failed in, the
  matrix and the lists are parallel when no commit is in progress
  (`ParallelAtRest`); a hit is always one document with its own score
  (`HitsOfOneDocument`); the retriever implements `DocIndex` (`DocIndexSpec`).
* **`tool_server`**: every call is answered (`EveryCallAnswered`); an exception
  gets out of a handler for three reasons, and whenever there is one
  (`RaisedExactlyFor`); a poisoned mutex harms
  only callers of that very backend (`PoisonContained`); the kept device list is
  sound however the probes went (`DevicesTrue`), and equal requests get equal
  devices unless two first detections race (`AgreeUnlessRaced`); the rows a
  client gets of a reranking or classification are the best (`BestKept`).
* **`ner_spans`**: the session is told of each word of a text at its place in the
  row, with its number less the length of the text's lead of words without
  subwords, and of an answer in the shape asked for the decoder reads exactly the
  spans the session was told of (`PromptTellsWords`); where the flags forbid
  every overlap the kept spans are
  disjoint and in order, although the search compares one pair at a time and a
  better span takes the place of a kept one (`FlatDisjoint`); neighbours in the
  output obey the flags (`NeighboursAccepted`); whatever is dropped, a span at
  least as good stays in the same run of overlapping candidates
  (`BestOfRunKept`).
* **`pii_bio`**: the entities are exactly the complete runs of the label
  sequence whose every token reaches the threshold (`EntitiesAreRuns`,
  `ConfidentRunsFound`), in order and disjoint (`EntitiesInOrder`).

What the violated runs show, each a finding in `PROJECT.json`:

* **`cache_repaired`**: `get` unlinks a path on the evidence of a read that is
  no longer true; the good file put there meanwhile is gone
  (`disk_cache.py:145`). The vector will be computed again: a cost, not a wrong
  answer.
* **`cache_batch0`**: with `batch_size=0` the chunks are one text wide and all
  copied to row 0 (`ort_runtime.rs:194` and `298`); the wrong rows reach the
  caches and outlive the call. `embed()` does not reject the argument.
* **`load_leak`**: two overlapping offline scopes leave the process offline
  (`embedding.py:540`).
* **`load_rust`**: the Rust loader downloads under an offline setting
  (`model_loader.rs:61`).
* **`ner_dup`**: with `dup_label` off, two overlapping spans of one label are
  both kept when a span of another label lies between them in the order
  (`ner.rs:791`). `NeighboursAccepted` is what the code does guarantee.

Seven more findings come from passing runs. There the property states what the
code does, and a text of the repository says otherwise:

* **`PaidVectorsKept`** (`cache_disk`): a read that fails on a good file deletes it
  (`disk_cache.py:143`), against "keep every vector it has paid for"
  (`disk_cache.py:56-57`). That way to lose one is allowed by name, for the keys
  in `Unreadable`; without it the property is false.
* **`OwnGateHolds`** (`load_scope`): no setting opens the gate for an excluded
  model (`embedding.py:212`), against the advice of its own message
  (`embedding.py:218-219`) and `settings.py:24-25`.
* **`ExitCodeTells`** (`load_scope`): arguments that do not parse exit with 2
  (`cli.py:110`), against the help (`cli.py:49-50`).
* **`PromptTellsWords`** (`ner_spans`): words without subwords in front of a text
  shift the numbers of all others (`ner.rs:535`), against `ner.rs:23-26` and
  `526-527`.
* **`FlatDisjoint`** (`ner_spans`): `dup_label` alone allows no overlap
  (`ner.rs:776`), against `ner.rs:95` and `ner.py:212-213`.
* **`RaisedExactlyFor`** (`tool_server`): `InfoTool` raises for a device that there
  is not (`tools.py:175`), against `tools.py:52-55`.
* **`DevicesTrue`** (`tool_server`): when the first `nvidia-smi` answer lists some
  cards and the second more, a build that has CUDA is told for those that it has
  not (`device.py:398`, `299-300`). The property excludes it in all other cases.

Bounds and why they are enough. Two threads meet in every pair of steps, and the
code has no step that counts threads. Two texts give a call with one hit and one
miss, an eviction by the other text and a repeated text; two models a key that
differs in the model alone. Two capacities give a first setting, a shrink and an
ignored growth. Two processes of one thread give every race on a file; a third
hand is `Touched`, a read that fails `Unreadable`; the other file is neither. Loaders of one
entry evict with the second model of a class, of which the embedding class has
two. The commands are one for each way through `prefetch`, with one that never gets
there. Three documents give a
batch on top of an index, a cut below, at and above the length, and a query begun
before, during and after a commit. Two calls that may need one backend race to
build it, detect at once, and wait for one mutex; the third keeps a
worker busy meanwhile, or the loop, and fails. The proofs
remove all of these bounds for the properties they cover. Four words and four
candidates give a chain in which a replaced span, its replacement, the span
kept before and the next one all differ, and nested, equal and touching spans;
two labels give equal and different neighbours, two scores a better and a worse
one. Five tokens give two entities with a gap, a wrong continuation and an end
of row inside an entity. Texts of up to four words have words without subwords
at the start, in the middle, at the end and next to each other; the text beside
them makes the batch's number of words, its row length, both or neither larger. An answer with
less and one with more starts than words, and one with less widths than asked
for, cut off cells at either bound.

Fairness. `CallsEnd` is checked under weak fairness of each thread's steps
inside a call: `_EMBED_CACHE_LOCK` is held for dictionary operations only, never
across I/O or inference (`embedding.py:566-570`), so a thread in a call is
always enabled to go on, and nothing is assumed of callers, crashes or the
failures. `EveryCallAnswered` is checked under weak fairness of each call's
steps: a handler leaves the loop or awaits a job, the pool takes jobs in order,
`nvidia-smi` is given up after two seconds (`device.py`), loads and session runs
end. `tool_server` stops when every call is answered or the server refused to
start, so it does not check deadlock. All other properties are safety properties and need none.

## 4. Mutants

Every property of a passing run is shown to fail for a plausible slip in the
code: the definitions marked `MUTANT` are the slips (a missing `finally`, a
rename before the sync, an index of the wrong space, a test before the insertion
instead of after, and so on), and `PROJECT.json` pairs each with the property
that catches it.

## 5. Plan

Done: all modules of section 2, their runs and their proofs. Left, in this order:

1. `Mmr`: the selection loop `_mmr_select` of `extraction.py` against a reference
   definition. `rank()` no longer calls it: it leaves MMR to `kaos-nlp-core`.
2. Two adding threads for `Retriever`, if the class ever gets a lock.

## 6. Theorems

Proved for every value of the constants, from the named assumptions in the
modules (which say what kind of thing each constant is, and that the markers of
a missing, torn or damaged file are not vectors).

**EmbeddingCache_proofs.** `TypeInvAlways` is the inductive invariant the rest
stands on. `TypeOK` is not inductive: a lookup indexes `call[t].texts` by
`pos[t]`, a write-back indexes `miss[t]` and `fresh[t]`, so the invariant says
at each control point how the locals fit together: the length of `rows` is that
of the texts, a lookup's `pos` is within them, `miss` holds indices of them,
`fresh` has one row per miss. From it: `TypeCorrect`,
`LruBoundedAlways`, `CapacityOnlyShrinksAlways`, and `EvictsOldestFirstAlways`,
for which a put has to leave an LRU within its capacity alone when it only
refreshes a key: the refreshed entry moves past younger ones, and an eviction
then would drop those first. Under `0 \notin BatchSizes` (with it, `cache_batch0` shows
the theorems false) a second invariant says that `lru`, `disk`, `tmp`, `fresh`
and the filled rows hold the right vectors and that a position still unfilled is
in `miss` or ahead of `pos`; from it `CachesSoundAlways`, `AnswersRightAlways`,
`PaidVectorsKeptAlways` (a put renames a right vector only, so a file changes
from right to anything else by `Prune`, `Damage` or `Discard`, and a reader
discards what it saw wrong or could not read) and `Refinement`: the initial state maps to one of
`EmbedService`, and every step to a step of it or to a stutter.

**ModelLoad_proofs.** `TypeCorrect`, `OwnGateHoldsAlways` (of each class's own list),
`LoaderBoundedAlways` (an eviction in `Stored` keeps the entries distinct),
`ShellOfflineAlways` (with the shell offline, every snapshot in flight is
offline too, so no restore can turn a flag off), `FlagsRestoredAlways` and
`OfflineIsOwnAlways` (without overlap, at most one thread is in a load, and its
snapshot is the shell's flags).

**Retriever_proofs.** `StoreInv` says of which documents each list is the column:
all of `docs` at rest, and during a commit `docs` with the batch where the
commit has passed (`ParallelAtRestAlways` is its case at rest, where it is not
inductive: the steps in between break it). `CallInv` says what the locals of a
`retrieve()` still have to do with the store that has moved on: the rows it
read are a prefix of the matrix, every document there was when it began is among
them, it keeps at least the smaller of `top_k` and that many, and a call that
has met no commit still has the store it began with. From both:
`HitsOfOneDocumentAlways`, `TypeCorrect`, and `Refinement`, in which only
`Cut`, `SelectRaises`, `Collect` and `Return` are steps of a call of `DocIndex`:
a row among the best of a longer matrix is among the best of the documents there
are when it answers, and an index that is not in a list yet can only be met by a
call that a commit overlaps.

**Prefetch_proofs.** `StepRefines`: a step of a prefetch or of an application is
a step of `ModelLoad` or leaves its state alone, so `PrefetchSpec` implements its
`Spec` (`Implements`), and all theorems of `ModelLoad_proofs` hold of it
(`LoadsKept`).
`DiskInv` says that what a cached loader holds, or has just built, is in the
local cache or the wheel; it needs that nothing is removed from the cache.
`CommandInv` says that a load of the command is always that of the job whose row
is next, so a row that says ok speaks of the model of its job
(`ReportTrueAlways`). `JobsForProperties`, that every model a command is for has
a job, turns a report without failures into the meaning of exit code 0
(`ExitCodeTellsAlways`, which says of 2 that a model failed only where the
arguments parsed, and otherwise that nothing was loaded).

**ToolServer_proofs.** `CallFrame` says what a step of one call leaves alone: the
locals of the others, the loop if another handler has it, and every poisoned
mutex. It needs that InfoTool, which alone replies right after it resolved the
device, still has the loop there (`InfoHolds`). `CallInv` says that a call that
has failed is at its end, that one that met a poisoned mutex holds its backend,
and that a reply is an exception exactly for the reasons of `RaisedExactlyFor`.
With `Culprits` (every poisoned backend has its panic) that gives
`PoisonContainedAlways`. `Snapshot` (unless there was a race, one detects at
most, none once there is a snapshot, and what has been found was found in it)
gives `AgreeUnlessRacedAlways`; `Pool` (who waits is in the queue) and
`Detected` give `TypeCorrect`.

`DevicesTrueAlways` and `BestKeptAlways` rest on `BestFirst`, a `CHOOSE` of the
permutation that sorts. `BestFirstLists` proves that there is one for every list
(`Insertion` gives one position more its place) and that it is onto, by counting.
`DetectionTrue` then says it of one detection, whose two `nvidia-smi` calls may
have answered differently: the latent entries are as many as the reachable cards
do not cover. `SnapshotsTrue` carries it from the probes through the unpublished
detections of all calls into the snapshot, whoever publishes last; `failed` has to
stand for the calls of every detection, since any may overwrite. `Ranks` says
that a job that has succeeded left a score for each of its items, and that a
reply with success has the rows these scores give; it needs that no tool that
ranks infers on the loop (`LoopInv`), and that an empty list was refused.

The safety half of `EveryCallAnswered` is proved too, as two theorems that no run
states. `Flow` says who has what: a mutex is held by a call that runs with that
backend, a busy worker has a call at work off the loop, the queue has each
waiting call once, and only a retrieval goes on after its job. `NoDeadlockAlways`:
as long as a call waits for its answer, the guards of some call's next step hold.
A call that waits for a mutex waits for one that runs, and if no call has the loop
or a worker, both are free. `CallsGetOnAlways`: every step of a call lessens
`StepsLeft`, at most 18, and raises nobody else's, so no call goes in a loop.
`CallMoves` sums up the handler's steps for both. What is left for TLC is that
fairness turns these into an answer.

**GreedySpans_proofs.** `OrderInv` (the search runs over spans in order of their
starts; no kept span starts after the one under comparison) carries everything.
The list the search would return now, `Kept` (the spans kept and the one under
comparison), is in the state of a finished search after every comparison, so the
properties are proved of `Kept`: `FlatDisjointAlways`, where the step that
replaces a span needs that replacements only start later;
`NeighboursAcceptedAlways`, with the lemma that a span accepted next to `prev`
is accepted next to what replaces it; `BestOfRunKeptAlways`, where runs of
overlapping candidates are chained through the replaced span. `DecoderRuns`:
every step of `NerPrompt` is a step of `GreedySpans` or leaves it alone, so all of
this holds of the whole of `extract()` (`PromptDecodes`).

`PromptTellsWordsAlways` is about `NerPrompt`'s own part. `RowsInv` describes the
arrays while they are written: each finished row has the length of its prompt,
and in the row at hand `idx` is one more than the subwords of the elements before
`elem` (`AtElement`). `wordId` is the number of words passed behind the text's
lead, and the mask has `w - Lead` at the first subword of word `w` for the words
passed that have one, and 0 elsewhere (`RowsNumbered`): a word without subwords
claims no cell, and is counted unless it is in the lead. `LeadProperties` and
`SumsLead` say that the lead is where the sums of subwords are still 0, which is
what the code's test of `idx` sees. Nothing is ever cut (`ElementFits`): the
subwords before an element and its own are at most those of its row, which are at
most `MaxTokens`, so the invariant needs no case for the cap. `SumsGrow` and
`SumsOfTwo` are the arithmetic of `SubwordsTo`, by induction over the elements.

**BioDecode_proofs.** `RunInv` says that the open span and every entity is a
stretch of the tokens read that cannot be extended to the left, the open one
ending at the last token, and that a tagged last token is in an open span.
From it `EntitiesAreRunsAlways` and `EntitiesInOrderAlways`; with `FoundInv`
(every confident run before the last token is among the entities)
`ConfidentRunsFoundAlways`. Both modules also prove their `TypeCorrect`.

Induction. The library's induction theorems take an operator as a parameter,
which no installed prover can instantiate. `SetInduction` of `SequenceLemmas`
states induction for a set instead, from `LeastNatural` (a set of numbers that is
not empty has a least one): an instance is a set of the numbers for which the
claim holds, so sums over a row and the sorting permutation are proved for every
length. The models' recursive functions over numbers (`upTo` in `SubwordsTo`) are
unfolded a step at a time in the same way.

Only model-checked: `CallsEnd` and `EveryCallAnswered`, since liveness and
`ENABLED` are out of the prover's reach. Every other property of the passing runs
has its theorem.

## 7. What is not modelled

The numerics (pooling, normalisation, softmax, similarity, the band of the
scores), tokenisation, the ONNX runtime, the hub's protocol, schemas, wording and
formatting of tool results and of the command line. The scores of the decoders
are ranks: sigmoid and softmax are not modelled. `extraction.py`'s MMR is
next in the plan; chunking delegates to `kaos-content`,
which is not in this repository. `from_local_path()` reads and changes none of
the shared state. Which card a CUDA session runs on is inside ort: the index of
the device is dropped at `ort_runtime.rs:137-153`, while caches and reports keep
it. `settings.from_context()`, which may raise before a handler's try, is
external. The item caps that the schemas of the NLI, NER and PII tools declare
are not enforced by their handlers, and so are no guards here. The `external_id`
of a document whose metadata has one of its own (`tools.py:769`) is a field of a
payload.
