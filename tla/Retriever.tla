------------------------------ MODULE Retriever ------------------------------
(***************************************************************************)
(* EmbeddingRetriever: a matrix of embeddings and four lists parallel to   *)
(* its rows, all without a lock.  One thread builds the retriever and adds *)
(* documents to it, the others query it.  The steps of add_documents are   *)
(* its assignments, those of retrieve() its reads of the shared state.     *)
(*                                                                         *)
(* A row of the matrix is the text it embeds: unit vectors are told apart  *)
(* by their similarity to a query only, which is arbitrary and may be tied.*)
(***************************************************************************)
EXTENDS Integers, Sequences, FiniteSets, Functions

CONSTANTS
  Readers,    \* threads that call retrieve()
  Queries,    \* the queries they ask
  TopK,       \* the values of top_k, also 0 and below
  Batches,    \* lists of documents that callers offer
  Corpora,    \* the corpora given to from_corpus: sequences of units
  Texts,      \* texts of documents and units
  Externals, Metas,  \* external ids and metadata, the defaults included
  Sim(_, _),  \* similarity of a query and a text
  Join(_),    \* "\n".join of a list of texts
  MaxDocs,    \* bound: documents in the index
  None,       \* an argument left out, and the external id it gives
  Empty       \* {}, the metadata left out

Document == [id : Int, text : Texts, ext : Externals, meta : Metas]

ASSUME DefaultsAssumption == None \in Externals /\ Empty \in Metas
ASSUME NumbersAssumption ==
  TopK \subseteq Int /\ \A q \in Queries, t \in Texts : Sim(q, t) \in Int
ASSUME BatchesAssumption == Batches \subseteq Seq(Document)

VARIABLES
  built,       \* the retriever has been constructed
  embeddings,  \* self._embeddings: the texts its rows embed
  docIds, texts, externalIds, metadata,  \* the parallel lists
  adder,       \* the adding thread: the step of add_documents it is before
  batch,       \* its arguments, defaults filled in
  call,        \* call[r]: the locals of r's retrieve()
  docs         \* the documents fully added so far (a history variable)

lists == <<docIds, texts, externalIds, metadata>>
vars == <<built, embeddings, lists, adder, batch, call, docs>>

Lower(a, b) == IF a < b THEN a ELSE b
Column(b, field) == [i \in DOMAIN b |-> b[i][field]]

NoBatch == [ids |-> <<>>, texts |-> <<>>, ext |-> <<>>, meta |-> <<>>, docs |-> <<>>]

\* The locals of a retrieve(), with how many documents were there when it began
\* and whether it has met no commit.
Idle == [at |-> "idle", query |-> "none", k |-> 0, from |-> 0, quiet |-> TRUE,
         rows |-> <<>>, n |-> 0, top |-> <<>>, raised |-> FALSE, hits |-> <<>>]

Init ==
  /\ built = FALSE
  /\ embeddings = <<>>
  /\ docIds = <<>> /\ texts = <<>> /\ externalIds = <<>> /\ metadata = <<>>
  /\ adder = "idle"
  /\ batch = NoBatch
  /\ call = [r \in Readers |-> Idle]
  /\ docs = <<>>

-----------------------------------------------------------------------------
(***************************************************************************)
(* Arguments.                                                              *)
(***************************************************************************)

\* A list a caller gives for a column: as long as the batch, or one short.
Lists(column) == {column, SubSeq(column, 2, Len(column))}

\* _validate_parallel_lengths: an empty list is a list, not an omission.
Valid(n, ids, txts, ext, meta) ==
  /\ Len(ids) = n /\ Len(txts) = n
  /\ ext # None => Len(ext) = n
  /\ meta # None => Len(meta) = n

OrDefault(list, n, default) ==
  IF list = None THEN [i \in 1..n |-> default] ELSE list

\* MUTANT of Filled: the defaults are those of a one-document batch.
FilledOnce(b, ids, txts, ext, meta) ==
  [ids |-> ids, texts |-> txts,
   ext |-> OrDefault(ext, 1, None), meta |-> OrDefault(meta, 1, Empty),
   docs |-> [i \in DOMAIN b |->
               [id |-> ids[i], text |-> txts[i],
                ext |-> IF ext = None THEN None ELSE b[i].ext,
                meta |-> IF meta = None THEN Empty ELSE b[i].meta]]]

\* The four lists of valid arguments, and the documents the caller means.
Filled(b, ids, txts, ext, meta) ==
  [ids |-> ids, texts |-> txts,
   ext |-> OrDefault(ext, Len(txts), None),
   meta |-> OrDefault(meta, Len(txts), Empty),
   docs |-> [i \in DOMAIN b |->
               [id |-> ids[i], text |-> txts[i],
                ext |-> IF ext = None THEN None ELSE b[i].ext,
                meta |-> IF meta = None THEN Empty ELSE b[i].meta]]]

-----------------------------------------------------------------------------
(***************************************************************************)
(* Building.  A construction that is refused, or whose model does not load *)
(* or embed, leaves no retriever behind.                                   *)
(***************************************************************************)

\* __init__ of lists that passed the validation.
Construct(args) ==
  /\ ~built
  /\ Len(args.texts) <= MaxDocs
  /\ built' = TRUE
  /\ embeddings' = args.texts
  /\ docIds' = args.ids
  /\ texts' = args.texts
  /\ externalIds' = args.ext
  /\ metadata' = args.meta
  /\ docs' = args.docs
  /\ UNCHANGED <<adder, batch, call>>

\* from_texts: doc_ids default to the positions.
FromTexts ==
  \E b \in Batches :
    \E ids \in Lists(Column(b, "id")) \cup {None},
       ext \in Lists(Column(b, "ext")) \cup {None},
       meta \in Lists(Column(b, "meta")) \cup {None} :
      LET txts == Column(b, "text")
          given == IF ids = None THEN [i \in DOMAIN b |-> i - 1] ELSE ids
      IN  /\ Valid(Len(b), given, txts, ext, meta)
          /\ Construct(Filled(b, given, txts, ext, meta))

\* from_collection: every column read off the collection's documents.
FromCollection ==
  \E b \in Batches :
    Construct(Filled(b, Column(b, "id"), Column(b, "text"), Column(b, "ext"),
                     Column(b, "meta")))

\* The document of one unit.
UnitDoc(unit) ==
  [id |-> unit.row, text |-> unit.text, ext |-> unit.passage,
   meta |-> <<unit.passage, unit.uri, unit.section>>]

\* A uri, a section and a key are sequences of parts, joined by "#".  The
\* counter numbers the units that have no section.
KeyOf(c, i) ==
  c[i].uri \o
  IF c[i].section # None THEN c[i].section
  ELSE <<<<"ungrouped", Cardinality({j \in 1..(i - 1) : c[j].section = None})>>>>

\* The units with which the groups of c start, in order.
Leaders(c) == {i \in DOMAIN c : \A j \in 1..(i - 1) : KeyOf(c, j) # KeyOf(c, i)}
Leader(c, n) ==
  CHOOSE i \in Leaders(c) : Cardinality({j \in Leaders(c) : j <= i}) = n

\* The texts of the units in I, in the order of the corpus.
TextsAt(c, I) ==
  [n \in 1..Cardinality(I) |->
     c[CHOOSE i \in I : Cardinality({j \in I : j <= i}) = n].text]

\* _group_corpus_units_for_embedding: one document for each key, in the order
\* the keys first occur.
GroupDocs(c) ==
  [n \in 1..Cardinality(Leaders(c)) |->
     LET i == Leader(c, n)
         key == KeyOf(c, i)
     IN  [id |-> n - 1,
          text |-> Join(TextsAt(c, {j \in DOMAIN c : KeyOf(c, j) = key})),
          ext |-> key,
          meta |-> <<key, c[i].uri, c[i].section>>]]

\* What a corpus gives are documents, in either form.
ASSUME CorporaAssumption == \A c \in Corpora :
  /\ [i \in DOMAIN c |-> UnitDoc(c[i])] \in Seq(Document)
  /\ GroupDocs(c) \in Seq(Document)

\* from_corpus, by units or by groups.
FromCorpus ==
  \E c \in Corpora, grouped \in BOOLEAN :
    LET b == IF grouped THEN GroupDocs(c) ELSE [i \in DOMAIN c |-> UnitDoc(c[i])]
    IN  Construct(Filled(b, Column(b, "id"), Column(b, "text"),
                         Column(b, "ext"), Column(b, "meta")))

Build == FromTexts \/ FromCollection \/ FromCorpus

-----------------------------------------------------------------------------
(***************************************************************************)
(* add_documents.  No texts, lists that do not match, and a model that     *)
(* raises end the call before anything has changed.                        *)
(***************************************************************************)

Add ==
  /\ built /\ adder = "idle"
  /\ \E b \in Batches \ {<<>>} :
       \E ids \in Lists(Column(b, "id")),
          ext \in Lists(Column(b, "ext")) \cup {None},
          meta \in Lists(Column(b, "meta")) \cup {None} :
         /\ Valid(Len(b), ids, Column(b, "text"), ext, meta)
         /\ Len(docs) + Len(b) <= MaxDocs
         /\ batch' = Filled(b, ids, Column(b, "text"), ext, meta)
  /\ adder' = "embed"
  /\ UNCHANGED <<built, embeddings, lists, call, docs>>

\* embed(), the norms or vstack raise.
AddFails ==
  /\ adder = "embed"
  /\ adder' = "idle"
  /\ batch' = NoBatch
  /\ UNCHANGED <<built, embeddings, lists, call, docs>>

\* The calls in progress have met a commit.
CallsMeetCommit ==
  call' = [r \in Readers |->
             IF call[r].at \in {"idle", "answered"} THEN call[r]
             ELSE [call[r] EXCEPT !.quiet = FALSE]]

\* The commit starts: self._embeddings = vstack(...).
AddMatrix ==
  /\ adder = "embed"
  /\ embeddings' = embeddings \o batch.texts
  /\ adder' = "ids"
  /\ CallsMeetCommit
  /\ UNCHANGED <<built, lists, batch, docs>>

AddIds ==
  /\ adder = "ids"
  /\ docIds' = docIds \o batch.ids
  /\ adder' = "texts"
  /\ UNCHANGED <<built, embeddings, texts, externalIds, metadata, batch, call, docs>>

AddTexts ==
  /\ adder = "texts"
  /\ texts' = texts \o batch.texts
  /\ adder' = "ext"
  /\ UNCHANGED <<built, embeddings, docIds, externalIds, metadata, batch, call, docs>>

AddExternalIds ==
  /\ adder = "ext"
  /\ externalIds' = externalIds \o batch.ext
  /\ adder' = "meta"
  /\ UNCHANGED <<built, embeddings, docIds, texts, metadata, batch, call, docs>>

\* MUTANT of AddMetadata: an omitted metadata_list adds nothing.
AddMetadataGiven ==
  /\ adder = "meta"
  /\ metadata' = IF batch.meta[1] = Empty THEN metadata ELSE metadata \o batch.meta
  /\ docs' = docs \o batch.docs
  /\ adder' = "idle"
  /\ batch' = NoBatch
  /\ UNCHANGED <<built, embeddings, docIds, texts, externalIds, call>>

\* The last extension: add_documents returns.
AddMetadata ==
  /\ adder = "meta"
  /\ metadata' = metadata \o batch.meta
  /\ docs' = docs \o batch.docs
  /\ adder' = "idle"
  /\ batch' = NoBatch
  /\ UNCHANGED <<built, embeddings, docIds, texts, externalIds, call>>

Adding == AddFails \/ AddMatrix \/ AddIds \/ AddTexts \/ AddExternalIds \/ AddMetadata

-----------------------------------------------------------------------------
(***************************************************************************)
(* retrieve().                                                             *)
(***************************************************************************)

\* The query is embedded; a model that raises ends the call here.
Ask(r) ==
  /\ built /\ call[r].at = "idle"
  /\ \E q \in Queries, k \in TopK :
       call' = [call EXCEPT ![r] =
                  [Idle EXCEPT !.at = "score", !.query = q, !.k = k,
                               !.from = Len(docs),
                               !.quiet = adder \in {"idle", "embed"}]]
  /\ UNCHANGED <<built, embeddings, lists, adder, batch, docs>>

\* sims = self._embeddings @ q_vec: the matrix is read once.
Score(r) ==
  /\ call[r].at = "score"
  /\ call' = [call EXCEPT ![r].at = "cut", ![r].rows = embeddings]
  /\ UNCHANGED <<built, embeddings, lists, adder, batch, docs>>

\* The end of a retrieve(): its other locals are gone.
Answer(r, raised, hits) ==
  call' = [call EXCEPT ![r].at = "answered", ![r].raised = raised, ![r].hits = hits,
                       ![r].rows = <<>>, ![r].n = 0, ![r].top = <<>>]

\* MUTANT of Cut: only 0 is nothing to do.
CutZero(r) ==
  /\ call[r].at = "cut"
  /\ LET n == Lower(call[r].k, Len(docIds))
     IN  IF n = 0 THEN Answer(r, FALSE, <<>>)
         ELSE call' = [call EXCEPT ![r].at = "select", ![r].n = n]
  /\ UNCHANGED <<built, embeddings, lists, adder, batch, docs>>

\* effective_k = min(top_k, len(self._doc_ids)).
Cut(r) ==
  /\ call[r].at = "cut"
  /\ LET n == Lower(call[r].k, Len(docIds))
     IN  IF n <= 0 THEN Answer(r, FALSE, <<>>)
         ELSE call' = [call EXCEPT ![r].at = "select", ![r].n = n]
  /\ UNCHANGED <<built, embeddings, lists, adder, batch, docs>>

\* MUTANT of Tops: argpartition alone, not sorted.
TopsUnsorted(rows, q, n) ==
  {top \in [1..n -> DOMAIN rows] :
     /\ \A a, b \in 1..n : top[a] = top[b] => a = b
     /\ \A i \in DOMAIN rows :
          (\E a \in 1..n : top[a] = i)
          \/ \A a \in 1..n : Sim(q, rows[i]) <= Sim(q, rows[top[a]])}

\* The n best rows for query q, best first; equals come in any order.
Tops(rows, q, n) ==
  {top \in [1..n -> DOMAIN rows] :
     /\ \A a, b \in 1..n : top[a] = top[b] => a = b
     /\ \A a, b \in 1..n : a < b => Sim(q, rows[top[a]]) >= Sim(q, rows[top[b]])
     /\ \A i \in DOMAIN rows :
          (\E a \in 1..n : top[a] = i)
          \/ \A a \in 1..n : Sim(q, rows[i]) <= Sim(q, rows[top[a]])}

\* The length of the list is read again: the n best by argpartition, or all
\* rows by argsort.
Select(r) ==
  /\ call[r].at = "select"
  /\ LET c == call[r]
         cut == c.n < Len(docIds)
     IN  /\ cut => c.n < Len(c.rows)
         /\ \E top \in Tops(c.rows, c.query, IF cut THEN c.n ELSE Len(c.rows)) :
              call' = [call EXCEPT ![r].at = "collect", ![r].top = top]
  /\ UNCHANGED <<built, embeddings, lists, adder, batch, docs>>

\* argpartition raises where the matrix read has no row number n, from 0.
SelectRaises(r) ==
  /\ call[r].at = "select"
  /\ call[r].n < Len(docIds) /\ call[r].n >= Len(call[r].rows)
  /\ Answer(r, TRUE, <<>>)
  /\ UNCHANGED <<built, embeddings, lists, adder, batch, docs>>

\* The fields of the hit for row i of rows.
HitAt(q, rows, i) ==
  [doc_id |-> docIds[i], score |-> Sim(q, rows[i]), text |-> texts[i],
   external_id |-> externalIds[i], metadata |-> metadata[i]]

\* The loop over the rows chosen.  The lists only grow, and what is in them
\* stays, so a loop interleaved with an add reads what it would read at the
\* end of the loop, or raises where a list is still too short.
Collect(r) ==
  /\ call[r].at = "collect"
  /\ LET c == call[r]
         present == DOMAIN docIds \cap DOMAIN texts \cap DOMAIN externalIds
                      \cap DOMAIN metadata
         hits == [a \in DOMAIN c.top |-> HitAt(c.query, c.rows, c.top[a])]
     IN  IF \A a \in DOMAIN c.top : c.top[a] \in present
         THEN Answer(r, FALSE, hits) ELSE Answer(r, TRUE, <<>>)
  /\ UNCHANGED <<built, embeddings, lists, adder, batch, docs>>

Return(r) ==
  /\ call[r].at = "answered"
  /\ call' = [call EXCEPT ![r] = Idle]
  /\ UNCHANGED <<built, embeddings, lists, adder, batch, docs>>

Retrieving(r) ==
  Score(r) \/ Cut(r) \/ Select(r) \/ SelectRaises(r) \/ Collect(r) \/ Return(r)

Next ==
  \/ Build \/ Add \/ Adding
  \/ \E r \in Readers : Ask(r) \/ Retrieving(r)

Spec == Init /\ [][Next]_vars

-----------------------------------------------------------------------------
(***************************************************************************)
(* Properties.                                                             *)
(***************************************************************************)

Steps == {"idle", "embed", "ids", "texts", "ext", "meta"}
Batch == [ids : Seq(Int), texts : Seq(Texts), ext : Seq(Externals),
          meta : Seq(Metas), docs : Seq(Document)]
HitType == [doc_id : Int, score : Int, text : Texts, external_id : Externals,
            metadata : Metas]
Call == [at : {"idle", "score", "cut", "select", "collect", "answered"},
         query : Queries \cup {"none"}, k : Int, from : Nat, quiet : BOOLEAN,
         rows : Seq(Texts), n : Nat, top : Seq(Nat), raised : BOOLEAN,
         hits : Seq(HitType)]

\* The type of every variable.
TypeOK ==
  /\ built \in BOOLEAN
  /\ embeddings \in Seq(Texts)
  /\ docIds \in Seq(Int) /\ texts \in Seq(Texts)
  /\ externalIds \in Seq(Externals) /\ metadata \in Seq(Metas)
  /\ adder \in Steps
  /\ batch \in Batch
  /\ call \in [Readers -> Call]
  /\ docs \in Seq(Document)

\* Whatever add_documents was given, refused or failed in, the matrix and the
\* four lists are parallel whenever no commit is in progress: position i of
\* each belongs to the i-th document ("All-or-nothing commit.", retrieval.py).
ParallelAtRest ==
  adder \in {"idle", "embed"} =>
    /\ embeddings = Column(docs, "text") /\ texts = Column(docs, "text")
    /\ docIds = Column(docs, "id")
    /\ externalIds = Column(docs, "ext") /\ metadata = Column(docs, "meta")

\* Also while a commit is in progress in another thread, every hit that
\* retrieve() returns is one document: its id, text, external id and metadata
\* go together, and its score is that of its text.
HitsOfOneDocument ==
  \A r \in Readers : \A a \in DOMAIN call[r].hits :
    LET h == call[r].hits[a]
    IN  /\ [id |-> h.doc_id, text |-> h.text, ext |-> h.external_id,
            meta |-> h.metadata] \in Range(docs)
        /\ h.score = Sim(call[r].query, h.text)

\* The batch that is being committed, and the calls as their callers see them.
Committing == IF adder \in {"idle", "embed"} THEN <<>> ELSE batch.docs
Seen(c) ==
  [at |-> IF c.at \in {"idle", "answered"} THEN c.at ELSE "asked", query |-> c.query,
   k |-> c.k, from |-> c.from, quiet |-> c.quiet, raised |-> c.raised, hits |-> c.hits]
CallsSeen == [r \in Readers |-> Seen(call[r])]

\* retrieve() and add_documents() together implement an index that grows by
\* whole batches: a query no commit overlaps gets the top_k best documents of
\* the index; one that a commit overlaps may raise or give more, but never
\* misses a document that was there when it began.
Index == INSTANCE DocIndex WITH adding <- Committing, asked <- CallsSeen
DocIndexSpec == Index!Spec
=============================================================================
