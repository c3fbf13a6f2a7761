------------------------------ MODULE DocIndex -------------------------------
(***************************************************************************)
(* What a retriever promises its callers: an index of documents that grows *)
(* by whole batches, and queries answered from some version of it.  There  *)
(* is no matrix and there are no parallel lists here.  A query that no     *)
(* batch overlaps gets the top_k best documents; one that a batch overlaps *)
(* may raise instead, or give more than top_k, but never less or worse.    *)
(***************************************************************************)
EXTENDS Integers, Sequences

CONSTANTS
  Readers,   \* threads that query
  Queries,   \* the queries
  TopK,      \* the values of top_k
  Sim(_, _)  \* the similarity of a query and a text

VARIABLES
  docs,      \* the documents of the index, in order
  adding,    \* the batch that is being added
  asked      \* asked[r]: r's query, and its answer when there is one

vars == <<docs, adding, asked>>

Idle == [at |-> "idle", query |-> "none", k |-> 0, from |-> 0, quiet |-> TRUE,
         raised |-> FALSE, hits |-> <<>>]

Lower(a, b) == IF a < b THEN a ELSE b

Hit(q, d) == [doc_id |-> d.id, score |-> Sim(q, d.text), text |-> d.text,
              external_id |-> d.ext, metadata |-> d.meta]

\* top names documents among the first n of ds, one each, best first, and no
\* other of the first n is better than one it names.
Best(top, ds, n, q) ==
  LET S(i) == Sim(q, ds[i].text)
  IN  /\ \A a, b \in DOMAIN top : top[a] = top[b] => a = b
      /\ \A a, b \in DOMAIN top : a < b => S(top[a]) >= S(top[b])
      /\ \A i \in 1..n : (\E a \in DOMAIN top : top[a] = i)
                         \/ \A a \in DOMAIN top : S(i) <= S(top[a])

Init ==
  /\ docs = <<>>
  /\ adding = <<>>
  /\ asked = [r \in Readers |-> Idle]

\* A batch starts to be added: the queries in progress overlap it.
StartAdd ==
  /\ adding = <<>>
  /\ adding' # <<>>
  /\ asked' = [r \in Readers |->
                 IF asked[r].at = "asked" THEN [asked[r] EXCEPT !.quiet = FALSE]
                 ELSE asked[r]]
  /\ UNCHANGED docs

\* The batch is in the index, as a whole.
EndAdd ==
  /\ adding # <<>>
  /\ docs' = docs \o adding
  /\ adding' = <<>>
  /\ UNCHANGED asked

\* An index is built from a batch before anyone can query it.
Build ==
  /\ docs = <<>> /\ adding = <<>>
  /\ \A r \in Readers : asked[r].at = "idle"
  /\ UNCHANGED <<adding, asked>>

Ask(r) ==
  /\ asked[r].at = "idle"
  /\ \E q \in Queries, k \in TopK :
       asked' = [asked EXCEPT ![r] =
                   [Idle EXCEPT !.at = "asked", !.query = q, !.k = k,
                                !.from = Len(docs), !.quiet = (adding = <<>>)]]
  /\ UNCHANGED <<docs, adding>>

\* The answer is the best of a version of the index that was current during
\* the query.
Reply(r) ==
  /\ asked[r].at = "asked"
  /\ LET c == asked[r]
     IN  \E n \in c.from..Len(docs), size \in 0..Len(docs) :
           \E top \in [1..size -> 1..Len(docs)] :
             /\ Best(top, docs, n, c.query)
             /\ size >= Lower(c.k, c.from)
             /\ c.quiet => size <= c.k \/ size = 0
             /\ asked' = [asked EXCEPT ![r].at = "answered",
                            ![r].hits = [i \in 1..size |-> Hit(c.query, docs[top[i]])]]
  /\ UNCHANGED <<docs, adding>>

\* A query that a batch overlaps may raise.
Raise(r) ==
  /\ asked[r].at = "asked" /\ ~asked[r].quiet
  /\ asked' = [asked EXCEPT ![r].at = "answered", ![r].raised = TRUE]
  /\ UNCHANGED <<docs, adding>>

Return(r) ==
  /\ asked[r].at = "answered"
  /\ asked' = [asked EXCEPT ![r] = Idle]
  /\ UNCHANGED <<docs, adding>>

Next ==
  \/ Build \/ StartAdd \/ EndAdd
  \/ \E r \in Readers : Ask(r) \/ Reply(r) \/ Raise(r) \/ Return(r)

Spec == Init /\ [][Next]_vars
=============================================================================
