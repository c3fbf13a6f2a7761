----------------------------- MODULE MCPrefetch -----------------------------
(* A small instance of Prefetch for TLC. *)
EXTENDS MCModelLoad, Prefetch

CONSTANT cli

\* Threads ask for what a class has, what it excludes, and what only another
\* class has.
MCAsked ==
  [embedding |-> {Onnx, Potion, Jina}, reranker |-> {}, nli |-> {Onnx},
   ner |-> {}, pii |-> {}]

\* The registered ids, sorted.
MCSortedIds ==
  [f \in Families |->
     IF f = "embedding" THEN <<Onnx, Potion>> ELSE <<DefaultModel[f]>>]

Line(include, ids, allow, dry, api) ==
  [include |-> include, ids |-> ids, allow |-> allow, dry |-> dry, api |-> api]

\* Everything, some families, ids out of order, an excluded id, a dry run, a family
\* that is none, and calls of prefetch_models().
MCCommands ==
  {Line({}, <<>>, FALSE, FALSE, FALSE),
   Line({"embedding", "ner"}, <<>>, FALSE, FALSE, FALSE),
   Line({"nli"}, <<DefaultModel["pii"], Onnx>>, FALSE, FALSE, FALSE),
   Line({}, <<Potion, Jina>>, TRUE, FALSE, FALSE),
   Line({}, <<>>, FALSE, TRUE, FALSE),
   Line({"other"}, <<>>, FALSE, FALSE, FALSE),
   Line({"nli", "pii"}, <<>>, TRUE, FALSE, TRUE),
   Line({"other"}, <<>>, FALSE, FALSE, TRUE)}
=============================================================================
