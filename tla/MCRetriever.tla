---------------------------- MODULE MCRetriever -----------------------------
(* A small instance of Retriever for TLC. *)
EXTENDS Retriever, SequencesExt, TLC

CONSTANTS r1, q1, q2, la, lb, lc

\* Nothing, one, fewer than all, and as many as there can be or more.
MCTopK == {-1, 1, 3}

\* A text is the sequence of its lines.
MCJoin(s) == FlattenSeq(s)
MCTexts == UNION {[1..n -> {la, lb, lc}] : n \in 0..3}

\* q1 ranks la before lb before lc and a longer text higher; to q2 all are equal.
Rank == (la :> 3) @@ (lb :> 2) @@ (lc :> 1)
RECURSIVE Weight(_)
Weight(text) == IF text = <<>> THEN 0 ELSE Rank[Head(text)] + Weight(Tail(text))
MCSim(q, text) == IF q = q1 THEN Weight(text) ELSE 0

\* An external id is a sequence of parts, as a key of a group is.
Part(n) == <<"part", n>>
Doc(n, t) == [id |-> n, text |-> <<t>>, ext |-> <<Part(n)>>, meta |-> <<<<Part(n)>>>>]

\* No document, one, and two.
MCBatches == {<<>>, <<Doc(7, lc)>>, <<Doc(8, lb), Doc(9, la)>>}

Unit(n, t, uri, section) ==
  [row |-> n, text |-> <<t>>, uri |-> uri, section |-> section,
   passage |-> uri \o <<Part(n)>>]
u == <<"u">>
s == <<"s">>

\* Two units of one section with one without a section between them; a section
\* with the name of the first unit without one; a uri and a section that give
\* the key of another uri and section.
MCCorpora == {
  <<Unit(0, la, <<u>>, <<s>>), Unit(1, lb, <<u>>, None), Unit(2, lc, <<u>>, <<s>>)>>,
  <<Unit(0, la, <<u>>, None), Unit(1, lb, <<u>>, <<<<"ungrouped", 0>>>>)>>,
  <<Unit(0, la, <<u, s>>, <<u>>), Unit(1, lb, <<u>>, <<s, u>>)>> }

MCExternals == UNION {Range(Column(d, "ext")) : d \in MCBatches} \cup {None}
  \cup UNION {Range(Column(GroupDocs(x), "ext")) : x \in MCCorpora}
  \cup UNION {{x[i].passage : i \in DOMAIN x} : x \in MCCorpora}
MCMetas == UNION {Range(Column(d, "meta")) : d \in MCBatches} \cup {Empty}
  \cup UNION {Range(Column(GroupDocs(x), "meta")) : x \in MCCorpora}
  \cup UNION {{UnitDoc(x[i]).meta : i \in DOMAIN x} : x \in MCCorpora}
=============================================================================
