----------------------------- MODULE GreedySpans -----------------------------
(***************************************************************************)
(* The second half of OrtGlinerExtractor::extract (rust/core/ner.rs), for  *)
(* one text: decode_spans collects the cells of the logits that reach the  *)
(* threshold, the spans are sorted by position, and greedy_search filters  *)
(* overlaps by the flags flat_ner, dup_label and multi_label.              *)
(*                                                                         *)
(* The logits are arbitrary, so any cell may reach the threshold with any  *)
(* score.  Offsets are counted in words: a span from word i of width w     *)
(* covers i .. i + w, and its end, which is exclusive, is i + w + 1.  How  *)
(* many words and widths there are to read is what the session's answer    *)
(* measures; run_session compares only its rank and its labels with what   *)
(* it asked for.                                                           *)
(*                                                                         *)
(* Characters order spans and tell overlaps the same way, because words    *)
(* follow each other and are not empty.  A label is its position in the    *)
(* caller's list.                                                          *)
(***************************************************************************)
EXTENDS Naturals, Sequences, SequencesExt

CONSTANTS
  NumWords,    \* words of the text
  Starts,      \* what dims[1] of the session's answer may be,
  Widths,      \* and dims[2]
  NumLabels,   \* labels.len()
  MaxScore,    \* scores are 1 .. MaxScore, by rank
  MaxSpans     \* bound on the cells that reach the threshold

ASSUME SizesAssumption ==
  /\ NumWords \in Nat /\ NumLabels \in Nat \ {0}
  /\ Starts \subseteq Nat /\ Widths \subseteq Nat
  /\ MaxScore \in Nat \ {0} /\ MaxSpans \in Nat

VARIABLES
  phase,    \* where the extraction is
  params,   \* the three flags of ExtractParams
  dims,     \* decode_spans: the session's answer has so many starts and widths
  spans,    \* the decoded spans, then the sorted ones
  prev,     \* greedy_search: index of the span under comparison
  next,     \* greedy_search: index of the span it is compared with
  out       \* greedy_search: the spans kept

vars == <<phase, params, dims, spans, prev, next, out>>

\* A span within the text, whatever its width.
Entity == [start : 0..NumWords, end : 1..NumWords, label : 1..NumLabels,
           score : 1..MaxScore]
Flags == [flat : BOOLEAN, dup : BOOLEAN, multi : BOOLEAN]

\* Not extracting: the defaults of ExtractParams.
Default == [flat |-> TRUE, dup |-> FALSE, multi |-> FALSE]
NoAnswer == [starts |-> 0, widths |-> 0]

Init ==
  /\ phase = "idle"
  /\ params = Default /\ dims = NoAnswer
  /\ spans = <<>> /\ out = <<>>
  /\ prev = 1 /\ next = 2

-----------------------------------------------------------------------------
(***************************************************************************)
(* decode_spans.                                                           *)
(***************************************************************************)

Extract ==
  /\ phase = "idle"
  /\ params' \in Flags
  /\ dims' \in [starts : Starts, widths : Widths]
  /\ phase' = "decode"
  /\ UNCHANGED <<spans, prev, next, out>>

\* MUTANT of Cells: the test of end_word against num_words dropped.
CellsPastEnd(d) ==
  {e \in [start : 0..NumWords, end : 1..(NumWords + d.widths),
          label : 1..NumLabels, score : 1..MaxScore] :
     e.start < d.starts /\ e.start < e.end /\ e.end <= e.start + d.widths}

\* The cells of the loops over start, width and class in an answer that measures
\* d, with a score each.  A cell whose span would pass the last word is skipped.
Cells(d) ==
  {e \in Entity :
     e.start < d.starts /\ e.start < e.end /\ e.end <= e.start + d.widths}

\* MUTANT of SpanBefore: sorted by (end, start).
SpanBeforeByEnd(a, b) == a.end < b.end \/ (a.end = b.end /\ a.start < b.start)

\* The order of the sort.
SpanBefore(a, b) == a.start < b.start \/ (a.start = b.start /\ a.end < b.end)

\* The order of the loops.
VisitedBefore(a, b) ==
  \/ a.start < b.start
  \/ a.start = b.start /\ a.end < b.end
  \/ a.start = b.start /\ a.end = b.end /\ a.label < b.label

\* The loops go on to a later cell that reaches the threshold.
DecodeSpan ==
  /\ phase = "decode" /\ Len(spans) < MaxSpans
  /\ \E e \in Cells(dims) :
       /\ spans # <<>> => VisitedBefore(Last(spans), e)
       /\ spans' = Append(spans, e)
  /\ UNCHANGED <<phase, params, dims, prev, next, out>>

-----------------------------------------------------------------------------
(***************************************************************************)
(* The sort and greedy_search.                                             *)
(***************************************************************************)

\* sort_by on (start, end), which is stable.
Sorted(s) ==
  LET order == CHOOSE p \in [DOMAIN s -> DOMAIN s] :
                 \A i, j \in DOMAIN s : i < j =>
                   \/ SpanBefore(s[p[i]], s[p[j]])
                   \/ ~SpanBefore(s[p[j]], s[p[i]]) /\ p[i] < p[j]
  IN  [i \in DOMAIN s |-> s[order[i]]]

\* The loops are over; the search of no spans is over before it starts.
SortSpans ==
  /\ phase = "decode"
  /\ spans' = Sorted(spans)
  /\ phase' = IF spans = <<>> THEN "done" ELSE "search"
  /\ dims' = NoAnswer
  /\ prev' = 1 /\ next' = 2
  /\ UNCHANGED <<params, out>>

EntitiesDisjoint(a, b) == a.end <= b.start \/ b.end <= a.start

EntityAccept(a, b) ==
  \/ EntitiesDisjoint(a, b)
  \/ /\ ~params.flat /\ (params.dup \/ a.label # b.label)
     /\ params.multi

\* The loop's comparison of its two spans.
Comparing == phase = "search" /\ next <= Len(spans)

\* MUTANT of Accepted: compared with the span before, kept or not.
AcceptedByVisited == EntityAccept(spans[next - 1], spans[next])

Accepted == EntityAccept(spans[prev], spans[next])

Accept ==
  /\ Comparing /\ Accepted
  /\ out' = Append(out, spans[prev])
  /\ prev' = next
  /\ next' = next + 1
  /\ UNCHANGED <<phase, params, dims, spans>>

\* MUTANT of Displaces: the comparison the wrong way round.
DisplacesBetter(n, p) == n.score < p.score

\* A rejected span takes the place of the one it was compared with.
Displaces(n, p) == p.score < n.score

Reject ==
  /\ Comparing /\ ~Accepted
  /\ prev' = IF Displaces(spans[next], spans[prev]) THEN next ELSE prev
  /\ next' = next + 1
  /\ UNCHANGED <<phase, params, dims, spans, out>>

Finish ==
  /\ phase = "search" /\ next > Len(spans)
  /\ out' = Append(out, spans[prev])
  /\ phase' = "done"
  /\ UNCHANGED <<params, dims, spans, prev, next>>

\* The caller has the entities.
Return ==
  /\ phase = "done"
  /\ phase' = "idle"
  /\ params' = Default /\ UNCHANGED dims
  /\ spans' = <<>> /\ out' = <<>>
  /\ prev' = 1 /\ next' = 2

Next == Extract \/ DecodeSpan \/ SortSpans \/ Accept \/ Reject \/ Finish \/ Return

Spec == Init /\ [][Next]_vars

-----------------------------------------------------------------------------
(***************************************************************************)
(* Properties.                                                             *)
(***************************************************************************)

\* The type of every variable.
TypeOK ==
  /\ phase \in {"idle", "decode", "search", "done"}
  /\ params \in Flags
  /\ dims \in [starts : Starts \cup {0}, widths : Widths \cup {0}]
  /\ spans \in Seq(Entity) /\ out \in Seq(Entity)
  /\ prev \in Nat \ {0} /\ next \in Nat \ {0, 1}

\* The flags under which the code keeps no overlap.  multi_label FALSE is enough,
\* also with flat_ner FALSE and dup_label TRUE, although dup_label is there to
\* "allow overlapping spans with the same label": entity_accept lets the labels
\* of an overlap differ or not, and then asks for multi_label in both cases.
NoOverlapAllowed == params.flat \/ ~params.multi

\* "If true, no two output spans may overlap" (flat_ner), although the search
\* compares a span with one other only; without multi_label the same holds.
\* The spans come in the order of the text.
FlatDisjoint ==
  phase = "done" /\ NoOverlapAllowed =>
    \A i, j \in DOMAIN out : i < j => out[i].end <= out[j].start

\* Two kept spans that follow each other in the result may stand together
\* under the flags, also where one took the place of a span in between.
NeighboursAccepted ==
  phase = "done" =>
    \A i \in DOMAIN out : i + 1 \in DOMAIN out => EntityAccept(out[i], out[i + 1])

\* No word boundary separates a from b without a decoded span across it.
Linked(a, b) ==
  \A cut \in 1..NumWords :
    (a.end <= cut /\ cut <= b.start) \/ (b.end <= cut /\ cut <= a.start) =>
      \E n \in DOMAIN spans : spans[n].start < cut /\ cut < spans[n].end

\* Whatever is dropped, a span at least as good is kept in the same run of
\* overlapping candidates: a text's best span is never lost, nor is the only
\* candidate of a stretch of the text, whatever the flags.
BestOfRunKept ==
  phase = "done" =>
    \A i \in DOMAIN spans : \E j \in DOMAIN out :
      spans[i].score <= out[j].score /\ Linked(spans[i], out[j])

\* dup_label: "allow overlapping spans with the same label"; without it no two
\* kept spans with the same label overlap.
SameLabelApart ==
  phase = "done" /\ ~params.dup =>
    \A i, j \in DOMAIN out :
      i # j /\ out[i].label = out[j].label => EntitiesDisjoint(out[i], out[j])

=============================================================================
