-------------------------- MODULE GreedySpans_proofs --------------------------
(***************************************************************************)
(* Theorems about the NER decoder, for every number of words, labels,      *)
(* scores and candidates.                                                  *)
(*                                                                         *)
(* The invariants are stated on Kept, the spans kept so far with the one   *)
(* under comparison among them: Accept appends to it, Reject at most       *)
(* replaces its last span, Finish leaves it as it is.                      *)
(*                                                                         *)
(* Then about NerPrompt, for every batch, labels and subword counts: it    *)
(* runs that decoder, and what its arrays tell the session is what the     *)
(* decoder takes it for.                                                   *)
(***************************************************************************)
EXTENDS NerPrompt, SequenceLemmas, TLAPS

Kept == IF phase = "search" THEN Append(out, spans[prev]) ELSE out

\* The spans the search has looked at.
Seen == IF phase = "search" THEN 1..(next - 1) ELSE DOMAIN spans

InLoopOrder(s) == \A i, j \in DOMAIN s : i < j => VisitedBefore(s[i], s[j])

\* The control state and the order of the spans: TypeOK made inductive.
OrderInv ==
  /\ TypeOK
  /\ \A i \in DOMAIN spans : spans[i].start < spans[i].end
  /\ phase \in {"idle", "decode"} => out = <<>> /\ InLoopOrder(spans)
  /\ phase = "idle" => spans = <<>>
  /\ phase = "search" => prev < next /\ next <= Len(spans) + 1
  /\ phase = "search" =>
       \A i, j \in DOMAIN spans : i < j => spans[i].start <= spans[j].start
  /\ phase = "search" => \A i \in DOMAIN out : out[i].start <= spans[prev].start

\* FlatDisjoint, during the search too.
FlatInv ==
  NoOverlapAllowed =>
    \A i, j \in DOMAIN Kept : i < j => Kept[i].end <= Kept[j].start

\* NeighboursAccepted, during the search too.
NeighbourInv ==
  \A i \in DOMAIN Kept : i + 1 \in DOMAIN Kept => EntityAccept(Kept[i], Kept[i + 1])

\* BestOfRunKept, for the spans seen so far.
BestInv ==
  phase \in {"search", "done"} =>
    \A i \in Seen : \E j \in DOMAIN Kept :
      spans[i].score <= Kept[j].score /\ Linked(spans[i], Kept[j])

-----------------------------------------------------------------------------

\* The fields of a span are numbers.
LEMMA Fields ==
  ASSUME NEW e \in Entity
  PROVE  e.start \in Nat /\ e.end \in Nat /\ e.label \in Nat /\ e.score \in Nat
BY SizesAssumption DEF Entity

\* Sorting what the loops collected: the result holds the same spans in an
\* order of non-decreasing start (the order the loops left them in will do).
LEMMA SortedOrder ==
  ASSUME NEW s \in Seq(Entity), InLoopOrder(s),
         \A i \in DOMAIN s : s[i].start < s[i].end
  PROVE  /\ Sorted(s) \in Seq(Entity)
         /\ Len(Sorted(s)) = Len(s)
         /\ \A i \in DOMAIN Sorted(s) : Sorted(s)[i].start < Sorted(s)[i].end
         /\ \A i, j \in DOMAIN Sorted(s) :
              i < j => Sorted(s)[i].start <= Sorted(s)[j].start
<1> DEFINE Sorting(p) ==
             \A i, j \in DOMAIN s : i < j =>
               \/ SpanBefore(s[p[i]], s[p[j]])
               \/ ~SpanBefore(s[p[j]], s[p[i]]) /\ p[i] < p[j]
<1> DEFINE identity == [i \in DOMAIN s |-> i]
<1> DEFINE order == CHOOSE p \in [DOMAIN s -> DOMAIN s] : Sorting(p)
<1>1. \A i \in DOMAIN s : s[i] \in Entity /\ s[i].start \in Nat /\ s[i].end \in Nat
                          /\ s[i].label \in Nat
  <2> SUFFICES ASSUME NEW i \in DOMAIN s
               PROVE  s[i] \in Entity /\ s[i].start \in Nat /\ s[i].end \in Nat
                      /\ s[i].label \in Nat
    OBVIOUS
  <2>1. s[i] \in Entity
    OBVIOUS
  <2> QED BY <2>1, Fields
<1>2. identity \in [DOMAIN s -> DOMAIN s] /\ Sorting(identity)
  BY <1>1 DEF InLoopOrder, VisitedBefore, SpanBefore
<1>3. order \in [DOMAIN s -> DOMAIN s] /\ Sorting(order)
  <2> HIDE DEF Sorting, identity
  <2> QED BY <1>2
<1>4. Sorted(s) = [i \in DOMAIN s |-> s[order[i]]]
  BY DEF Sorted
<1> HIDE DEF order
<1>5. Sorted(s) \in Seq(Entity) /\ Len(Sorted(s)) = Len(s)
  BY <1>1, <1>3, <1>4
<1>6. \A i, j \in DOMAIN s : i < j => s[order[i]].start <= s[order[j]].start
  <2> SUFFICES ASSUME NEW i \in DOMAIN s, NEW j \in DOMAIN s, i < j
               PROVE  s[order[i]].start <= s[order[j]].start
    OBVIOUS
  <2>1. order[i] \in DOMAIN s /\ order[j] \in DOMAIN s
    BY <1>3
  <2>2. SpanBefore(s[order[i]], s[order[j]]) \/ ~SpanBefore(s[order[j]], s[order[i]])
    BY <1>3
  <2>3. s[order[i]].start \in Nat /\ s[order[j]].start \in Nat
    BY <1>1, <2>1
  <2> QED BY <2>2, <2>3 DEF SpanBefore
<1> QED BY <1>3, <1>4, <1>5, <1>6

LEMMA OrderInvInit == Init => OrderInv
BY SizesAssumption
DEF Init, OrderInv, TypeOK, InLoopOrder, Default, Flags, NoAnswer

LEMMA OrderInvNext == OrderInv /\ [Next]_vars => OrderInv'
<1> SUFFICES ASSUME OrderInv, [Next]_vars PROVE OrderInv'
  OBVIOUS
<1>1. TypeOK
  BY DEF OrderInv
<1>2. CASE Extract
  BY <1>1, <1>2 DEF OrderInv, TypeOK, Extract, InLoopOrder, VisitedBefore
<1>3. CASE DecodeSpan
  <2>1. PICK e \in Cells(dims) :
          /\ spans # <<>> => VisitedBefore(Last(spans), e)
          /\ spans' = Append(spans, e)
    BY <1>3 DEF DecodeSpan
  <2>2. e \in Entity /\ e.start < e.end
    BY DEF Cells
  <2>3. spans' \in Seq(Entity)
    BY <1>1, <2>1, <2>2 DEF TypeOK
  <2>4. \A i \in DOMAIN spans' : IF i = Len(spans) + 1 THEN spans'[i] = e
                                 ELSE i \in DOMAIN spans /\ spans'[i] = spans[i]
    BY <1>1, <2>1, <2>2 DEF TypeOK
  <2>5. \A a, b, c \in Entity :
          VisitedBefore(a, b) /\ VisitedBefore(b, c) => VisitedBefore(a, c)
    BY SizesAssumption DEF Entity, VisitedBefore
  <2>6. \A i \in DOMAIN spans : VisitedBefore(spans[i], e)
    <3> SUFFICES ASSUME NEW i \in DOMAIN spans PROVE VisitedBefore(spans[i], e)
      OBVIOUS
    <3>1. spans[i] \in Entity /\ spans[Len(spans)] \in Entity /\ Len(spans) \in DOMAIN spans
      BY <1>1 DEF TypeOK
    <3>2. VisitedBefore(spans[Len(spans)], e)
      BY <2>1 DEF Last
    <3>3. i = Len(spans) \/ VisitedBefore(spans[i], spans[Len(spans)])
      BY <1>1, <1>3, <3>1 DEF OrderInv, DecodeSpan, InLoopOrder, TypeOK
    <3> QED BY <2>2, <2>5, <3>1, <3>2, <3>3
  <2>7. InLoopOrder(spans)'
    <3> SUFFICES ASSUME NEW i \in DOMAIN spans', NEW j \in DOMAIN spans', i < j
                 PROVE  VisitedBefore(spans'[i], spans'[j])
      BY DEF InLoopOrder, VisitedBefore
    <3>1. i \in DOMAIN spans /\ spans'[i] = spans[i]
      BY <1>1, <2>1, <2>2, <2>4 DEF TypeOK
    <3> QED BY <1>3, <2>4, <2>6, <3>1 DEF OrderInv, DecodeSpan, InLoopOrder
  <2>8. phase = "decode" /\ UNCHANGED <<phase, params, dims, prev, next, out>>
    BY <1>3 DEF DecodeSpan
  <2> QED BY <1>1, <2>2, <2>3, <2>4, <2>7, <2>8 DEF OrderInv, TypeOK
<1>4. CASE SortSpans
  <2>1. phase = "decode" /\ out = <<>> /\ InLoopOrder(spans) /\ spans \in Seq(Entity)
    BY <1>4 DEF SortSpans, OrderInv, TypeOK
  <2>2. /\ spans' \in Seq(Entity) /\ Len(spans') = Len(spans)
        /\ \A i \in DOMAIN spans' : spans'[i].start < spans'[i].end
        /\ \A i, j \in DOMAIN spans' : i < j => spans'[i].start <= spans'[j].start
    BY <1>4, <2>1, SortedOrder DEF SortSpans, OrderInv
  <2>3. /\ prev' = 1 /\ next' = 2 /\ out' = <<>> /\ params' = params
        /\ phase' = IF Len(spans) = 0 THEN "done" ELSE "search"
        /\ dims' \in [starts : Starts \cup {0}, widths : Widths \cup {0}]
    BY <1>4, <2>1 DEF SortSpans, NoAnswer
  <2> QED BY <1>1, <2>1, <2>2, <2>3 DEF OrderInv, TypeOK
<1>5. CASE Accept
  <2>1. /\ phase = "search" /\ phase' = "search" /\ next <= Len(spans)
        /\ out' = Append(out, spans[prev]) /\ prev' = next /\ next' = next + 1
        /\ UNCHANGED <<params, dims, spans>>
    BY <1>5 DEF Accept, Comparing
  <2>2. prev \in DOMAIN spans /\ next \in DOMAIN spans /\ prev < next
    BY <1>1, <2>1 DEF OrderInv, TypeOK
  <2>3. spans[prev] \in Entity /\ spans[next] \in Entity
        /\ spans[prev].start <= spans[next].start
    BY <1>1, <2>1, <2>2 DEF OrderInv, TypeOK
  <2>4. out' \in Seq(Entity)
    BY <1>1, <2>1, <2>3 DEF TypeOK
  <2>5. \A i \in DOMAIN out' : out'[i].start <= spans[next].start
    <3> SUFFICES ASSUME NEW i \in DOMAIN out' PROVE out'[i].start <= spans[next].start
      OBVIOUS
    <3>1. CASE i = Len(out) + 1
      BY <1>1, <2>1, <2>3, <3>1 DEF TypeOK
    <3>2. CASE i # Len(out) + 1
      <4>1. i \in DOMAIN out /\ out'[i] = out[i] /\ out[i] \in Entity
        BY <1>1, <2>1, <2>3, <3>2 DEF TypeOK
      <4>2. out[i].start <= spans[prev].start
        BY <2>1, <4>1 DEF OrderInv
      <4> QED BY <2>3, <4>1, <4>2, SizesAssumption DEF Entity
    <3> QED BY <3>1, <3>2
  <2> QED BY <1>1, <2>1, <2>2, <2>4, <2>5 DEF OrderInv, TypeOK
<1>6. CASE Reject
  <2>1. /\ phase = "search" /\ next <= Len(spans) /\ next' = next + 1
        /\ prev' \in {prev, next}
        /\ UNCHANGED <<phase, params, dims, spans, out>>
    BY <1>6 DEF Reject, Comparing
  <2>2. prev \in DOMAIN spans /\ next \in DOMAIN spans /\ prev < next
    BY <1>1, <2>1 DEF OrderInv, TypeOK
  <2>3. spans[prev].start \in Nat /\ spans[next].start \in Nat
        /\ spans[prev].start <= spans[next].start
    <3>1. spans[prev] \in Entity /\ spans[next] \in Entity
      BY <1>1, <2>2 DEF TypeOK
    <3> QED BY <2>1, <2>2, <3>1, Fields DEF OrderInv
  <2>4. \A i \in DOMAIN out : out[i].start \in Nat /\ out[i].start <= spans[prev].start
    <3> SUFFICES ASSUME NEW i \in DOMAIN out
                 PROVE  out[i].start \in Nat /\ out[i].start <= spans[prev].start
      OBVIOUS
    <3>1. out[i] \in Entity
      BY <1>1 DEF TypeOK
    <3> QED BY <2>1, <3>1, Fields DEF OrderInv
  <2>5. \A i \in DOMAIN out' : out'[i].start <= spans'[prev'].start
    BY <2>1, <2>3, <2>4
  <2> QED BY <1>1, <2>1, <2>2, <2>5 DEF OrderInv, TypeOK
<1>7. CASE Finish
  <2>1. prev \in DOMAIN spans
    BY <1>1, <1>7 DEF Finish, OrderInv, TypeOK
  <2>2. spans[prev] \in Entity
    BY <1>1, <2>1 DEF TypeOK
  <2> QED BY <1>1, <1>7, <2>2 DEF Finish, OrderInv, TypeOK
<1>8. CASE Return
  BY <1>1, <1>8 DEF Return, OrderInv, TypeOK, InLoopOrder, Default, Flags
<1>9. CASE UNCHANGED vars
  BY <1>9 DEF vars, OrderInv, TypeOK, InLoopOrder, VisitedBefore
<1> QED BY <1>2, <1>3, <1>4, <1>5, <1>6, <1>7, <1>8, <1>9 DEF Next

LEMMA OrderInvAlways == Spec => []OrderInv
BY OrderInvInit, OrderInvNext, PTL DEF Spec

\* Every variable keeps its type: no span decoded or kept passes the end of
\* the text.
THEOREM TypeCorrect == Spec => []TypeOK
<1>1. OrderInv => TypeOK
  BY DEF OrderInv
<1> QED BY <1>1, OrderInvAlways, PTL

-----------------------------------------------------------------------------
(***************************************************************************)
(* How a step changes Kept.                                                *)
(***************************************************************************)

\* Kept is a sequence of spans, in the order of their starts.
LEMMA KeptType ==
  ASSUME OrderInv
  PROVE  /\ Kept \in Seq(Entity)
         /\ phase = "search" =>
              /\ prev \in DOMAIN spans /\ spans[prev] \in Entity
              /\ Kept = Append(out, spans[prev]) /\ Len(Kept) = Len(out) + 1
              /\ Kept[Len(Kept)] = spans[prev]
              /\ \A i \in DOMAIN Kept : i # Len(Kept) =>
                   /\ i \in DOMAIN out /\ Kept[i] = out[i]
                   /\ Kept[i].start <= spans[prev].start
<1>1. TypeOK
  BY DEF OrderInv
<1>2. CASE phase # "search"
  BY <1>1, <1>2 DEF Kept, TypeOK
<1>3. CASE phase = "search"
  <2>1. prev \in DOMAIN spans /\ spans[prev] \in Entity
    BY <1>1, <1>3 DEF OrderInv, TypeOK
  <2>2. Kept = Append(out, spans[prev]) /\ out \in Seq(Entity)
    BY <1>1, <1>3 DEF Kept, TypeOK
  <2>3. /\ Kept \in Seq(Entity) /\ Len(Kept) = Len(out) + 1
        /\ Kept[Len(Kept)] = spans[prev]
        /\ \A i \in DOMAIN Kept : i # Len(Kept) => i \in DOMAIN out /\ Kept[i] = out[i]
    BY <2>1, <2>2
  <2> QED BY <1>3, <2>1, <2>2, <2>3 DEF OrderInv
<1> QED BY <1>2, <1>3

\* A step of the search leaves Kept alone, or appends the next span to it, or
\* puts it in the place of the last.
LEMMA KeptStep ==
  ASSUME OrderInv, Accept \/ Reject \/ Finish
  PROVE  /\ phase = "search" /\ UNCHANGED <<params, spans>>
         /\ Accept => /\ next \in DOMAIN spans /\ spans[next] \in Entity
                      /\ spans[prev].start <= spans[next].start
                      /\ EntityAccept(spans[prev], spans[next])
                      /\ Kept' = Append(Kept, spans[next])
         /\ Reject => /\ next \in DOMAIN spans /\ spans[next] \in Entity
                      /\ spans[prev].start <= spans[next].start
                      /\ ~EntityAccept(spans[prev], spans[next])
                      /\ \/ Kept' = Kept /\ spans[next].score <= spans[prev].score
                         \/ /\ Kept' = Append(out, spans[next])
                            /\ spans[prev].score <= spans[next].score
         /\ Finish => Kept' = Kept
<1>1. TypeOK /\ phase = "search" /\ UNCHANGED <<params, spans>>
  BY DEF OrderInv, Accept, Reject, Finish, Comparing
<1>2. prev \in DOMAIN spans /\ spans[prev] \in Entity
  BY <1>1, KeptType
<1>3. ASSUME Accept \/ Reject
      PROVE  /\ next \in DOMAIN spans /\ spans[next] \in Entity
             /\ spans[prev].start <= spans[next].start
  <2>1. next \in DOMAIN spans /\ prev < next
    BY <1>1, <1>3 DEF OrderInv, TypeOK, Accept, Reject, Comparing
  <2> QED BY <1>1, <1>2, <2>1 DEF OrderInv, TypeOK
<1>4. ASSUME Accept
      PROVE  Kept' = Append(Kept, spans[next]) /\ EntityAccept(spans[prev], spans[next])
  BY <1>1, <1>4 DEF Accept, Accepted, Comparing, Kept
<1>5. ASSUME Reject
      PROVE  /\ ~EntityAccept(spans[prev], spans[next])
             /\ \/ Kept' = Kept /\ spans[next].score <= spans[prev].score
                \/ /\ Kept' = Append(out, spans[next])
                   /\ spans[prev].score <= spans[next].score
  <2>1. spans[prev].score \in Nat /\ spans[next].score \in Nat
    BY <1>2, <1>3, <1>5, Fields
  <2> QED BY <1>1, <1>5, <2>1 DEF Reject, Accepted, Displaces, Kept
<1>6. ASSUME Finish PROVE Kept' = Kept
  BY <1>1, <1>6 DEF Finish, Kept
<1> QED BY <1>1, <1>3, <1>4, <1>5, <1>6

\* Outside the search at most one span is kept before the search begins.
LEMMA KeptBefore ==
  ASSUME OrderInv, OrderInv', Extract \/ DecodeSpan \/ SortSpans \/ Return
  PROVE  Len(Kept') <= 1
<1>1. CASE Extract \/ DecodeSpan \/ Return
  BY <1>1 DEF OrderInv, Extract, DecodeSpan, Return, Kept
<1>2. CASE SortSpans
  <2>1. out' = <<>>
    BY <1>2 DEF SortSpans, OrderInv
  <2> QED BY <2>1 DEF Kept
<1> QED BY <1>1, <1>2

-----------------------------------------------------------------------------
(***************************************************************************)
(* Kept spans do not overlap where the flags allow no overlap.             *)
(***************************************************************************)

LEMMA FlatInvNext == OrderInv /\ OrderInv' /\ FlatInv /\ [Next]_vars => FlatInv'
<1> SUFFICES ASSUME OrderInv, OrderInv', FlatInv, [Next]_vars, NoOverlapAllowed',
                    NEW i \in DOMAIN Kept', NEW j \in DOMAIN Kept', i < j
             PROVE  Kept'[i].end <= Kept'[j].start
  BY DEF FlatInv
<1>1. CASE Extract \/ DecodeSpan \/ SortSpans \/ Return
  <2>1. Len(Kept') <= 1 /\ Kept' \in Seq(Entity)
    BY <1>1, KeptBefore, KeptType
  <2> QED BY <2>1
<1>2. CASE Accept
  <2>1. NoOverlapAllowed
    BY <1>2, KeptStep DEF NoOverlapAllowed
  <2>2. /\ Kept \in Seq(Entity) /\ Kept' = Append(Kept, spans[next])
        /\ spans[next] \in Entity /\ spans[prev] \in Entity
        /\ Kept[Len(Kept)] = spans[prev] /\ Len(Kept) \in DOMAIN Kept
    BY <1>2, KeptStep, KeptType
  <2>3. spans[prev].end <= spans[next].start
    <3>1. EntitiesDisjoint(spans[prev], spans[next])
      BY <1>2, <2>1, KeptStep DEF EntityAccept, NoOverlapAllowed
    <3>2. spans[next].start < spans[next].end /\ spans[prev].start <= spans[next].start
      BY <1>2, KeptStep DEF OrderInv
    <3> QED BY <2>2, <3>1, <3>2, Fields DEF EntitiesDisjoint
  <2>4. CASE j \in DOMAIN Kept
    BY <2>1, <2>2, <2>4 DEF FlatInv
  <2>5. CASE j = Len(Kept) + 1
    <3>1. i \in DOMAIN Kept /\ Kept'[i] = Kept[i] /\ Kept'[j] = spans[next]
          /\ Kept[i] \in Entity
      BY <2>2, <2>5
    <3>2. CASE i = Len(Kept)
      BY <2>2, <2>3, <3>1, <3>2
    <3>3. CASE i # Len(Kept)
      <4>1. Kept[i].end <= spans[prev].start /\ spans[prev].start <= spans[next].start
        BY <1>2, <2>1, <2>2, <3>1, <3>3, KeptStep DEF FlatInv
      <4> QED BY <2>2, <3>1, <4>1, Fields
    <3> QED BY <3>2, <3>3
  <2> QED BY <2>2, <2>4, <2>5
<1>3. CASE Reject
  <2>1. NoOverlapAllowed
    BY <1>3, KeptStep DEF NoOverlapAllowed
  <2>2. CASE Kept' = Kept
    BY <2>1, <2>2 DEF FlatInv
  <2>3. CASE Kept' = Append(out, spans[next])
    <3>1. /\ Kept \in Seq(Entity) /\ Len(Kept) = Len(out) + 1 /\ out \in Seq(Entity)
          /\ Kept[Len(Kept)] = spans[prev] /\ spans[prev] \in Entity
          /\ spans[next] \in Entity /\ spans[prev].start <= spans[next].start
          /\ \A n \in DOMAIN out : Kept[n] = out[n]
      <4>1. phase = "search" /\ spans[next] \in Entity /\ spans[prev].start <= spans[next].start
        BY <1>3, KeptStep
      <4>2. out \in Seq(Entity)
        BY DEF OrderInv, TypeOK
      <4>3. /\ Kept \in Seq(Entity) /\ Len(Kept) = Len(out) + 1
            /\ Kept[Len(Kept)] = spans[prev] /\ spans[prev] \in Entity
            /\ \A n \in DOMAIN out : Kept[n] = out[n]
        BY <4>1, KeptType
      <4> QED BY <4>1, <4>2, <4>3
    <3>2. i \in DOMAIN out /\ i \in DOMAIN Kept /\ Kept'[i] = Kept[i] /\ Kept[i] \in Entity
      BY <2>3, <3>1
    <3>3. CASE j \in DOMAIN out
      BY <2>1, <2>3, <3>1, <3>2, <3>3 DEF FlatInv
    <3>4. CASE j = Len(Kept)
      <4>1. Kept[i].end <= spans[prev].start /\ Kept'[j] = spans[next]
        BY <2>1, <2>3, <3>1, <3>2, <3>4 DEF FlatInv
      <4> QED BY <3>1, <3>2, <4>1, Fields
    <3> QED BY <2>3, <3>1, <3>3, <3>4
  <2> QED BY <1>3, <2>2, <2>3, KeptStep
<1>4. CASE Finish
  <2>1. Kept' = Kept /\ NoOverlapAllowed
    BY <1>4, KeptStep DEF NoOverlapAllowed
  <2> QED BY <2>1 DEF FlatInv
<1>5. CASE UNCHANGED vars
  <2>1. Kept' = Kept /\ NoOverlapAllowed
    BY <1>5 DEF vars, Kept, NoOverlapAllowed
  <2> QED BY <2>1 DEF FlatInv
<1> QED BY <1>1, <1>2, <1>3, <1>4, <1>5 DEF Next

\* With flat_ner, or without multi_label, no two returned spans overlap, and
\* they come in the order of the text, although each was compared with one
\* other only.
THEOREM FlatDisjointAlways == Spec => []FlatDisjoint
<1>1. Init => FlatInv
  BY DEF Init, FlatInv, Kept
<1>2. FlatInv => FlatDisjoint
  BY DEF FlatInv, FlatDisjoint, Kept
<1> QED BY <1>1, <1>2, FlatInvNext, OrderInvAlways, PTL DEF Spec

-----------------------------------------------------------------------------
(***************************************************************************)
(* Neighbours in the result may stand together.                            *)
(***************************************************************************)

\* What makes the replacement of a neighbour harmless: if b may follow a and c
\* may not follow b, then c may follow a.
LEMMA AcceptPassesOn ==
  ASSUME OrderInv, NEW a \in Entity, NEW b \in Entity, NEW c \in Entity,
         a.start <= b.start, b.start <= c.start,
         EntityAccept(a, b), ~EntityAccept(b, c)
  PROVE  EntityAccept(a, c)
<1>1. /\ a.start \in Nat /\ a.end \in Nat /\ b.start \in Nat /\ b.end \in Nat
      /\ c.start \in Nat /\ c.end \in Nat
  BY Fields
<1>2. CASE a.end <= b.start
  BY <1>1, <1>2 DEF EntityAccept, EntitiesDisjoint
<1>3. CASE b.end <= a.start
  BY <1>1, <1>3 DEF EntityAccept, EntitiesDisjoint
<1>4. CASE ~EntitiesDisjoint(a, b)
  BY <1>4 DEF EntityAccept
<1> QED BY <1>2, <1>3, <1>4 DEF EntitiesDisjoint

LEMMA NeighbourInvNext ==
  OrderInv /\ OrderInv' /\ NeighbourInv /\ [Next]_vars => NeighbourInv'
<1> SUFFICES ASSUME OrderInv, OrderInv', NeighbourInv, [Next]_vars,
                    NEW i \in DOMAIN Kept', i + 1 \in DOMAIN Kept'
             PROVE  EntityAccept(Kept[i], Kept[i + 1])'
  BY DEF NeighbourInv, EntityAccept, EntitiesDisjoint
<1>1. CASE Extract \/ DecodeSpan \/ SortSpans \/ Return
  <2>1. Len(Kept') <= 1 /\ Kept' \in Seq(Entity)
    BY <1>1, KeptBefore, KeptType
  <2> QED BY <2>1
<1>2. ASSUME UNCHANGED params, EntityAccept(Kept'[i], Kept'[i + 1])
      PROVE  EntityAccept(Kept[i], Kept[i + 1])'
  BY <1>2 DEF EntityAccept, EntitiesDisjoint
<1>3. CASE Accept
  <2>1. /\ Kept \in Seq(Entity) /\ Kept' = Append(Kept, spans[next])
        /\ spans[next] \in Entity /\ Kept[Len(Kept)] = spans[prev]
        /\ EntityAccept(spans[prev], spans[next]) /\ UNCHANGED params
    BY <1>3, KeptStep, KeptType
  <2>2. CASE i + 1 = Len(Kept) + 1
    <3>1. Kept'[i] = spans[prev] /\ Kept'[i + 1] = spans[next]
      BY <2>1, <2>2
    <3> QED BY <1>2, <2>1, <3>1
  <2>3. CASE i + 1 # Len(Kept) + 1
    <3>1. i \in DOMAIN Kept /\ i + 1 \in DOMAIN Kept
          /\ Kept'[i] = Kept[i] /\ Kept'[i + 1] = Kept[i + 1]
      BY <2>1, <2>3
    <3> QED BY <1>2, <2>1, <3>1 DEF NeighbourInv
  <2> QED BY <2>2, <2>3
<1>4. CASE Reject
  <2>1. UNCHANGED params
    BY <1>4, KeptStep
  <2>2. CASE Kept' = Kept
    BY <1>2, <2>1, <2>2 DEF NeighbourInv
  <2>3. CASE Kept' = Append(out, spans[next])
    <3>1. /\ Kept \in Seq(Entity) /\ Len(Kept) = Len(out) + 1 /\ out \in Seq(Entity)
          /\ Kept[Len(Kept)] = spans[prev] /\ spans[prev] \in Entity
          /\ spans[next] \in Entity /\ spans[prev].start <= spans[next].start
          /\ ~EntityAccept(spans[prev], spans[next])
      BY <1>4, KeptStep, KeptType DEF OrderInv, TypeOK
    <3>6. \A n \in DOMAIN out : n \in DOMAIN Kept /\ n # Len(Kept)
      BY <3>1
    <3>7. \A n \in DOMAIN out : Kept[n] = out[n] /\ Kept[n].start <= spans[prev].start
      BY <1>4, <3>6, KeptStep, KeptType
    <3>2. i \in DOMAIN out /\ i \in DOMAIN Kept /\ i + 1 \in DOMAIN Kept
          /\ Kept'[i] = Kept[i] /\ Kept[i] \in Entity
      BY <2>3, <3>1, <3>7
    <3>3. EntityAccept(Kept[i], Kept[i + 1])
      BY <3>2 DEF NeighbourInv
    <3>4. CASE i + 1 \in DOMAIN out
      <4>1. Kept'[i + 1] = Kept[i + 1]
        BY <2>3, <3>1, <3>4, <3>7
      <4> QED BY <1>2, <2>1, <3>2, <3>3, <4>1
    <3>5. CASE i + 1 = Len(Kept)
      <4>1. Kept'[i + 1] = spans[next] /\ EntityAccept(Kept[i], spans[prev])
        BY <2>3, <3>1, <3>3, <3>5
      <4>2. EntityAccept(Kept[i], spans[next])
        BY <3>1, <3>2, <3>7, <4>1, AcceptPassesOn
      <4> QED BY <1>2, <2>1, <3>2, <4>1, <4>2
    <3> QED BY <3>1, <3>2, <3>4, <3>5
  <2> QED BY <1>4, <2>2, <2>3, KeptStep
<1>5. CASE Finish \/ UNCHANGED vars
  <2>1. Kept' = Kept /\ UNCHANGED params
    BY <1>5, KeptStep DEF vars, Kept
  <2> QED BY <1>2, <2>1 DEF NeighbourInv
<1> QED BY <1>1, <1>3, <1>4, <1>5 DEF Next

\* Two spans that follow each other in the result may stand together under
\* the flags, compared or not.
THEOREM NeighboursAcceptedAlways == Spec => []NeighboursAccepted
<1>1. Init => NeighbourInv
  BY DEF Init, NeighbourInv, Kept
<1>2. NeighbourInv => NeighboursAccepted
  BY DEF NeighbourInv, NeighboursAccepted, Kept
<1> QED BY <1>1, <1>2, NeighbourInvNext, OrderInvAlways, PTL DEF Spec

-----------------------------------------------------------------------------
(***************************************************************************)
(* The best span of a run is kept.                                         *)
(***************************************************************************)

\* a is as good as outranked by b, in the same run.
Outranked(a, b) == a.score <= b.score /\ Linked(a, b)

LEMMA LinkedSelf == ASSUME OrderInv, NEW i \in DOMAIN spans
                    PROVE  Outranked(spans[i], spans[i])
<1>1. spans[i] \in Entity /\ spans[i].start < spans[i].end
  BY DEF OrderInv, TypeOK
<1>2. spans[i].start \in Nat /\ spans[i].end \in Nat /\ spans[i].score \in Nat
  BY <1>1, Fields
<1>3. \A cut \in 1..NumWords : ~(spans[i].end <= cut /\ cut <= spans[i].start)
  BY <1>1, <1>2, SizesAssumption
<1> QED BY <1>2, <1>3 DEF Outranked, Linked

\* A run reaches from a over b to every c that overlaps b.
LEMMA LinkedOver ==
  ASSUME OrderInv, NEW a \in Entity, NEW n \in DOMAIN spans, NEW c \in Entity,
         Outranked(a, spans[n]), spans[n].score <= c.score,
         ~EntitiesDisjoint(spans[n], c)
  PROVE  Outranked(a, c)
<1> DEFINE b == spans[n]
<1>1. b \in Entity /\ b.start < b.end
  BY DEF OrderInv, TypeOK
<1>2. /\ a.start \in Nat /\ a.end \in Nat /\ b.start \in Nat /\ b.end \in Nat
      /\ c.start \in Nat /\ c.end \in Nat
      /\ a.score \in Nat /\ b.score \in Nat /\ c.score \in Nat
  BY <1>1, Fields
<1>3. ASSUME NEW cut \in 1..NumWords,
             (a.end <= cut /\ cut <= c.start) \/ (c.end <= cut /\ cut <= a.start)
      PROVE  \E m \in DOMAIN spans : spans[m].start < cut /\ cut < spans[m].end
  <2>1. cut \in Nat
    BY SizesAssumption
  <2>2. CASE (a.end <= cut /\ cut <= b.start) \/ (b.end <= cut /\ cut <= a.start)
    BY <2>2 DEF Outranked, Linked
  <2>3. CASE ~((a.end <= cut /\ cut <= b.start) \/ (b.end <= cut /\ cut <= a.start))
    <3>1. b.start < cut /\ cut < b.end
      BY <1>2, <1>3, <2>1, <2>3 DEF EntitiesDisjoint
    <3> QED BY <3>1
  <2> QED BY <2>2, <2>3
<1>4. a.score <= c.score
  BY <1>2 DEF Outranked
<1> QED BY <1>3, <1>4 DEF Outranked, Linked

LEMMA BestInvNext == OrderInv /\ OrderInv' /\ BestInv /\ [Next]_vars => BestInv'
<1> SUFFICES ASSUME OrderInv, OrderInv', BestInv, [Next]_vars,
                    phase' \in {"search", "done"}, NEW i \in Seen'
             PROVE  \E j \in DOMAIN Kept' : Outranked(spans[i], Kept[j])'
  BY DEF BestInv, Outranked
<1>1. CASE Extract \/ DecodeSpan \/ Return
  BY <1>1 DEF OrderInv, TypeOK, Extract, DecodeSpan, Return
<1>2. CASE SortSpans
  <2>1. out' = <<>> /\ next' = 2 /\ prev' = 1
    BY <1>2 DEF SortSpans, OrderInv
  <2>2. CASE phase' = "search"
    <3>1. 1 \in DOMAIN spans' /\ spans'[1] \in Entity /\ spans'[1].start < spans'[1].end
      BY <2>1, <2>2 DEF OrderInv, TypeOK
    <3>2. i = 1 /\ Kept' = <<spans'[1]>>
      <4>1. i \in 1..(2 - 1)
        BY <2>1, <2>2 DEF Seen
      <4>2. Kept' = Append(<<>>, spans'[1])
        BY <2>1, <2>2 DEF Kept
      <4> QED BY <4>1, <4>2
    <3>4. Outranked(spans[1], spans[1])'
      <4>1. /\ spans'[1].start \in Nat /\ spans'[1].end \in Nat
            /\ spans'[1].score \in Nat
        BY <3>1, Fields
      <4>2. \A cut \in 1..NumWords : ~(spans'[1].end <= cut /\ cut <= spans'[1].start)
        BY <3>1, <4>1, SizesAssumption
      <4> QED BY <4>1, <4>2 DEF Outranked, Linked
    <3>3. 1 \in DOMAIN Kept' /\ Kept'[1] = spans'[1]
      BY <3>2
    <3> QED BY <3>2, <3>3, <3>4 DEF Outranked, Linked
  <2>3. CASE phase' = "done"
    <3>1. spans = <<>> /\ spans' = Sorted(spans)
      BY <1>2, <2>3 DEF SortSpans
    <3>2. DOMAIN spans' = {}
      BY <3>1 DEF Sorted
    <3> QED BY <2>3, <3>2 DEF Seen
  <2> QED BY <2>2, <2>3
<1>3. ASSUME Accept \/ Reject \/ Finish, i < next
      PROVE  \E j \in DOMAIN Kept : Outranked(spans[i], Kept[j]) /\ i \in DOMAIN spans
  <2>1. phase = "search" /\ UNCHANGED spans
    BY <1>3, KeptStep
  <2>2. i \in DOMAIN spans /\ i \in 1..(next - 1)
    <3>1. CASE Accept \/ Reject
      <4>1. i \in 1..next /\ next <= Len(spans)
        <5>1. phase' = "search" /\ next' = next + 1 /\ next \in Nat /\ next <= Len(spans)
          BY <2>1, <3>1 DEF OrderInv, TypeOK, Accept, Reject, Comparing
        <5>2. i \in 1..((next + 1) - 1)
          BY <5>1 DEF Seen
        <5> QED BY <5>1, <5>2
      <4> QED BY <1>3, <4>1 DEF OrderInv, TypeOK
    <3>2. CASE Finish
      <4>1. i \in DOMAIN spans
        BY <2>1, <3>2 DEF Seen, Finish
      <4> QED BY <1>3, <4>1 DEF OrderInv, TypeOK
    <3> QED BY <1>3, <3>1, <3>2
  <2> QED BY <2>1, <2>2 DEF BestInv, Seen, Outranked
<1>4. CASE Accept
  <2>1. /\ Kept \in Seq(Entity) /\ Kept' = Append(Kept, spans[next])
        /\ next \in DOMAIN spans /\ spans[next] \in Entity /\ UNCHANGED spans
    BY <1>4, KeptStep, KeptType
  <2>2. i < next \/ i = next
    BY <1>4 DEF Accept, Comparing, Seen, OrderInv, TypeOK
  <2>3. CASE i < next
    <3>1. PICK j \in DOMAIN Kept : Outranked(spans[i], Kept[j])
      BY <1>3, <1>4, <2>3
    <3>2. j \in DOMAIN Kept' /\ Kept'[j] = Kept[j]
      BY <2>1
    <3> QED BY <2>1, <3>1, <3>2 DEF Outranked, Linked
  <2>4. CASE i = next
    <3>1. Outranked(spans[next], spans[next])
      BY <2>1, LinkedSelf
    <3>2. Len(Kept) + 1 \in DOMAIN Kept' /\ Kept'[Len(Kept) + 1] = spans[next]
      BY <2>1
    <3> QED BY <2>1, <2>4, <3>1, <3>2 DEF Outranked, Linked
  <2> QED BY <2>2, <2>3, <2>4
<1>5. CASE Reject
  <2>1. /\ phase = "search" /\ UNCHANGED spans
        /\ next \in DOMAIN spans /\ spans[next] \in Entity
        /\ ~EntitiesDisjoint(spans[prev], spans[next])
    BY <1>5, KeptStep DEF EntityAccept
  <2>2. /\ Kept \in Seq(Entity) /\ prev \in DOMAIN spans /\ spans[prev] \in Entity
        /\ Len(Kept) = Len(out) + 1 /\ Kept[Len(Kept)] = spans[prev]
        /\ Len(Kept) \in DOMAIN Kept /\ out \in Seq(Entity)
    BY <2>1, KeptType DEF OrderInv, TypeOK
  <2>3. i < next \/ i = next
    BY <1>5, <2>1 DEF Reject, Seen, OrderInv, TypeOK
  <2>4. ASSUME i < next
        PROVE  /\ spans[i] \in Entity
               /\ \E j \in DOMAIN Kept : Outranked(spans[i], Kept[j])
    BY <1>3, <1>5, <2>4 DEF OrderInv, TypeOK
  <2>5. Outranked(spans[next], spans[next])
    BY <2>1, LinkedSelf
  <2>6. CASE Kept' = Kept /\ spans[next].score <= spans[prev].score
    <3>1. CASE i < next
      BY <2>1, <2>4, <2>6, <3>1 DEF Outranked, Linked
    <3>2. CASE i = next
      <4>1. ~EntitiesDisjoint(spans[next], spans[prev])
        BY <2>1 DEF EntitiesDisjoint
      <4>2. Outranked(spans[next], spans[prev])
        BY <2>1, <2>2, <2>5, <2>6, <4>1, LinkedOver
      <4> QED BY <2>1, <2>2, <2>6, <3>2, <4>2 DEF Outranked, Linked
    <3> QED BY <2>3, <3>1, <3>2
  <2>7. CASE Kept' = Append(out, spans[next]) /\ spans[prev].score <= spans[next].score
    <3>1. Len(Kept) \in DOMAIN Kept' /\ Kept'[Len(Kept)] = spans[next]
      BY <2>1, <2>2, <2>7
    <3>2. CASE i = next
      BY <2>1, <2>5, <3>1, <3>2 DEF Outranked, Linked
    <3>3. CASE i < next
      <4>1. PICK j \in DOMAIN Kept : Outranked(spans[i], Kept[j])
        BY <2>4, <3>3
      <4>2. CASE j = Len(Kept)
        <5>1. Outranked(spans[i], spans[next])
          BY <2>1, <2>2, <2>4, <2>7, <3>3, <4>1, <4>2, LinkedOver
        <5> QED BY <2>1, <3>1, <5>1 DEF Outranked, Linked
      <4>3. CASE j # Len(Kept)
        <5>1. j \in DOMAIN out /\ Kept[j] = out[j]
          BY <2>1, <4>3, KeptType
        <5>2. j \in DOMAIN Kept' /\ Kept'[j] = Kept[j]
          BY <2>1, <2>2, <2>7, <5>1
        <5> QED BY <2>1, <4>1, <5>2 DEF Outranked, Linked
      <4> QED BY <4>2, <4>3
    <3> QED BY <2>3, <3>2, <3>3
  <2> QED BY <1>5, <2>6, <2>7, KeptStep
<1>6. CASE Finish
  <2>1. Kept' = Kept /\ UNCHANGED spans
    BY <1>6, KeptStep
  <2>2. i < next
    BY <1>6 DEF Finish, Seen, OrderInv, TypeOK
  <2> QED BY <1>3, <1>6, <2>1, <2>2 DEF Outranked, Linked
<1>7. CASE UNCHANGED vars
  <2>1. Kept' = Kept /\ Seen' = Seen /\ UNCHANGED <<phase, spans>>
    BY <1>7 DEF vars, Kept, Seen
  <2> QED BY <2>1 DEF BestInv, Outranked, Linked
<1> QED BY <1>1, <1>2, <1>4, <1>5, <1>6, <1>7 DEF Next

\* Every dropped span leaves one at least as good in its run of overlapping
\* candidates, whatever the flags.
THEOREM BestOfRunKeptAlways == Spec => []BestOfRunKept
<1>1. Init => BestInv
  BY DEF Init, BestInv
<1>2. BestInv => BestOfRunKept
  BY DEF BestInv, BestOfRunKept, Seen, Kept
<1> QED BY <1>1, <1>2, BestInvNext, OrderInvAlways, PTL DEF Spec

-----------------------------------------------------------------------------
(***************************************************************************)
(* The whole of extract().                                                 *)
(***************************************************************************)

\* Encoding a batch, failing and decoding are steps of the decoder or leave it
\* alone: RunSession is its Extract, and Decode one of its other actions.
THEOREM DecoderRuns == PromptSpec => Spec
<1>1. PromptInit => Init
  BY DEF PromptInit
<1>2. ASSUME [PromptNext]_<<vars, promptVars>>
      PROVE  [Next]_vars
  <2>1. CASE RunSession
    BY <2>1 DEF RunSession, Next
  <2>2. CASE Decode
    BY <2>2 DEF Decode, Next
  <2>3. CASE Tokenize \/ WriteElement \/ EndRow \/ MakeSpanTensors
    BY <2>3 DEF Tokenize, WriteElement, EndRow, MakeSpanTensors
  <2>4. CASE NoWords \/ RunEndsCall
    BY <2>4 DEF NoWords, RunEndsCall
  <2>5. CASE UNCHANGED <<vars, promptVars>>
    BY <2>5
  <2>6. QED
    BY <1>2, <2>1, <2>2, <2>3, <2>4, <2>5 DEF PromptNext
<1>3. QED
  BY <1>1, <1>2, PTL DEF PromptSpec, Spec

\* Whatever the batch, the decoded text has what the decoder promises of it.
THEOREM PromptDecodes ==
  PromptSpec => [](TypeOK /\ FlatDisjoint /\ NeighboursAccepted /\ BestOfRunKept)
BY DecoderRuns, TypeCorrect, FlatDisjointAlways, NeighboursAcceptedAlways,
   BestOfRunKeptAlways, PTL

-----------------------------------------------------------------------------
(***************************************************************************)
(* Sums of subword counts.                                                 *)
(***************************************************************************)

\* The sums of the first counts: a function that some satisfies, by induction.
LEMMA SubwordsToRec ==
  ASSUME NEW c \in Seq(Nat)
  PROVE  /\ SubwordsTo(c) \in [0..Len(c) -> Nat]
         /\ SubwordsTo(c)[0] = 0
         /\ \A n \in 1..Len(c) : SubwordsTo(c)[n] = SubwordsTo(c)[n - 1] + c[n]
<1> DEFINE L == Len(c)
           Sums(g, k) == /\ g \in [0..k -> Nat] /\ g[0] = 0
                         /\ \A n \in 1..k : g[n] = g[n - 1] + c[n]
           S == {k \in Nat : k <= L => \E g : Sums(g, k)}
<1>1. L \in Nat /\ \A n \in 1..L : c[n] \in Nat
  BY LenProperties, ElementOfSeq
<1> HIDE DEF L
<1>2. 0 \in S
  <2> DEFINE zero == [n \in 0..0 |-> 0]
  <2>1. Sums(zero, 0)
    OBVIOUS
  <2> QED BY <2>1
<1>3. ASSUME NEW k \in Nat, k \in S, k + 1 <= L PROVE \E g : Sums(g, k + 1)
  <2>1. PICK g : Sums(g, k)
    BY <1>1, <1>3
  <2> DEFINE h == [n \in 0..(k + 1) |-> IF n = k + 1 THEN g[k] + c[k + 1] ELSE g[n]]
  <2>2. c[k + 1] \in Nat
    BY <1>1, <1>3
  <2>3. h \in [0..(k + 1) -> Nat] /\ h[0] = 0
    BY <2>1, <2>2
  <2>4. ASSUME NEW n \in 1..(k + 1) PROVE h[n] = h[n - 1] + c[n]
    <3>1. CASE n = k + 1
      <4>1. h[n] = g[k] + c[k + 1] /\ h[k] = g[k] /\ n - 1 = k
        BY <3>1
      <4> HIDE DEF h
      <4> QED BY <3>1, <4>1
    <3>2. CASE n # k + 1
      <4>1. n \in 1..k /\ n - 1 \in 0..(k + 1) /\ n - 1 # k + 1
        BY <3>2
      <4>2. h[n] = g[n] /\ h[n - 1] = g[n - 1]
        BY <3>2, <4>1
      <4>3. g[n] = g[n - 1] + c[n]
        BY <2>1, <4>1
      <4> HIDE DEF h
      <4> QED BY <4>2, <4>3
    <3> QED BY <3>1, <3>2
  <2> HIDE DEF h
  <2> QED BY <2>3, <2>4
<1> HIDE DEF Sums
<1>4. L \in S
  <2>1. \A k \in Nat : k \in S => k + 1 \in S
    BY <1>3
  <2> HIDE DEF S
  <2> QED BY <1>1, <1>2, <2>1, SetInduction
<1> HIDE DEF S
<1>5. PICK g : Sums(g, L)
  BY <1>1, <1>4 DEF S
<1> USE DEF Sums
<1> DEFINE Rec(f) == f = [n \in 0..L |-> IF n = 0 THEN 0 ELSE f[n - 1] + c[n]]
<1>6. Rec(g)
  BY <1>1, <1>5
<1>7. SubwordsTo(c) = CHOOSE f : Rec(f)
  BY DEF SubwordsTo, L
<1> DEFINE s == SubwordsTo(c)
<1>8. Rec(s)
  <2> HIDE DEF Rec
  <2> QED BY <1>6, <1>7
<1> HIDE DEF s
<1>9. s[0] = 0 /\ \A n \in 1..L : s[n] = s[n - 1] + c[n]
  BY <1>1, <1>8
<1>10. DOMAIN s = 0..L
  BY <1>8
<1> DEFINE T == {k \in Nat : k <= L => s[k] \in Nat}
<1>11. 0 \in T
  BY <1>9
<1>12. ASSUME NEW k \in Nat, k \in T, k + 1 <= L PROVE s[k + 1] \in Nat
  <2>1. k + 1 \in 1..L /\ (k + 1) - 1 = k
    BY <1>1, <1>12
  <2>2. s[k + 1] = s[k] + c[k + 1] /\ c[k + 1] \in Nat
    BY <1>1, <1>9, <2>1
  <2>3. s[k] \in Nat
    BY <1>1, <1>12
  <2> QED BY <2>2, <2>3
<1>13. Nat \subseteq T
  <2>1. \A k \in Nat : k \in T => k + 1 \in T
    BY <1>12
  <2> HIDE DEF T
  <2> QED BY <1>11, <2>1, SetInduction
<1> HIDE DEF T
<1>14. \A n \in 0..L : s[n] \in Nat
  BY <1>1, <1>13 DEF T
<1>15. s \in [0..L -> Nat]
  <2>1. s = [n \in 0..L |-> s[n]]
    BY <1>8, <1>10
  <2> QED BY <1>14, <2>1
<1> QED BY <1>9, <1>15 DEF s, L

\* The sums only grow.
LEMMA SumsGrow ==
  ASSUME NEW c \in Seq(Nat), NEW m \in 0..Len(c), NEW n \in 0..Len(c), m <= n
  PROVE  SubwordsTo(c)[m] <= SubwordsTo(c)[n]
<1> DEFINE s == SubwordsTo(c)
           L == Len(c)
           S == {d \in Nat : m + d <= L => s[m] <= s[m + d]}
<1>1. /\ s \in [0..L -> Nat] /\ L \in Nat
      /\ \A k \in 1..L : s[k] = s[k - 1] + c[k] /\ c[k] \in Nat
  BY SubwordsToRec, LenProperties, ElementOfSeq
<1> HIDE DEF s, L
<1>2. 0 \in S
  <2>1. m \in 0..L
    BY DEF L
  <2>2. s[m] \in Nat /\ m + 0 = m
    BY <1>1, <2>1
  <2>3. s[m] <= s[m + 0]
    BY <2>2
  <2> QED BY <2>3
<1>3. ASSUME NEW d \in Nat, d \in S, m + (d + 1) <= L
      PROVE  s[m] <= s[m + (d + 1)]
  <2>1. m + (d + 1) \in 1..L /\ (m + (d + 1)) - 1 = m + d /\ m + d \in 0..L
    BY <1>1, <1>3 DEF L
  <2>2. s[m + (d + 1)] = s[m + d] + c[m + (d + 1)] /\ c[m + (d + 1)] \in Nat
    BY <1>1, <2>1
  <2>3. s[m] <= s[m + d] /\ s[m] \in Nat /\ s[m + d] \in Nat
    <3>1. m \in 0..L
      BY DEF L
    <3> QED BY <1>1, <1>3, <2>1, <3>1
  <2> QED BY <2>2, <2>3
<1>4. Nat \subseteq S
  <2>1. \A d \in Nat : d \in S => d + 1 \in S
    BY <1>3
  <2> HIDE DEF S
  <2> QED BY <1>2, <2>1, SetInduction
<1>5. n - m \in S /\ m + (n - m) = n
  <2>1. n - m \in Nat /\ m + (n - m) = n
    BY <1>1 DEF L
  <2> HIDE DEF S
  <2> QED BY <1>4, <2>1
<1> QED BY <1>1, <1>5 DEF L, s

\* The sums of two sequences one after the other.
LEMMA SumsOfTwo ==
  ASSUME NEW a \in Seq(Nat), NEW b \in Seq(Nat)
  PROVE  /\ a \o b \in Seq(Nat) /\ Len(a \o b) = Len(a) + Len(b)
         /\ \A k \in 0..Len(a) : SubwordsTo(a \o b)[k] = SubwordsTo(a)[k]
         /\ \A j \in 0..Len(b) :
              SubwordsTo(a \o b)[Len(a) + j] = Total(a) + SubwordsTo(b)[j]
<1> DEFINE c == a \o b
           A == Len(a)
           B == Len(b)
           s == SubwordsTo(c)
           sa == SubwordsTo(a)
           sb == SubwordsTo(b)
           S == {k \in Nat : k <= A => s[k] = sa[k]}
           T == {j \in Nat : j <= B => s[A + j] = sa[A] + sb[j]}
<1>1. /\ c \in Seq(Nat) /\ Len(c) = A + B
      /\ \A k \in 1..A : c[k] = a[k]
      /\ \A j \in 1..B : c[A + j] = b[j]
  BY ConcatProperties
<1>2. /\ A \in Nat /\ B \in Nat
      /\ sa \in [0..A -> Nat] /\ sa[0] = 0
      /\ \A k \in 1..A : sa[k] = sa[k - 1] + a[k] /\ a[k] \in Nat
      /\ sb \in [0..B -> Nat] /\ sb[0] = 0
      /\ \A k \in 1..B : sb[k] = sb[k - 1] + b[k] /\ b[k] \in Nat
  BY SubwordsToRec, LenProperties, ElementOfSeq
<1>3. c \in Seq(Nat) => /\ s \in [0..Len(c) -> Nat] /\ s[0] = 0
                        /\ \A k \in 1..Len(c) : s[k] = s[k - 1] + c[k]
  <2> HIDE DEF c
  <2> QED BY SubwordsToRec
<1>4. /\ s \in [0..(A + B) -> Nat] /\ s[0] = 0
      /\ \A k \in 1..(A + B) : s[k] = s[k - 1] + c[k]
  <2> HIDE DEF c, s
  <2> QED BY <1>1, <1>3
<1> HIDE DEF c, A, B, s, sa, sb
<1>5. 0 \in S
  BY <1>2, <1>4
<1>6. ASSUME NEW k \in Nat, k \in S, k + 1 <= A PROVE s[k + 1] = sa[k + 1]
  <2>1. k + 1 \in 1..A /\ k + 1 \in 1..(A + B) /\ (k + 1) - 1 = k
    BY <1>2, <1>6
  <2> QED BY <1>1, <1>2, <1>4, <1>6, <2>1
<1>7. Nat \subseteq S
  <2>1. \A k \in Nat : k \in S => k + 1 \in S
    BY <1>6
  <2> HIDE DEF S
  <2> QED BY <1>5, <2>1, SetInduction
<1>8. \A k \in 0..A : s[k] = sa[k]
  BY <1>2, <1>7
<1>9. 0 \in T
  BY <1>2, <1>8
<1>10. ASSUME NEW j \in Nat, j \in T, j + 1 <= B
       PROVE  s[A + (j + 1)] = sa[A] + sb[j + 1]
  <2>1. /\ j + 1 \in 1..B /\ A + (j + 1) \in 1..(A + B)
        /\ (j + 1) - 1 = j /\ (A + (j + 1)) - 1 = A + j
    BY <1>2, <1>10
  <2>2. s[A + (j + 1)] = s[A + j] + b[j + 1]
    BY <1>1, <1>4, <2>1
  <2>3. sb[j + 1] = sb[j] + b[j + 1] /\ sb[j] \in Nat /\ b[j + 1] \in Nat
    BY <1>2, <2>1
  <2>4. s[A + j] = sa[A] + sb[j] /\ sa[A] \in Nat
    BY <1>2, <1>10
  <2> QED BY <2>2, <2>3, <2>4
<1>11. Nat \subseteq T
  <2>1. \A j \in Nat : j \in T => j + 1 \in T
    BY <1>10
  <2> HIDE DEF T
  <2> QED BY <1>9, <2>1, SetInduction
<1>12. \A j \in 0..B : s[A + j] = sa[A] + sb[j]
  BY <1>2, <1>11
<1> QED BY <1>1, <1>8, <1>12 DEF Total, A, B, c, s, sa, sb

\* The lead of a text is as long as it has words without subwords at its start.
LEMMA LeadProperties ==
  ASSUME NEW c \in Seq(Nat)
  PROVE  /\ Lead(c) \in 0..Len(c)
         /\ \A w \in 1..Lead(c) : c[w] = 0
         /\ Lead(c) < Len(c) => c[Lead(c) + 1] > 0
<1> DEFINE L == Len(c)
           Bare(n) == \A w \in 1..n : c[w] = 0
           f == [k \in 1..(L + 1) |-> IF Bare(k - 1) THEN k - 1 ELSE 0]
           leads == {n \in 0..L : Bare(n)}
<1>1. L \in Nat /\ L + 1 \in Nat \ {0} /\ \A v \in 1..L : c[v] \in Nat
  BY LenProperties, ElementOfSeq
<1>2. Lead(c) = Max(leads)
  BY DEF Lead
<1> HIDE DEF L
<1>3. Bare(0)
  OBVIOUS
<1>4. ASSUME NEW n \in 0..L, Bare(n) PROVE Bare(n + 1) \/ c[n + 1] # 0
  BY <1>1, <1>4
<1> HIDE DEF Bare
<1>5. f \in [1..(L + 1) -> Nat]
  BY <1>1
<1>6. leads = {f[k] : k \in 1..(L + 1)}
  <2>1. ASSUME NEW n \in leads PROVE n \in {f[k] : k \in 1..(L + 1)}
    <3>1. n + 1 \in 1..(L + 1) /\ (n + 1) - 1 = n /\ Bare(n)
      BY <1>1
    <3>2. f[n + 1] = n
      BY <3>1
    <3> QED BY <3>1, <3>2
  <2>2. ASSUME NEW k \in 1..(L + 1) PROVE f[k] \in leads
    <3>1. k - 1 \in 0..L /\ 0 \in 0..L
      BY <1>1
    <3> QED BY <1>3, <3>1
  <2> QED BY <2>1, <2>2
<1> HIDE DEF f
<1>7. Max(leads) \in leads
  BY <1>1, <1>5, <1>6, MaxOfImage, Zenon
<1>8. \A n \in leads : n <= Max(leads)
  <2>1. \A k \in 1..(L + 1) : f[k] <= Max({f[y] : y \in 1..(L + 1)})
    BY <1>1, <1>5, MaxOfImage, Zenon
  <2> QED BY <1>6, <2>1
<1>9. Lead(c) \in 0..L /\ Bare(Lead(c))
  BY <1>2, <1>7
<1>10. ASSUME Lead(c) < L PROVE c[Lead(c) + 1] > 0
  <2>1. Lead(c) + 1 \in 0..L /\ Lead(c) + 1 \in 1..L
    BY <1>1, <1>9, <1>10
  <2>2. ~Bare(Lead(c) + 1)
    <3> SUFFICES ASSUME Bare(Lead(c) + 1) PROVE FALSE
      OBVIOUS
    <3>1. Lead(c) + 1 <= Lead(c)
      BY <1>2, <1>8, <2>1
    <3> QED BY <1>9, <3>1
  <2>3. c[Lead(c) + 1] # 0 /\ c[Lead(c) + 1] \in Nat
    BY <1>1, <1>4, <1>9, <2>1, <2>2
  <2> QED BY <2>3
<1> QED BY <1>9, <1>10 DEF L, Bare

\* The sums are zero in the lead and positive behind it.
LEMMA SumsLead ==
  ASSUME NEW c \in Seq(Nat), NEW w \in 0..Len(c)
  PROVE  SubwordsTo(c)[w] > 0 <=> w > Lead(c)
<1> DEFINE s == SubwordsTo(c)
           L == Len(c)
           d == Lead(c)
           S == {k \in Nat : k <= d => s[k] = 0}
<1>1. /\ s \in [0..L -> Nat] /\ L \in Nat /\ s[0] = 0
      /\ \A k \in 1..L : s[k] = s[k - 1] + c[k] /\ c[k] \in Nat
  BY SubwordsToRec, LenProperties, ElementOfSeq
<1>2. d \in 0..L /\ (\A k \in 1..d : c[k] = 0)
  BY LeadProperties
<1>3. d < L => c[d + 1] > 0
  BY LeadProperties
<1>4. w \in 0..L
  OBVIOUS
<1>5. ASSUME d < w PROVE s[w] > 0
  <2>1. d + 1 \in 0..Len(c) /\ d + 1 <= w /\ d + 1 \in 1..L /\ d < L
    BY <1>1, <1>2, <1>5
  <2>2. s[d + 1] <= s[w]
    <3> HIDE DEF d
    <3> QED BY <2>1, SumsGrow
  <2>3. s[d + 1] = s[d] + c[d + 1] /\ s[d] \in Nat /\ c[d + 1] > 0 /\ c[d + 1] \in Nat
    <3>1. (d + 1) - 1 = d
      BY <1>2
    <3> HIDE DEF d, s, L
    <3> QED BY <1>1, <1>2, <1>3, <2>1, <3>1
  <2>4. s[w] \in Nat
    BY <1>1, <1>4
  <2> HIDE DEF d, s, L
  <2> QED BY <2>2, <2>3, <2>4
<1> HIDE DEF s, L, d
<1>6. 0 \in S
  BY <1>1
<1>7. ASSUME NEW k \in Nat, k \in S, k + 1 <= d PROVE s[k + 1] = 0
  <2>1. k + 1 \in 1..d /\ k + 1 \in 1..L /\ (k + 1) - 1 = k /\ s[k] = 0
    BY <1>1, <1>2, <1>7
  <2> QED BY <1>1, <1>2, <2>1
<1>8. Nat \subseteq S
  <2>1. \A k \in Nat : k \in S => k + 1 \in S
    BY <1>7
  <2> HIDE DEF S
  <2> QED BY <1>6, <2>1, SetInduction
<1>9. w <= d => s[w] = 0
  BY <1>1, <1>4, <1>8
<1>10. s[w] \in Nat /\ d \in Nat /\ w \in Nat
  BY <1>1, <1>2, <1>4
<1>11. s[w] > 0 <=> w > d
  BY <1>5, <1>9, <1>10
<1> QED BY <1>11 DEF s, d

-----------------------------------------------------------------------------
(***************************************************************************)
(* The shape of a prompt, and where the words of a text start in it.       *)
(***************************************************************************)

\* The elements of the entity part of a prompt; where its text part begins,
\* and where word w of it does.
Markers == 2 * NumLabels + 1
Offset(ls) == Total(Entities(ls)) + 1
StartOf(ls, text, w) == Offset(ls) + SubwordsTo(text)[w - 1]

\* A row of the mask has the numbers of the first n words, and no others.
Numbered(cells, ls, text, n) ==
  /\ \A w \in 1..n :
       text[w] > 0 => cells[StartOf(ls, text, w) + 1] = w - Lead(text)
  /\ \A q \in DOMAIN cells : cells[q] # 0 =>
       \E w \in 1..n : text[w] > 0 /\ q = StartOf(ls, text, w) + 1

\* The constants, and what the assumptions say of a call's arguments.
LEMMA Arguments ==
  /\ NumLabels \in Nat \ {0} /\ Markers \in Nat
  /\ \A ls \in LabelSubwords : ls \in [1..NumLabels -> Nat]
  /\ \A ts \in Batches : /\ ts \in Seq(Seq(Nat)) /\ Len(ts) \in Nat \ {0}
                         /\ \A s \in DOMAIN ts : ts[s] \in Seq(Nat)
<1>1. NumLabels \in Nat \ {0} /\ Markers \in Nat
  BY SizesAssumption DEF Markers
<1>2. \A ls \in LabelSubwords : ls \in [1..NumLabels -> Nat]
  BY PromptAssumption
<1>3. ASSUME NEW ts \in Batches
      PROVE  /\ ts \in Seq(Seq(Nat)) /\ Len(ts) \in Nat \ {0}
             /\ \A s \in DOMAIN ts : ts[s] \in Seq(Nat)
  <2>1. ts \in Seq(Seq(Nat)) /\ ts # <<>>
    BY PromptAssumption
  <2>2. Len(ts) \in Nat /\ \A s \in 1..Len(ts) : ts[s] \in Seq(Nat)
    BY <2>1, LenProperties, ElementOfSeq
  <2>3. DOMAIN ts = 1..Len(ts) /\ Len(ts) # 0
    BY <2>1, LenProperties, EmptySeq
  <2> QED BY <2>1, <2>2, <2>3
<1> QED BY <1>1, <1>2, <1>3

\* The entity part of a prompt is a sequence of counts.
LEMMA EntitiesShape ==
  ASSUME NEW ls \in LabelSubwords
  PROVE  /\ Entities(ls) \in Seq(Nat) /\ Len(Entities(ls)) = Markers
         /\ Total(Entities(ls)) \in Nat
         /\ Offset(ls) \in Nat \ {0}
<1>1. /\ NumLabels \in Nat \ {0} /\ Markers = 2 * NumLabels + 1
      /\ ls \in [1..NumLabels -> Nat]
  BY Arguments DEF Markers
<1> DEFINE e == [n \in 1..Markers |-> IF n % 2 = 1 THEN 1 ELSE ls[n \div 2]]
<1>2. \A n \in 1..Markers : n % 2 # 1 => n \div 2 \in 1..NumLabels
  BY <1>1
<1>3. \A n \in 1..Markers : e[n] \in Nat
  BY <1>1, <1>2
<1>4. e \in Seq(Nat) /\ Len(e) = Markers
  <2> HIDE DEF Markers
  <2> QED BY <1>3, Arguments
<1>5. Entities(ls) = e
  BY DEF Entities, Markers
<1> HIDE DEF e
<1>6. Total(Entities(ls)) \in Nat
  BY <1>4, <1>5, SubwordsToRec, Arguments DEF Total
<1> QED BY <1>4, <1>5, <1>6 DEF Offset

\* The sums of a text and of its prompt.
LEMMA PromptShape ==
  ASSUME NEW ls \in LabelSubwords, NEW text \in Seq(Nat)
  PROVE  /\ PromptOf(ls, text) \in Seq(Nat)
         /\ Len(PromptOf(ls, text)) = Markers + Len(text)
         /\ \A k \in 0..Markers :
              SubwordsTo(PromptOf(ls, text))[k] = SubwordsTo(Entities(ls))[k]
         /\ \A j \in 0..Len(text) :
              1 + SubwordsTo(PromptOf(ls, text))[Markers + j] =
              StartOf(ls, text, j + 1)
         /\ \A j \in 1..Len(text) : PromptOf(ls, text)[Markers + j] = text[j]
         /\ RowLength(ls, text) = 1 + Offset(ls) + Total(text)
         /\ RowLength(ls, text) \in Nat
<1> DEFINE e == Entities(ls)
           p == PromptOf(ls, text)
           sp == SubwordsTo(p)
           st == SubwordsTo(text)
<1>1. /\ e \in Seq(Nat) /\ Len(e) = Markers /\ Total(e) \in Nat
      /\ Offset(ls) \in Nat \ {0}
  BY EntitiesShape
<1>2. p = e \o text
  BY DEF PromptOf
<1>3. /\ p \in Seq(Nat) /\ Len(p) = Markers + Len(text)
      /\ \A k \in 0..Markers : sp[k] = SubwordsTo(e)[k]
      /\ \A j \in 0..Len(text) : sp[Markers + j] = Total(e) + st[j]
  <2> HIDE DEF e, p
  <2> QED BY <1>1, <1>2, SumsOfTwo
<1>4. /\ st \in [0..Len(text) -> Nat] /\ Len(text) \in Nat /\ Markers \in Nat
      /\ Total(text) = st[Len(text)] /\ Total(p) = sp[Len(p)]
      /\ Offset(ls) = Total(e) + 1
  BY SubwordsToRec, LenProperties, Arguments DEF Total, Offset
<1>5. Total(e) = Offset(ls) - 1
  BY <1>1 DEF Offset
<1>6. \A j \in 1..Len(text) : p[Markers + j] = text[j]
  <2> HIDE DEF e, p
  <2>1. \A i \in 1..(Len(e) + Len(text)) :
          (e \o text)[i] = IF i <= Len(e) THEN e[i] ELSE text[i - Len(e)]
    BY <1>1, ConcatProperties
  <2> TAKE j \in 1..Len(text)
  <2> DEFINE i == Markers + j
  <2>2. i \in 1..(Len(e) + Len(text)) /\ ~(i <= Len(e)) /\ i - Len(e) = j
    BY <1>1, <1>4
  <2> HIDE DEF i
  <2>3. (e \o text)[i] = text[j]
    BY <2>1, <2>2
  <2> QED BY <1>2, <2>3 DEF i
<1>7. RowLength(ls, text) = 2 + Total(p)
  BY DEF RowLength
<1> HIDE DEF e, p, sp, st
<1>8. RowLength(ls, text) = 1 + Offset(ls) + Total(text) /\ Total(text) \in Nat
  <2>1. Len(text) \in 0..Len(text)
    BY <1>4
  <2>2. Total(p) = Total(e) + st[Len(text)] /\ st[Len(text)] \in Nat
    BY <1>3, <1>4, <2>1
  <2>3. Total(text) = st[Len(text)]
    BY <1>4
  <2>4. \A o, x, y, z \in Nat :
          z = x + y /\ x = o - 1 => 2 + z = 1 + o + y
    OBVIOUS
  <2>5. Total(p) \in Nat /\ Offset(ls) \in Nat
    BY <1>1, <2>2
  <2>6. 2 + Total(p) = 1 + Offset(ls) + st[Len(text)]
    <3>1. Total(e) \in Nat /\ Total(e) = Offset(ls) - 1
      BY <1>1, <1>5
    <3>2. Total(p) = Total(e) + st[Len(text)] /\ st[Len(text)] \in Nat
      BY <2>2
    <3>3. Total(p) \in Nat /\ Offset(ls) \in Nat
      BY <2>5
    <3> QED BY ONLY <2>4, <3>1, <3>2, <3>3
  <2> QED BY <1>7, <2>2, <2>3, <2>6
<1>9. ASSUME NEW j \in 0..Len(text)
      PROVE  1 + sp[Markers + j] = StartOf(ls, text, j + 1)
  <2>1. (j + 1) - 1 = j
    BY <1>4
  <2>2. StartOf(ls, text, j + 1) = Offset(ls) + st[j]
    BY <2>1 DEF StartOf, st
  <2>3. sp[Markers + j] = Total(e) + st[j] /\ st[j] \in Nat
    BY <1>3, <1>4
  <2> QED BY <1>1, <1>5, <2>2, <2>3
<1> QED BY <1>1, <1>3, <1>6, <1>8, <1>9 DEF e, p, sp

\* max_tokens is the longest row.
LEMMA LongestRow ==
  ASSUME NEW ls \in LabelSubwords, NEW ts \in Batches
  PROVE  /\ MaxTokensOf(ls, ts) \in Nat
         /\ \A s \in DOMAIN ts : RowLength(ls, ts[s]) <= MaxTokensOf(ls, ts)
<1> DEFINE f == [s \in 1..Len(ts) |-> RowLength(ls, ts[s])]
<1>1. /\ Len(ts) \in Nat \ {0} /\ DOMAIN ts = 1..Len(ts)
      /\ \A s \in DOMAIN ts : ts[s] \in Seq(Nat)
  BY Arguments, LenProperties
<1>2. \A s \in 1..Len(ts) : RowLength(ls, ts[s]) \in Nat
  BY <1>1, PromptShape
<1>3. f \in [1..Len(ts) -> Nat]
  BY <1>2
<1>4. {RowLength(ls, ts[s]) : s \in DOMAIN ts} = {f[s] : s \in 1..Len(ts)}
  BY <1>1
<1>5. \A s \in DOMAIN ts : f[s] = RowLength(ls, ts[s])
  BY <1>1
<1> HIDE DEF f
<1>6. /\ Max({f[s] : s \in 1..Len(ts)}) \in Nat
      /\ \A s \in 1..Len(ts) : f[s] <= Max({f[y] : y \in 1..Len(ts)})
  BY <1>1, <1>3, MaxOfImage, Zenon
<1> QED BY <1>1, <1>4, <1>5, <1>6, Zenon DEF MaxTokensOf

\* The next word's number is written where the word starts, or the word has
\* no subword and nothing is written.
LEMMA NumberNext ==
  ASSUME NEW ls \in LabelSubwords, NEW text \in Seq(Nat), NEW M \in Nat,
         NEW cells \in [1..M -> Nat], NEW w \in 1..Len(text),
         StartOf(ls, text, w) + 1 \in 1..M,
         Numbered(cells, ls, text, w - 1)
  PROVE  Numbered(IF text[w] > 0
                    THEN [cells EXCEPT ![StartOf(ls, text, w) + 1] = w - Lead(text)]
                    ELSE cells, ls, text, w)
<1> DEFINE at == StartOf(ls, text, w) + 1
           after == IF text[w] > 0 THEN [cells EXCEPT ![at] = w - Lead(text)]
                                   ELSE cells
<1>1. Len(text) \in Nat /\ \A v \in 1..Len(text) : text[v] \in Nat
  BY LenProperties, ElementOfSeq
<1>2. \A v \in 1..w : v \in 1..(w - 1) \/ v = w
  BY <1>1
<1>3. \A v \in 1..(w - 1) : v \in 1..w /\ v \in 1..Len(text)
  BY <1>1
<1>4. w \in 1..w
  BY <1>1
<1>5. ASSUME NEW v \in 1..(w - 1), text[v] > 0
      PROVE  StartOf(ls, text, v) + 1 # at
  <2> DEFINE st == SubwordsTo(text)
  <2>1. /\ st \in [0..Len(text) -> Nat]
        /\ st[v] = st[v - 1] + text[v]
    BY <1>3, SubwordsToRec
  <2>2. v \in 0..Len(text) /\ w - 1 \in 0..Len(text) /\ v <= w - 1 /\ v - 1 \in 0..Len(text)
    BY <1>1
  <2>3. st[v] <= st[w - 1]
    BY <2>2, SumsGrow
  <2>4. st[v] \in Nat /\ st[v - 1] \in Nat /\ st[w - 1] \in Nat /\ text[v] \in Nat
    BY <1>1, <1>3, <2>1, <2>2
  <2> HIDE DEF st
  <2>5. st[v - 1] # st[w - 1]
    <3>1. \A a, b, c, d \in Nat : b = a + d /\ b <= c /\ d > 0 => a # c
      OBVIOUS
    <3>2. st[v] = st[v - 1] + text[v] /\ st[v] <= st[w - 1] /\ text[v] > 0
      BY <1>5, <2>1, <2>3
    <3> QED BY <2>4, <3>1, <3>2, Zenon
  <2>6. StartOf(ls, text, v) = Offset(ls) + st[v - 1] /\ at = Offset(ls) + st[w - 1] + 1
    BY DEF StartOf, st
  <2>7. Offset(ls) \in Nat
    BY EntitiesShape
  <2> HIDE DEF at
  <2>8. \A a, b, o \in Nat : a # b => (o + a) + 1 # o + b + 1
    OBVIOUS
  <2>9. (Offset(ls) + st[v - 1]) + 1 # Offset(ls) + st[w - 1] + 1
    BY <2>4, <2>5, <2>7, <2>8, Zenon
  <2> QED BY <2>6, <2>9
<1>6. DOMAIN after = DOMAIN cells
  OBVIOUS
<1>7. ASSUME NEW v \in 1..w, text[v] > 0
      PROVE  after[StartOf(ls, text, v) + 1] = v - Lead(text)
  <2>1. CASE v = w
    BY <1>7, <2>1
  <2>2. CASE v \in 1..(w - 1)
    <3>1. cells[StartOf(ls, text, v) + 1] = v - Lead(text)
      BY <1>7, <2>2 DEF Numbered
    <3> QED BY <1>5, <1>7, <2>2, <3>1
  <2> QED BY <1>2, <2>1, <2>2
<1>8. ASSUME NEW q \in DOMAIN after, after[q] # 0
      PROVE  \E v \in 1..w : text[v] > 0 /\ q = StartOf(ls, text, v) + 1
  <2>1. CASE text[w] > 0 /\ q = at
    BY <1>4, <2>1
  <2>2. CASE ~(text[w] > 0 /\ q = at)
    <3>1. cells[q] # 0 /\ q \in DOMAIN cells
      BY <1>8, <2>2
    <3>2. PICK v \in 1..(w - 1) : text[v] > 0 /\ q = StartOf(ls, text, v) + 1
      BY <3>1 DEF Numbered
    <3> QED BY <1>3, <3>2
  <2> QED BY <2>1, <2>2
<1> HIDE DEF after
<1>9. Numbered(after, ls, text, w)
  BY <1>7, <1>8 DEF Numbered
<1> QED BY <1>9 DEF after

-----------------------------------------------------------------------------
(***************************************************************************)
(* The invariant of flattening: what the rows hold while the loops over    *)
(* the texts and their elements run, and that no element is ever cut.      *)
(***************************************************************************)

\* The words before element e of a prompt; the words of text s that the mask
\* numbers so far.
WordsAt(e) == IF e > Markers THEN e - Markers - 1 ELSE 0
Counted(s) ==
  IF s < row THEN Len(texts[s]) ELSE IF s = row THEN WordsAt(elem) ELSE 0

\* word_id when n words of the text are behind it: the lead is not counted.
Given(text, n) == IF n > Lead(text) THEN n - Lead(text) ELSE 0

\* Where the loop over the elements is: nothing has been cut so far.
AtElement ==
  /\ elem \in 1..(Len(PromptOf(labels, texts[row])) + 1)
  /\ idx = 1 + SubwordsTo(PromptOf(labels, texts[row]))[elem - 1]
  /\ wordId = Given(texts[row], WordsAt(elem))

\* The mask numbers the words the loops have passed, and no others.
RowsNumbered ==
  \A s \in DOMAIN texts : Numbered(mask[s], labels, texts[s], Counted(s))

\* Nothing of an earlier call is there when a call begins.
RowsDropped == row = 1 /\ elem = 1 /\ idx = 1 /\ wordId = 0 /\ attention = <<>>

RowsLaid ==
  /\ texts \in Batches /\ labels \in LabelSubwords
  /\ row \in 1..(Len(texts) + 1)
  /\ mask \in [DOMAIN texts -> [1..MaxTokens -> Nat]]
  /\ attention \in Seq(Nat) /\ Len(attention) = row - 1
  /\ \A s \in 1..(row - 1) : attention[s] = RowLength(labels, texts[s])
  /\ row <= Len(texts) => AtElement
  /\ RowsNumbered

\* The spans the session is told of when it runs.
SpansTold ==
  /\ row > Len(texts)
  /\ spanIdx = [s \in DOMAIN texts |-> RealSpans(Len(texts[s]))]

RowsInv ==
  /\ stage \in {"idle", "flatten", "run", "decode"}
  /\ wordId \in Nat
  /\ stage \in {"idle", "decode"} => RowsDropped
  /\ stage \in {"flatten", "run"} => RowsLaid
  /\ stage = "run" => SpansTold

\* The next element of a row fits, so the cap does nothing.
LEMMA ElementFits ==
  ASSUME NEW ls \in LabelSubwords, NEW ts \in Batches, NEW s \in DOMAIN ts,
         NEW e \in 1..Len(PromptOf(ls, ts[s])), NEW i,
         i = 1 + SubwordsTo(PromptOf(ls, ts[s]))[e - 1]
  PROVE  /\ i \in Nat /\ PromptOf(ls, ts[s])[e] \in Nat
         /\ Min({PromptOf(ls, ts[s])[e], MaxTokensOf(ls, ts) - i}) =
            PromptOf(ls, ts[s])[e]
         /\ i + PromptOf(ls, ts[s])[e] = 1 + SubwordsTo(PromptOf(ls, ts[s]))[e]
         /\ i + PromptOf(ls, ts[s])[e] <= MaxTokensOf(ls, ts) - 1
<1> DEFINE p == PromptOf(ls, ts[s])
           sp == SubwordsTo(p)
           L == Len(p)
           M == MaxTokensOf(ls, ts)
<1>1. p \in Seq(Nat) /\ RowLength(ls, ts[s]) <= M /\ M \in Nat
  BY Arguments, PromptShape, LongestRow
<1>2. RowLength(ls, ts[s]) = 2 + sp[L]
  BY DEF RowLength, Total
<1> HIDE DEF p, M
<1>3. /\ sp \in [0..L -> Nat] /\ L \in Nat
      /\ sp[e] = sp[e - 1] + p[e] /\ p[e] \in Nat
  <2>1. e \in 1..Len(p)
    BY DEF p
  <2> QED BY <1>1, <2>1, SubwordsToRec, LenProperties, ElementOfSeq
<1>4. e \in 1..L /\ e \in 0..L /\ L \in 0..L /\ e <= L /\ e - 1 \in 0..L
  BY <1>3 DEF p
<1>5. sp[e] <= sp[L]
  BY <1>1, <1>4, SumsGrow
<1>6. i = 1 + sp[e - 1]
  BY DEF p
<1> HIDE DEF sp, L
<1>7. sp[e] \in Nat /\ sp[L] \in Nat /\ sp[e - 1] \in Nat
  BY <1>3, <1>4
<1>8. /\ i \in Nat /\ i + p[e] = 1 + sp[e]
      /\ i + p[e] <= M - 1 /\ p[e] <= M - i
  <2>1. \A a, b, c, d, m \in Nat :
          b = a + c /\ b <= d /\ 2 + d <= m =>
            /\ 1 + a \in Nat /\ (1 + a) + c = 1 + b
            /\ (1 + a) + c <= m - 1 /\ c <= m - (1 + a)
    OBVIOUS
  <2>2. 2 + sp[L] <= M
    BY <1>1, <1>2
  <2>3. /\ 1 + sp[e - 1] \in Nat /\ (1 + sp[e - 1]) + p[e] = 1 + sp[e]
        /\ (1 + sp[e - 1]) + p[e] <= M - 1 /\ p[e] <= M - (1 + sp[e - 1])
    BY <1>1, <1>3, <1>5, <1>7, <2>1, <2>2, Zenon
  <2> QED BY <1>6, <2>3, Zenon
<1>9. Min({p[e], M - i}) = p[e]
  <2>1. p[e] \in Int /\ M - i \in Int
    <3>1. \A a, b \in Nat : a \in Int /\ a - b \in Int
      OBVIOUS
    <3> QED BY <1>1, <1>3, <1>8, <3>1, Zenon
  <2> QED BY <1>8, <2>1, MinOfTwo
<1> QED BY <1>3, <1>8, <1>9 DEF p, sp, M

\* In the entity part nothing is written and no word counted; in the text part
\* each element is a word.
LEMMA ElementRegion ==
  ASSUME NEW ls \in LabelSubwords, NEW text \in Seq(Nat),
         NEW e \in 1..Len(PromptOf(ls, text)), NEW i,
         i = 1 + SubwordsTo(PromptOf(ls, text))[e - 1],
         i + PromptOf(ls, text)[e] = 1 + SubwordsTo(PromptOf(ls, text))[e]
  PROVE  /\ e <= Markers => /\ ~(PromptOf(ls, text)[e] > 0 /\ i >= Offset(ls))
                            /\ ~(i + PromptOf(ls, text)[e] > Offset(ls))
         /\ e > Markers =>
              /\ e - Markers \in 1..Len(text)
              /\ i = StartOf(ls, text, e - Markers)
              /\ PromptOf(ls, text)[e] = text[e - Markers]
              /\ i >= Offset(ls)
              /\ (i + PromptOf(ls, text)[e] > Offset(ls)) <=> e - Markers > Lead(text)
<1> DEFINE p == PromptOf(ls, text)
           sp == SubwordsTo(p)
           st == SubwordsTo(text)
           se == SubwordsTo(Entities(ls))
<1>1. /\ p \in Seq(Nat) /\ Len(p) = Markers + Len(text)
      /\ \A k \in 0..Markers : sp[k] = se[k]
      /\ \A j \in 0..Len(text) : 1 + sp[Markers + j] = StartOf(ls, text, j + 1)
      /\ \A j \in 1..Len(text) : p[Markers + j] = text[j]
  BY PromptShape
<1>2. /\ Markers \in Nat /\ Len(text) \in Nat /\ Offset(ls) \in Nat \ {0}
      /\ Entities(ls) \in Seq(Nat) /\ Len(Entities(ls)) = Markers
      /\ Offset(ls) = se[Markers] + 1
  BY Arguments, EntitiesShape, LenProperties DEF Offset, Total
<1>3. e \in 1..(Markers + Len(text)) /\ i = 1 + sp[e - 1] /\ i + p[e] = 1 + sp[e]
  BY <1>1
<1>4. /\ se \in [0..Markers -> Nat] /\ st \in [0..Len(text) -> Nat] /\ st[0] = 0
      /\ \A j \in 1..Len(text) : st[j] = st[j - 1] + text[j] /\ text[j] \in Nat
  BY <1>2, SubwordsToRec, ElementOfSeq, LenProperties
<1>5. p[e] \in Nat
  BY <1>1, ElementOfSeq
<1>6. CASE e <= Markers
  <2>1. e \in 0..Markers /\ e - 1 \in 0..Markers /\ Markers \in 0..Markers
    BY <1>2, <1>3, <1>6
  <2>2. se[e] <= se[Markers]
    BY <1>2, <1>6, <2>1, SumsGrow
  <2>3. sp[e] = se[e] /\ sp[e - 1] = se[e - 1]
    BY <1>1, <2>1
  <2>4. se[e] \in Nat /\ se[e - 1] \in Nat /\ se[Markers] \in Nat
    BY <1>4, <2>1
  <2> HIDE DEF p, sp, st, se
  <2>5. i \in Nat /\ i + p[e] <= Offset(ls)
    <3>1. \A a, b, d \in Nat : b <= d => 1 + a \in Nat /\ 1 + b <= d + 1
      OBVIOUS
    <3>2. 1 + se[e - 1] \in Nat /\ 1 + se[e] <= se[Markers] + 1
      BY <2>2, <2>4, <3>1
    <3> QED BY <1>2, <1>3, <2>3, <3>2
  <2>6. ~(i + p[e] > Offset(ls)) /\ ~(p[e] > 0 /\ i >= Offset(ls))
    BY <1>2, <1>5, <2>5
  <2> QED BY <1>2, <1>3, <1>6, <2>6 DEF p
<1>7. CASE e > Markers
  <2> DEFINE w == e - Markers
  <2>1. w \in 1..Len(text) /\ Markers + w = e /\ w - 1 \in 0..Len(text)
        /\ Markers + (w - 1) = e - 1 /\ (w - 1) + 1 = w /\ w \in 0..Len(text)
    BY <1>2, <1>3, <1>7
  <2> HIDE DEF w
  <2>2. p[e] = text[w]
    BY <1>1, <2>1
  <2>3. 1 + sp[e - 1] = StartOf(ls, text, (w - 1) + 1)
    BY <1>1, <2>1
  <2>4. i = StartOf(ls, text, w) /\ i = Offset(ls) + st[w - 1]
    BY <1>3, <2>1, <2>3 DEF StartOf
  <2>5. st[w - 1] \in Nat /\ st[w] \in Nat /\ st[w] = st[w - 1] + text[w]
    BY <1>4, <2>1
  <2>6. i >= Offset(ls)
    <3>1. \A a, b \in Nat : a + b >= a
      OBVIOUS
    <3>2. Offset(ls) \in Nat
      BY <1>2
    <3> QED BY <2>4, <2>5, <3>1, <3>2, Zenon
  <2>7. (i + p[e] > Offset(ls)) <=> w > Lead(text)
    <3>1. text[w] \in Nat
      BY <1>4, <2>1
    <3>2. st[w] > 0 <=> w > Lead(text)
      BY <2>1, SumsLead
    <3> HIDE DEF p, sp, st, se
    <3>3. \A o, a, b, c \in Nat : c = a + b => (((o + a) + b > o) <=> c > 0)
      OBVIOUS
    <3>4. Offset(ls) \in Nat
      BY <1>2
    <3>5. ((Offset(ls) + st[w - 1]) + text[w] > Offset(ls)) <=> st[w] > 0
      BY <2>5, <3>1, <3>3, <3>4, Zenon
    <3>6. (i + p[e] > Offset(ls)) <=> st[w] > 0
      BY <2>2, <2>4, <3>5
    <3> QED BY <3>2, <3>6, Zenon
  <2> HIDE DEF p, sp, st, se
  <2>8. ~(e <= Markers)
    BY <1>2, <1>3, <1>7
  <2> QED BY <2>1, <2>2, <2>4, <2>6, <2>7, <2>8 DEF p, w
<1> HIDE DEF p, sp, st, se
<1>8. e <= Markers \/ e > Markers
  BY <1>2, <1>3
<1> QED BY <1>6, <1>7, <1>8

LEMMA RowsInvInit == PromptInit => RowsInv
BY DEF PromptInit, RowsInv, RowsDropped

\* Tokenizing lays out empty rows.
LEMMA TokenizeLays == RowsInv /\ Tokenize => RowsInv'
<1> SUFFICES ASSUME RowsInv, Tokenize PROVE RowsInv'
  OBVIOUS
<1>1. /\ RowsDropped /\ stage' = "flatten" /\ wordId \in Nat
      /\ texts' \in Batches /\ labels' \in LabelSubwords
      /\ mask' = [s \in DOMAIN texts' |->
                    [p \in 1..MaxTokensOf(labels', texts') |-> 0]]
      /\ UNCHANGED <<row, elem, idx, wordId, attention>>
  BY DEF RowsInv, Tokenize
<1>2. /\ Len(texts') \in Nat \ {0} /\ DOMAIN texts' = 1..Len(texts')
      /\ \A s \in DOMAIN texts' : texts'[s] \in Seq(Nat)
  BY <1>1, Arguments, LenProperties
<1>3. /\ row' = 1 /\ elem' = 1 /\ idx' = 1 /\ wordId' = 0 /\ attention' = <<>>
      /\ 1 \in DOMAIN texts'
  BY <1>1, <1>2 DEF RowsDropped
<1>4. mask' \in [DOMAIN texts' -> [1..MaxTokensOf(labels', texts') -> Nat]]
  BY <1>1
<1>5. /\ PromptOf(labels', texts'[1]) \in Seq(Nat)
      /\ Len(PromptOf(labels', texts'[1])) \in Nat
  BY <1>1, <1>2, <1>3, PromptShape, LenProperties
<1>6. SubwordsTo(PromptOf(labels', texts'[1]))[0] = 0
  BY <1>5, SubwordsToRec
<1>7. WordsAt(1) = 0 /\ Given(texts'[1], 0) = 0
  <2>1. Lead(texts'[1]) \in Nat
    BY <1>2, <1>3, LeadProperties
  <2> QED BY <2>1, Arguments DEF WordsAt, Given
<1>8. AtElement'
  <2>1. 1 \in 1..(Len(PromptOf(labels', texts'[1])) + 1) /\ 1 - 1 = 0 /\ 1 + 0 = 1
    BY <1>5
  <2> QED BY <1>3, <1>6, <1>7, <2>1 DEF AtElement
<1>9. ASSUME NEW s \in DOMAIN texts' PROVE Numbered(mask'[s], labels', texts'[s], 0)
  BY <1>1 DEF Numbered
<1>10. \A s \in DOMAIN texts' : Counted(s)' = 0
  BY <1>2, <1>3, <1>7 DEF Counted
<1>11. RowsNumbered'
  BY <1>9, <1>10 DEF RowsNumbered
<1>12. RowsLaid'
  BY <1>1, <1>2, <1>3, <1>4, <1>8, <1>11 DEF RowsLaid, MaxTokens
<1> QED BY <1>1, <1>3, <1>12 DEF RowsInv

\* An element takes its place in the row.
LEMMA WriteElementLays == RowsInv /\ WriteElement => RowsInv'
<1> SUFFICES ASSUME RowsInv, WriteElement PROVE RowsInv'
  OBVIOUS
<1> DEFINE text == texts[row]
           p == PromptOf(labels, text)
           n == p[elem]
<1>1. /\ stage = "flatten" /\ stage' = "flatten" /\ row <= Len(texts)
      /\ elem <= Len(p) /\ wordId \in Nat /\ RowsLaid
      /\ elem' = elem + 1
      /\ UNCHANGED <<stage, texts, labels, row, attention, spanIdx>>
  BY DEF RowsInv, WriteElement
<1>2. /\ texts \in Batches /\ labels \in LabelSubwords
      /\ row \in DOMAIN texts /\ DOMAIN texts = 1..Len(texts)
      /\ text \in Seq(Nat)
      /\ mask \in [DOMAIN texts -> [1..MaxTokens -> Nat]]
      /\ AtElement /\ RowsNumbered
  <2>1. /\ texts \in Batches /\ labels \in LabelSubwords
        /\ row \in 1..(Len(texts) + 1)
        /\ mask \in [DOMAIN texts -> [1..MaxTokens -> Nat]]
        /\ AtElement /\ RowsNumbered
    BY <1>1 DEF RowsLaid
  <2>2. /\ Len(texts) \in Nat /\ DOMAIN texts = 1..Len(texts)
        /\ \A s \in DOMAIN texts : texts[s] \in Seq(Nat)
    BY <2>1, Arguments, LenProperties
  <2> QED BY <1>1, <2>1, <2>2
<1>3. p \in Seq(Nat) /\ Len(p) = Markers + Len(text) /\ Len(p) \in Nat
  BY <1>2, PromptShape, LenProperties
<1>4. /\ elem \in 1..Len(p) /\ elem + 1 \in 1..(Len(p) + 1)
      /\ idx = 1 + SubwordsTo(p)[elem - 1] /\ (elem + 1) - 1 = elem
  BY <1>1, <1>2, <1>3 DEF AtElement
<1>5. /\ idx \in Nat /\ n \in Nat /\ Min({n, MaxTokens - idx}) = n
      /\ idx + n = 1 + SubwordsTo(p)[elem]
      /\ idx + n <= MaxTokens - 1
  <2>1. /\ idx \in Nat /\ n \in Nat
        /\ Min({n, MaxTokensOf(labels, texts) - idx}) = n
        /\ idx + n = 1 + SubwordsTo(p)[elem]
        /\ idx + n <= MaxTokensOf(labels, texts) - 1
    <3>1. /\ labels \in LabelSubwords /\ texts \in Batches /\ row \in DOMAIN texts
          /\ elem \in 1..Len(PromptOf(labels, texts[row]))
          /\ idx = 1 + SubwordsTo(PromptOf(labels, texts[row]))[elem - 1]
      BY <1>2, <1>4
    <3>2. idx \in Nat
      BY <3>1, ElementFits
    <3>3. n \in Nat
      BY <1>3, <1>4, ElementOfSeq
    <3>4. Min({n, MaxTokensOf(labels, texts) - idx}) = n
      BY <3>1, ElementFits
    <3>5. idx + n = 1 + SubwordsTo(p)[elem]
      BY <3>1, ElementFits
    <3>6. idx + n <= MaxTokensOf(labels, texts) - 1
      BY <3>1, ElementFits
    <3> QED BY <3>2, <3>3, <3>4, <3>5, <3>6
  <2> HIDE DEF n, p, text
  <2> QED BY <2>1 DEF MaxTokens
<1>6. MaxTokens \in Nat
  BY <1>2, LongestRow DEF MaxTokens
<1>7. /\ elem <= Markers => ~(n > 0 /\ idx >= Offset(labels))
                            /\ ~(idx + n > Offset(labels))
      /\ elem > Markers => /\ elem - Markers \in 1..Len(text)
                           /\ idx = StartOf(labels, text, elem - Markers)
                           /\ n = text[elem - Markers]
                           /\ idx >= Offset(labels)
                           /\ (idx + n > Offset(labels)) <=> elem - Markers > Lead(text)
  BY <1>2, <1>4, <1>5, ElementRegion
<1>8. TextOffset = Offset(labels)
  BY DEF TextOffset, Offset
<1>9. /\ mask' = IF n > 0 /\ idx >= Offset(labels)
                   THEN [mask EXCEPT ![row][idx + 1] = wordId + 1] ELSE mask
      /\ idx' = idx + n
      /\ wordId' = IF idx + n > Offset(labels) THEN wordId + 1 ELSE wordId
  <2>1. WordWritten(idx') = (idx' > TextOffset)
    BY DEF WordWritten
  <2> QED BY <1>5, <1>8, <2>1 DEF WriteElement
<1> HIDE DEF n, p, text
<1>10. /\ wordId' \in Nat
       /\ mask' \in [DOMAIN texts -> [1..MaxTokens -> Nat]]
       /\ \A s \in DOMAIN texts : s # row => mask'[s] = mask[s]
       /\ mask'[row] = IF n > 0 /\ idx >= Offset(labels)
                         THEN [mask[row] EXCEPT ![idx + 1] = wordId + 1]
                         ELSE mask[row]
  <2>1. wordId' \in Nat
    BY <1>1, <1>9
  <2>2. wordId + 1 \in Nat
    BY <1>1
  <2>3. CASE n > 0 /\ idx >= Offset(labels)
    <3>1. mask' = [mask EXCEPT ![row][idx + 1] = wordId + 1]
      BY <1>9, <2>3
    <3> QED BY <1>2, <2>1, <2>2, <2>3, <3>1
  <2>4. CASE ~(n > 0 /\ idx >= Offset(labels))
    <3>1. mask' = mask
      BY <1>9, <2>4
    <3> QED BY <1>2, <2>1, <2>4, <3>1
  <2> QED BY <2>3, <2>4
<1>11. /\ wordId = Given(text, WordsAt(elem))
       /\ Numbered(mask[row], labels, text, WordsAt(elem))
  <2>1. Counted(row) = WordsAt(elem)
    BY <1>1, <1>2 DEF Counted
  <2> QED BY <1>2, <2>1 DEF AtElement, RowsNumbered, text
<1>12. /\ wordId' = Given(text, WordsAt(elem + 1))
       /\ Numbered(mask'[row], labels, text, WordsAt(elem + 1))
  <2>1. Markers \in Nat /\ elem \in Nat
    BY <1>3, <1>4, Arguments
  <2>2. CASE elem <= Markers
    <3>1. WordsAt(elem) = 0 /\ WordsAt(elem + 1) = 0
      BY <2>1, <2>2 DEF WordsAt
    <3> QED BY <1>7, <1>9, <1>10, <1>11, <2>2, <3>1
  <2>3. CASE elem > Markers
    <3> DEFINE w == elem - Markers
    <3>1. WordsAt(elem) = w - 1 /\ WordsAt(elem + 1) = w
      BY <2>1, <2>3 DEF WordsAt
    <3>2. /\ w \in 1..Len(text) /\ idx = StartOf(labels, text, w) /\ n = text[w]
          /\ idx >= Offset(labels)
          /\ (idx + n > Offset(labels)) <=> w > Lead(text)
      BY <1>7, <2>3
    <3>3. text \in Seq(Nat)
      BY <1>2 DEF text
    <3>4. w \in Nat /\ Lead(text) \in Nat /\ \A v \in 1..Lead(text) : text[v] = 0
      BY <2>1, <3>2, <3>3, LeadProperties
    <3> HIDE DEF w
    <3>5. wordId' = Given(text, w)
      <4>1. wordId = Given(text, w - 1)
        BY <1>11, <3>1
      <4>2. CASE w > Lead(text)
        <5>1. wordId' = wordId + 1
          BY <1>9, <3>2, <4>2
        <5> QED BY <3>2, <3>4, <4>1, <4>2, <5>1 DEF Given
      <4>3. CASE ~(w > Lead(text))
        <5>1. wordId' = wordId
          BY <1>9, <3>2, <4>3
        <5> QED BY <3>2, <3>4, <4>1, <4>3, <5>1 DEF Given
      <4> QED BY <4>2, <4>3
    <3>6. text[w] > 0 => wordId + 1 = w - Lead(text)
      <4> SUFFICES ASSUME text[w] > 0 PROVE wordId + 1 = w - Lead(text)
        OBVIOUS
      <4>1. w > Lead(text)
        <5>1. w \in 1..Lead(text) \/ w > Lead(text)
          BY <3>2, <3>4
        <5> QED BY <3>4, <5>1
      <4>2. wordId = Given(text, w - 1)
        BY <1>11, <3>1
      <4> QED BY <3>2, <3>4, <4>1, <4>2 DEF Given
    <3>7. idx + 1 \in 1..MaxTokens
      BY <1>5, <1>6
    <3>8. Numbered(mask[row], labels, text, w - 1)
      BY <1>11, <3>1
    <3>9. mask[row] \in [1..MaxTokens -> Nat]
      BY <1>2
    <3>10. Numbered(IF text[w] > 0
                      THEN [mask[row] EXCEPT
                              ![StartOf(labels, text, w) + 1] = w - Lead(text)]
                      ELSE mask[row], labels, text, w)
      BY <1>2, <1>6, <3>2, <3>3, <3>7, <3>8, <3>9, NumberNext
    <3>11. mask'[row] = IF text[w] > 0
                          THEN [mask[row] EXCEPT
                                  ![StartOf(labels, text, w) + 1] = w - Lead(text)]
                          ELSE mask[row]
      BY <1>10, <3>2, <3>6
    <3> QED BY <3>1, <3>5, <3>10, <3>11
  <2> QED BY <2>1, <2>2, <2>3
<1>13. AtElement'
  BY <1>1, <1>4, <1>5, <1>9, <1>12 DEF AtElement, p, text
<1>14. RowsNumbered'
  <2> SUFFICES ASSUME NEW s \in DOMAIN texts
               PROVE  Numbered(mask'[s], labels, texts[s], Counted(s)')
    BY <1>1 DEF RowsNumbered
  <2>1. CASE s = row
    <3>1. Counted(s)' = WordsAt(elem + 1)
      BY <1>1, <1>2, <2>1 DEF Counted
    <3> QED BY <1>12, <2>1, <3>1 DEF text
  <2>2. CASE s # row
    <3>1. Counted(s)' = Counted(s)
      BY <1>1, <2>2 DEF Counted
    <3> QED BY <1>2, <1>10, <2>2, <3>1 DEF RowsNumbered
  <2> QED BY <2>1, <2>2
<1>15. RowsLaid'
  BY <1>1, <1>10, <1>13, <1>14 DEF RowsLaid, MaxTokens
<1> QED BY <1>1, <1>10, <1>15 DEF RowsInv

\* A row that is laid out is whole.
LEMMA EndRowLays == RowsInv /\ EndRow => RowsInv'
<1> SUFFICES ASSUME RowsInv, EndRow PROVE RowsInv'
  OBVIOUS
<1> DEFINE p == PromptOf(labels, texts[row])
<1>1. /\ stage = "flatten" /\ row <= Len(texts) /\ elem > Len(p)
      /\ wordId \in Nat /\ RowsLaid
      /\ row' = row + 1 /\ elem' = 1 /\ idx' = 1 /\ wordId' = 0
      /\ attention' = Append(attention, Min({idx + 1, MaxTokens}))
      /\ UNCHANGED <<stage, texts, labels, mask, spanIdx>>
  BY DEF RowsInv, EndRow
<1>2. /\ texts \in Batches /\ labels \in LabelSubwords
      /\ row \in 1..(Len(texts) + 1) /\ AtElement /\ RowsNumbered
      /\ mask \in [DOMAIN texts -> [1..MaxTokens -> Nat]]
      /\ attention \in Seq(Nat) /\ Len(attention) = row - 1
      /\ \A s \in 1..(row - 1) : attention[s] = RowLength(labels, texts[s])
  BY <1>1 DEF RowsLaid
<1>3. /\ Len(texts) \in Nat /\ DOMAIN texts = 1..Len(texts)
      /\ \A s \in DOMAIN texts : texts[s] \in Seq(Nat) /\ Len(texts[s]) \in Nat
  BY <1>2, Arguments, LenProperties
<1>4. row \in DOMAIN texts /\ row + 1 \in 1..(Len(texts) + 1)
  BY <1>1, <1>2, <1>3
<1>5. p \in Seq(Nat) /\ Len(p) = Markers + Len(texts[row]) /\ Len(p) \in Nat
  BY <1>2, <1>3, <1>4, PromptShape, LenProperties
<1>6. elem = Len(p) + 1 /\ elem - 1 = Len(p)
  <2>1. elem \in 1..(Len(p) + 1)
    BY <1>2 DEF AtElement
  <2> QED BY <1>1, <1>5, <2>1
<1>7. idx = 1 + SubwordsTo(p)[Len(p)] /\ SubwordsTo(p)[Len(p)] \in Nat
  BY <1>2, <1>5, <1>6, SubwordsToRec DEF AtElement
<1>8. RowLength(labels, texts[row]) = idx + 1
  BY <1>7 DEF RowLength, Total
<1>9. /\ RowLength(labels, texts[row]) <= MaxTokens /\ MaxTokens \in Nat
      /\ RowLength(labels, texts[row]) \in Nat
  BY <1>2, <1>3, <1>4, LongestRow, PromptShape DEF MaxTokens
<1> HIDE DEF p
<1>10. Min({idx + 1, MaxTokens}) = RowLength(labels, texts[row])
  BY <1>7, <1>8, <1>9, MinOfTwo
<1>11. /\ attention' \in Seq(Nat) /\ Len(attention') = row' - 1
       /\ \A s \in 1..(row' - 1) : attention'[s] = RowLength(labels, texts[s])
  <2>1. attention' = Append(attention, RowLength(labels, texts[row]))
    BY <1>1, <1>10
  <2>2. row' - 1 = row /\ row \in Nat
    BY <1>1, <1>2, <1>3
  <2>3. \A s \in 1..row : s = row \/ s \in 1..(row - 1)
    BY <2>2
  <2> QED BY <1>2, <1>9, <2>1, <2>2, <2>3, AppendProperties
<1>12. WordsAt(1) = 0 /\ WordsAt(elem) = Len(texts[row])
  <2>1. Markers \in Nat /\ Len(texts[row]) \in Nat
    BY <1>3, <1>4, Arguments
  <2> QED BY <1>5, <1>6, <2>1 DEF WordsAt
<1>13. \A s \in DOMAIN texts : Counted(s)' = Counted(s)
  <2> SUFFICES ASSUME NEW s \in DOMAIN texts PROVE Counted(s)' = Counted(s)
    OBVIOUS
  <2>1. s \in Nat /\ row \in Nat
    BY <1>2, <1>3
  <2>2. CASE s < row
    BY <1>1, <2>1, <2>2 DEF Counted
  <2>3. CASE s = row
    BY <1>1, <1>12, <2>1, <2>3 DEF Counted
  <2>4. CASE s > row
    BY <1>1, <1>12, <2>1, <2>4 DEF Counted
  <2> QED BY <2>1, <2>2, <2>3, <2>4
<1>14. RowsNumbered'
  BY <1>1, <1>2, <1>13 DEF RowsNumbered
<1>15. row' <= Len(texts') => AtElement'
  <2> SUFFICES ASSUME row + 1 <= Len(texts) PROVE AtElement'
    BY <1>1
  <2> DEFINE q == PromptOf(labels, texts[row + 1])
  <2>1. q \in Seq(Nat) /\ Len(q) \in Nat
    BY <1>2, <1>3, <1>4, PromptShape, LenProperties
  <2>2. SubwordsTo(q)[0] = 0 /\ 1 \in 1..(Len(q) + 1) /\ 1 - 1 = 0 /\ 1 + 0 = 1
    BY <2>1, SubwordsToRec
  <2>3. Given(texts[row + 1], 0) = 0
    <3>1. row + 1 \in DOMAIN texts
      BY <1>3, <1>4
    <3>2. Lead(texts[row + 1]) \in Nat
      BY <1>3, <3>1, LeadProperties
    <3> QED BY <3>2 DEF Given
  <2> QED BY <1>1, <1>12, <2>2, <2>3 DEF AtElement
<1>16. RowsLaid'
  BY <1>1, <1>2, <1>4, <1>11, <1>14, <1>15 DEF RowsLaid, MaxTokens
<1> QED BY <1>1, <1>16 DEF RowsInv

\* Every step of a call keeps the rows as they are to be.
LEMMA RowsInvNext == RowsInv /\ [PromptNext]_<<vars, promptVars>> => RowsInv'
<1> SUFFICES ASSUME RowsInv, [PromptNext]_<<vars, promptVars>> PROVE RowsInv'
  OBVIOUS
<1>1. CASE Tokenize
  BY <1>1, TokenizeLays
<1>2. CASE WriteElement
  BY <1>2, WriteElementLays
<1>3. CASE EndRow
  BY <1>3, EndRowLays
<1>4. CASE NoWords \/ RunSession \/ RunEndsCall
  BY <1>4 DEF NoWords, RunSession, RunEndsCall, Drop, RowsInv, RowsDropped
<1>5. CASE MakeSpanTensors \/ UNCHANGED <<vars, promptVars>>
  <2>1. /\ UNCHANGED <<texts, labels, row, elem, idx, wordId, mask, attention>>
        /\ (stage = "flatten" /\ stage' = "run") \/ stage' = stage
    BY <1>5 DEF MakeSpanTensors, promptVars
  <2>2. RowsLaid => RowsLaid'
    BY <2>1 DEF RowsLaid, RowsNumbered, Counted, AtElement, MaxTokens
  <2>3. RowsDropped => RowsDropped'
    BY <2>1 DEF RowsDropped
  <2>4. \A n : RealSpans(n)' = RealSpans(n)
    BY <2>1 DEF RealSpans, BatchWords
  <2>5. CASE MakeSpanTensors
    <3>1. /\ stage' = "run" /\ row > Len(texts) /\ stage = "flatten"
          /\ spanIdx' = [s \in DOMAIN texts |-> RealSpans(Len(texts[s]))]
      BY <2>5 DEF MakeSpanTensors
    <3>2. SpansTold'
      BY <2>1, <2>4, <3>1 DEF SpansTold
    <3> QED BY <2>1, <2>2, <3>1, <3>2 DEF RowsInv
  <2>6. CASE UNCHANGED <<vars, promptVars>>
    <3>1. SpansTold => SpansTold'
      BY <2>4, <2>6 DEF SpansTold, promptVars
    <3>2. stage' = stage
      BY <2>6 DEF promptVars
    <3> QED BY <2>1, <2>2, <2>3, <3>1, <3>2 DEF RowsInv
  <2> QED BY <1>5, <2>5, <2>6
<1>6. CASE Decode
  <2>1. /\ stage = "decode" /\ stage' \in {"idle", "decode"}
        /\ UNCHANGED <<row, elem, idx, wordId, attention>>
    BY <1>6 DEF Decode
  <2> QED BY <2>1 DEF RowsInv, RowsDropped
<1> QED BY <1>1, <1>2, <1>3, <1>4, <1>5, <1>6 DEF PromptNext

-----------------------------------------------------------------------------
(***************************************************************************)
(* What the session is told.                                               *)
(***************************************************************************)

\* Every word of a text is laid out before the end of the longest row.
LEMMA StartInside ==
  ASSUME NEW ls \in LabelSubwords, NEW ts \in Batches, NEW s \in DOMAIN ts,
         NEW w \in 1..Len(ts[s]), ts[s][w] > 0
  PROVE  StartOf(ls, ts[s], w) + 1 \in 1..MaxTokensOf(ls, ts)
<1> DEFINE text == ts[s]
           st == SubwordsTo(text)
           L == Len(text)
           M == MaxTokensOf(ls, ts)
           o == Offset(ls)
<1>1. text \in Seq(Nat) /\ L \in Nat /\ \A v \in 1..L : text[v] \in Nat
  BY Arguments, LenProperties, ElementOfSeq
<1>2. RowLength(ls, text) <= M /\ M \in Nat
  BY LongestRow
<1>3. RowLength(ls, text) = 1 + o + st[L]
  BY <1>1, PromptShape DEF Total
<1>4. /\ st \in [0..L -> Nat]
      /\ \A v \in 1..L : st[v] = st[v - 1] + text[v]
  BY <1>1, SubwordsToRec
<1>5. o \in Nat
  BY EntitiesShape
<1>6. /\ w \in 1..L /\ w \in 0..L /\ w - 1 \in 0..L /\ L \in 0..L /\ w <= L
      /\ text[w] > 0
  BY <1>1
<1>7. st[w] <= st[L]
  BY <1>1, <1>6, SumsGrow
<1>8. StartOf(ls, text, w) = o + st[w - 1]
  BY DEF StartOf
<1> HIDE DEF text, st, L, M, o
<1>9. /\ st[w] \in Nat /\ st[w - 1] \in Nat /\ st[L] \in Nat /\ text[w] \in Nat
      /\ st[w] = st[w - 1] + text[w]
  BY <1>1, <1>4, <1>6
<1>10. 1 + o + st[L] <= M
  BY <1>2, <1>3
<1>11. \A a, b, c, d, f, m \in Nat :
         b = a + c /\ c > 0 /\ b <= d /\ 1 + f + d <= m => (f + a) + 1 \in 1..m
  OBVIOUS
<1>12. (o + st[w - 1]) + 1 \in 1..M
  BY <1>2, <1>5, <1>6, <1>7, <1>9, <1>10, <1>11, Zenon
<1>13. StartOf(ls, text, w) + 1 \in 1..M
  BY <1>8, <1>12
<1> QED BY <1>13 DEF text, M

\* No text has more words than the batch's longest.
LEMMA LongestText ==
  ASSUME NEW ts \in Batches
  PROVE  /\ Max({Len(ts[s]) : s \in DOMAIN ts}) \in Nat
         /\ \A s \in DOMAIN ts : Len(ts[s]) <= Max({Len(ts[x]) : x \in DOMAIN ts})
<1> DEFINE f == [s \in 1..Len(ts) |-> Len(ts[s])]
<1>1. /\ Len(ts) \in Nat \ {0} /\ DOMAIN ts = 1..Len(ts)
      /\ \A s \in DOMAIN ts : ts[s] \in Seq(Nat) /\ Len(ts[s]) \in Nat
  BY Arguments, LenProperties
<1>2. f \in [1..Len(ts) -> Nat]
  BY <1>1
<1>3. {Len(ts[s]) : s \in DOMAIN ts} = {f[s] : s \in 1..Len(ts)}
  BY <1>1
<1>4. \A s \in DOMAIN ts : f[s] = Len(ts[s])
  BY <1>1
<1> HIDE DEF f
<1>5. /\ Max({f[s] : s \in 1..Len(ts)}) \in Nat
      /\ \A s \in 1..Len(ts) : f[s] <= Max({f[y] : y \in 1..Len(ts)})
  BY <1>1, <1>2, MaxOfImage, Zenon
<1> QED BY <1>1, <1>3, <1>4, <1>5, Zenon

\* The cap on the dims of a text's spans excludes none.
LEMMA DimInside ==
  ASSUME NEW a \in Nat, NEW b \in Nat, NEW n \in Nat, NEW width \in Nat \ {0},
         a < n, b < width
  PROVE  a * width + b < n * width
<1> DEFINE d == n - a - 1
<1>1. d \in Nat /\ n = (a + 1) + d
  OBVIOUS
<1> HIDE DEF d
<1>2. d * width \in Nat /\ a * width \in Nat
  BY <1>1
<1>3. ((a + 1) + d) * width = (a * width + width) + d * width
  BY <1>1
<1>4. n * width = (a * width + width) + d * width
  BY <1>1, <1>3
<1> QED BY <1>2, <1>4

\* The real spans of a text of NumWords words are the places of its cells.
LEMMA CellPlaces ==
  ASSUME texts \in Batches, NEW s \in DOMAIN texts, Len(texts[s]) = NumWords
  PROVE  RealSpans(NumWords) =
           {<<e.start * MaxWidth + (e.end - e.start - 1), e.start, e.end - 1>> :
              e \in Cells(Asked)}
<1> DEFINE place(e) ==
             <<e.start * MaxWidth + (e.end - e.start - 1), e.start, e.end - 1>>
           pairs == {q \in (0..(NumWords - 1)) \X (0..(MaxWidth - 1)) :
                       /\ q[2] < NumWords - q[1]
                       /\ q[1] * MaxWidth + q[2] < BatchWords * MaxWidth}
<1>1. /\ NumWords \in Nat /\ MaxWidth \in Nat \ {0} /\ NumLabels \in Nat \ {0}
      /\ MaxScore \in Nat \ {0}
  BY SizesAssumption, PromptAssumption
<1>2. BatchWords \in Nat /\ NumWords <= BatchWords
  BY LongestText DEF BatchWords
<1>3. RealSpans(NumWords) = {<<p[1] * MaxWidth + p[2], p[1], p[1] + p[2]>> : p \in pairs}
  BY DEF RealSpans
<1>4. ASSUME NEW p \in pairs
      PROVE  \E e \in Cells(Asked) : <<p[1] * MaxWidth + p[2], p[1], p[1] + p[2]>> = place(e)
  <2> DEFINE e == [start |-> p[1], end |-> p[1] + p[2] + 1, label |-> 1, score |-> 1]
  <2>1. /\ p[1] \in Nat /\ p[2] \in Nat /\ p[1] <= NumWords
        /\ p[2] < MaxWidth /\ p[1] + p[2] + 1 <= NumWords
    BY <1>1
  <2>2. /\ p[1] \in 0..NumWords /\ p[1] + p[2] + 1 \in 1..NumWords
        /\ 1 \in 1..NumLabels /\ 1 \in 1..MaxScore
    BY <1>1, <2>1
  <2>3. e \in Entity
    BY <2>2 DEF Entity
  <2>4. e.start < BatchWords /\ e.start < e.end /\ e.end <= e.start + MaxWidth
    BY <1>1, <1>2, <2>1
  <2>5. e \in Cells(Asked)
    BY <2>3, <2>4 DEF Cells, Asked
  <2>6. /\ e.end - e.start - 1 = p[2] /\ e.end - 1 = p[1] + p[2] /\ e.start = p[1]
    BY <2>1
  <2> HIDE DEF e
  <2> QED BY <2>5, <2>6
<1>5. ASSUME NEW e \in Cells(Asked)
      PROVE  \E p \in pairs : place(e) = <<p[1] * MaxWidth + p[2], p[1], p[1] + p[2]>>
  <2> DEFINE i == e.start
             j == e.end - e.start - 1
  <2>1. /\ e.start \in 0..NumWords /\ e.end \in 1..NumWords
        /\ e.start < e.end /\ e.end <= e.start + MaxWidth
    BY DEF Cells, Asked, Entity
  <2>2. /\ i \in 0..(NumWords - 1) /\ j \in 0..(MaxWidth - 1)
        /\ i \in Nat /\ j \in Nat /\ i < BatchWords /\ j < MaxWidth
        /\ j < NumWords - i /\ i + j = e.end - 1
    BY <1>1, <1>2, <2>1
  <2> HIDE DEF i, j
  <2>3. i * MaxWidth + j < BatchWords * MaxWidth
    BY <1>1, <1>2, <2>2, DimInside
  <2>4. <<i, j>> \in pairs
    BY <2>2, <2>3
  <2>5. place(e) = <<i * MaxWidth + j, i, i + j>>
    BY <2>2 DEF i, j
  <2>6. <<i, j>>[1] = i /\ <<i, j>>[2] = j
    OBVIOUS
  <2> HIDE DEF pairs, place
  <2> QED BY <2>4, <2>5, <2>6
<1> HIDE DEF pairs
<1> QED BY <1>3, <1>4, <1>5

\* What the invariant says when the session runs.
LEMMA RowsTell == RowsInv => PromptTellsWords
<1> SUFFICES ASSUME RowsInv, stage = "run"
             PROVE  MaskNumbersWords /\ RowsWhole /\ CellsReal
  BY DEF PromptTellsWords
<1>1. RowsLaid /\ SpansTold
  BY DEF RowsInv
<1>2. /\ texts \in Batches /\ labels \in LabelSubwords
      /\ row \in 1..(Len(texts) + 1) /\ row > Len(texts) /\ RowsNumbered
      /\ mask \in [DOMAIN texts -> [1..MaxTokens -> Nat]]
      /\ \A s \in 1..(row - 1) : attention[s] = RowLength(labels, texts[s])
      /\ spanIdx = [s \in DOMAIN texts |-> RealSpans(Len(texts[s]))]
  BY <1>1 DEF RowsLaid, SpansTold
<1>3. /\ Len(texts) \in Nat /\ DOMAIN texts = 1..Len(texts)
      /\ \A s \in DOMAIN texts : /\ texts[s] \in Seq(Nat)
                                 /\ DOMAIN texts[s] = 1..Len(texts[s])
                                 /\ Len(texts[s]) \in Nat
  BY <1>2, Arguments, LenProperties
<1>4. \A s \in DOMAIN texts : s < row /\ s \in 1..(row - 1)
  BY <1>2, <1>3
<1>5. ASSUME NEW s \in DOMAIN texts
      PROVE  {<<p, mask[s][p]>> : p \in {q \in 1..MaxTokens : mask[s][q] # 0}} =
             {<<FirstSubword(s, w) + 1, w - Lead(texts[s])>> :
                w \in {v \in DOMAIN texts[s] : texts[s][v] > 0}}
  <2> DEFINE text == texts[s]
             cells == mask[s]
             words == {v \in DOMAIN text : text[v] > 0}
             places == {q \in 1..MaxTokens : cells[q] # 0}
  <2>1. Counted(s) = Len(text)
    BY <1>4 DEF Counted
  <2>2. Numbered(cells, labels, text, Len(text))
    BY <1>2, <2>1 DEF RowsNumbered
  <2>3. cells \in [1..MaxTokens -> Nat] /\ DOMAIN text = 1..Len(text)
    BY <1>2, <1>3
  <2>4. \A w \in words : FirstSubword(s, w) = StartOf(labels, text, w)
    BY DEF FirstSubword, StartOf, TextOffset, Offset
  <2>5. \A w \in words : FirstSubword(s, w) + 1 \in 1..MaxTokens
    BY <1>2, <1>3, <2>4, StartInside DEF MaxTokens
  <2>6. \A w \in words : /\ cells[FirstSubword(s, w) + 1] = w - Lead(text)
                        /\ w - Lead(text) # 0
    <3>1. Lead(text) \in Nat /\ \A w \in 1..Lead(text) : text[w] = 0
      BY <1>3, LeadProperties
    <3>2. \A w \in words : w \notin 1..Lead(text) /\ w \in Nat /\ w >= 1
      BY <2>3, <3>1
    <3>3. \A w \in words : w - Lead(text) # 0
      BY <3>1, <3>2
    <3> QED BY <2>2, <2>3, <2>4, <3>3 DEF Numbered
  <2>7. \A q \in places : \E w \in words : q = FirstSubword(s, w) + 1
    <3> SUFFICES ASSUME NEW q \in places
                 PROVE  \E w \in words : q = FirstSubword(s, w) + 1
      OBVIOUS
    <3>1. q \in DOMAIN cells /\ cells[q] # 0
      BY <2>3
    <3>2. PICK w \in 1..Len(text) : text[w] > 0 /\ q = StartOf(labels, text, w) + 1
      BY <2>2, <3>1 DEF Numbered
    <3> QED BY <2>3, <2>4, <3>2
  <2>8. \A w \in words : FirstSubword(s, w) + 1 \in places
    BY <2>5, <2>6
  <2> HIDE DEF words, places
  <2>9. \A q \in places : \E w \in words :
          <<q, cells[q]>> = <<FirstSubword(s, w) + 1, w - Lead(text)>>
    BY <2>6, <2>7
  <2>10. \A w \in words : \E q \in places :
           <<q, cells[q]>> = <<FirstSubword(s, w) + 1, w - Lead(text)>>
    BY <2>6, <2>8
  <2>11. {<<q, cells[q]>> : q \in places} =
         {<<FirstSubword(s, w) + 1, w - Lead(text)>> : w \in words}
    BY <2>9, <2>10
  <2> QED BY <2>11 DEF words, places
<1>6. MaskNumbersWords
  BY <1>5 DEF MaskNumbersWords
<1>7. RowsWhole
  BY <1>2, <1>4 DEF RowsWhole
<1>8. CellsReal
  BY <1>2, CellPlaces DEF CellsReal
<1> QED BY <1>6, <1>7, <1>8

\* Whatever words have no subword and however the rows are padded, the mask has
\* each word's number where it starts, counted from the first word that has a
\* subword, no row is cut, and the spans marked as real are those decode_spans
\* reads of an answer in the shape that was asked for.
THEOREM PromptTellsWordsAlways == PromptSpec => []PromptTellsWords
BY RowsInvInit, RowsInvNext, RowsTell, PTL DEF PromptSpec

=============================================================================
