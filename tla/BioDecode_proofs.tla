--------------------------- MODULE BioDecode_proofs ---------------------------
(***************************************************************************)
(* Proofs about BioDecode, for every set of categories, every threshold    *)
(* and every length of a row.                                              *)
(*                                                                         *)
(* RunInv says what the open span and the entities are in terms of the     *)
(* tokens read so far: a Stretch each, the open one ending at the last     *)
(* token.  FoundInv adds that every confident run that is over is there.   *)
(***************************************************************************)
EXTENDS BioDecode, TLAPS

\* A run as far as it has been read: complete on the left.
Stretch(s) ==
  /\ s.start \in DOMAIN tokens /\ s.end \in DOMAIN tokens /\ s.start <= s.end
  /\ IsTagged(s.start) /\ ~Joins(s.start)
  /\ \A i \in (s.start + 1)..s.end : Joins(i)
  /\ \A i \in s.start..s.end :
       tokens[i].category = s.category /\ s.low <= tokens[i].score
  /\ \E i \in s.start..s.end : tokens[i].score = s.low

\* An entity: a stretch that is over, and confident.
Closed(s) ==
  /\ Stretch(s) /\ Threshold <= s.low
  /\ phase = "decode" => s.end < Len(tokens)
  /\ s.end + 1 \in DOMAIN tokens => ~Joins(s.end + 1)

OpenInv ==
  /\ \A s, t \in current : s = t
  /\ phase = "done" => current = {}
  /\ \A s \in current : Stretch(s) /\ s.end = Len(tokens)
  /\ \A s \in current : \A n \in DOMAIN out : out[n].end < s.start
  /\ phase = "decode" /\ tokens # <<>> /\ IsTagged(Len(tokens)) => current # {}

RunInv ==
  /\ TypeOK
  /\ OpenInv
  /\ \A n \in DOMAIN out : Closed(out[n])
  /\ EntitiesInOrder

-----------------------------------------------------------------------------
(***************************************************************************)
(* Lemmas about tokens, reading and closing.                               *)
(***************************************************************************)

LEMMA TokenFields == ASSUME NEW t \in Tagged \cup Blank
                     PROVE  /\ t.kind \in {"begin", "inside"} <=> t \in Tagged
                            /\ t \in Tagged => /\ t.category \in Categories
                                               /\ t.score \in 1..MaxScore /\ t.score \in Nat
BY SizesAssumption DEF Tagged, Blank

LEMMA SpanFields == ASSUME NEW s \in Span
                    PROVE  /\ s.category \in Categories
                           /\ s.start \in 1..MaxSeqLen /\ s.end \in 1..MaxSeqLen
                           /\ s.low \in 1..MaxScore
                           /\ s.start \in Nat /\ s.end \in Nat /\ s.low \in Nat
BY SizesAssumption DEF Span

\* Reading keeps what was read.
LEMMA ReadKeeps ==
  ASSUME TypeOK, NEW tok \in Tagged \cup Blank, Read(tok)
  PROVE  /\ phase = "decode" /\ phase' = "decode"
         /\ tokens' \in Seq(Tagged \cup Blank)
         /\ Len(tokens) \in Nat /\ Len(tokens') = Len(tokens) + 1
         /\ Len(tokens) + 1 <= MaxSeqLen
         /\ DOMAIN tokens = 1..Len(tokens) /\ DOMAIN tokens' = 1..(Len(tokens) + 1)
         /\ \A i \in DOMAIN tokens : tokens'[i] = tokens[i]
         /\ tokens'[Len(tokens) + 1] = tok
BY SizesAssumption DEF TypeOK, Read

LEMMA JoinsKept ==
  ASSUME TypeOK, NEW tok \in Tagged \cup Blank, Read(tok), NEW i \in DOMAIN tokens
  PROVE  i \in DOMAIN tokens' /\ (Joins(i)' <=> Joins(i)) /\ (IsTagged(i)' <=> IsTagged(i))
<1>1. i \in DOMAIN tokens' /\ tokens'[i] = tokens[i]
  BY ReadKeeps
<1>2. i - 1 \in DOMAIN tokens' <=> i - 1 \in DOMAIN tokens
  BY ReadKeeps
<1>3. i - 1 \in DOMAIN tokens => tokens'[i - 1] = tokens[i - 1]
  BY ReadKeeps
<1> QED BY <1>1, <1>2, <1>3 DEF Joins, IsTagged

LEMMA StretchKept ==
  ASSUME TypeOK, NEW tok \in Tagged \cup Blank, Read(tok), NEW s \in Span, Stretch(s)
  PROVE  Stretch(s)'
<1> USE DEF Stretch
<1>1. s.start \in Nat /\ s.end \in Nat
  BY SpanFields
<1>2. \A i \in s.start..s.end :
        i \in DOMAIN tokens /\ i \in DOMAIN tokens' /\ tokens'[i] = tokens[i]
  BY <1>1, ReadKeeps
<1>3. s.start \in s.start..s.end /\ s.end \in s.start..s.end
  BY <1>1
<1>4. IsTagged(s.start)' /\ ~Joins(s.start)'
  BY JoinsKept
<1>5. \A i \in (s.start + 1)..s.end : Joins(i)'
  <2> TAKE i \in (s.start + 1)..s.end
  <2>1. i \in s.start..s.end /\ Joins(i)
    BY <1>1
  <2> QED BY <1>2, <2>1, JoinsKept
<1> QED BY <1>2, <1>3, <1>4, <1>5

\* Closing the open span adds it if it is confident, and nothing else.
LEMMA FlushedAdds ==
  ASSUME RunInv
  PROVE  /\ Flushed \in Seq(Span)
         /\ \A n \in DOMAIN out : n \in DOMAIN Flushed /\ Flushed[n] = out[n]
         /\ \A n \in DOMAIN Flushed :
              \/ n \in DOMAIN out
              \/ /\ Flushed[n] \in current /\ Threshold <= Flushed[n].low
                 /\ \A m \in DOMAIN Flushed : m <= n
         /\ \A s \in current : Threshold <= s.low =>
              \E n \in DOMAIN Flushed : Flushed[n] = s
<1>1. out \in Seq(Span)
  BY DEF RunInv, TypeOK
<1>2. CASE \A s \in current : ~(Threshold <= s.low)
  BY <1>1, <1>2 DEF Flushed
<1>3. CASE \E s \in current : Threshold <= s.low
  <2>1. PICK s \in current : Threshold <= s.low
    BY <1>3
  <2>2. current = {s} /\ s \in Span
    BY <2>1 DEF RunInv, OpenInv, TypeOK
  <2>3. Flushed = Append(out, s)
    BY <1>3, <2>2 DEF Flushed
  <2>4. /\ Flushed \in Seq(Span) /\ DOMAIN Flushed = 1..(Len(out) + 1)
        /\ DOMAIN out = 1..Len(out) /\ Len(out) \in Nat
        /\ Flushed[Len(out) + 1] = s
        /\ \A n \in DOMAIN out : Flushed[n] = out[n]
    BY <1>1, <2>2, <2>3
  <2> QED BY <2>1, <2>2, <2>4
<1> QED BY <1>2, <1>3

LEMMA FlushedInOrder ==
  ASSUME RunInv, NEW m \in DOMAIN Flushed, NEW n \in DOMAIN Flushed, m < n
  PROVE  Flushed[m].end < Flushed[n].start
<1>1. m \in Nat /\ n \in Nat
  BY FlushedAdds
<1>2. m \in DOMAIN out /\ Flushed[m] = out[m]
  BY <1>1, FlushedAdds
<1>3. CASE n \in DOMAIN out
  BY <1>2, <1>3, FlushedAdds DEF RunInv, EntitiesInOrder
<1>4. CASE n \notin DOMAIN out
  BY <1>2, <1>4, FlushedAdds DEF RunInv, OpenInv
<1> QED BY <1>3, <1>4

\* An entity stays what it is, unless the token read goes on with it.
LEMMA ClosedKept ==
  ASSUME TypeOK, NEW tok \in Tagged \cup Blank, Read(tok), NEW s \in Span,
         Stretch(s), Threshold <= s.low,
         s.end + 1 \in DOMAIN tokens => ~Joins(s.end + 1),
         s.end = Len(tokens) => ~Joins(Len(tokens))'
  PROVE  Closed(s)' /\ s.end < Len(tokens) + 1
<1>1. Stretch(s)' /\ s.end \in DOMAIN tokens /\ s.end \in Nat
  BY StretchKept, SpanFields DEF Stretch
<1>2. s.end + 1 \in DOMAIN tokens' => ~Joins(s.end + 1)'
  <2>1. CASE s.end = Len(tokens)
    BY <2>1, <1>1, ReadKeeps DEF Joins, IsTagged
  <2>2. CASE s.end # Len(tokens)
    <3>1. s.end + 1 \in DOMAIN tokens
      BY <1>1, <2>2, ReadKeeps
    <3> QED BY <3>1, JoinsKept
  <2> QED BY <2>1, <2>2
<1>3. s.end < Len(tokens) + 1 /\ Len(tokens') = Len(tokens) + 1
  BY <1>1, ReadKeeps
<1> QED BY <1>1, <1>2, <1>3 DEF Closed

\* What is closed by reading a token that does not join.
LEMMA ReadCloses ==
  ASSUME RunInv, NEW tok \in Tagged \cup Blank, Read(tok), out' = Flushed,
         ~Joins(Len(tokens))'
  PROVE  /\ \A n \in DOMAIN out' : Closed(out[n])' /\ out'[n].end < Len(tokens) + 1
         /\ EntitiesInOrder' /\ out' \in Seq(Span)
<1>1. ASSUME NEW n \in DOMAIN out'
      PROVE  Closed(out[n])' /\ out'[n].end < Len(tokens) + 1
  <2>1. PICK s \in Span : s = out'[n]
    BY FlushedAdds
  <2>2. TypeOK /\ Len(tokens) \in Nat /\ DOMAIN tokens = 1..Len(tokens)
    BY ReadKeeps DEF RunInv
  <2>3. Stretch(s) /\ Threshold <= s.low /\ (s.end + 1 \in DOMAIN tokens => ~Joins(s.end + 1))
    <3>1. CASE n \in DOMAIN out
      BY <2>1, <3>1, FlushedAdds DEF RunInv, Closed
    <3>2. CASE n \notin DOMAIN out
      <4>1. s \in current /\ Threshold <= s.low
        BY <2>1, <3>2, FlushedAdds
      <4>2. Stretch(s) /\ s.end = Len(tokens)
        BY <4>1 DEF RunInv, OpenInv
      <4> QED BY <2>2, <4>1, <4>2
    <3> QED BY <3>1, <3>2
  <2>4. Closed(s)' /\ s.end < Len(tokens) + 1
    BY <2>2, <2>3, ClosedKept
  <2> QED BY <2>1, <2>4 DEF Closed, Stretch
<1>2. EntitiesInOrder' /\ out' \in Seq(Span)
  BY FlushedInOrder, FlushedAdds DEF EntitiesInOrder
<1> QED BY <1>1, <1>2

-----------------------------------------------------------------------------
(***************************************************************************)
(* RunInv.                                                                 *)
(***************************************************************************)

\* A span opened at the token read.
LEMMA OpensHere ==
  ASSUME RunInv, NEW tok \in Tagged, Read(tok), out' = Flushed,
         current' = {Opened(tok)}, ~Joins(Len(tokens))'
  PROVE  RunInv'
<1>0. PICK here \in Nat : here = Len(tokens) + 1
  BY ReadKeeps DEF RunInv
<1>1. /\ TypeOK /\ tok \in Tagged \cup Blank /\ tok.kind \in {"begin", "inside"}
      /\ tok.category \in Categories /\ tok.score \in 1..MaxScore /\ tok.score \in Nat
  BY TokenFields DEF RunInv
<1>2. /\ phase' = "decode" /\ tokens' \in Seq(Tagged \cup Blank) /\ Len(tokens') = here
      /\ here \in Nat /\ here \in 1..MaxSeqLen /\ here \in DOMAIN tokens'
      /\ tokens'[here] = tok
  BY <1>0, <1>1, ReadKeeps
<1>3. PICK s \in Span : /\ s = Opened(tok) /\ s.category = tok.category
                        /\ s.start = here /\ s.end = here /\ s.low = tok.score
  <2>1. Opened(tok) = [category |-> tok.category, start |-> here, end |-> here,
                       low |-> tok.score]
    BY <1>0 DEF Opened, Here
  <2>2. Opened(tok) \in Span
    BY <1>1, <1>2, <2>1 DEF Span
  <2> QED BY <2>1, <2>2
<1>4. current' = {s}
  BY <1>3
<1>5. Stretch(s)'
  <2>1. \A i \in here..here : i = here
    BY <1>2
  <2>2. here \in here..here /\ (here + 1)..here = {}
    BY <1>2
  <2>3. IsTagged(here)' /\ ~Joins(here)'
    BY <1>1, <1>2 DEF Joins, IsTagged
  <2> QED BY <1>1, <1>2, <1>3, <2>1, <2>2, <2>3 DEF Stretch
<1>6. /\ \A n \in DOMAIN out' : Closed(out[n])' /\ out'[n].end < here
      /\ EntitiesInOrder' /\ out' \in Seq(Span)
  BY <1>0, <1>1, ReadCloses
<1>7. TypeOK'
  BY <1>2, <1>4, <1>6 DEF TypeOK
<1>8. OpenInv'
  <2>1. \A t \in current' : t = s
    BY <1>4
  <2>2. \A t \in current' : Stretch(t)' /\ t.end = Len(tokens)'
    BY <1>2, <1>3, <1>5, <2>1 DEF Stretch
  <2>3. \A t \in current' : \A n \in DOMAIN out' : out'[n].end < t.start
    BY <1>3, <1>6, <2>1
  <2> QED BY <1>2, <1>4, <2>1, <2>2, <2>3 DEF OpenInv
<1> QED BY <1>6, <1>7, <1>8 DEF RunInv

LEMMA RunInvReadBlank == RunInv /\ ReadBlank => RunInv'
<1> SUFFICES ASSUME RunInv, ReadBlank PROVE RunInv'
  OBVIOUS
<1>1. PICK tok \in Blank : Read(tok) /\ out' = Flushed /\ current' = {}
  BY DEF ReadBlank
<1>2. /\ TypeOK /\ tok \in Tagged \cup Blank /\ tok.kind \notin {"begin", "inside"}
  BY DEF RunInv, Blank
<1>3. /\ phase' = "decode" /\ tokens' \in Seq(Tagged \cup Blank)
      /\ Len(tokens') = Len(tokens) + 1 /\ Len(tokens) + 1 <= MaxSeqLen
      /\ tokens'[Len(tokens) + 1] = tok
  BY <1>1, <1>2, ReadKeeps
<1>4. ~IsTagged(Len(tokens))' /\ ~Joins(Len(tokens))'
  BY <1>2, <1>3 DEF Joins, IsTagged
<1>5. /\ \A n \in DOMAIN out' : Closed(out[n])'
      /\ EntitiesInOrder' /\ out' \in Seq(Span)
  BY <1>1, <1>2, <1>4, ReadCloses
<1>6. TypeOK' /\ OpenInv'
  BY <1>1, <1>3, <1>4, <1>5 DEF TypeOK, OpenInv, IsTagged
<1> QED BY <1>5, <1>6 DEF RunInv

LEMMA RunInvReadBegin == RunInv /\ ReadBegin => RunInv'
<1> SUFFICES ASSUME RunInv, ReadBegin PROVE RunInv'
  OBVIOUS
<1>1. PICK tok \in Tagged : /\ tok.kind = "begin" /\ Read(tok)
                            /\ out' = Flushed /\ current' = {Opened(tok)}
  BY DEF ReadBegin
<1>2. tokens'[Len(tokens')] = tok
  BY <1>1, ReadKeeps DEF RunInv
<1>3. ~Joins(Len(tokens))'
  BY <1>1, <1>2 DEF Joins
<1> QED BY <1>1, <1>3, OpensHere

LEMMA RunInvReadStray == RunInv /\ ReadStray => RunInv'
<1> SUFFICES ASSUME RunInv, ReadStray PROVE RunInv'
  OBVIOUS
<1>1. PICK tok \in Tagged : /\ tok.kind = "inside" /\ Read(tok)
                            /\ \A span \in current : ~Continues(span, tok)
                            /\ out' = Flushed /\ current' = {Opened(tok)}
  BY DEF ReadStray
<1>2. /\ tokens'[Len(tokens) + 1] = tok /\ phase = "decode" /\ Len(tokens) \in Nat
      /\ \A i \in DOMAIN tokens : tokens'[i] = tokens[i]
      /\ DOMAIN tokens = 1..Len(tokens)
  BY <1>1, ReadKeeps DEF RunInv
<1>3. SUFFICES ASSUME Joins(Len(tokens))' PROVE FALSE
  BY <1>1, OpensHere
<1>4. /\ tokens # <<>> /\ Len(tokens) \in DOMAIN tokens /\ IsTagged(Len(tokens))
      /\ tokens[Len(tokens)].category = tok.category
  <2>1. Len(tokens') = Len(tokens) + 1 /\ Len(tokens') - 1 = Len(tokens)
    BY <1>1, <1>2, ReadKeeps DEF RunInv
  <2>2. /\ Len(tokens) \in DOMAIN tokens'
        /\ tokens'[Len(tokens)].kind \in {"begin", "inside"}
        /\ tokens'[Len(tokens)].category = tok.category
    BY <1>2, <1>3, <2>1 DEF Joins, IsTagged
  <2>3. Len(tokens) \in DOMAIN tokens /\ tokens # <<>>
    BY <1>1, <1>2, <2>2, ReadKeeps DEF RunInv
  <2> QED BY <1>2, <2>1, <2>2, <2>3 DEF IsTagged
<1>5. PICK s \in current : Stretch(s) /\ s.end = Len(tokens)
  BY <1>2, <1>4 DEF RunInv, OpenInv
<1>6. s.category = tok.category
  <2>1. s.start \in Nat /\ s.end \in Nat /\ s.start <= s.end
    BY <1>5, SpanFields DEF Stretch, RunInv, TypeOK
  <2> QED BY <1>4, <1>5, <2>1 DEF Stretch
<1> QED BY <1>1, <1>5, <1>6 DEF Continues

\* A span extended by the token read.
LEMMA RunInvReadInside == RunInv /\ ReadInside => RunInv'
<1> SUFFICES ASSUME RunInv, ReadInside PROVE RunInv'
  OBVIOUS
<1>1. PICK tok \in Tagged, s \in current :
        /\ tok.kind = "inside" /\ s.category = tok.category /\ Read(tok)
        /\ current' = {Extended(s, tok)} /\ out' = out
  BY DEF ReadInside, Continues
<1>2. /\ TypeOK /\ s \in Span /\ Stretch(s) /\ s.end = Len(tokens)
      /\ tok \in Tagged \cup Blank /\ tok.score \in 1..MaxScore /\ tok.score \in Nat
  BY <1>1, TokenFields DEF RunInv, OpenInv, TypeOK
<1>3. /\ s.category \in Categories /\ s.start \in 1..MaxSeqLen /\ s.start \in Nat
      /\ s.end \in Nat /\ s.low \in 1..MaxScore /\ s.low \in Nat
  BY <1>2, SpanFields
<1>4. PICK here \in Nat : here = Len(tokens) + 1
  BY <1>1, <1>2, ReadKeeps
<1>5. /\ phase' = "decode" /\ tokens' \in Seq(Tagged \cup Blank) /\ Len(tokens') = here
      /\ here \in 1..MaxSeqLen /\ DOMAIN tokens' = 1..here /\ tokens'[here] = tok
      /\ DOMAIN tokens = 1..(here - 1) /\ s.end = here - 1
      /\ \A i \in DOMAIN tokens : tokens'[i] = tokens[i]
  BY <1>1, <1>2, <1>4, ReadKeeps
<1>6. PICK e \in Span :
        /\ current' = {e} /\ e.category = s.category /\ e.start = s.start /\ e.end = here
        /\ e.low \in Nat /\ e.low <= s.low /\ e.low <= tok.score
        /\ e.low = s.low \/ e.low = tok.score
  <2>1. PICK low \in 1..MaxScore :
          /\ low = IF tok.score < s.low THEN tok.score ELSE s.low
          /\ low \in Nat /\ low <= s.low /\ low <= tok.score
          /\ low = s.low \/ low = tok.score
    BY <1>2, <1>3
  <2>2. Extended(s, tok) = [s EXCEPT !.end = here, !.low = low]
    BY <1>4, <2>1 DEF Extended, Here
  <2>3. [s EXCEPT !.end = here, !.low = low] \in Span
    BY <1>2, <1>5, <2>1 DEF Span
  <2>4. /\ [s EXCEPT !.end = here, !.low = low].category = s.category
        /\ [s EXCEPT !.end = here, !.low = low].start = s.start
        /\ [s EXCEPT !.end = here, !.low = low].end = here
        /\ [s EXCEPT !.end = here, !.low = low].low = low
    BY <1>2 DEF Span
  <2> QED BY <1>1, <2>1, <2>2, <2>3, <2>4
<1>7. Stretch(s)'
  BY <1>1, <1>2, StretchKept
<1>8. Stretch(e)'
  <2>1. e.start \in DOMAIN tokens' /\ e.end \in DOMAIN tokens' /\ e.start <= e.end
    BY <1>2, <1>3, <1>5, <1>6 DEF Stretch
  <2>2. Joins(here)'
    <3>1. here - 1 \in DOMAIN tokens' /\ tokens'[here - 1] = tokens[here - 1]
          /\ here - 1 \in s.start..s.end
      BY <1>2, <1>3, <1>5 DEF Stretch
    <3>2. tokens[here - 1].category = tok.category
      BY <1>1, <1>2, <3>1 DEF Stretch
    <3>3. tokens[here - 1].kind \in {"begin", "inside"}
      <4>1. CASE s.start = here - 1
        BY <1>2, <4>1 DEF Stretch, IsTagged
      <4>2. CASE s.start # here - 1
        <5>1. here - 1 \in (s.start + 1)..s.end
          BY <1>3, <1>5, <3>1, <4>2
        <5> QED BY <1>2, <5>1 DEF Stretch, Joins
      <4> QED BY <4>1, <4>2
    <3> QED BY <1>1, <1>5, <3>1, <3>2, <3>3 DEF Joins, IsTagged
  <2>3. \A i \in (e.start + 1)..e.end : i \in (s.start + 1)..s.end \/ i = here
    BY <1>3, <1>5, <1>6
  <2>4. \A i \in e.start..e.end : i \in s.start..s.end \/ i = here
    BY <1>3, <1>5, <1>6
  <2>5. s.start..s.end \subseteq e.start..e.end /\ here \in e.start..e.end
    BY <1>2, <1>3, <1>5, <1>6 DEF Stretch
  <2>6. \A i \in e.start..e.end :
          tokens'[i].category = e.category /\ e.low <= tokens'[i].score
    <3> TAKE i \in e.start..e.end
    <3>1. CASE i = here
      BY <1>1, <1>5, <1>6, <3>1
    <3>2. CASE i \in s.start..s.end
      <4>1. i \in DOMAIN tokens /\ tokens[i] \in Tagged \cup Blank
            /\ tokens'[i] = tokens[i]
        <5>1. i \in DOMAIN tokens
          BY <1>3, <1>5, <3>2
        <5> QED BY <1>2, <1>5, <5>1 DEF TypeOK
      <4>2. tokens[i].category = s.category /\ s.low <= tokens[i].score
        BY <1>2, <3>2 DEF Stretch
      <4>3. tokens[i] \in Tagged
        <5>1. CASE i = s.start
          BY <1>2, <4>1, <5>1, TokenFields DEF Stretch, IsTagged
        <5>2. CASE i # s.start
          <6>1. i \in (s.start + 1)..s.end
            BY <1>3, <3>2, <5>2
          <6> QED BY <1>2, <4>1, <6>1, TokenFields DEF Stretch, Joins
        <5> QED BY <5>1, <5>2
      <4>4. tokens[i].score \in Nat
        BY <4>1, <4>3, TokenFields
      <4> QED BY <1>3, <1>6, <4>1, <4>2, <4>4
    <3> QED BY <2>4, <3>1, <3>2
  <2>7. \E i \in e.start..e.end : tokens'[i].score = e.low
    <3>1. CASE e.low = tok.score
      BY <1>5, <2>5, <3>1
    <3>2. CASE e.low = s.low
      BY <1>7, <2>5, <3>2 DEF Stretch
    <3> QED BY <1>6, <3>1, <3>2
  <2> QED BY <1>6, <1>7, <2>1, <2>2, <2>3, <2>6, <2>7 DEF Stretch
<1>9. \A n \in DOMAIN out' : Closed(out[n])' /\ out'[n].end < e.start
  <2> TAKE n \in DOMAIN out'
  <2>1. PICK o \in Span : o = out[n] /\ n \in DOMAIN out
    BY <1>1, <1>2 DEF TypeOK
  <2>2. Closed(o) /\ o.end < s.start /\ o.end \in Nat /\ phase = "decode"
    BY <1>1, <1>2, <2>1, SpanFields, ReadKeeps DEF RunInv, OpenInv
  <2>3. o.end < Len(tokens)
    BY <1>1, <1>2, <2>2 DEF Closed
  <2>4. Closed(o)'
    BY <1>1, <1>2, <2>2, <2>3, ClosedKept DEF Closed
  <2> QED BY <1>1, <1>6, <2>1, <2>2, <2>4 DEF Closed, Stretch
<1>10. TypeOK' /\ EntitiesInOrder'
  <2>1. current' \in SUBSET Span
    BY <1>6
  <2>2. TypeOK'
    BY <1>1, <1>2, <1>5, <2>1 DEF TypeOK
  <2>3. EntitiesInOrder'
    BY <1>1 DEF RunInv, EntitiesInOrder
  <2> QED BY <2>2, <2>3
<1>11. OpenInv'
  BY <1>5, <1>6, <1>8, <1>9 DEF OpenInv, Stretch
<1> QED BY <1>9, <1>10, <1>11 DEF RunInv

LEMMA RunInvEnd == RunInv /\ EndOfSequence => RunInv'
<1> SUFFICES ASSUME RunInv, EndOfSequence PROVE RunInv'
  OBVIOUS
<1>1. /\ phase = "decode" /\ phase' = "done" /\ tokens' = tokens
      /\ current' = {} /\ out' = Flushed
  BY DEF EndOfSequence
<1>2. TypeOK' /\ OpenInv'
  BY <1>1, FlushedAdds DEF RunInv, TypeOK, OpenInv
<1>3. EntitiesInOrder'
  BY <1>1, FlushedInOrder DEF EntitiesInOrder
<1>4. ASSUME NEW n \in DOMAIN out' PROVE Closed(out[n])'
  <2>1. PICK s \in Span : s = out'[n]
    BY <1>1, FlushedAdds
  <2>2. /\ Stretch(s) /\ Threshold <= s.low
        /\ s.end + 1 \in DOMAIN tokens => ~Joins(s.end + 1)
    <3>1. CASE n \in DOMAIN out
      BY <1>1, <2>1, <3>1, FlushedAdds DEF RunInv, Closed
    <3>2. CASE n \notin DOMAIN out
      <4>1. s \in current /\ Threshold <= s.low
        BY <1>1, <2>1, <3>2, FlushedAdds
      <4>2. Stretch(s) /\ s.end = Len(tokens)
        BY <4>1 DEF RunInv, OpenInv
      <4> QED BY <4>1, <4>2 DEF RunInv, TypeOK
    <3> QED BY <3>1, <3>2
  <2> QED BY <1>1, <2>1, <2>2 DEF Closed, Stretch, Joins, IsTagged
<1> QED BY <1>2, <1>3, <1>4 DEF RunInv

LEMMA RunInvNext == RunInv /\ [Next]_vars => RunInv'
<1>1. RunInv /\ NextSequence => RunInv'
  BY SizesAssumption
     DEF RunInv, NextSequence, TypeOK, OpenInv, EntitiesInOrder
<1>2. RunInv /\ UNCHANGED vars => RunInv'
  BY DEF RunInv, vars, TypeOK, OpenInv, EntitiesInOrder, Closed, Stretch, Joins, IsTagged
<1> QED BY <1>1, <1>2, RunInvReadBlank, RunInvReadBegin, RunInvReadStray,
           RunInvReadInside, RunInvEnd DEF Next

LEMMA RunInvAlways == Spec => []RunInv
<1>1. Init => RunInv
  BY SizesAssumption DEF Init, RunInv, TypeOK, OpenInv, EntitiesInOrder
<1> QED BY <1>1, RunInvNext, PTL DEF Spec

\* The types are preserved by every step.
THEOREM TypeCorrect == Spec => []TypeOK
<1>1. RunInv => TypeOK
  BY DEF RunInv
<1> QED BY <1>1, RunInvAlways, PTL

\* Entities come in the order of the text and do not overlap.
THEOREM EntitiesInOrderAlways == Spec => []EntitiesInOrder
<1>1. RunInv => EntitiesInOrder
  BY DEF RunInv
<1> QED BY <1>1, RunInvAlways, PTL

\* Every entity is a complete run of its category, with the least score of
\* its tokens.
THEOREM EntitiesAreRunsAlways == Spec => []EntitiesAreRuns
<1>1. ASSUME RunInv, NEW n \in DOMAIN out
      PROVE  Run(out[n].start, out[n].end)
  BY <1>1 DEF RunInv, Closed, Stretch, Run
<1>2. RunInv => EntitiesAreRuns
  BY <1>1 DEF RunInv, Closed, Stretch, EntitiesAreRuns
<1> QED BY <1>2, RunInvAlways, PTL

-----------------------------------------------------------------------------
(***************************************************************************)
(* Every confident run is found.                                           *)
(***************************************************************************)

ConfidentRun(a, b) == Run(a, b) /\ \A i \in a..b : Threshold <= tokens[i].score

Found(a, b) == \E n \in DOMAIN out : out[n].start = a /\ out[n].end = b

\* The runs before the last token are over; the last one may go on.
FoundInv ==
  \A a, b \in DOMAIN tokens :
    ConfidentRun(a, b) /\ (phase = "decode" => b < Len(tokens)) => Found(a, b)

\* What is found stays found, and what is open and confident is found when
\* it is closed.
LEMMA FlushedFinds ==
  ASSUME RunInv, FoundInv, phase = "decode", out' = Flushed,
         NEW a \in DOMAIN tokens, NEW b \in DOMAIN tokens, ConfidentRun(a, b)
  PROVE  Found(a, b)'
<1>1. TypeOK /\ Len(tokens) \in Nat /\ DOMAIN tokens = 1..Len(tokens)
  BY DEF RunInv, TypeOK
<1>2. CASE b < Len(tokens)
  <2>1. PICK n \in DOMAIN out : out[n].start = a /\ out[n].end = b
    BY <1>2 DEF FoundInv, Found
  <2> QED BY <2>1, FlushedAdds DEF Found
<1>3. CASE b = Len(tokens)
  <2>1. a <= b /\ a \in Nat /\ b \in Nat /\ IsTagged(a) /\ ~Joins(a)
        /\ \A i \in (a + 1)..b : Joins(i)
    BY <1>1 DEF ConfidentRun, Run
  <2>2. IsTagged(b)
    <3>1. CASE a = b
      BY <2>1, <3>1
    <3>2. CASE a # b
      <4>1. b \in (a + 1)..b
        BY <2>1, <3>2
      <4> QED BY <2>1, <4>1 DEF Joins, IsTagged
    <3> QED BY <3>1, <3>2
  <2>3. PICK s \in current : Stretch(s) /\ s.end = b
    BY <1>1, <1>3, <2>2 DEF RunInv, OpenInv
  <2>4. s \in Span /\ s.start \in Nat /\ s.start <= b /\ ~Joins(s.start)
        /\ \A i \in (s.start + 1)..b : Joins(i)
    BY <1>1, <2>3, SpanFields DEF Stretch, TypeOK
  <2>5. s.start = a
    <3>1. CASE s.start < a
      <4>1. a \in (s.start + 1)..b
        BY <2>1, <2>4, <3>1
      <4> QED BY <2>1, <2>4, <4>1
    <3>2. CASE a < s.start
      <4>1. s.start \in (a + 1)..b
        BY <2>1, <2>4, <3>2
      <4> QED BY <2>1, <2>4, <4>1
    <3> QED BY <2>1, <2>4, <3>1, <3>2
  <2>6. Threshold <= s.low
    BY <2>3, <2>5 DEF Stretch, ConfidentRun
  <2>7. PICK n \in DOMAIN Flushed : Flushed[n] = s
    BY <2>6, FlushedAdds
  <2> QED BY <2>3, <2>5, <2>7 DEF Found
<1> QED BY <1>1, <1>2, <1>3

\* A run over when a token is read was one before, as far as it was read.
LEMMA RunBefore ==
  ASSUME TypeOK, NEW tok \in Tagged \cup Blank, Read(tok),
         NEW a \in DOMAIN tokens', NEW b \in DOMAIN tokens', b < Len(tokens'),
         ConfidentRun(a, b)'
  PROVE  a \in DOMAIN tokens /\ b \in DOMAIN tokens /\ ConfidentRun(a, b)
<1>1. /\ a \in Nat /\ b \in Nat /\ a <= b
      /\ a \in DOMAIN tokens /\ b \in DOMAIN tokens
      /\ \A i \in a..b : i \in DOMAIN tokens /\ tokens'[i] = tokens[i]
      /\ b + 1 \in DOMAIN tokens => b + 1 \in DOMAIN tokens'
  BY ReadKeeps DEF ConfidentRun, Run
<1>2. \A i \in (a + 1)..b : i \in DOMAIN tokens /\ Joins(i)'
  BY <1>1 DEF ConfidentRun, Run
<1>3. IsTagged(a) /\ ~Joins(a) /\ \A i \in (a + 1)..b : Joins(i)
  BY <1>1, <1>2, JoinsKept DEF ConfidentRun, Run
<1>4. b + 1 \in DOMAIN tokens => ~Joins(b + 1)
  BY <1>1, JoinsKept DEF ConfidentRun, Run
<1>5. \A i \in a..b : Threshold <= tokens[i].score
  BY <1>1 DEF ConfidentRun
<1> QED BY <1>1, <1>3, <1>4, <1>5 DEF ConfidentRun, Run

LEMMA FoundInvNext == RunInv /\ FoundInv /\ [Next]_vars => FoundInv'
<1> SUFFICES ASSUME RunInv, FoundInv, [Next]_vars,
                    NEW a \in DOMAIN tokens', NEW b \in DOMAIN tokens',
                    ConfidentRun(a, b)', phase' = "decode" => b < Len(tokens')
             PROVE  Found(a, b)'
  BY DEF FoundInv
<1>1. CASE ReadBlank \/ ReadBegin \/ ReadStray
  <2>1. PICK tok \in Tagged \cup Blank : Read(tok) /\ out' = Flushed
    BY <1>1 DEF ReadBlank, ReadBegin, ReadStray
  <2>2. TypeOK /\ phase = "decode" /\ phase' = "decode"
    BY <2>1, ReadKeeps DEF RunInv
  <2>3. a \in DOMAIN tokens /\ b \in DOMAIN tokens /\ ConfidentRun(a, b)
    BY <2>1, <2>2, RunBefore
  <2> QED BY <2>1, <2>2, <2>3, FlushedFinds
<1>2. CASE ReadInside
  <2>1. PICK tok \in Tagged : Read(tok) /\ out' = out
    BY <1>2 DEF ReadInside
  <2>2. TypeOK /\ phase = "decode" /\ phase' = "decode" /\ tok \in Tagged \cup Blank
        /\ Len(tokens') = Len(tokens) + 1 /\ Len(tokens) \in Nat
    BY <2>1, ReadKeeps DEF RunInv
  <2>3. a \in DOMAIN tokens /\ b \in DOMAIN tokens /\ ConfidentRun(a, b)
    BY <2>1, <2>2, RunBefore
  <2>4. b # Len(tokens)
    <3>1. RunInv'
      BY <1>2, RunInvReadInside
    <3>2. PICK e \in current' : Stretch(e)' /\ e.end = Len(tokens')
      BY <1>2, <3>1 DEF RunInv, OpenInv, ReadInside
    <3>3. e.start < Len(tokens')
      <4>1. PICK s \in current : e.start = s.start /\ s \in Span /\ Stretch(s)
        BY <1>2 DEF ReadInside, Extended, RunInv, OpenInv, TypeOK, Span
      <4> QED BY <2>2, <4>1, SpanFields DEF Stretch, RunInv, TypeOK
    <3>4. Joins(Len(tokens))'
      <4>1. e.start \in Nat /\ Len(tokens') \in (e.start + 1)..e.end
        BY <2>2, <3>1, <3>2, <3>3, SpanFields DEF RunInv, TypeOK
      <4> QED BY <3>2, <4>1 DEF Stretch, Joins, IsTagged
    <3> QED BY <2>2, <2>3, <3>4, ReadKeeps, <2>1 DEF ConfidentRun, Run, Joins, IsTagged
  <2>5. Found(a, b)
    BY <2>2, <2>3, <2>4 DEF FoundInv, TypeOK
  <2> QED BY <2>1, <2>5 DEF Found
<1>3. CASE EndOfSequence
  <2>1. /\ phase = "decode" /\ out' = Flushed /\ tokens' = tokens
    BY <1>3 DEF EndOfSequence
  <2>2. ConfidentRun(a, b)
    BY <2>1 DEF ConfidentRun, Run, Joins, IsTagged
  <2> QED BY <2>1, <2>2, FlushedFinds
<1>4. CASE NextSequence
  BY <1>4 DEF NextSequence
<1>5. CASE UNCHANGED vars
  BY <1>5 DEF vars, FoundInv, ConfidentRun, Run, Joins, IsTagged, Found
<1> QED BY <1>1, <1>2, <1>3, <1>4, <1>5 DEF Next

\* Every run whose tokens all reach the threshold is found.
THEOREM ConfidentRunsFoundAlways == Spec => []ConfidentRunsFound
<1>1. Init => FoundInv
  BY DEF Init, FoundInv
<1>2. FoundInv => ConfidentRunsFound
  BY DEF FoundInv, ConfidentRunsFound, ConfidentRun, Found
<1> QED BY <1>1, <1>2, FoundInvNext, RunInvAlways, PTL DEF Spec

=============================================================================
