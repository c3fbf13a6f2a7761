------------------------------ MODULE BioDecode ------------------------------
(***************************************************************************)
(* OrtTokenClassifier::decode_sequence (rust/core/token_classify.rs): one  *)
(* pass over the tokens of a row groups their BIO labels into entities and *)
(* drops those with a token below score_threshold.                         *)
(*                                                                         *)
(* The logits are arbitrary, so any label with any score may be the best   *)
(* of a token, and a sequence need not be legal BIO.  An offset counts     *)
(* tokens: those of a row follow each other in the text and are not empty. *)
(* An entity's `end` is its last token; the code's is the end of it.       *)
(***************************************************************************)
EXTENDS Naturals, Sequences

CONSTANTS
  Categories,  \* the labels without their prefix
  MaxScore,    \* scores are 1 .. MaxScore, by rank
  Threshold,   \* score_threshold, by rank
  MaxSeqLen    \* tokens that the model reads of a text

ASSUME SizesAssumption ==
  MaxScore \in Nat \ {0} /\ Threshold \in Nat /\ MaxSeqLen \in Nat

VARIABLES
  phase,    \* "decode" in the loop, "done" after it
  tokens,   \* the tokens read so far: tok_idx is Len(tokens)
  current,  \* the open span: at most one
  out       \* the entities of the row

vars == <<phase, tokens, current, out>>

\* A token with a B- or an I- label; a label without prefix counts as B-.
Tagged == [kind : {"begin", "inside"}, category : Categories, score : 1..MaxScore]

\* A special token or padding, which has no offset, and a token labelled O.
Blank == [kind : {"gap", "outside"}]

\* A span, open or closed; low is the least score of its tokens.
Span == [category : Categories, start : 1..MaxSeqLen, end : 1..MaxSeqLen,
         low : 1..MaxScore]

Init ==
  /\ phase = "decode" /\ tokens = <<>>
  /\ current = {} /\ out = <<>>

-----------------------------------------------------------------------------
(***************************************************************************)
(* Opening, extending and closing a span.                                  *)
(***************************************************************************)

\* tok_idx of the token read next.
Here == Len(tokens) + 1

Opened(tok) ==
  [category |-> tok.category, start |-> Here, end |-> Here, low |-> tok.score]

\* MUTANT of Extended: the scores added up.
ExtendedBySum(span, tok) ==
  [span EXCEPT !.end = Here, !.low = span.low + tok.score]

Extended(span, tok) ==
  [span EXCEPT !.end = Here,
               !.low = IF tok.score < span.low THEN tok.score ELSE span.low]

\* MUTANT of Flushed: a score at the threshold is not enough.
FlushedAbove ==
  IF \E span \in current : Threshold < span.low
  THEN Append(out, CHOOSE span \in current : TRUE)
  ELSE out

\* finalize_span of the open span, if there is one, and the push of its entity.
Flushed ==
  IF \E span \in current : Threshold <= span.low
  THEN Append(out, CHOOSE span \in current : TRUE)
  ELSE out

-----------------------------------------------------------------------------
(***************************************************************************)
(* The loop, one action for each way through its body, and its end.        *)
(***************************************************************************)

Read(tok) ==
  /\ phase = "decode" /\ Len(tokens) < MaxSeqLen
  /\ tokens' = Append(tokens, tok)
  /\ UNCHANGED phase

\* MUTANT of ReadBlank: the span is pushed and stays open.
ReadBlankKeeping ==
  \E tok \in Blank :
    /\ Read(tok)
    /\ out' = Flushed
    /\ UNCHANGED current

\* No offset, or BioPrefix::Outside.
ReadBlank ==
  \E tok \in Blank :
    /\ Read(tok)
    /\ out' = Flushed
    /\ current' = {}

\* BioPrefix::Begin.
ReadBegin ==
  \E tok \in Tagged :
    /\ tok.kind = "begin"
    /\ Read(tok)
    /\ out' = Flushed
    /\ current' = {Opened(tok)}

\* MUTANT of Continues: the categories are not compared.
ContinuesAny(span, tok) == tok.kind = "inside"

\* BioPrefix::Inside, and the open span has the same category.
Continues(span, tok) == tok.kind = "inside" /\ span.category = tok.category

ReadInside ==
  \E tok \in Tagged : \E span \in current :
    /\ Continues(span, tok)
    /\ Read(tok)
    /\ current' = {Extended(span, tok)}
    /\ UNCHANGED out

\* BioPrefix::Inside after another category, or with no span open: it opens
\* one, as a B- would.
ReadStray ==
  \E tok \in Tagged :
    /\ tok.kind = "inside"
    /\ \A span \in current : ~Continues(span, tok)
    /\ Read(tok)
    /\ out' = Flushed
    /\ current' = {Opened(tok)}

EndOfSequence ==
  /\ phase = "decode"
  /\ out' = Flushed
  /\ current' = {}
  /\ phase' = "done"
  /\ UNCHANGED tokens

\* The next row of the batch.
NextSequence ==
  /\ phase = "done"
  /\ phase' = "decode" /\ tokens' = <<>> /\ out' = <<>>
  /\ UNCHANGED current

Next ==
  \/ ReadBlank \/ ReadBegin \/ ReadInside \/ ReadStray
  \/ EndOfSequence \/ NextSequence

Spec == Init /\ [][Next]_vars

-----------------------------------------------------------------------------
(***************************************************************************)
(* Properties.                                                             *)
(***************************************************************************)

\* The type of every variable.
TypeOK ==
  /\ phase \in {"decode", "done"}
  /\ tokens \in Seq(Tagged \cup Blank) /\ Len(tokens) <= MaxSeqLen
  /\ current \in SUBSET Span
  /\ out \in Seq(Span)

IsTagged(i) == tokens[i].kind \in {"begin", "inside"}

\* The labels alone say that token i goes on what token i - 1 is part of.
Joins(i) ==
  /\ i - 1 \in DOMAIN tokens /\ IsTagged(i - 1)
  /\ tokens[i].kind = "inside" /\ tokens[i - 1].category = tokens[i].category

\* Tokens a .. b are one entity of the label sequence, complete on both sides.
Run(a, b) ==
  /\ a \in DOMAIN tokens /\ b \in DOMAIN tokens /\ a <= b
  /\ IsTagged(a) /\ ~Joins(a)
  /\ \A i \in (a + 1)..b : Joins(i)
  /\ b + 1 \in DOMAIN tokens => ~Joins(b + 1)

\* An entity is a complete run of its category, never two joined or a part of
\* one, and its score is the least of its tokens' scores: no token below the
\* threshold hides in it.
EntitiesAreRuns ==
  phase = "done" =>
    \A n \in DOMAIN out :
      /\ Run(out[n].start, out[n].end)
      /\ Threshold <= out[n].low
      /\ \A i \in out[n].start..out[n].end :
           tokens[i].category = out[n].category /\ out[n].low <= tokens[i].score
      /\ \E i \in out[n].start..out[n].end : tokens[i].score = out[n].low

\* A run whose tokens all reach the threshold is found, also when its labels
\* are not legal BIO and when it ends with the row.
ConfidentRunsFound ==
  phase = "done" =>
    \A a, b \in DOMAIN tokens :
      Run(a, b) /\ (\A i \in a..b : Threshold <= tokens[i].score) =>
        \E n \in DOMAIN out : out[n].start = a /\ out[n].end = b

\* The entities come in the order of the text, each once, and do not overlap.
EntitiesInOrder ==
  \A m, n \in DOMAIN out : m < n => out[m].end < out[n].start

=============================================================================
