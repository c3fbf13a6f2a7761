------------------------------ MODULE NerPrompt ------------------------------
(***************************************************************************)
(* The whole of OrtGlinerExtractor::extract (rust/core/ner.rs) for a batch *)
(* of texts: encode_prompts lays every prompt out as a row of subwords     *)
(* with a mask that numbers the words of the text, make_span_tensors lists *)
(* the spans the session is to score, the session runs, and GreedySpans    *)
(* decodes one of the texts: any text of NumWords words.  The rows and     *)
(* tensors of the other texts are there, what they decode to is not.       *)
(*                                                                         *)
(* A text is the sequence of its words, and a word the number of subwords  *)
(* the tokenizer makes of it, which may be none: the words of split_words  *)
(* include single characters that a normaliser drops.  Indices into a row  *)
(* start at 0, as in the code; sequences start at 1.                       *)
(***************************************************************************)
EXTENDS GreedySpans, Integers

CONSTANTS
  MaxWidth,       \* params.max_width, which extract() wants to be at least 1
  Batches,        \* the batches of texts a call may bring
  LabelSubwords   \* the subword counts the caller's labels may have

ASSUME PromptAssumption ==
  /\ MaxWidth \in Nat \ {0}
  /\ Batches \subseteq Seq(Seq(Nat)) \ {<<>>}
  /\ LabelSubwords \subseteq [1..NumLabels -> Nat]

VARIABLES
  stage,      \* where the call is
  texts,      \* the words of the texts
  labels,     \* the subwords of the labels
  row,        \* flattening: the text
  elem,       \* flattening: the element of its prompt that is next
  idx,        \* flattening: the subwords written to the row
  wordId,     \* flattening: word_id
  mask,       \* words_mask, a row for each text
  attention,  \* the number of leading ones of each row of attention_mask
  spanIdx     \* the spans of each text that span_mask marks as real

promptVars ==
  <<stage, texts, labels, row, elem, idx, wordId, mask, attention, spanIdx>>

PromptInit ==
  /\ Init /\ stage = "idle"
  /\ texts = <<>> /\ labels = <<>>
  /\ row = 1 /\ elem = 1 /\ idx = 1 /\ wordId = 0
  /\ mask = <<>> /\ attention = <<>> /\ spanIdx = <<>>

-----------------------------------------------------------------------------
(***************************************************************************)
(* encode_prompts.                                                         *)
(***************************************************************************)

\* How many subwords the first n elements have, for each n; and all of them.
SubwordsTo(counts) ==
  LET upTo[n \in 0..Len(counts)] == IF n = 0 THEN 0 ELSE upTo[n - 1] + counts[n]
  IN  upTo
Total(counts) == SubwordsTo(counts)[Len(counts)]

\* The markers ENT, before each label, and SEP are one subword each.
Entities(ls) ==
  [n \in 1..(2 * NumLabels + 1) |-> IF n % 2 = 1 THEN 1 ELSE ls[n \div 2]]

PromptOf(ls, text) == Entities(ls) \o text

\* The entity part of a row and the CLS in front of it.
TextOffset == Total(Entities(labels)) + 1

\* A row has its prompt, CLS and SEP; the longest gives max_tokens.
RowLength(ls, text) == 2 + Total(PromptOf(ls, text))
MaxTokensOf(ls, ts) == Max({RowLength(ls, ts[s]) : s \in DOMAIN ts})
MaxTokens == MaxTokensOf(labels, texts)
BatchWords == Max({Len(texts[s]) : s \in DOMAIN texts})

\* Every element is tokenized before the first row is written.
Tokenize ==
  /\ stage = "idle"
  /\ texts' \in Batches /\ labels' \in LabelSubwords
  /\ mask' = [s \in DOMAIN texts' |->
                [p \in 1..MaxTokensOf(labels', texts') |-> 0]]
  /\ stage' = "flatten"
  /\ UNCHANGED <<row, elem, idx, wordId, attention, spanIdx, vars>>

\* MUTANT of WordWritten: >= instead of >, so SEP counts as a word.
WordWrittenAtOffset(i) == i >= TextOffset

\* A word of the text ends at i.
WordWritten(i) == i > TextOffset

\* The first subword of an element in the text region gets the word's number.
WriteElement ==
  /\ stage = "flatten" /\ row <= Len(texts)
  /\ elem <= Len(PromptOf(labels, texts[row]))
  /\ LET n == Min({PromptOf(labels, texts[row])[elem], MaxTokens - idx})
     IN  /\ mask' = IF n > 0 /\ idx >= TextOffset
                      THEN [mask EXCEPT ![row][idx + 1] = wordId + 1]
                      ELSE mask
         /\ idx' = idx + n
  /\ wordId' = IF WordWritten(idx') THEN wordId + 1 ELSE wordId
  /\ elem' = elem + 1
  /\ UNCHANGED <<stage, texts, labels, row, attention, spanIdx, vars>>

\* SEP ends the row, if there is room; the next row starts behind its CLS.
EndRow ==
  /\ stage = "flatten" /\ row <= Len(texts)
  /\ elem > Len(PromptOf(labels, texts[row]))
  /\ attention' = Append(attention, Min({idx + 1, MaxTokens}))
  /\ row' = row + 1
  /\ elem' = 1 /\ idx' = 1 /\ wordId' = 0
  /\ UNCHANGED <<stage, texts, labels, mask, spanIdx, vars>>

\* The rows and tensors are locals: nothing of them outlives their use.
Drop ==
  /\ texts' = <<>> /\ labels' = <<>>
  /\ row' = 1 /\ elem' = 1 /\ idx' = 1 /\ wordId' = 0
  /\ mask' = <<>> /\ attention' = <<>> /\ spanIdx' = <<>>

\* No text has a word.
NoWords ==
  /\ stage = "flatten" /\ row > Len(texts) /\ BatchWords = 0
  /\ stage' = "idle" /\ Drop
  /\ UNCHANGED vars

-----------------------------------------------------------------------------
(***************************************************************************)
(* make_span_tensors, the session, and the decoding of a text.             *)
(***************************************************************************)

\* The dim of a real span, its first word and its last one, from 0.
RealSpans(words) ==
  {<<p[1] * MaxWidth + p[2], p[1], p[1] + p[2]>> :
     p \in {q \in (0..(words - 1)) \X (0..(MaxWidth - 1)) :
              /\ q[2] < words - q[1]
              /\ q[1] * MaxWidth + q[2] < BatchWords * MaxWidth}}

MakeSpanTensors ==
  /\ stage = "flatten" /\ row > Len(texts) /\ BatchWords > 0
  /\ spanIdx' = [s \in DOMAIN texts |-> RealSpans(Len(texts[s]))]
  /\ stage' = "run"
  /\ UNCHANGED <<texts, labels, row, elem, idx, wordId, mask, attention, vars>>

\* The session has the logits, and a text of NumWords words is decoded.
RunSession ==
  /\ stage = "run"
  /\ \E s \in DOMAIN texts : Len(texts[s]) = NumWords
  /\ Extract
  /\ stage' = "decode" /\ Drop

\* The session fails, or only texts that are not followed are decoded.
RunEndsCall ==
  /\ stage = "run"
  /\ stage' = "idle" /\ Drop
  /\ UNCHANGED vars

Decode ==
  /\ stage = "decode"
  /\ DecodeSpan \/ SortSpans \/ Accept \/ Reject \/ Finish \/ Return
  /\ stage' = IF phase' = "idle" THEN "idle" ELSE "decode"
  /\ UNCHANGED <<texts, labels, row, elem, idx, wordId, mask, attention, spanIdx>>

PromptNext ==
  \/ Tokenize \/ WriteElement \/ EndRow \/ NoWords
  \/ MakeSpanTensors \/ RunSession \/ RunEndsCall \/ Decode

PromptSpec == PromptInit /\ [][PromptNext]_<<vars, promptVars>>

-----------------------------------------------------------------------------
(***************************************************************************)
(* Properties.                                                             *)
(***************************************************************************)

\* Where the first subword of word w of text s is to be.
FirstSubword(s, w) == TextOffset + SubwordsTo(texts[s])[w - 1]

\* The words at the start of a text, before its first word with a subword.
Lead(text) == Max({n \in 0..Len(text) : \A w \in 1..n : text[w] = 0})

\* "words_mask = word_id + 1 only on the FIRST subword of each text word": the
\* mask is 0 but where a word starts, however the rows are padded, and has the
\* word's number there, counted from the first word that has a subword.  Words
\* without subwords behind that one are counted, those before it are not: where
\* a text has such a lead, every number is by its length less than the "k+1" of
\* the module's comment and than the number decode_spans gives the word.
MaskNumbersWords ==
  \A s \in DOMAIN texts :
    {<<p, mask[s][p]>> : p \in {q \in 1..MaxTokens : mask[s][q] # 0}} =
    {<<FirstSubword(s, w) + 1, w - Lead(texts[s])>> :
       w \in {v \in DOMAIN texts[s] : texts[s][v] > 0}}

\* No row is cut: the defensive cap at max_tokens is never met.
RowsWhole ==
  \A s \in DOMAIN texts : attention[s] = RowLength(labels, texts[s])

\* The shape the spans are laid out in, which is what the session is asked for.
Asked == [starts |-> BatchWords, widths |-> MaxWidth]

\* The cells decode_spans reads of an answer in that shape are the spans the
\* session was told are real, and each is read where its words are.  Of an answer
\* in another shape, which the code takes too, this says nothing.
CellsReal ==
  \A s \in DOMAIN texts :
    Len(texts[s]) = NumWords =>
      spanIdx[s] = {<<e.start * MaxWidth + (e.end - e.start - 1),
                      e.start, e.end - 1>> : e \in Cells(Asked)}

\* What the session is told of a text: its words by number and place in the row,
\* the row's length, and the spans.  But for the lead of words without subwords
\* it is what decode_spans takes them for.
PromptTellsWords ==
  stage = "run" => MaskNumbersWords /\ RowsWhole /\ CellsReal

=============================================================================
