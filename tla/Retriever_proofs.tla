--------------------------- MODULE Retriever_proofs ---------------------------
(***************************************************************************)
(* Theorems about Retriever, for every set of threads, queries, documents, *)
(* batches and corpora, every similarity and every size of the index.      *)
(***************************************************************************)
EXTENDS Retriever, SequenceTheorems, FiniteSetTheorems, TLAPS

Fields == {"id", "text", "ext", "meta"}

(***************************************************************************)
(* Columns of lists of documents.                                          *)
(***************************************************************************)

\* A function on an interval from 1 is a sequence.
LEMMA SeqOf ==
  ASSUME NEW S, NEW n \in Nat, NEW f \in [1..n -> S]
  PROVE  f \in Seq(S) /\ Len(f) = n
<1>1. f \in Seq(S)
  BY SeqDef
<1>2. DOMAIN f = 1..Len(f) /\ Len(f) \in Nat /\ DOMAIN f = 1..n
  BY <1>1, LenProperties
<1>3. Len(f) = n
  BY <1>2
<1> QED BY <1>1, <1>3

\* A column is as long as its list and holds the field of each document.
LEMMA ColumnShape ==
  ASSUME NEW b \in Seq(Document), NEW f \in Fields
  PROVE  /\ DOMAIN Column(b, f) = 1..Len(b) /\ Len(b) \in Nat
         /\ \A i \in 1..Len(b) : Column(b, f)[i] = b[i][f]
         /\ Len(Column(b, f)) = Len(b)
         /\ f = "id" => Column(b, f) \in Seq(Int)
         /\ f = "text" => Column(b, f) \in Seq(Texts)
         /\ f = "ext" => Column(b, f) \in Seq(Externals)
         /\ f = "meta" => Column(b, f) \in Seq(Metas)
<1>1. /\ DOMAIN b = 1..Len(b) /\ Len(b) \in Nat
      /\ \A i \in 1..Len(b) : b[i] \in Document
  BY LenProperties, ElementOfSeq
<1>2. Column(b, f) = [i \in 1..Len(b) |-> b[i][f]]
  BY <1>1 DEF Column
<1>3. f = "id" => Column(b, f) \in [1..Len(b) -> Int]
  BY <1>1, <1>2 DEF Document
<1>4. f = "text" => Column(b, f) \in [1..Len(b) -> Texts]
  BY <1>1, <1>2 DEF Document
<1>5. f = "ext" => Column(b, f) \in [1..Len(b) -> Externals]
  BY <1>1, <1>2 DEF Document
<1>6. f = "meta" => Column(b, f) \in [1..Len(b) -> Metas]
  BY <1>1, <1>2 DEF Document
<1>7. DOMAIN Column(b, f) = 1..Len(b) /\ \A i \in 1..Len(b) : Column(b, f)[i] = b[i][f]
  BY <1>2
<1>8. \E S : Column(b, f) \in [1..Len(b) -> S]
  BY <1>3, <1>4, <1>5, <1>6 DEF Fields
<1>9. Len(Column(b, f)) = Len(b)
  BY <1>1, <1>8, SeqOf
<1>10. f = "id" => Column(b, f) \in Seq(Int)
  BY <1>1, <1>3, SeqOf
<1>11. f = "text" => Column(b, f) \in Seq(Texts)
  BY <1>1, <1>4, SeqOf
<1>12. f = "ext" => Column(b, f) \in Seq(Externals)
  BY <1>1, <1>5, SeqOf
<1>13. f = "meta" => Column(b, f) \in Seq(Metas)
  BY <1>1, <1>6, SeqOf
<1> QED BY <1>1, <1>7, <1>9, <1>10, <1>11, <1>12, <1>13

\* What a column of a batch, and of two lists one after the other, is.
FieldValues == Int \cup Texts \cup Externals \cup Metas

LEMMA ColumnOfConcat ==
  ASSUME NEW b \in Seq(Document), NEW d \in Seq(Document), NEW f \in Fields
  PROVE  Column(b \o d, f) = Column(b, f) \o Column(d, f)
<1> DEFINE B == Column(b, f)
           D == Column(d, f)
           BD == Column(b \o d, f)
<1>1. /\ b \o d \in Seq(Document) /\ Len(b \o d) = Len(b) + Len(d)
      /\ \A i \in 1..(Len(b) + Len(d)) :
           (b \o d)[i] = IF i <= Len(b) THEN b[i] ELSE d[i - Len(b)]
  BY ConcatProperties
<1>2. B \in Seq(FieldValues) /\ D \in Seq(FieldValues) /\ BD \in Seq(FieldValues)
  <2>1. \A x \in Seq(Document) : Column(x, f) \in Seq(FieldValues)
    <3> SUFFICES ASSUME NEW x \in Seq(Document) PROVE Column(x, f) \in Seq(FieldValues)
      OBVIOUS
    <3>1. /\ Int \subseteq FieldValues /\ Texts \subseteq FieldValues
          /\ Externals \subseteq FieldValues /\ Metas \subseteq FieldValues
      BY DEF FieldValues
    <3> QED BY <3>1, ColumnShape, SeqMonotonic DEF Fields
  <2> QED BY <1>1, <2>1
<1>3. /\ Len(B) = Len(b) /\ Len(D) = Len(d) /\ Len(BD) = Len(b) + Len(d)
      /\ Len(b) \in Nat /\ Len(d) \in Nat
      /\ \A i \in 1..Len(b) : B[i] = b[i][f]
      /\ \A i \in 1..Len(d) : D[i] = d[i][f]
      /\ \A i \in 1..(Len(b) + Len(d)) : BD[i] = (b \o d)[i][f]
  BY <1>1, ColumnShape
<1> HIDE DEF B, D, BD
<1>4. /\ B \o D \in Seq(FieldValues) /\ Len(B \o D) = Len(b) + Len(d)
      /\ \A i \in 1..(Len(b) + Len(d)) :
           (B \o D)[i] = IF i <= Len(b) THEN B[i] ELSE D[i - Len(b)]
  <2>1. /\ B \o D \in Seq(FieldValues) /\ Len(B \o D) = Len(B) + Len(D)
        /\ \A i \in 1..(Len(B) + Len(D)) :
             (B \o D)[i] = IF i <= Len(B) THEN B[i] ELSE D[i - Len(B)]
    BY <1>2, ConcatProperties
  <2> QED BY <2>1, <1>3
<1>5. ASSUME NEW i \in 1..Len(BD) PROVE BD[i] = (B \o D)[i]
  <2>1. CASE i <= Len(b)
    <3>1. i \in 1..Len(b) /\ i \in 1..(Len(b) + Len(d))
      BY <2>1, <1>3
    <3>2. BD[i] = b[i][f]
      BY <3>1, <2>1, <1>1, <1>3
    <3> QED BY <3>1, <3>2, <2>1, <1>3, <1>4
  <2>2. CASE ~(i <= Len(b))
    <3>1. i - Len(b) \in 1..Len(d) /\ i \in 1..(Len(b) + Len(d))
      BY <2>2, <1>3
    <3> QED BY <3>1, <2>2, <1>1, <1>3, <1>4
  <2> QED BY <2>1, <2>2
<1>6. BD = B \o D
  BY <1>2, <1>3, <1>4, <1>5, SeqEqual
<1> QED BY <1>6 DEF B, D, BD

(***************************************************************************)
(* Arguments that passed the validation.                                   *)
(***************************************************************************)

\* The four lists of a are the columns of its documents.
Columnar(a) ==
  /\ a \in Batch
  /\ a.docs \in Seq(Document)
  /\ a.ids = Column(a.docs, "id") /\ a.texts = Column(a.docs, "text")
  /\ a.ext = Column(a.docs, "ext") /\ a.meta = Column(a.docs, "meta")

\* A list of the right length is the whole column.
LEMMA ListsOfLength ==
  ASSUME NEW S, NEW column \in Seq(S), NEW list \in Lists(column),
         Len(list) = Len(column)
  PROVE  list = column
<1>1. Len(column) \in Nat
  BY LenProperties
<1>2. CASE Len(column) = 0
  <2>1. column = <<>> /\ SubSeq(column, 2, Len(column)) = <<>>
    BY <1>2, EmptySeq, SubSeqEmpty
  <2> QED BY <2>1 DEF Lists
<1>3. CASE Len(column) # 0
  <2>1. \A i \in 2..Len(column) : column[i] \in S
    BY <1>1, ElementOfSeq
  <2>2. 2 \in Int /\ Len(column) \in Int
    BY <1>1
  <2>3. Len(SubSeq(column, 2, Len(column))) =
          IF 2 <= Len(column) THEN Len(column) - 2 + 1 ELSE 0
    BY <2>1, <2>2, SubSeqProperties
  <2>4. Len(SubSeq(column, 2, Len(column))) # Len(column)
    BY <1>1, <1>3, <2>3
  <2> QED BY <2>4 DEF Lists
<1> QED BY <1>2, <1>3

\* Filled gives columns, as many documents as there are texts.
LEMMA FilledColumnar ==
  ASSUME NEW b \in Seq(Document), NEW ids \in Seq(Int), Len(ids) = Len(b),
         NEW ext, ext = None \/ ext = Column(b, "ext"),
         NEW meta, meta = None \/ meta = Column(b, "meta")
  PROVE  /\ Columnar(Filled(b, ids, Column(b, "text"), ext, meta))
         /\ Len(Filled(b, ids, Column(b, "text"), ext, meta).docs) = Len(b)
<1> DEFINE txts == Column(b, "text")
           f == Filled(b, ids, txts, ext, meta)
           ds == [i \in DOMAIN b |->
                    [id |-> ids[i], text |-> txts[i],
                     ext |-> IF ext = None THEN None ELSE b[i].ext,
                     meta |-> IF meta = None THEN Empty ELSE b[i].meta]]
<1>1. /\ DOMAIN b = 1..Len(b) /\ Len(b) \in Nat
      /\ \A i \in 1..Len(b) : b[i] \in Document
      /\ DOMAIN ids = 1..Len(b) /\ \A i \in 1..Len(b) : ids[i] \in Int
  BY LenProperties, ElementOfSeq
<1>2. /\ txts \in Seq(Texts) /\ Len(txts) = Len(b) /\ DOMAIN txts = 1..Len(b)
      /\ \A i \in 1..Len(b) : txts[i] = b[i].text /\ txts[i] \in Texts
  <2>1. /\ txts \in Seq(Texts) /\ Len(txts) = Len(b) /\ DOMAIN txts = 1..Len(b)
        /\ \A i \in 1..Len(b) : txts[i] = b[i].text
    BY ColumnShape DEF Fields
  <2> QED BY <2>1, ElementOfSeq
<1>3. /\ Column(b, "ext") = [i \in 1..Len(b) |-> b[i].ext]
      /\ Column(b, "meta") = [i \in 1..Len(b) |-> b[i].meta]
  BY <1>1 DEF Column
<1>4. ds \in [1..Len(b) -> Document]
  BY <1>1, <1>2, DefaultsAssumption DEF Document
<1>5. ds \in Seq(Document) /\ Len(ds) = Len(b)
  BY <1>1, <1>4, SeqOf
<1>6. /\ f.docs = ds /\ f.ids = ids /\ f.texts = txts
      /\ f.ext = OrDefault(ext, Len(txts), None)
      /\ f.meta = OrDefault(meta, Len(txts), Empty)
  BY DEF Filled
<1> HIDE DEF txts
<1>7. ids = Column(ds, "id") /\ txts = Column(ds, "text")
  <2>1. ids = [i \in 1..Len(b) |-> ids[i]]
    BY <1>1
  <2>2. txts = [i \in 1..Len(b) |-> txts[i]]
    BY <1>2, LenProperties
  <2>3. Column(ds, "id") = [i \in 1..Len(b) |-> ids[i]]
    BY <1>1 DEF Column
  <2>4. Column(ds, "text") = [i \in 1..Len(b) |-> txts[i]]
    BY <1>1 DEF Column
  <2> QED BY <2>1, <2>2, <2>3, <2>4
<1>8. OrDefault(ext, Len(txts), None) = Column(ds, "ext")
  <2>1. Column(ds, "ext") =
          [i \in 1..Len(b) |-> IF ext = None THEN None ELSE b[i].ext]
    BY <1>1 DEF Column
  <2> QED BY <2>1, <1>2, <1>3 DEF OrDefault
<1>9. OrDefault(meta, Len(txts), Empty) = Column(ds, "meta")
  <2>1. Column(ds, "meta") =
          [i \in 1..Len(b) |-> IF meta = None THEN Empty ELSE b[i].meta]
    BY <1>1 DEF Column
  <2> QED BY <2>1, <1>2, <1>3 DEF OrDefault
<1> HIDE DEF ds, f
<1>10. f \in Batch
  <2>1. f = [ids |-> f.ids, texts |-> f.texts, ext |-> f.ext, meta |-> f.meta,
             docs |-> f.docs]
    BY DEF Filled, f
  <2>2. /\ Column(ds, "ext") \in Seq(Externals) /\ Column(ds, "meta") \in Seq(Metas)
    BY <1>5, ColumnShape DEF Fields
  <2> QED BY <1>2, <1>5, <1>6, <1>8, <1>9, <2>1, <2>2 DEF Batch
<1>11. Columnar(f) /\ Len(f.docs) = Len(b)
  BY <1>5, <1>6, <1>7, <1>8, <1>9, <1>10 DEF Columnar
<1> QED BY <1>11 DEF f, txts

\* Every way to build constructs a retriever of columns.
LEMMA BuildColumnar ==
  ASSUME Build
  PROVE  \E a : Columnar(a) /\ Construct(a)
<1>1. CASE FromTexts
  <2>1. PICK b \in Batches :
          \E ids \in Lists(Column(b, "id")) \cup {None},
             ext \in Lists(Column(b, "ext")) \cup {None},
             meta \in Lists(Column(b, "meta")) \cup {None} :
            LET txts == Column(b, "text")
                given == IF ids = None THEN [i \in DOMAIN b |-> i - 1] ELSE ids
            IN  /\ Valid(Len(b), given, txts, ext, meta)
                /\ Construct(Filled(b, given, txts, ext, meta))
    BY <1>1 DEF FromTexts
  <2>2. PICK ids \in Lists(Column(b, "id")) \cup {None},
             ext \in Lists(Column(b, "ext")) \cup {None},
             meta \in Lists(Column(b, "meta")) \cup {None} :
            LET txts == Column(b, "text")
                given == IF ids = None THEN [i \in DOMAIN b |-> i - 1] ELSE ids
            IN  /\ Valid(Len(b), given, txts, ext, meta)
                /\ Construct(Filled(b, given, txts, ext, meta))
    BY <2>1
  <2> DEFINE given == IF ids = None THEN [i \in DOMAIN b |-> i - 1] ELSE ids
  <2>3. /\ Len(given) = Len(b)
        /\ ext # None => Len(ext) = Len(b)
        /\ meta # None => Len(meta) = Len(b)
        /\ Construct(Filled(b, given, Column(b, "text"), ext, meta))
    BY <2>2 DEF Valid
  <2>4. /\ b \in Seq(Document) /\ Len(b) \in Nat /\ DOMAIN b = 1..Len(b)
        /\ Column(b, "id") \in Seq(Int) /\ Len(Column(b, "id")) = Len(b)
        /\ Column(b, "ext") \in Seq(Externals) /\ Len(Column(b, "ext")) = Len(b)
        /\ Column(b, "meta") \in Seq(Metas) /\ Len(Column(b, "meta")) = Len(b)
    <3>1. b \in Seq(Document)
      BY BatchesAssumption
    <3> QED BY <3>1, ColumnShape, LenProperties DEF Fields
  <2>5. given \in Seq(Int)
    <3>1. CASE ids = None
      <4>1. given \in [1..Len(b) -> Int]
        BY <3>1, <2>4
      <4> QED BY <4>1, <2>4, SeqOf
    <3>2. CASE ids # None
      <4>1. given = ids /\ ids \in Lists(Column(b, "id"))
        BY <3>2
      <4> QED BY <4>1, <2>3, <2>4, ListsOfLength
    <3> QED BY <3>1, <3>2
  <2>6. /\ ext = None \/ ext = Column(b, "ext")
        /\ meta = None \/ meta = Column(b, "meta")
    BY <2>3, <2>4, ListsOfLength
  <2> HIDE DEF given
  <2>7. Columnar(Filled(b, given, Column(b, "text"), ext, meta))
    BY <2>3, <2>4, <2>5, <2>6, FilledColumnar
  <2> QED BY <2>3, <2>7
<1>2. ASSUME NEW b \in Seq(Document),
             Construct(Filled(b, Column(b, "id"), Column(b, "text"), Column(b, "ext"),
                              Column(b, "meta")))
      PROVE  \E a : Columnar(a) /\ Construct(a)
  <2>1. Column(b, "id") \in Seq(Int) /\ Len(Column(b, "id")) = Len(b)
    BY ColumnShape DEF Fields
  <2>2. Columnar(Filled(b, Column(b, "id"), Column(b, "text"), Column(b, "ext"),
                        Column(b, "meta")))
    BY <2>1, FilledColumnar
  <2> QED BY <1>2, <2>2
<1>3. CASE FromCollection
  BY <1>2, <1>3, BatchesAssumption DEF FromCollection
<1>4. CASE FromCorpus
  <2>1. PICK c \in Corpora, grouped \in BOOLEAN :
          LET b == IF grouped THEN GroupDocs(c) ELSE [i \in DOMAIN c |-> UnitDoc(c[i])]
          IN  Construct(Filled(b, Column(b, "id"), Column(b, "text"),
                               Column(b, "ext"), Column(b, "meta")))
    BY <1>4 DEF FromCorpus
  <2> DEFINE b == IF grouped THEN GroupDocs(c) ELSE [i \in DOMAIN c |-> UnitDoc(c[i])]
  <2>2. b \in Seq(Document)
    BY CorporaAssumption
  <2>3. Construct(Filled(b, Column(b, "id"), Column(b, "text"),
                         Column(b, "ext"), Column(b, "meta")))
    BY <2>1
  <2> HIDE DEF b
  <2> QED BY <1>2, <2>2, <2>3
<1> QED BY <1>1, <1>3, <1>4 DEF Build

\* add_documents goes on to embed with columns of at least one document.
LEMMA AddColumnar ==
  ASSUME Add
  PROVE  Columnar(batch') /\ batch'.docs # <<>>
<1>1. PICK b \in Batches \ {<<>>} :
         \E ids \in Lists(Column(b, "id")),
            ext \in Lists(Column(b, "ext")) \cup {None},
            meta \in Lists(Column(b, "meta")) \cup {None} :
           /\ Valid(Len(b), ids, Column(b, "text"), ext, meta)
           /\ batch' = Filled(b, ids, Column(b, "text"), ext, meta)
  BY DEF Add
<1>2. PICK ids \in Lists(Column(b, "id")),
           ext \in Lists(Column(b, "ext")) \cup {None},
           meta \in Lists(Column(b, "meta")) \cup {None} :
           /\ Valid(Len(b), ids, Column(b, "text"), ext, meta)
           /\ batch' = Filled(b, ids, Column(b, "text"), ext, meta)
  BY <1>1
<1>3. /\ b \in Seq(Document) /\ Len(b) \in Nat \ {0}
      /\ Column(b, "id") \in Seq(Int) /\ Len(Column(b, "id")) = Len(b)
      /\ Column(b, "ext") \in Seq(Externals) /\ Len(Column(b, "ext")) = Len(b)
      /\ Column(b, "meta") \in Seq(Metas) /\ Len(Column(b, "meta")) = Len(b)
  <2>1. b \in Seq(Document) /\ b # <<>>
    BY BatchesAssumption
  <2> QED BY <2>1, ColumnShape, EmptySeq DEF Fields
<1>4. /\ Len(ids) = Len(b)
      /\ ext # None => Len(ext) = Len(b)
      /\ meta # None => Len(meta) = Len(b)
  BY <1>2 DEF Valid
<1>5. /\ ids \in Seq(Int)
      /\ ext = None \/ ext = Column(b, "ext")
      /\ meta = None \/ meta = Column(b, "meta")
  BY <1>3, <1>4, ListsOfLength
<1>6. Columnar(batch') /\ Len(batch'.docs) = Len(b)
  BY <1>2, <1>3, <1>4, <1>5, FilledColumnar
<1> QED BY <1>3, <1>6, EmptySeq

(***************************************************************************)
(* The matrix and the lists.                                               *)
(***************************************************************************)

\* The documents that a list holds which has been extended before these steps.
Version(steps) == IF adder \in steps THEN docs \o batch.docs ELSE docs

ListsInv ==
  /\ docs \in Seq(Document)
  /\ embeddings = Column(Version({"ids", "texts", "ext", "meta"}), "text")
  /\ docIds = Column(Version({"texts", "ext", "meta"}), "id")
  /\ texts = Column(Version({"ext", "meta"}), "text")
  /\ externalIds = Column(Version({"meta"}), "ext")
  /\ metadata = Column(docs, "meta")

BatchInv ==
  /\ adder \in Steps
  /\ adder # "idle" => Columnar(batch) /\ batch.docs # <<>>
  /\ adder = "idle" => batch = NoBatch

\* Before there is a retriever, nothing happens.
FreshInv ==
  /\ built \in BOOLEAN
  /\ ~built => docs = <<>> /\ adder = "idle" /\ \A r \in Readers : call[r] = Idle

StoreInv == ListsInv /\ BatchInv /\ FreshInv

\* What the steps of retrieve() leave alone.
Still == UNCHANGED <<built, embeddings, lists, adder, batch, docs>>

\* A call begins, or goes on.
CallStep(r) == Still /\ call[r].at # "idle" /\ \E c : call' = [call EXCEPT ![r] = c]

LEMMA EmptyColumn ==
  ASSUME NEW f \in Fields
  PROVE  Column(<<>>, f) = <<>>
<1>1. <<>> \in Seq(Document) /\ Len(<<>>) = 0
  BY EmptySeq
<1>2. Len(Column(<<>>, f)) = 0 /\ \E S : Column(<<>>, f) \in Seq(S)
  BY <1>1, ColumnShape DEF Fields
<1> QED BY <1>2, EmptySeq

LEMMA StoreInit == Init => StoreInv
<1> SUFFICES ASSUME Init PROVE StoreInv
  OBVIOUS
<1>1. <<>> \in Seq(Document)
  BY EmptySeq
<1>2. /\ Column(<<>>, "id") = <<>> /\ Column(<<>>, "text") = <<>>
      /\ Column(<<>>, "ext") = <<>> /\ Column(<<>>, "meta") = <<>>
  BY EmptyColumn DEF Fields
<1>3. ListsInv
  BY <1>1, <1>2 DEF Init, ListsInv, Version
<1>4. BatchInv
  BY DEF Init, BatchInv, Steps
<1>5. FreshInv
  BY DEF Init, FreshInv
<1> QED BY <1>3, <1>4, <1>5 DEF StoreInv

\* A step of retrieve() leaves the lists alone, and needs a retriever.
LEMMA CallSteps ==
  ASSUME NEW r \in Readers, Retrieving(r)
  PROVE  CallStep(r)
<1>1. CASE Score(r)
  BY <1>1 DEF Score, CallStep, Still
<1>2. CASE Cut(r)
  BY <1>2 DEF Cut, Answer, CallStep, Still
<1>3. CASE Select(r)
  BY <1>3 DEF Select, CallStep, Still
<1>4. CASE SelectRaises(r)
  BY <1>4 DEF SelectRaises, Answer, CallStep, Still
<1>5. CASE Collect(r)
  BY <1>5 DEF Collect, Answer, CallStep, Still
<1>6. CASE Return(r)
  BY <1>6 DEF Return, CallStep, Still
<1> QED BY <1>1, <1>2, <1>3, <1>4, <1>5, <1>6 DEF Retrieving

\* Whatever leaves the lists alone, and does not call without a retriever.
LEMMA StoreStill ==
  ASSUME StoreInv, Still, ~built => call' = call
  PROVE  StoreInv'
<1>1. ListsInv' /\ BatchInv'
  BY DEF StoreInv, ListsInv, BatchInv, Still, lists, Version, Columnar, Column
<1>2. FreshInv'
  BY DEF StoreInv, FreshInv, Still
<1> QED BY <1>1, <1>2 DEF StoreInv

LEMMA StoreStep == StoreInv /\ [Next]_vars => StoreInv'
<1> SUFFICES ASSUME StoreInv, [Next]_vars PROVE StoreInv'
  OBVIOUS
<1> USE DEF StoreInv
<1>1. CASE Build
  <2>1. PICK a : Columnar(a) /\ Construct(a)
    BY <1>1, BuildColumnar
  <2>2. adder = "idle" /\ adder' = "idle" /\ built' /\ batch = NoBatch /\ batch' = NoBatch
    BY <2>1 DEF Construct, FreshInv, BatchInv
  <2>3. ListsInv'
    BY <2>1, <2>2 DEF Construct, Columnar, ListsInv, Version
  <2> QED BY <2>2, <2>3, <2>1 DEF Construct, BatchInv, FreshInv, Steps
<1>2. CASE Add
  <2>1. Columnar(batch') /\ batch'.docs # <<>>
    BY <1>2, AddColumnar
  <2>2. adder = "idle" /\ adder' = "embed" /\ built /\ built' = built /\ docs' = docs
        /\ UNCHANGED <<embeddings, lists>>
    BY <1>2 DEF Add
  <2>3. ListsInv'
    BY <2>2 DEF ListsInv, Version, lists
  <2>4. BatchInv'
    BY <2>1, <2>2 DEF BatchInv, Steps, Columnar
  <2> QED BY <2>2, <2>3, <2>4 DEF FreshInv
<1>3. ASSUME Adding PROVE StoreInv'
  <2>1. built /\ adder # "idle" /\ Columnar(batch) /\ batch.docs # <<>>
    BY <1>3 DEF Adding, AddFails, AddMatrix, AddIds, AddTexts, AddExternalIds, AddMetadata,
                FreshInv, BatchInv
  <2>2. /\ docs \in Seq(Document) /\ batch.docs \in Seq(Document)
        /\ Column(docs \o batch.docs, "text") = Column(docs, "text") \o batch.texts
        /\ Column(docs \o batch.docs, "id") = Column(docs, "id") \o batch.ids
        /\ Column(docs \o batch.docs, "ext") = Column(docs, "ext") \o batch.ext
        /\ Column(docs \o batch.docs, "meta") = Column(docs, "meta") \o batch.meta
        /\ docs \o batch.docs \in Seq(Document)
    BY <2>1, ColumnOfConcat, ConcatProperties DEF Columnar, ListsInv, Fields
  <2>3. built' = built
    BY <1>3 DEF Adding, AddFails, AddMatrix, AddIds, AddTexts, AddExternalIds, AddMetadata
  <2>4. FreshInv'
    BY <2>1, <2>3 DEF FreshInv
  <2>5. CASE AddFails
    <3>1. ListsInv'
      BY <2>5 DEF AddFails, ListsInv, Version, lists
    <3>2. BatchInv'
      BY <2>5 DEF AddFails, BatchInv, Steps
    <3> QED BY <2>4, <3>1, <3>2
  <2>6. CASE AddMatrix
    <3>1. ListsInv'
      BY <2>2, <2>6 DEF AddMatrix, ListsInv, Version, lists
    <3>2. BatchInv'
      BY <2>1, <2>6 DEF AddMatrix, BatchInv, Steps, Columnar
    <3> QED BY <2>4, <3>1, <3>2
  <2>7. CASE AddIds
    <3>1. ListsInv'
      BY <2>2, <2>7 DEF AddIds, ListsInv, Version
    <3>2. BatchInv'
      BY <2>1, <2>7 DEF AddIds, BatchInv, Steps, Columnar
    <3> QED BY <2>4, <3>1, <3>2
  <2>8. CASE AddTexts
    <3>1. ListsInv'
      BY <2>2, <2>8 DEF AddTexts, ListsInv, Version
    <3>2. BatchInv'
      BY <2>1, <2>8 DEF AddTexts, BatchInv, Steps, Columnar
    <3> QED BY <2>4, <3>1, <3>2
  <2>9. CASE AddExternalIds
    <3>1. ListsInv'
      BY <2>2, <2>9 DEF AddExternalIds, ListsInv, Version
    <3>2. BatchInv'
      BY <2>1, <2>9 DEF AddExternalIds, BatchInv, Steps, Columnar
    <3> QED BY <2>4, <3>1, <3>2
  <2>10. CASE AddMetadata
    <3>1. ListsInv'
      BY <2>2, <2>10 DEF AddMetadata, ListsInv, Version
    <3>2. BatchInv'
      BY <2>10 DEF AddMetadata, BatchInv, Steps
    <3> QED BY <2>4, <3>1, <3>2
  <2> QED BY <1>3, <2>5, <2>6, <2>7, <2>8, <2>9, <2>10 DEF Adding
<1>4. ASSUME NEW r \in Readers, Ask(r) PROVE StoreInv'
  BY <1>4, StoreStill DEF Ask, Still
<1>5. ASSUME NEW r \in Readers, Retrieving(r) PROVE StoreInv'
  <2>1. Still /\ built
    BY <1>5, CallSteps DEF CallStep, FreshInv, Idle
  <2> QED BY <2>1, StoreStill
<1>6. CASE UNCHANGED vars
  BY <1>6, StoreStill DEF vars, Still
<1> QED BY <1>1, <1>2, <1>3, <1>4, <1>5, <1>6 DEF Next

\* The matrix and the lists are always columns of the documents that each has.
THEOREM StoreInvAlways == Spec => []StoreInv
<1> QED BY StoreInit, StoreStep, PTL DEF Spec

\* ParallelAtRest, for every way to build and every sequence of batches.
THEOREM ParallelAtRestAlways == Spec => []ParallelAtRest
<1>1. StoreInv => ParallelAtRest
  BY DEF StoreInv, ListsInv, Version, ParallelAtRest
<1> QED BY <1>1, StoreInvAlways, PTL

\* What a reader finds at the positions of the documents added so far.
LEMMA Present ==
  ASSUME StoreInv
  PROVE  /\ Len(docs) \in Nat /\ DOMAIN docs = 1..Len(docs)
         /\ embeddings \in Seq(Texts) /\ texts \in Seq(Texts) /\ docIds \in Seq(Int)
         /\ externalIds \in Seq(Externals) /\ metadata \in Seq(Metas)
         /\ Len(embeddings) >= Len(docs) /\ Len(docIds) >= Len(docs)
         /\ Len(texts) >= Len(docs) /\ Len(externalIds) >= Len(docs)
         /\ Len(metadata) = Len(docs)
         /\ \A i \in 1..Len(docs) :
              /\ docs[i] \in Document
              /\ embeddings[i] = docs[i].text /\ texts[i] = docs[i].text
              /\ docIds[i] = docs[i].id /\ externalIds[i] = docs[i].ext
              /\ metadata[i] = docs[i].meta
         /\ adder \in {"idle", "embed"} =>
              /\ Len(embeddings) = Len(docs) /\ Len(docIds) = Len(docs)
              /\ Len(texts) = Len(docs) /\ Len(externalIds) = Len(docs)
<1>1. /\ docs \in Seq(Document) /\ Len(docs) \in Nat /\ DOMAIN docs = 1..Len(docs)
      /\ \A i \in 1..Len(docs) : docs[i] \in Document
  <2>1. docs \in Seq(Document)
    BY DEF StoreInv, ListsInv
  <2> QED BY <2>1, LenProperties, ElementOfSeq
<1>2. ASSUME NEW steps, "idle" \notin steps, "embed" \notin steps
      PROVE  /\ Version(steps) \in Seq(Document) /\ Len(Version(steps)) \in Nat
             /\ Len(Version(steps)) >= Len(docs)
             /\ \A i \in 1..Len(docs) : Version(steps)[i] = docs[i]
             /\ adder \in {"idle", "embed"} => Version(steps) = docs
  <2>1. CASE adder \in steps
    <3>1. batch.docs \in Seq(Document) /\ adder \notin {"idle", "embed"}
      BY <1>2, <2>1 DEF StoreInv, BatchInv, Columnar
    <3>2. /\ docs \o batch.docs \in Seq(Document)
          /\ Len(docs \o batch.docs) = Len(docs) + Len(batch.docs)
          /\ \A i \in 1..(Len(docs) + Len(batch.docs)) :
               (docs \o batch.docs)[i] =
                 IF i <= Len(docs) THEN docs[i] ELSE batch.docs[i - Len(docs)]
      BY <1>1, <3>1, ConcatProperties
    <3>3. Len(batch.docs) \in Nat
      BY <3>1, LenProperties
    <3>4. \A i \in 1..Len(docs) : i \in 1..(Len(docs) + Len(batch.docs)) /\ i <= Len(docs)
      BY <1>1, <3>3
    <3>5. Version(steps) = docs \o batch.docs
      BY <2>1 DEF Version
    <3>6. \A i \in 1..Len(docs) : Version(steps)[i] = docs[i]
      BY <3>2, <3>4, <3>5
    <3>7. /\ Version(steps) \in Seq(Document) /\ Len(Version(steps)) \in Nat
          /\ Len(Version(steps)) >= Len(docs)
      BY <1>1, <3>2, <3>3, <3>5
    <3> QED BY <3>1, <3>6, <3>7
  <2>2. CASE adder \notin steps
    BY <1>1, <2>2 DEF Version
  <2> QED BY <2>1, <2>2
<1> DEFINE E == Version({"ids", "texts", "ext", "meta"})
           I == Version({"texts", "ext", "meta"})
           T == Version({"ext", "meta"})
           X == Version({"meta"})
<1>3. /\ embeddings = Column(E, "text") /\ docIds = Column(I, "id") /\ texts = Column(T, "text")
      /\ externalIds = Column(X, "ext") /\ metadata = Column(docs, "meta")
  BY DEF StoreInv, ListsInv
<1>4. ASSUME NEW v \in Seq(Document), NEW f \in Fields, Len(v) >= Len(docs),
             \A i \in 1..Len(docs) : v[i] = docs[i]
      PROVE  /\ Len(Column(v, f)) = Len(v)
             /\ \A i \in 1..Len(docs) : Column(v, f)[i] = docs[i][f]
  <2>1. /\ Len(Column(v, f)) = Len(v) /\ Len(v) \in Nat
        /\ \A i \in 1..Len(v) : Column(v, f)[i] = v[i][f]
    BY ColumnShape
  <2>2. \A i \in 1..Len(docs) : i \in 1..Len(v)
    BY <1>1, <1>4, <2>1
  <2> QED BY <1>4, <2>1, <2>2
<1>5. /\ E \in Seq(Document) /\ Len(E) >= Len(docs) /\ \A i \in 1..Len(docs) : E[i] = docs[i]
      /\ adder \in {"idle", "embed"} => E = docs
  BY <1>2
<1>6. /\ I \in Seq(Document) /\ Len(I) >= Len(docs) /\ \A i \in 1..Len(docs) : I[i] = docs[i]
      /\ adder \in {"idle", "embed"} => I = docs
  BY <1>2
<1>7. /\ T \in Seq(Document) /\ Len(T) >= Len(docs) /\ \A i \in 1..Len(docs) : T[i] = docs[i]
      /\ adder \in {"idle", "embed"} => T = docs
  BY <1>2
<1>8. /\ X \in Seq(Document) /\ Len(X) >= Len(docs) /\ \A i \in 1..Len(docs) : X[i] = docs[i]
      /\ adder \in {"idle", "embed"} => X = docs
  BY <1>2
<1> HIDE DEF E, I, T, X
<1>9. /\ "id" \in Fields /\ "text" \in Fields /\ "ext" \in Fields /\ "meta" \in Fields
  BY DEF Fields
<1>10. /\ embeddings \in Seq(Texts) /\ texts \in Seq(Texts) /\ docIds \in Seq(Int)
       /\ externalIds \in Seq(Externals) /\ metadata \in Seq(Metas)
  BY <1>1, <1>3, <1>5, <1>6, <1>7, <1>8, <1>9, ColumnShape
<1>11. /\ Len(embeddings) = Len(E) /\ Len(docIds) = Len(I) /\ Len(texts) = Len(T)
       /\ Len(externalIds) = Len(X) /\ Len(metadata) = Len(docs)
  BY <1>1, <1>3, <1>5, <1>6, <1>7, <1>8, <1>9, ColumnShape
<1>12. \A i \in 1..Len(docs) :
         /\ embeddings[i] = docs[i].text /\ texts[i] = docs[i].text
         /\ docIds[i] = docs[i].id /\ externalIds[i] = docs[i].ext
         /\ metadata[i] = docs[i].meta
  <2>1. Len(docs) >= Len(docs)
    BY <1>1
  <2> QED BY <1>1, <1>3, <1>4, <1>5, <1>6, <1>7, <1>8, <1>9, <2>1
<1> QED BY <1>1, <1>5, <1>6, <1>7, <1>8, <1>10, <1>11, <1>12

(***************************************************************************)
(* The calls of retrieve().                                                *)
(***************************************************************************)

Asking == {"score", "cut", "select", "collect"}
Resting == {"idle", "embed"}

Extends(new, old) ==
  Len(old) <= Len(new) /\ \A i \in 1..Len(old) : new[i] = old[i]

HitTrue(h, query, ds) ==
  /\ [id |-> h.doc_id, text |-> h.text, ext |-> h.external_id, meta |-> h.metadata]
       \in Range(ds)
  /\ h.score = Sim(query, h.text)

\* A call c, where the documents are ds, the matrix es and the adder is before ad.
CallInv(c, ds, es, ad) ==
  /\ c.from <= Len(ds)
  /\ c.at = "idle" => c = Idle
  /\ c.at # "idle" => c.query \in Queries
  /\ c.at # "answered" => c.hits = <<>> /\ ~c.raised
  /\ c.at \in {"cut", "select", "collect"} => Extends(es, c.rows) /\ c.from <= Len(c.rows)
  /\ c.at = "select" => 1 <= c.n /\ c.n <= c.k /\ Lower(c.k, c.from) <= c.n
  /\ c.at = "collect" =>
       c.top \in Tops(c.rows, c.query, Len(c.top)) /\ Lower(c.k, c.from) <= Len(c.top)
  /\ c.quiet /\ c.at \in Asking =>
       /\ ad \in Resting /\ Len(ds) = c.from
       /\ c.at # "score" => Len(c.rows) = c.from
       /\ c.at = "collect" => Len(c.top) <= c.k
  /\ \A a \in DOMAIN c.hits : HitTrue(c.hits[a], c.query, ds)

CallsInv ==
  /\ call \in [Readers -> Call]
  /\ \A r \in Readers : CallInv(call[r], docs, embeddings, adder)

IInv == StoreInv /\ CallsInv

LEMMA Transitive == \A x, y, z \in Nat : x <= y /\ y <= z => x <= z
  OBVIOUS

LEMMA Within == \A m, n \in Nat : m <= n => \A i \in 1..m : i \in 1..n
  OBVIOUS

LEMMA ExtendsTransitive ==
  ASSUME NEW S, NEW a \in Seq(S), NEW b \in Seq(S), NEW c \in Seq(S),
         Extends(b, a), Extends(c, b)
  PROVE  Extends(c, a)
<1>1. Len(a) \in Nat /\ Len(b) \in Nat /\ Len(c) \in Nat
  BY LenProperties
<1>2. Len(a) <= Len(b) /\ Len(b) <= Len(c)
  BY DEF Extends
<1>3. \A i \in 1..Len(a) : i \in 1..Len(b)
  BY <1>1, <1>2
<1> QED BY <1>1, <1>2, <1>3 DEF Extends

LEMMA ConcatExtends ==
  ASSUME NEW S, NEW a \in Seq(S), NEW b \in Seq(S)
  PROVE  Extends(a \o b, a)
<1>1. Len(a) \in Nat /\ Len(b) \in Nat
  BY LenProperties
<1>2. /\ Len(a \o b) = Len(a) + Len(b)
      /\ \A i \in 1..(Len(a) + Len(b)) : (a \o b)[i] = IF i <= Len(a) THEN a[i] ELSE b[i - Len(a)]
  BY ConcatProperties
<1>3. \A i \in 1..Len(a) : i \in 1..(Len(a) + Len(b)) /\ i <= Len(a)
  BY <1>1
<1> QED BY <1>1, <1>2, <1>3 DEF Extends

\* A call that does nothing while the documents and the matrix grow.
LEMMA CallKept ==
  ASSUME NEW ds \in Seq(Document), NEW ds2 \in Seq(Document), Extends(ds2, ds),
         NEW es \in Seq(Texts), NEW es2 \in Seq(Texts), Extends(es2, es),
         NEW ad, NEW ad2,
         NEW c \in Call, CallInv(c, ds, es, ad),
         NEW d, d = c \/ (c.at \in Asking /\ d = [c EXCEPT !.quiet = FALSE]),
         d.quiet /\ d.at \in Asking => ad2 \in Resting /\ Len(ds2) = Len(ds)
  PROVE  d \in Call /\ CallInv(d, ds2, es2, ad2)
<1>1. /\ Len(ds) \in Nat /\ Len(ds2) \in Nat /\ Len(es) \in Nat /\ Len(es2) \in Nat
      /\ DOMAIN ds = 1..Len(ds) /\ DOMAIN ds2 = 1..Len(ds2)
  BY LenProperties
<1>2. /\ d \in Call
      /\ d.at = c.at /\ d.query = c.query /\ d.k = c.k /\ d.from = c.from /\ d.rows = c.rows
      /\ d.n = c.n /\ d.top = c.top /\ d.raised = c.raised /\ d.hits = c.hits
      /\ d.quiet => c.quiet
  BY DEF Call
<1>3. /\ c.from \in Nat /\ c.rows \in Seq(Texts) /\ Len(c.rows) \in Nat
  BY LenProperties DEF Call
<1>4. d.from <= Len(ds2)
  <2>1. c.from <= Len(ds)
    BY DEF CallInv
  <2>2. Len(ds) <= Len(ds2)
    BY DEF Extends
  <2>3. c.from <= Len(ds2)
    BY <1>1, <1>3, <2>1, <2>2, Transitive, Zenon
  <2> QED BY <1>2, <2>3
<1>5. ASSUME d.at = "idle" PROVE d = Idle
  <2>1. d = c
    BY <1>2, <1>5 DEF Asking
  <2> QED BY <1>5, <2>1 DEF CallInv
<1>6. ASSUME d.at \in {"cut", "select", "collect"} PROVE Extends(es2, d.rows)
  <2>1. Extends(es, c.rows)
    BY <1>2, <1>6 DEF CallInv
  <2> QED BY <1>2, <2>1, ExtendsTransitive DEF Call
<1>7. ASSUME NEW a \in DOMAIN d.hits PROVE HitTrue(d.hits[a], d.query, ds2)
  <2>1. HitTrue(c.hits[a], c.query, ds)
    BY <1>2 DEF CallInv
  <2>2. Range(ds) \subseteq Range(ds2)
    <3>1. Len(ds) <= Len(ds2) /\ \A i \in 1..Len(ds) : ds2[i] = ds[i]
      BY DEF Extends
    <3>2. \A i \in 1..Len(ds) : i \in 1..Len(ds2)
      BY <1>1, <3>1, Within, Zenon
    <3> QED BY <1>1, <3>1, <3>2 DEF Range
  <2> QED BY <1>2, <2>1, <2>2 DEF HitTrue
<1>8. d.quiet /\ d.at \in Asking => Len(ds2) = d.from /\ ad2 \in Resting
  BY <1>2 DEF CallInv
<1> QED BY <1>2, <1>4, <1>5, <1>6, <1>7, <1>8 DEF CallInv

\* An answer with true hits.
LEMMA Answered ==
  ASSUME CallsInv, NEW r \in Readers, call[r].at \in Asking,
         NEW raised \in BOOLEAN, NEW hits \in Seq(HitType),
         \A a \in DOMAIN hits : HitTrue(hits[a], call[r].query, docs),
         Answer(r, raised, hits)
  PROVE  call'[r] \in Call /\ CallInv(call'[r], docs, embeddings, adder)
<1> DEFINE c == call[r]
           d == call'[r]
<1>1. c \in Call /\ CallInv(c, docs, embeddings, adder)
  BY DEF CallsInv
<1>2. d = [c EXCEPT !.at = "answered", !.raised = raised, !.hits = hits,
                    !.rows = <<>>, !.n = 0, !.top = <<>>]
  BY DEF Answer, CallsInv
<1> HIDE DEF c, d
<1>3. <<>> \in Seq(Texts) /\ <<>> \in Seq(Nat)
  BY EmptySeq
<1>4. /\ d \in Call
      /\ d.at = "answered" /\ d.hits = hits /\ d.query = c.query /\ d.from = c.from
  BY <1>1, <1>2, <1>3 DEF Call
<1>5. c.from <= Len(docs) /\ c.query \in Queries
  BY <1>1 DEF CallInv, Asking, c
<1>6. CallInv(d, docs, embeddings, adder)
  BY <1>4, <1>5 DEF CallInv, Asking, c
<1> QED BY <1>4, <1>6 DEF d

LEMMA NoHits ==
  /\ <<>> \in Seq(HitType)
  /\ \A q : \A a \in DOMAIN <<>> : HitTrue(<<>>[a], q, docs)
<1>1. <<>> \in Seq(HitType)
  BY EmptySeq
<1>2. DOMAIN <<>> = {}
  BY EmptySeq
<1> QED BY <1>1, <1>2

LEMMA AskInv ==
  ASSUME IInv, NEW r \in Readers, Ask(r)
  PROVE  call'[r] \in Call /\ CallInv(call'[r], docs, embeddings, adder)
<1>1. PICK q \in Queries, k \in TopK :
        call' = [call EXCEPT ![r] =
                  [Idle EXCEPT !.at = "score", !.query = q, !.k = k,
                               !.from = Len(docs),
                               !.quiet = adder \in {"idle", "embed"}]]
  BY DEF Ask
<1>2. call'[r] = [Idle EXCEPT !.at = "score", !.query = q, !.k = k, !.from = Len(docs),
                              !.quiet = adder \in {"idle", "embed"}]
  BY <1>1 DEF IInv, CallsInv
<1> DEFINE d == call'[r]
<1> HIDE DEF d
<1>3. /\ d.at = "score" /\ d.query = q /\ d.k = k /\ d.from = Len(docs)
      /\ d.quiet = (adder \in {"idle", "embed"})
      /\ d.rows = <<>> /\ d.n = 0 /\ d.top = <<>> /\ d.raised = FALSE /\ d.hits = <<>>
      /\ d = [at |-> "score", query |-> q, k |-> k, from |-> Len(docs),
              quiet |-> adder \in {"idle", "embed"}, rows |-> <<>>, n |-> 0,
              top |-> <<>>, raised |-> FALSE, hits |-> <<>>]
  BY <1>2 DEF Idle, d
<1>4. Len(docs) \in Nat /\ k \in Int
  BY Present, NumbersAssumption DEF IInv
<1>5. <<>> \in Seq(Texts) /\ <<>> \in Seq(Nat) /\ <<>> \in Seq(HitType) /\ DOMAIN <<>> = {}
  BY EmptySeq
<1>6. (adder \in {"idle", "embed"}) \in BOOLEAN
  OBVIOUS
<1>7. d \in Call
  BY <1>3, <1>4, <1>5, <1>6 DEF Call
<1>8. CallInv(d, docs, embeddings, adder)
  <2>1. d.from <= Len(docs)
    BY <1>3, <1>4
  <2>2. d.quiet => adder \in Resting
    BY <1>3 DEF Resting
  <2>3. \A a \in DOMAIN d.hits : HitTrue(d.hits[a], d.query, docs)
    BY <1>3, <1>5
  <2> QED BY <1>3, <2>1, <2>2, <2>3 DEF CallInv, Asking
<1> QED BY <1>7, <1>8 DEF d

LEMMA ScoreInv ==
  ASSUME IInv, NEW r \in Readers, Score(r)
  PROVE  call'[r] \in Call /\ CallInv(call'[r], docs, embeddings, adder)
<1> DEFINE c == call[r]
           d == call'[r]
<1>1. c \in Call /\ CallInv(c, docs, embeddings, adder)
  BY DEF IInv, CallsInv
<1>2. c.at = "score" /\ d = [c EXCEPT !.at = "cut", !.rows = embeddings]
  BY DEF Score, IInv, CallsInv
<1> HIDE DEF c, d
<1>3. /\ embeddings \in Seq(Texts) /\ Len(embeddings) \in Nat /\ Len(docs) \in Nat
      /\ Len(docs) <= Len(embeddings)
      /\ adder \in Resting => Len(embeddings) = Len(docs)
  BY Present, LenProperties DEF IInv, Resting
<1>4. /\ d \in Call
      /\ d.at = "cut" /\ d.rows = embeddings /\ d.query = c.query /\ d.k = c.k
      /\ d.from = c.from /\ d.quiet = c.quiet /\ d.hits = c.hits /\ d.raised = c.raised
  BY <1>1, <1>2, <1>3 DEF Call
<1>5. Extends(embeddings, d.rows)
  BY <1>3, <1>4 DEF Extends
<1>6. c.from \in Nat /\ c.from <= Len(docs)
  BY <1>1 DEF Call, CallInv
<1>7. d.from <= Len(d.rows)
  BY <1>3, <1>4, <1>6, Transitive, Zenon
<1>8. /\ c.query \in Queries /\ c.hits = <<>> /\ ~c.raised
      /\ c.quiet => adder \in Resting /\ Len(docs) = c.from
      /\ \A a \in DOMAIN c.hits : HitTrue(c.hits[a], c.query, docs)
  BY <1>1, <1>2 DEF CallInv, Asking
<1>9. d.quiet => adder \in Resting /\ Len(docs) = d.from /\ Len(d.rows) = d.from
  BY <1>3, <1>4, <1>8
<1>10. CallInv(d, docs, embeddings, adder)
  BY <1>4, <1>5, <1>6, <1>7, <1>8, <1>9 DEF CallInv, Asking
<1> QED BY <1>4, <1>10 DEF d

\* The lower of two numbers.
LEMMA LowerProperties ==
  ASSUME NEW a \in Int, NEW b \in Int
  PROVE  /\ Lower(a, b) \in Int /\ Lower(a, b) <= a /\ Lower(a, b) <= b
         /\ \A x \in Int : x <= b => Lower(a, x) <= Lower(a, b)
         /\ Lower(a, b) = a \/ Lower(a, b) = b
  BY DEF Lower

LEMMA CutInv ==
  ASSUME IInv, NEW r \in Readers, Cut(r)
  PROVE  call'[r] \in Call /\ CallInv(call'[r], docs, embeddings, adder)
<1> DEFINE c == call[r]
           d == call'[r]
           n == Lower(call[r].k, Len(docIds))
<1>1. c \in Call /\ CallInv(c, docs, embeddings, adder) /\ c.at = "cut"
  BY DEF IInv, CallsInv, Cut
<1>2. CASE n <= 0
  <2>1. Answer(r, FALSE, <<>>)
    BY <1>2 DEF Cut
  <2> QED BY <1>1, <2>1, NoHits, Answered DEF IInv, Asking
<1>3. CASE ~(n <= 0)
  <2>1. d = [c EXCEPT !.at = "select", !.n = n]
    BY <1>3 DEF Cut, IInv, CallsInv
  <2>2. /\ Len(docs) \in Nat /\ Len(docIds) \in Nat /\ Len(docs) <= Len(docIds)
    BY Present, LenProperties DEF IInv
  <2>3. c.k \in Int /\ c.from \in Nat /\ c.from <= Len(docs)
    BY <1>1 DEF Call, CallInv
  <2>4. c.from <= Len(docIds)
    BY <2>2, <2>3, Transitive, Zenon
  <2>5. n \in Int /\ n <= c.k /\ Lower(c.k, c.from) <= n
    <3>1. Len(docIds) \in Int /\ c.from \in Int
      BY <2>2, <2>3
    <3> QED BY <2>3, <2>4, <3>1, LowerProperties
  <2> HIDE DEF n, c, d
  <2>6. n \in Nat /\ 1 <= n
    BY <1>3, <2>5
  <2>7. /\ d \in Call
        /\ d.at = "select" /\ d.n = n /\ d.rows = c.rows /\ d.query = c.query /\ d.k = c.k
        /\ d.from = c.from /\ d.quiet = c.quiet /\ d.hits = c.hits /\ d.raised = c.raised
    BY <1>1, <2>1, <2>6 DEF Call
  <2>8. CallInv(d, docs, embeddings, adder)
    BY <1>1, <2>5, <2>6, <2>7 DEF CallInv, Asking
  <2> QED BY <2>7, <2>8 DEF d
<1> QED BY <1>2, <1>3

LEMMA SelectInv ==
  ASSUME IInv, NEW r \in Readers, Select(r)
  PROVE  call'[r] \in Call /\ CallInv(call'[r], docs, embeddings, adder)
<1> DEFINE c == call[r]
           d == call'[r]
           size == IF c.n < Len(docIds) THEN c.n ELSE Len(c.rows)
<1>1. c \in Call /\ CallInv(c, docs, embeddings, adder) /\ c.at = "select"
  BY DEF IInv, CallsInv, Select
<1>2. PICK top \in Tops(c.rows, c.query, size) : d = [c EXCEPT !.at = "collect", !.top = top]
  BY DEF Select, IInv, CallsInv
<1>3. /\ Len(docs) \in Nat /\ Len(docIds) \in Nat
      /\ adder \in Resting => Len(docIds) = Len(docs)
  BY Present, LenProperties DEF IInv, Resting
<1>4. /\ c.k \in Int /\ c.from \in Nat /\ c.n \in Nat /\ c.rows \in Seq(Texts)
      /\ Len(c.rows) \in Nat /\ DOMAIN c.rows = 1..Len(c.rows)
  BY <1>1, LenProperties DEF Call
<1>5. /\ c.n <= c.k /\ Lower(c.k, c.from) <= c.n /\ c.from <= Len(c.rows)
      /\ c.quiet => adder \in Resting /\ Len(docs) = c.from /\ Len(c.rows) = c.from
  BY <1>1 DEF CallInv, Asking
<1> HIDE DEF c, d
<1>6. /\ size \in Nat
      /\ Lower(c.k, c.from) <= size
      /\ c.quiet => size <= c.k
  <2>1. CASE c.n < Len(docIds)
    BY <1>4, <1>5, <2>1
  <2>2. CASE ~(c.n < Len(docIds))
    <3>1. c.k \in Int /\ c.from \in Int
      BY <1>4
    <3>2. Lower(c.k, c.from) \in Int /\ Lower(c.k, c.from) <= c.from
      BY <3>1, LowerProperties
    <3>3. size = Len(c.rows)
      BY <2>2
    <3> QED BY <1>3, <1>4, <1>5, <2>2, <3>1, <3>2, <3>3
  <2> QED BY <2>1, <2>2
<1> HIDE DEF size
<1>7. top \in [1..size -> Nat] /\ top \in [1..size -> DOMAIN c.rows]
  BY <1>2, <1>4 DEF Tops
<1>8. top \in Seq(Nat) /\ Len(top) = size
  BY <1>6, <1>7, SeqOf
<1>9. /\ d \in Call
      /\ d.at = "collect" /\ d.top = top /\ d.rows = c.rows /\ d.query = c.query /\ d.k = c.k
      /\ d.from = c.from /\ d.quiet = c.quiet /\ d.hits = c.hits /\ d.raised = c.raised
  BY <1>1, <1>2, <1>8 DEF Call
<1>10. d.top \in Tops(d.rows, d.query, Len(d.top)) /\ Lower(d.k, d.from) <= Len(d.top)
  BY <1>2, <1>6, <1>8, <1>9
<1>11. d.quiet => Len(d.top) <= d.k
  BY <1>6, <1>8, <1>9
<1>12. CallInv(d, docs, embeddings, adder)
  BY <1>1, <1>9, <1>10, <1>11 DEF CallInv, Asking
<1> QED BY <1>9, <1>12 DEF d

\* The positions chosen are positions of rows.
LEMMA Chosen ==
  ASSUME NEW rows \in Seq(Texts), NEW q, NEW n \in Nat, NEW top \in Tops(rows, q, n)
  PROVE  /\ DOMAIN top = 1..n /\ \A a \in 1..n : top[a] \in 1..Len(rows)
  BY LenProperties DEF Tops

\* What Collect reads at a position where every list has an element.
LEMMA HitOfRow ==
  ASSUME StoreInv, NEW q \in Queries, NEW rows \in Seq(Texts), Extends(embeddings, rows),
         NEW i \in 1..Len(rows), i \in DOMAIN metadata
  PROVE  /\ HitAt(q, rows, i) \in HitType /\ HitTrue(HitAt(q, rows, i), q, docs)
         /\ HitAt(q, rows, i) = Index!Hit(q, docs[i])
         /\ i \in 1..Len(docs) /\ rows[i] = docs[i].text
<1>1. i \in 1..Len(docs)
  BY Present, LenProperties
<1>2. /\ docs[i] \in Document
      /\ embeddings[i] = docs[i].text /\ texts[i] = docs[i].text
      /\ docIds[i] = docs[i].id /\ externalIds[i] = docs[i].ext
      /\ metadata[i] = docs[i].meta
      /\ i \in DOMAIN docs
  BY <1>1, Present
<1>3. rows[i] = docs[i].text
  BY <1>2 DEF Extends
<1>4. /\ docs[i].id \in Int /\ docs[i].text \in Texts /\ docs[i].ext \in Externals
      /\ docs[i].meta \in Metas
      /\ docs[i] = [id |-> docs[i].id, text |-> docs[i].text, ext |-> docs[i].ext,
                    meta |-> docs[i].meta]
  BY <1>2 DEF Document
<1>5. Sim(q, docs[i].text) \in Int
  BY <1>4, NumbersAssumption
<1>6. HitAt(q, rows, i) =
        [doc_id |-> docs[i].id, score |-> Sim(q, docs[i].text), text |-> docs[i].text,
         external_id |-> docs[i].ext, metadata |-> docs[i].meta]
  BY <1>2, <1>3 DEF HitAt
<1>7. HitAt(q, rows, i) \in HitType
  BY <1>4, <1>5, <1>6 DEF HitType
<1>8. HitTrue(HitAt(q, rows, i), q, docs)
  BY <1>2, <1>4, <1>6 DEF HitTrue, Range
<1> QED BY <1>1, <1>3, <1>6, <1>7, <1>8 DEF Index!Hit

LEMMA CollectInv ==
  ASSUME IInv, NEW r \in Readers, Collect(r)
  PROVE  call'[r] \in Call /\ CallInv(call'[r], docs, embeddings, adder)
<1> DEFINE c == call[r]
           present == DOMAIN docIds \cap DOMAIN texts \cap DOMAIN externalIds
                        \cap DOMAIN metadata
           hits == [a \in DOMAIN c.top |-> HitAt(c.query, c.rows, c.top[a])]
<1>1. c \in Call /\ CallInv(c, docs, embeddings, adder) /\ c.at = "collect"
  BY DEF IInv, CallsInv, Collect
<1>2. CASE \A a \in DOMAIN c.top : c.top[a] \in present
  <2>1. Answer(r, FALSE, hits)
    BY <1>2 DEF Collect
  <2>2. /\ c.query \in Queries /\ c.rows \in Seq(Texts) /\ Extends(embeddings, c.rows)
        /\ Len(c.top) \in Nat /\ c.top \in Tops(c.rows, c.query, Len(c.top))
    <3>1. c.rows \in Seq(Texts) /\ c.top \in Seq(Nat)
      BY <1>1 DEF Call
    <3> QED BY <1>1, <3>1, LenProperties DEF CallInv
  <2>3. /\ DOMAIN c.top = 1..Len(c.top)
        /\ \A a \in 1..Len(c.top) : c.top[a] \in 1..Len(c.rows) /\ c.top[a] \in DOMAIN metadata
    BY <1>2, <2>2, Chosen
  <2> HIDE DEF c
  <2>4. \A a \in 1..Len(c.top) : /\ HitAt(c.query, c.rows, c.top[a]) \in HitType
                                 /\ HitTrue(HitAt(c.query, c.rows, c.top[a]), c.query, docs)
    BY <2>2, <2>3, HitOfRow DEF IInv
  <2>5. hits \in [1..Len(c.top) -> HitType]
    BY <2>3, <2>4
  <2>6. hits \in Seq(HitType)
    BY <2>2, <2>5, SeqOf
  <2>7. \A a \in DOMAIN hits : HitTrue(hits[a], c.query, docs)
    BY <2>3, <2>4
  <2> HIDE DEF hits
  <2> QED BY <1>1, <2>1, <2>6, <2>7, Answered DEF IInv, Asking, c
<1>3. CASE ~\A a \in DOMAIN c.top : c.top[a] \in present
  <2>1. Answer(r, TRUE, <<>>)
    BY <1>3 DEF Collect
  <2> QED BY <1>1, <2>1, NoHits, Answered DEF IInv, Asking
<1> QED BY <1>2, <1>3

LEMMA IdleInv ==
  ASSUME StoreInv
  PROVE  Idle \in Call /\ CallInv(Idle, docs, embeddings, adder)
<1>1. /\ <<>> \in Seq(Texts) /\ <<>> \in Seq(Nat) /\ <<>> \in Seq(HitType)
      /\ DOMAIN <<>> = {} /\ Len(docs) \in Nat
  BY EmptySeq, Present
<1>2. Idle \in Call
  BY <1>1 DEF Idle, Call
<1>3. CallInv(Idle, docs, embeddings, adder)
  BY <1>1 DEF Idle, CallInv, Asking
<1> QED BY <1>2, <1>3

\* Another step: the call does nothing while the documents and the matrix grow.
LEMMA Grown ==
  ASSUME StoreInv, [Next]_vars
  PROVE  Extends(docs', docs) /\ Extends(embeddings', embeddings)
<1>1. /\ docs \in Seq(Document) /\ embeddings \in Seq(Texts)
      /\ Len(docs) \in Nat /\ Len(embeddings) \in Nat
  BY Present, LenProperties DEF StoreInv, ListsInv
<1>2. \A S : \A s \in Seq(S) : Extends(s, s)
  BY LenProperties DEF Extends
<1>3. CASE Build
  <2>1. docs = <<>> /\ embeddings = <<>>
    <3>1. docs = <<>> /\ adder = "idle"
      BY <1>3, BuildColumnar DEF Construct, StoreInv, FreshInv
    <3>2. embeddings = Column(<<>>, "text")
      BY <3>1 DEF StoreInv, ListsInv, Version
    <3> QED BY <3>1, <3>2, EmptyColumn DEF Fields
  <2>2. PICK a : Columnar(a) /\ Construct(a)
    BY <1>3, BuildColumnar
  <2>3. Len(docs') \in Nat /\ Len(embeddings') \in Nat
    BY <2>2, ColumnShape DEF Construct, Columnar, Fields
  <2> QED BY <2>1, <2>3, EmptySeq DEF Extends
<1>4. CASE AddMatrix
  <2>1. batch.texts \in Seq(Texts)
    BY <1>4, ColumnShape DEF AddMatrix, StoreInv, BatchInv, Columnar, Fields
  <2>2. Extends(embeddings \o batch.texts, embeddings)
    BY <1>1, <2>1, ConcatExtends
  <2> QED BY <1>1, <1>2, <1>4, <2>2 DEF AddMatrix
<1>5. CASE AddMetadata
  <2>1. batch.docs \in Seq(Document)
    BY <1>5 DEF AddMetadata, StoreInv, BatchInv, Columnar
  <2>2. Extends(docs \o batch.docs, docs)
    BY <1>1, <2>1, ConcatExtends
  <2> QED BY <1>1, <1>2, <1>5, <2>2 DEF AddMetadata
<1>6. CASE UNCHANGED <<docs, embeddings>>
  BY <1>1, <1>2, <1>6
<1> QED
  BY <1>3, <1>4, <1>5, <1>6, CallSteps
     DEF Next, Adding, Add, AddFails, AddIds, AddTexts, AddExternalIds, Ask, CallStep, Still, vars

LEMMA CallsInit == Init => CallsInv
<1> SUFFICES ASSUME Init PROVE CallsInv
  OBVIOUS
<1>1. StoreInv
  BY StoreInit
<1>2. \A r \in Readers : call[r] = Idle
  BY DEF Init
<1>3. Idle \in Call /\ CallInv(Idle, docs, embeddings, adder)
  BY <1>1, IdleInv
<1> QED BY <1>2, <1>3 DEF CallsInv, Init

\* A step that is not of call r itself.
LEMMA CallElse ==
  ASSUME IInv, [Next]_vars, StoreInv', NEW r \in Readers,
         \/ call'[r] = call[r]
         \/ call[r].at \in Asking /\ call'[r] = [call[r] EXCEPT !.quiet = FALSE],
         call'[r].quiet /\ call'[r].at \in Asking =>
           adder' \in Resting /\ docs' = docs
  PROVE  call'[r] \in Call /\ CallInv(call'[r], docs', embeddings', adder')
<1>1. /\ docs \in Seq(Document) /\ docs' \in Seq(Document)
      /\ embeddings \in Seq(Texts)
  BY Present DEF IInv, StoreInv, ListsInv
<1>2. embeddings' \in Seq(Texts)
  <2>1. CASE adder' \in {"ids", "texts", "ext", "meta"}
    <3>1. docs' \o batch'.docs \in Seq(Document)
      BY <1>1, <2>1, ConcatProperties DEF StoreInv, BatchInv, Columnar
    <3> QED BY <2>1, <3>1, ColumnShape DEF StoreInv, ListsInv, Version, Fields
  <2>2. CASE adder' \notin {"ids", "texts", "ext", "meta"}
    BY <1>1, <2>2, ColumnShape DEF StoreInv, ListsInv, Version, Fields
  <2> QED BY <2>1, <2>2
<1>3. Extends(docs', docs) /\ Extends(embeddings', embeddings)
  BY Grown DEF IInv
<1>4. call[r] \in Call /\ CallInv(call[r], docs, embeddings, adder)
  BY DEF IInv, CallsInv
<1>5. call'[r].quiet /\ call'[r].at \in Asking => adder' \in Resting /\ Len(docs') = Len(docs)
  OBVIOUS
<1> QED BY <1>1, <1>2, <1>3, <1>4, <1>5, CallKept

LEMMA CallsStep == IInv /\ [Next]_vars => CallsInv'
<1> SUFFICES ASSUME IInv, [Next]_vars PROVE CallsInv'
  OBVIOUS
<1> USE DEF IInv
<1>1. StoreInv'
  BY StoreStep
<1>2. /\ call' \in [Readers -> Call]
      /\ \A r \in Readers : CallInv(call'[r], docs', embeddings', adder')
      => CallsInv'
  BY DEF CallsInv
<1>3. \A r \in Readers : call[r] \in Call /\ CallInv(call[r], docs, embeddings, adder)
  BY DEF CallsInv
<1>4. \A r \in Readers :
        call[r].quiet /\ call[r].at \in Asking => adder \in Resting
  BY <1>3 DEF CallInv
<1>5. ASSUME UNCHANGED call,
             \A r \in Readers : call[r].quiet /\ call[r].at \in Asking =>
                                  adder' \in Resting /\ docs' = docs
      PROVE  CallsInv'
  <2>1. \A r \in Readers : call'[r] \in Call /\ CallInv(call'[r], docs', embeddings', adder')
    BY <1>1, <1>5, CallElse
  <2> QED BY <1>5, <2>1 DEF CallsInv
<1>6. ASSUME NEW r \in Readers, Still, NEW c, call' = [call EXCEPT ![r] = c],
             call'[r] \in Call /\ CallInv(call'[r], docs, embeddings, adder)
      PROVE  CallsInv'
  <2>1. docs' = docs /\ embeddings' = embeddings /\ adder' = adder
    BY <1>6 DEF Still
  <2>2. \A u \in Readers : call'[u] \in Call /\ CallInv(call'[u], docs', embeddings', adder')
    BY <1>3, <1>6, <2>1
  <2> QED BY <1>6, <2>2 DEF CallsInv
<1>7. CASE Build
  <2>1. UNCHANGED call /\ \A r \in Readers : call[r] = Idle
    BY <1>7, BuildColumnar DEF Construct, StoreInv, FreshInv
  <2>2. Idle.at \notin Asking
    BY DEF Idle, Asking
  <2> QED BY <1>5, <2>1, <2>2
<1>8. CASE Add
  BY <1>5, <1>8 DEF Add, Resting
<1>9. CASE AddFails
  BY <1>5, <1>9 DEF AddFails, Resting
<1>10. CASE AddMatrix
  <2>1. ASSUME NEW r \in Readers
        PROVE  call'[r] \in Call /\ CallInv(call'[r], docs', embeddings', adder')
    <3>1. call'[r] = IF call[r].at \in {"idle", "answered"} THEN call[r]
                     ELSE [call[r] EXCEPT !.quiet = FALSE]
      BY <1>10 DEF AddMatrix, CallsMeetCommit
    <3>2. call[r] \in Call
      BY <1>3
    <3>3. CASE call[r].at \in {"idle", "answered"}
      BY <1>1, <3>1, <3>3, CallElse DEF Asking
    <3>4. CASE call[r].at \notin {"idle", "answered"}
      <4>1. call[r].at \in Asking /\ call'[r] = [call[r] EXCEPT !.quiet = FALSE]
        BY <3>1, <3>2, <3>4 DEF Call, Asking
      <4>2. ~call'[r].quiet
        BY <3>2, <4>1 DEF Call
      <4> QED BY <1>1, <4>1, <4>2, CallElse
    <3> QED BY <3>3, <3>4
  <2>2. DOMAIN call' = Readers /\ call' = [r \in Readers |-> call'[r]]
    BY <1>10 DEF AddMatrix, CallsMeetCommit
  <2> QED BY <1>2, <2>1, <2>2
<1>11. CASE AddIds \/ AddTexts \/ AddExternalIds \/ AddMetadata
  <2>1. UNCHANGED call /\ adder \notin Resting
    BY <1>11 DEF AddIds, AddTexts, AddExternalIds, AddMetadata, Resting
  <2> QED BY <1>4, <1>5, <2>1
<1>12. ASSUME NEW r \in Readers, Ask(r) PROVE CallsInv'
  <2>1. Still /\ \E c : call' = [call EXCEPT ![r] = c]
    BY <1>12 DEF Ask, Still
  <2> QED BY <1>6, <1>12, <2>1, AskInv
<1>13. ASSUME NEW r \in Readers, Retrieving(r) PROVE CallsInv'
  <2>1. Still /\ \E c : call' = [call EXCEPT ![r] = c]
    BY <1>13, CallSteps DEF CallStep
  <2>2. CASE Score(r)
    BY <1>6, <2>1, <2>2, ScoreInv
  <2>3. CASE Cut(r)
    BY <1>6, <2>1, <2>3, CutInv
  <2>4. CASE Select(r)
    BY <1>6, <2>1, <2>4, SelectInv
  <2>5. CASE SelectRaises(r)
    <3>1. Answer(r, TRUE, <<>>) /\ call[r].at \in Asking
      BY <2>5 DEF SelectRaises, Asking
    <3>2. call'[r] \in Call /\ CallInv(call'[r], docs, embeddings, adder)
      BY <3>1, NoHits, Answered
    <3> QED BY <1>6, <2>1, <3>2
  <2>6. CASE Collect(r)
    BY <1>6, <2>1, <2>6, CollectInv
  <2>7. CASE Return(r)
    <3>1. call'[r] = Idle
      BY <2>7 DEF Return, CallsInv
    <3> QED BY <1>6, <2>1, <3>1, IdleInv
  <2> QED BY <1>13, <2>2, <2>3, <2>4, <2>5, <2>6, <2>7 DEF Retrieving
<1>14. CASE UNCHANGED vars
  <2>1. UNCHANGED call /\ docs' = docs /\ adder' = adder
    BY <1>14 DEF vars
  <2> QED BY <1>4, <1>5, <2>1
<1> QED BY <1>7, <1>8, <1>9, <1>10, <1>11, <1>12, <1>13, <1>14 DEF Next, Adding

\* So are the rows, tops and hits of every retrieve() in progress.
THEOREM IInvAlways == Spec => []IInv
<1>1. Init => IInv
  BY StoreInit, CallsInit DEF IInv
<1>2. IInv /\ [Next]_vars => IInv'
  BY StoreStep, CallsStep DEF IInv
<1> QED BY <1>1, <1>2, PTL DEF Spec

\* Every variable has its type.
THEOREM TypeCorrect == Spec => []TypeOK
<1>1. ASSUME IInv PROVE TypeOK
  <2>1. batch \in Batch
    <3>1. <<>> \in Seq(Int) /\ <<>> \in Seq(Texts) /\ <<>> \in Seq(Externals)
          /\ <<>> \in Seq(Metas) /\ <<>> \in Seq(Document)
      BY EmptySeq
    <3>2. NoBatch \in Batch
      BY <3>1 DEF NoBatch, Batch
    <3>3. batch = NoBatch \/ Columnar(batch)
      BY <1>1 DEF IInv, StoreInv, BatchInv
    <3> QED BY <3>2, <3>3 DEF Columnar
  <2> QED BY <1>1, <2>1, Present DEF IInv, StoreInv, ListsInv, BatchInv, FreshInv, CallsInv, TypeOK
<1> QED BY <1>1, IInvAlways, PTL

\* HitsOfOneDocument, with any number of readers while any batches are added.
THEOREM HitsOfOneDocumentAlways == Spec => []HitsOfOneDocument
<1>1. IInv => HitsOfOneDocument
  BY DEF IInv, CallsInv, CallInv, HitTrue, HitsOfOneDocument
<1> QED BY <1>1, IInvAlways, PTL

(***************************************************************************)
(* Refinement: the retriever implements the index.                         *)
(***************************************************************************)

LEMMA IndexInit == Init => Index!Init
  BY DEF Init, Index!Init, Idle, Index!Idle, Committing, CallsSeen, Seen

\* hits answers c: the best of the first n documents, as many as size.
Answers(c, n, size, top, hits) ==
  /\ n \in c.from..Len(docs) /\ size \in 0..Len(docs) /\ top \in [1..size -> 1..Len(docs)]
  /\ Index!Best(top, docs, n, c.query)
  /\ size >= Index!Lower(c.k, c.from)
  /\ c.quiet => size <= c.k \/ size = 0
  /\ hits = [i \in 1..size |-> Index!Hit(c.query, docs[top[i]])]

LEMMA IndexReplies ==
  ASSUME NEW r \in Readers, NEW n, NEW size, NEW top, NEW hits,
         Answers(CallsSeen[r], n, size, top, hits),
         CallsSeen[r].at = "asked", docs' = docs, Committing' = Committing,
         CallsSeen' = [CallsSeen EXCEPT ![r].at = "answered", ![r].hits = hits]
  PROVE  Index!Reply(r)
  BY Zenon DEF Answers, Index!Reply

\* A step of call r, as its caller sees it.
LEMMA SeenStep ==
  ASSUME NEW r \in Readers, CallsInv, Still, NEW d, call' = [call EXCEPT ![r] = d]
  PROVE  /\ docs' = docs /\ Committing' = Committing
         /\ CallsSeen' = [CallsSeen EXCEPT ![r] = Seen(d)]
         /\ CallsSeen[r] = Seen(call[r])
         /\ Seen(d) = Seen(call[r]) => CallsSeen' = CallsSeen
<1>1. docs' = docs /\ Committing' = Committing
  BY DEF Still, Committing
<1>2. call' = [u \in Readers |-> IF u = r THEN d ELSE call[u]]
  BY DEF CallsInv
<1>3. CallsSeen' = [u \in Readers |-> IF u = r THEN Seen(d) ELSE Seen(call[u])]
  BY <1>2 DEF CallsSeen
<1> QED BY <1>1, <1>3 DEF CallsSeen

\* A call before its answer.
LEMMA SeenAsked ==
  ASSUME NEW c \in Call, c.at \in Asking, c.hits = <<>> /\ ~c.raised
  PROVE  Seen(c) = [at |-> "asked", query |-> c.query, k |-> c.k, from |-> c.from,
                    quiet |-> c.quiet, raised |-> FALSE, hits |-> <<>>]
  BY DEF Seen, Asking, Call

\* The fields of a call as its caller sees it.
SeenFields == {"at", "query", "k", "from", "quiet", "raised", "hits"}
IsSeen(c) == DOMAIN c = SeenFields /\ c = [f \in SeenFields |-> c[f]]

\* d is c, at x, but for its answer.
Moved(c, d, x) ==
  /\ IsSeen(c) /\ IsSeen(d)
  /\ d.at = x /\ d.query = c.query /\ d.k = c.k /\ d.from = c.from /\ d.quiet = c.quiet

LEMMA GivenHits ==
  ASSUME NEW c, NEW d, NEW x, NEW y, Moved(c, d, x), d.hits = y, d.raised = c.raised
  PROVE  d = [c EXCEPT !.at = x, !.hits = y]
<1>1. [c EXCEPT !.at = x, !.hits = y] =
        [f \in SeenFields |-> IF f = "hits" THEN y ELSE IF f = "at" THEN x ELSE c[f]]
  BY DEF Moved, IsSeen, SeenFields
<1>2. \A f \in SeenFields :
        d[f] = IF f = "hits" THEN y ELSE IF f = "at" THEN x ELSE c[f]
  BY DEF Moved, SeenFields
<1> QED BY <1>1, <1>2, Zenon DEF Moved, IsSeen

LEMMA GivenError ==
  ASSUME NEW c, NEW d, NEW x, NEW y, Moved(c, d, x), d.raised = y, d.hits = c.hits
  PROVE  d = [c EXCEPT !.at = x, !.raised = y]
<1>1. [c EXCEPT !.at = x, !.raised = y] =
        [f \in SeenFields |-> IF f = "raised" THEN y ELSE IF f = "at" THEN x ELSE c[f]]
  BY DEF Moved, IsSeen, SeenFields
<1>2. \A f \in SeenFields :
        d[f] = IF f = "raised" THEN y ELSE IF f = "at" THEN x ELSE c[f]
  BY DEF Moved, SeenFields
<1> QED BY <1>1, <1>2, Zenon DEF Moved, IsSeen

\* An update of two fields of a call is an update of the call.
LEMMA TwoFields ==
  ASSUME NEW f, NEW r \in DOMAIN f, NEW x, NEW y
  PROVE  /\ [f EXCEPT ![r].at = x, ![r].hits = y] =
              [f EXCEPT ![r] = [f[r] EXCEPT !.at = x, !.hits = y]]
         /\ [f EXCEPT ![r].at = x, ![r].raised = y] =
              [f EXCEPT ![r] = [f[r] EXCEPT !.at = x, !.raised = y]]
  OBVIOUS

\* What Answer shows.
LEMMA SeenAnswer ==
  ASSUME NEW r \in Readers, CallsInv, call[r].at \in Asking, Still,
         NEW raised \in BOOLEAN, NEW hits, Answer(r, raised, hits)
  PROVE  /\ docs' = docs /\ Committing' = Committing
         /\ CallsSeen[r].at = "asked"
         /\ CallsSeen[r].query = call[r].query /\ CallsSeen[r].k = call[r].k
         /\ CallsSeen[r].from = call[r].from /\ CallsSeen[r].quiet = call[r].quiet
         /\ ~raised => CallsSeen' = [CallsSeen EXCEPT ![r].at = "answered", ![r].hits = hits]
         /\ raised /\ hits = <<>> =>
              CallsSeen' = [CallsSeen EXCEPT ![r].at = "answered", ![r].raised = TRUE]
<1> DEFINE c == call[r]
           d == [c EXCEPT !.at = "answered", !.raised = raised, !.hits = hits,
                          !.rows = <<>>, !.n = 0, !.top = <<>>]
<1>1. c \in Call /\ c.at \in Asking /\ c.hits = <<>> /\ ~c.raised
  BY DEF CallsInv, CallInv, Asking
<1>2. call' = [call EXCEPT ![r] = d]
  BY DEF Answer
<1>3. /\ docs' = docs /\ Committing' = Committing
      /\ CallsSeen' = [CallsSeen EXCEPT ![r] = Seen(d)] /\ CallsSeen[r] = Seen(c)
  BY <1>2, SeenStep
<1>4. Seen(d) = [at |-> "answered", query |-> c.query, k |-> c.k, from |-> c.from,
                 quiet |-> c.quiet, raised |-> raised, hits |-> hits]
  BY <1>1 DEF Seen, Call
<1>5. Seen(c) = [at |-> "asked", query |-> c.query, k |-> c.k, from |-> c.from,
                 quiet |-> c.quiet, raised |-> FALSE, hits |-> <<>>]
  BY <1>1, SeenAsked
<1>6. IsSeen(Seen(c)) /\ IsSeen(Seen(d))
  BY DEF Seen, IsSeen, SeenFields
<1>7. CallsSeen[r].at = "asked" /\ CallsSeen[r].query = c.query
      /\ CallsSeen[r].k = c.k /\ CallsSeen[r].from = c.from
      /\ CallsSeen[r].quiet = c.quiet
  BY <1>3, <1>5
<1>8. r \in DOMAIN CallsSeen
  BY DEF CallsSeen
<1> HIDE DEF c, d
<1>9. ASSUME ~raised
      PROVE  CallsSeen' = [CallsSeen EXCEPT ![r].at = "answered", ![r].hits = hits]
  <2>1. raised = FALSE
    BY <1>9
  <2>2. Seen(d) = [at |-> "answered", query |-> c.query, k |-> c.k, from |-> c.from,
                   quiet |-> c.quiet, raised |-> FALSE, hits |-> hits]
    BY <1>4, <2>1
  <2>3. [Seen(c) EXCEPT !.at = "answered", !.hits = hits] = Seen(d)
    <3> DEFINE s == Seen(c)
               t == Seen(d)
    <3>1. t.at = "answered" /\ t.query = s.query /\ t.k = s.k /\ t.from = s.from
          /\ t.quiet = s.quiet
      BY <1>5, <2>2
    <3>2. t.hits = hits /\ t.raised = s.raised
      BY <1>5, <2>2
    <3>3. Moved(s, t, "answered")
      BY <1>6, <3>1 DEF Moved
    <3> HIDE DEF s, t
    <3>4. t = [s EXCEPT !.at = "answered", !.hits = hits]
      BY <3>3, <3>2, GivenHits, Zenon
    <3> QED BY <3>4, Zenon DEF s, t
  <2>4. CallsSeen' = [CallsSeen EXCEPT ![r] =
                        [CallsSeen[r] EXCEPT !.at = "answered", !.hits = hits]]
    BY <1>3, <2>3, Zenon
  <2> QED BY <1>8, <2>4, TwoFields, Zenon
<1>10. ASSUME raised, hits = <<>>
      PROVE  CallsSeen' = [CallsSeen EXCEPT ![r].at = "answered", ![r].raised = TRUE]
  <2>1. raised = TRUE
    BY <1>10
  <2>2. Seen(d) = [at |-> "answered", query |-> c.query, k |-> c.k, from |-> c.from,
                   quiet |-> c.quiet, raised |-> TRUE, hits |-> <<>>]
    BY <1>4, <1>10, <2>1
  <2>3. [Seen(c) EXCEPT !.at = "answered", !.raised = TRUE] = Seen(d)
    <3> DEFINE s == Seen(c)
               t == Seen(d)
    <3>1. t.at = "answered" /\ t.query = s.query /\ t.k = s.k /\ t.from = s.from
          /\ t.quiet = s.quiet
      BY <1>5, <2>2
    <3>2. t.raised = TRUE /\ t.hits = s.hits
      BY <1>5, <2>2
    <3>3. Moved(s, t, "answered")
      BY <1>6, <3>1 DEF Moved
    <3> HIDE DEF s, t
    <3>4. t = [s EXCEPT !.at = "answered", !.raised = TRUE]
      BY <3>3, <3>2, GivenError, Zenon
    <3> QED BY <3>4, Zenon DEF s, t
  <2>4. CallsSeen' = [CallsSeen EXCEPT ![r] =
                        [CallsSeen[r] EXCEPT !.at = "answered", !.raised = TRUE]]
    BY <1>3, <2>3, Zenon
  <2> QED BY <1>8, <2>4, TwoFields, Zenon
<1> QED BY <1>3, <1>7, <1>9, <1>10 DEF c

LEMMA AskSeen ==
  ASSUME IInv, NEW r \in Readers, Ask(r)
  PROVE  Index!Ask(r)
<1>1. PICK q \in Queries, k \in TopK :
        call' = [call EXCEPT ![r] =
                  [Idle EXCEPT !.at = "score", !.query = q, !.k = k,
                               !.from = Len(docs),
                               !.quiet = adder \in {"idle", "embed"}]]
  BY DEF Ask
<1> DEFINE d == [Idle EXCEPT !.at = "score", !.query = q, !.k = k, !.from = Len(docs),
                             !.quiet = adder \in {"idle", "embed"}]
<1>2. Still /\ call[r].at = "idle"
  BY DEF Ask, Still
<1>3. /\ docs' = docs /\ Committing' = Committing
      /\ CallsSeen' = [CallsSeen EXCEPT ![r] = Seen(d)] /\ CallsSeen[r] = Seen(call[r])
  BY <1>1, <1>2, SeenStep DEF IInv
<1>4. (Committing = <<>>) = (adder \in {"idle", "embed"})
  BY DEF IInv, StoreInv, BatchInv, Committing
<1>5. Seen(d) = [Index!Idle EXCEPT !.at = "asked", !.query = q, !.k = k,
                                   !.from = Len(docs), !.quiet = (Committing = <<>>)]
  <2>1. PICK quiet : quiet = (adder \in {"idle", "embed"})
    OBVIOUS
  <2>2. d = [Idle EXCEPT !.at = "score", !.query = q, !.k = k, !.from = Len(docs),
                         !.quiet = quiet]
    BY <2>1, Zenon
  <2> HIDE DEF d
  <2>3. Seen(d) = [at |-> "asked", query |-> q, k |-> k, from |-> Len(docs),
                   quiet |-> quiet, raised |-> FALSE, hits |-> <<>>]
    BY <2>2 DEF Seen, Idle
  <2>4. [Index!Idle EXCEPT !.at = "asked", !.query = q, !.k = k, !.from = Len(docs),
                           !.quiet = quiet] =
          [at |-> "asked", query |-> q, k |-> k, from |-> Len(docs),
           quiet |-> quiet, raised |-> FALSE, hits |-> <<>>]
    <3> DEFINE i == Index!Idle
               e == [at |-> "asked", query |-> q, k |-> k, from |-> Len(docs),
                     quiet |-> quiet, raised |-> FALSE, hits |-> <<>>]
    <3>1. IsSeen(i) /\ IsSeen(e) /\ i.raised = FALSE /\ i.hits = <<>>
          /\ e.at = "asked" /\ e.query = q /\ e.k = k /\ e.from = Len(docs)
          /\ e.quiet = quiet /\ e.raised = FALSE /\ e.hits = <<>>
      BY DEF Index!Idle, IsSeen, SeenFields
    <3> HIDE DEF i, e
    <3>2. [i EXCEPT !.at = "asked", !.query = q, !.k = k, !.from = Len(docs),
                    !.quiet = quiet] =
            [f \in SeenFields |->
               IF f = "quiet" THEN quiet ELSE IF f = "from" THEN Len(docs)
               ELSE IF f = "k" THEN k ELSE IF f = "query" THEN q
               ELSE IF f = "at" THEN "asked" ELSE i[f]]
      BY <3>1 DEF IsSeen, SeenFields
    <3>3. \A f \in SeenFields :
            e[f] = IF f = "quiet" THEN quiet ELSE IF f = "from" THEN Len(docs)
                   ELSE IF f = "k" THEN k ELSE IF f = "query" THEN q
                   ELSE IF f = "at" THEN "asked" ELSE i[f]
      BY <3>1 DEF SeenFields
    <3>4. [i EXCEPT !.at = "asked", !.query = q, !.k = k, !.from = Len(docs),
                    !.quiet = quiet] = e
      BY <3>1, <3>2, <3>3, Zenon DEF IsSeen
    <3> QED BY <3>4, Zenon DEF i, e
  <2>5. (Committing = <<>>) = quiet
    BY <1>4, <2>1, Zenon
  <2> QED BY <2>3, <2>4, <2>5, Zenon
<1>6. CallsSeen[r].at = "idle"
  BY <1>2, <1>3 DEF Seen
<1> HIDE DEF d
<1> QED BY <1>3, <1>5, <1>6 DEF Index!Ask

LEMMA CutSeen ==
  ASSUME IInv, NEW r \in Readers, Cut(r)
  PROVE  Index!Reply(r) \/ (CallsSeen' = CallsSeen /\ docs' = docs /\ Committing' = Committing)
<1> DEFINE c == call[r]
           n == Lower(call[r].k, Len(docIds))
<1>1. c \in Call /\ CallInv(c, docs, embeddings, adder) /\ c.at = "cut" /\ Still
  BY DEF IInv, CallsInv, Cut, Still
<1>2. CASE n <= 0
  <2>1. Answer(r, FALSE, <<>>)
    BY <1>2 DEF Cut
  <2>2. /\ docs' = docs /\ Committing' = Committing
        /\ CallsSeen[r].at = "asked"
        /\ CallsSeen[r].query = c.query /\ CallsSeen[r].k = c.k
        /\ CallsSeen[r].from = c.from /\ CallsSeen[r].quiet = c.quiet
        /\ CallsSeen' = [CallsSeen EXCEPT ![r].at = "answered", ![r].hits = <<>>]
    BY <1>1, <2>1, SeenAnswer DEF IInv, Asking
  <2>3. /\ Len(docs) \in Nat /\ Len(docIds) \in Nat /\ Len(docs) <= Len(docIds)
        /\ c.k \in Int /\ c.from \in Nat /\ c.from <= Len(docs)
    BY <1>1, Present, LenProperties DEF IInv, Call, CallInv
  <2>4. Lower(c.k, c.from) <= 0
    <3>1. c.from <= Len(docIds) /\ Len(docIds) \in Int /\ c.from \in Int
      BY <2>3
    <3>2. Lower(c.k, c.from) <= n /\ Lower(c.k, c.from) \in Int /\ n \in Int
      BY <2>3, <3>1, LowerProperties
    <3> QED BY <1>2, <3>2
  <2> HIDE DEF c, n
  <2> DEFINE none == [i \in 1..0 |-> i]
  <2>5. none \in [1..0 -> 1..Len(docs)] /\ DOMAIN none = {}
    OBVIOUS
  <2>6. Index!Best(none, docs, c.from, c.query)
    BY <2>5 DEF Index!Best
  <2>7. <<>> = [i \in 1..0 |-> Index!Hit(c.query, docs[none[i]])]
    BY EmptySeq
  <2>8. 0 \in 0..Len(docs) /\ c.from \in c.from..Len(docs) /\ Index!Lower(c.k, c.from) <= 0
    BY <2>3, <2>4 DEF Index!Lower, Lower
  <2> HIDE DEF none
  <2>9. 0 >= Index!Lower(c.k, c.from)
    BY <2>3, <2>8 DEF Index!Lower
  <2>10. none \in [1..0 -> 1..Len(docs)] /\ (c.quiet => 0 <= c.k \/ 0 = 0)
    BY <2>5
  <2>11. Answers(CallsSeen[r], c.from, 0, none, <<>>)
    BY <2>2, <2>6, <2>7, <2>8, <2>9, <2>10, Zenon DEF Answers
  <2> QED BY <2>2, <2>11, IndexReplies, Zenon
<1>3. CASE ~(n <= 0)
  <2>1. call' = [call EXCEPT ![r] = [c EXCEPT !.at = "select", !.n = n]]
    BY <1>3 DEF Cut
  <2>2. Seen([c EXCEPT !.at = "select", !.n = n]) = Seen(c)
    BY <1>1 DEF Seen, Call
  <2> QED BY <1>1, <2>1, <2>2, SeenStep DEF IInv
<1> QED BY <1>2, <1>3

\* As many different positions as there are can be chosen.
LEMMA NoMoreThan ==
  ASSUME NEW n \in Nat, NEW m \in Nat, NEW top \in [1..n -> 1..m],
         \A a, b \in 1..n : top[a] = top[b] => a = b
  PROVE  n <= m
<1>1. IsFiniteSet(1..n) /\ Cardinality(1..n) = n /\ IsFiniteSet(1..m) /\ Cardinality(1..m) = m
  <2>1. \A k \in Nat : IsFiniteSet(1..k) /\ Cardinality(1..k) = k
    BY FS_Interval
  <2> QED BY <2>1
<1>2. CASE n > m
  <2>1. \E a, b \in 1..n : a # b /\ top[a] = top[b]
    BY <1>1, <1>2, FS_PigeonHole
  <2> QED BY <2>1
<1> QED BY <1>2

LEMMA CollectSeen ==
  ASSUME IInv, NEW r \in Readers, Collect(r)
  PROVE  Index!Reply(r) \/ Index!Raise(r)
<1> DEFINE c == call[r]
           present == DOMAIN docIds \cap DOMAIN texts \cap DOMAIN externalIds
                        \cap DOMAIN metadata
           hits == [a \in DOMAIN c.top |-> HitAt(c.query, c.rows, c.top[a])]
           size == Len(c.top)
           n == IF Len(c.rows) <= Len(docs) THEN Len(c.rows) ELSE Len(docs)
<1>1. c \in Call /\ CallInv(c, docs, embeddings, adder) /\ c.at = "collect" /\ Still
  BY DEF IInv, CallsInv, Collect, Still
<1>2. /\ c.query \in Queries /\ c.rows \in Seq(Texts) /\ Extends(embeddings, c.rows)
      /\ size \in Nat /\ c.top \in Tops(c.rows, c.query, size)
      /\ Lower(c.k, c.from) <= size /\ c.from <= Len(c.rows) /\ c.from <= Len(docs)
      /\ c.from \in Nat /\ c.k \in Int /\ Len(c.rows) \in Nat
      /\ c.quiet => adder \in Resting /\ Len(docs) = c.from /\ Len(c.rows) = c.from
                    /\ size <= c.k
  <2>1. c.rows \in Seq(Texts) /\ c.top \in Seq(Nat) /\ c.from \in Nat /\ c.k \in Int
    BY <1>1 DEF Call
  <2> QED BY <1>1, <2>1, LenProperties DEF CallInv, Asking
<1>3. DOMAIN c.top = 1..size /\ \A a \in 1..size : c.top[a] \in 1..Len(c.rows)
  BY <1>2, Chosen
<1>4. /\ Len(docs) \in Nat /\ DOMAIN metadata = 1..Len(docs)
      /\ adder \in Resting => present = 1..Len(docs)
  BY Present, LenProperties DEF IInv, Resting
<1>5. CASE \A a \in DOMAIN c.top : c.top[a] \in present
  <2>1. Answer(r, FALSE, hits)
    BY <1>5 DEF Collect
  <2>2. /\ docs' = docs /\ Committing' = Committing
        /\ CallsSeen[r].at = "asked"
        /\ CallsSeen[r].query = c.query /\ CallsSeen[r].k = c.k
        /\ CallsSeen[r].from = c.from /\ CallsSeen[r].quiet = c.quiet
        /\ CallsSeen' = [CallsSeen EXCEPT ![r].at = "answered", ![r].hits = hits]
    BY <1>1, <2>1, SeenAnswer DEF IInv, Asking
  <2>3. \A a \in 1..size : /\ c.top[a] \in 1..Len(docs)
                           /\ c.rows[c.top[a]] = docs[c.top[a]].text
                           /\ HitAt(c.query, c.rows, c.top[a]) =
                                Index!Hit(c.query, docs[c.top[a]])
    BY <1>2, <1>3, <1>5, HitOfRow DEF IInv
  <2>4. \A i \in 1..n : i \in DOMAIN c.rows /\ c.rows[i] = docs[i].text
    <3>1. \A i \in 1..n : i \in 1..Len(c.rows) /\ i \in 1..Len(docs)
      BY <1>2, <1>4
    <3>2. \A i \in 1..Len(c.rows) : c.rows[i] = embeddings[i]
      BY <1>2 DEF Extends
    <3>3. \A i \in 1..Len(docs) : embeddings[i] = docs[i].text
      BY Present DEF IInv
    <3> QED BY <1>2, <3>1, <3>2, <3>3, LenProperties
  <2>5. /\ \A a, b \in 1..size : c.top[a] = c.top[b] => a = b
        /\ \A a, b \in 1..size :
             a < b => Sim(c.query, c.rows[c.top[a]]) >= Sim(c.query, c.rows[c.top[b]])
        /\ \A i \in DOMAIN c.rows :
             (\E a \in 1..size : c.top[a] = i)
             \/ \A a \in 1..size : Sim(c.query, c.rows[i]) <= Sim(c.query, c.rows[c.top[a]])
    BY <1>2 DEF Tops
  <2>6. c.top \in [1..size -> 1..Len(docs)]
    <3>1. c.top = [a \in 1..size |-> c.top[a]]
      BY <1>1, <1>3, LenProperties DEF Call
    <3> QED BY <2>3, <3>1
  <2>7. size <= Len(docs)
    BY <1>2, <1>4, <2>5, <2>6, NoMoreThan
  <2>8. n \in c.from..Len(docs) /\ size \in 0..Len(docs)
    BY <1>2, <1>4, <2>7
  <2>9. Index!Lower(c.k, c.from) <= size
    BY <1>2 DEF Index!Lower, Lower
  <2>10. hits = [i \in 1..size |-> Index!Hit(c.query, docs[c.top[i]])]
    BY <1>3, <2>3
  <2> HIDE DEF c, hits, size, n
  <2>11. Index!Best(c.top, docs, n, c.query)
    <3>1. \A a \in 1..size : docs[c.top[a]].text = c.rows[c.top[a]]
      BY <2>3
    <3>2. \A a, b \in 1..size : a < b =>
            Sim(c.query, docs[c.top[a]].text) >= Sim(c.query, docs[c.top[b]].text)
      BY <2>5, <3>1
    <3>3. ASSUME NEW i \in 1..n, ~\E a \in 1..size : c.top[a] = i
          PROVE  \A a \in 1..size :
                   Sim(c.query, docs[i].text) <= Sim(c.query, docs[c.top[a]].text)
      BY <2>4, <2>5, <3>1, <3>3
    <3> QED BY <1>3, <2>5, <3>2, <3>3 DEF Index!Best
  <2>12. Index!Reply(r)
    <3>1. size >= Index!Lower(c.k, c.from)
      BY <1>2, <2>9 DEF Index!Lower
    <3>2. c.quiet => size <= c.k \/ size = 0
      BY <1>2
    <3>3. Answers(CallsSeen[r], n, size, c.top, hits)
      BY <2>2, <2>6, <2>8, <2>10, <2>11, <3>1, <3>2, Zenon DEF Answers
    <3> QED BY <2>2, <3>3, IndexReplies, Zenon
  <2> QED BY <2>12
<1>6. CASE ~\A a \in DOMAIN c.top : c.top[a] \in present
  <2>1. Answer(r, TRUE, <<>>)
    BY <1>6 DEF Collect
  <2>2. /\ docs' = docs /\ Committing' = Committing
        /\ CallsSeen[r].at = "asked" /\ CallsSeen[r].quiet = c.quiet
        /\ CallsSeen' = [CallsSeen EXCEPT ![r].at = "answered", ![r].raised = TRUE]
    BY <1>1, <2>1, SeenAnswer DEF IInv, Asking
  <2>3. ~c.quiet
    BY <1>2, <1>3, <1>4, <1>6
  <2> HIDE DEF c
  <2> QED BY <2>2, <2>3 DEF Index!Raise
<1> QED BY <1>5, <1>6

LEMMA RetrievingSeen ==
  ASSUME IInv, NEW r \in Readers, Retrieving(r)
  PROVE  \/ Index!Reply(r) \/ Index!Raise(r) \/ Index!Return(r)
         \/ UNCHANGED <<docs, Committing, CallsSeen>>
<1> DEFINE c == call[r]
<1>1. c \in Call /\ CallInv(c, docs, embeddings, adder) /\ Still
  BY CallSteps DEF IInv, CallsInv, CallStep
<1>2. CASE Score(r)
  <2>1. call' = [call EXCEPT ![r] = [c EXCEPT !.at = "cut", !.rows = embeddings]]
        /\ c.at = "score"
    BY <1>2 DEF Score
  <2>2. Seen([c EXCEPT !.at = "cut", !.rows = embeddings]) = Seen(c)
    BY <1>1, <2>1 DEF Seen, Call
  <2> QED BY <1>1, <2>1, <2>2, SeenStep DEF IInv
<1>3. CASE Cut(r)
  BY <1>3, CutSeen
<1>4. CASE Select(r)
  <2>1. PICK top : call' = [call EXCEPT ![r] = [c EXCEPT !.at = "collect", !.top = top]]
    BY <1>4 DEF Select
  <2>2. Seen([c EXCEPT !.at = "collect", !.top = top]) = Seen(c)
    BY <1>1, <1>4 DEF Seen, Call, Select
  <2> QED BY <1>1, <2>1, <2>2, SeenStep DEF IInv
<1>5. CASE SelectRaises(r)
  <2>1. /\ Answer(r, TRUE, <<>>) /\ c.at = "select"
        /\ c.n < Len(docIds) /\ c.n >= Len(c.rows)
    BY <1>5 DEF SelectRaises
  <2>2. /\ docs' = docs /\ Committing' = Committing
        /\ CallsSeen[r].at = "asked" /\ CallsSeen[r].quiet = c.quiet
        /\ CallsSeen' = [CallsSeen EXCEPT ![r].at = "answered", ![r].raised = TRUE]
    BY <1>1, <2>1, SeenAnswer DEF IInv, Asking
  <2>3. c.quiet => Len(docIds) = Len(docs) /\ Len(docs) = Len(c.rows)
    BY <1>1, <2>1, Present DEF IInv, CallInv, Asking, Resting
  <2>4. Len(c.rows) \in Nat /\ c.n \in Nat
    BY <1>1, LenProperties DEF Call
  <2>5. ~c.quiet
    BY <2>1, <2>3, <2>4
  <2> HIDE DEF c
  <2> QED BY <2>2, <2>5 DEF Index!Raise
<1>6. CASE Collect(r)
  BY <1>6, CollectSeen
<1>7. CASE Return(r)
  <2>1. call' = [call EXCEPT ![r] = Idle] /\ c.at = "answered"
    BY <1>7 DEF Return
  <2>2. Seen(Idle) = Index!Idle /\ Seen(c).at = "answered"
    BY <2>1 DEF Seen, Idle, Index!Idle
  <2> QED BY <1>1, <2>1, <2>2, SeenStep DEF IInv, Index!Return
<1> QED BY <1>2, <1>3, <1>4, <1>5, <1>6, <1>7 DEF Retrieving

LEMMA IndexNext == IInv /\ [Next]_vars => [Index!Next]_(Index!vars)
<1> SUFFICES ASSUME IInv, [Next]_vars PROVE [Index!Next]_(Index!vars)
  OBVIOUS
<1>1. UNCHANGED <<docs, Committing, CallsSeen>> => [Index!Next]_(Index!vars)
  BY DEF Index!vars
<1>2. UNCHANGED call => UNCHANGED CallsSeen
  BY DEF CallsSeen
<1>3. CASE Build
  <2>1. /\ adder = "idle" /\ adder' = "idle" /\ docs = <<>> /\ UNCHANGED call
        /\ \A r \in Readers : call[r] = Idle
    BY <1>3, BuildColumnar DEF Construct, IInv, StoreInv, FreshInv
  <2>2. Committing = <<>> /\ Committing' = <<>>
    BY <2>1 DEF Committing
  <2>3. \A r \in Readers : CallsSeen[r].at = "idle"
    BY <2>1 DEF CallsSeen, Seen, Idle
  <2> QED BY <1>2, <2>1, <2>2, <2>3 DEF Index!Next, Index!Build
<1>4. CASE Add \/ AddFails
  <2>1. Committing = <<>> /\ Committing' = <<>> /\ docs' = docs /\ UNCHANGED call
    BY <1>4 DEF Add, AddFails, Committing
  <2> QED BY <1>1, <1>2, <2>1
<1>5. CASE AddMatrix
  <2>1. Committing = <<>> /\ Committing' = batch.docs /\ docs' = docs
    BY <1>5 DEF AddMatrix, Committing
  <2>2. batch.docs # <<>>
    BY <1>5 DEF AddMatrix, IInv, StoreInv, BatchInv
  <2>3. ASSUME NEW r \in Readers
        PROVE  Seen(call'[r]) = IF Seen(call[r]).at = "asked"
                                THEN [Seen(call[r]) EXCEPT !.quiet = FALSE]
                                ELSE Seen(call[r])
    <3>1. call'[r] = IF call[r].at \in {"idle", "answered"} THEN call[r]
                     ELSE [call[r] EXCEPT !.quiet = FALSE]
      BY <1>5 DEF AddMatrix, CallsMeetCommit
    <3>2. call[r] \in Call
      BY DEF IInv, CallsInv
    <3> QED BY <3>1, <3>2 DEF Seen, Call
  <2>4. CallsSeen' = [r \in Readers |->
                        IF CallsSeen[r].at = "asked" THEN [CallsSeen[r] EXCEPT !.quiet = FALSE]
                        ELSE CallsSeen[r]]
    BY <2>3 DEF CallsSeen
  <2> QED BY <2>1, <2>2, <2>4 DEF Index!Next, Index!StartAdd
<1>6. CASE AddIds \/ AddTexts \/ AddExternalIds
  <2>1. Committing' = Committing /\ docs' = docs /\ UNCHANGED call
    BY <1>6 DEF AddIds, AddTexts, AddExternalIds, Committing
  <2> QED BY <1>1, <1>2, <2>1
<1>7. CASE AddMetadata
  <2>1. /\ Committing = batch.docs /\ Committing' = <<>> /\ docs' = docs \o batch.docs
        /\ UNCHANGED call
    BY <1>7 DEF AddMetadata, Committing
  <2>2. batch.docs # <<>>
    BY <1>7 DEF AddMetadata, IInv, StoreInv, BatchInv
  <2> QED BY <1>2, <2>1, <2>2 DEF Index!Next, Index!EndAdd
<1>8. ASSUME NEW r \in Readers, Ask(r) PROVE Index!Next
  BY <1>8, AskSeen DEF Index!Next
<1>9. ASSUME NEW r \in Readers, Retrieving(r) PROVE [Index!Next]_(Index!vars)
  BY <1>1, <1>9, RetrievingSeen DEF Index!Next
<1>10. CASE UNCHANGED vars
  BY <1>1, <1>2, <1>10 DEF vars, Committing
<1> QED BY <1>3, <1>4, <1>5, <1>6, <1>7, <1>8, <1>9, <1>10 DEF Next, Adding

\* The retriever implements the index, for every similarity: whatever is added
\* meanwhile, a query misses no better document that was there when it began,
\* and one that no commit overlaps gets the top_k best.
THEOREM Refinement == Spec => DocIndexSpec
<1> QED BY IndexInit, IndexNext, IInvAlways, PTL DEF Spec, DocIndexSpec, Index!Spec

=============================================================================
