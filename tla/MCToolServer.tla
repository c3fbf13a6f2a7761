---------------------------- MODULE MCToolServer ----------------------------
(* A small instance of ToolServer for TLC. *)
EXTENDS ToolServer, TLC

CONSTANTS c1, c2, c3

Ask(tool, device, items) ==
  [tool |-> tool, device |-> device, items |-> items, rest |-> TRUE,
   number |-> <<>>, convertible |-> TRUE]

Auto == <<"auto">>
Two == <<"text", "object">>

Info == Ask("info", <<"cuda">>, <<>>)
Embed == Ask("embed", Auto, <<"text">>)
Retrieve == Ask("retrieve", Auto, <<"object">>)
Nli == Ask("nli-classify", <<"cpu">>, <<"text", "text">>)
Rerank == [Ask("rerank", <<"cuda", 1>>, Two) EXCEPT !.number = <<1>>]
Pii == Ask("pii-detect", Auto, <<"text">>)

\* No items, a number that is none, a bad item first or second, too many items.
Bad == {Ask("nli-classify", Auto, <<>>),
        [Ask("ner-extract", Auto, <<"text">>) EXCEPT !.convertible = FALSE],
        Ask("retrieve", Auto, <<"misnumbered", "other">>),
        Ask("rerank", Auto, <<"other", "misnumbered">>),
        Ask("embed", Auto, <<"text", "text", "text">>)}

\* A call of any tool, or one that is turned away; another that may need the
\* backend of the first or detect beside it; and a third that takes a thread of
\* the pool and fails, its threshold out of range.
MCAsks == (c1 :> {Info, Retrieve, Rerank, Nli, Pii} \cup Bad)
          @@ (c2 :> {Embed})
          @@ (c3 :> {[Pii EXCEPT !.number = <<2>>]})

MCCap == [embed |-> 2, retrieve |-> 2, rerank |-> 2]

\* A machine with two cards, and the GPU build on it or one that cannot drive
\* them but has OpenVINO.
MCHosts ==
  {[cards |-> <<8, 16>>, nodes |-> TRUE, kfd |-> ~b, apple |-> FALSE, cuda |-> b,
    openvino |-> ~b] : b \in BOOLEAN}

MCStarts == [packages : {TRUE}, http : BOOLEAN, token : {FALSE}]
            \cup {[packages |-> FALSE, http |-> TRUE, token |-> TRUE]}

=============================================================================
