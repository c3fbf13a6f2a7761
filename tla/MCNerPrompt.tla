----------------------------- MODULE MCNerPrompt -----------------------------
(***************************************************************************)
(* Every text of up to four words of zero to two subwords, alone and next  *)
(* to a text without words, a longer one and one of fewer, longer words.   *)
(***************************************************************************)
EXTENDS NerPrompt

MCTexts == UNION {[1..n -> 0..2] : n \in 0..NumWords}
MCOthers == {<<>>, <<1, 1, 1, 1, 1>>, <<2, 3>>}
MCBatches ==
  {<<t>> : t \in MCTexts}
    \cup {<<t, u>> : t \in MCTexts, u \in MCOthers}
    \cup {<<u, t>> : t \in MCTexts, u \in MCOthers}

MCLabelSubwords == {<<1, 1>>, <<2, 1>>}

=============================================================================
