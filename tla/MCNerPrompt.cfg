\* Every candidate list of up to four spans over four words, two labels, from
\* answers with less and more starts, and less widths, than asked for.
SPECIFICATION PromptSpec
CONSTANTS
  NumWords = 4
  Starts = {3, 5}
  Widths = {2, 3}
  MaxWidth = 3
  NumLabels = 2
  MaxScore = 2
  MaxSpans = 4
  Batches <- MCBatches
  LabelSubwords <- MCLabelSubwords
INVARIANTS TypeOK FlatDisjoint NeighboursAccepted BestOfRunKept PromptTellsWords
