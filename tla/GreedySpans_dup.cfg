\* Three candidates are enough to put two of one label around a third.
SPECIFICATION Spec
CONSTANTS
  NumWords = 3
  Starts = {3}
  Widths = {3}
  NumLabels = 2
  MaxScore = 1
  MaxSpans = 3
INVARIANTS SameLabelApart
