\* Every label sequence of up to five tokens, two categories; scores below, at
\* and above the threshold.
SPECIFICATION Spec
CONSTANTS
  Categories = {"PERSON", "EMAIL"}
  MaxScore = 3
  Threshold = 2
  MaxSeqLen = 5
INVARIANTS TypeOK EntitiesAreRuns ConfidentRunsFound EntitiesInOrder
