\* One thread adds and one queries; up to 3 documents.
SPECIFICATION Spec
CONSTANTS
  r1 = r1  q1 = q1  q2 = q2  la = la  lb = lb  lc = lc
  Readers = {r1}
  Queries = {q1, q2}
  TopK <- MCTopK
  Batches <- MCBatches
  Corpora <- MCCorpora
  Texts <- MCTexts
  Externals <- MCExternals
  Metas <- MCMetas
  Sim <- MCSim
  Join <- MCJoin
  MaxDocs = 3
  None = None
  Empty = Empty
INVARIANTS TypeOK ParallelAtRest HitsOfOneDocument
PROPERTIES DocIndexSpec
