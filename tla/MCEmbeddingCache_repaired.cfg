\* As the disk run, for the keys in other hands too: a reader that met the bad
\* file unlinks the good one a writer has put in its place.
SPECIFICATION Spec
CONSTANTS
  t1 = t1  t2 = t2  p1 = p1  p2 = p2  m1 = m1  m2 = m2  x = x  y = y  z = z
  Zero = Zero  Missing = Missing  Torn = Torn  Damaged = Damaged
  Procs = {p1, p2}
  Threads = {t1, t2}
  ProcOf <- TwoProcs
  Models = {m1}
  Texts = {x, y}
  Requests <- NoneToPair
  BatchSizes = {1}
  Capacities = {0}
  DiskOn = TRUE
  Touched <- SecondKey
  Unreadable <- NoKeys
PROPERTIES RepairedVectorsKept
