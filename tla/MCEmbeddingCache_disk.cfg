\* Two processes of one thread each over one directory, LRU on or off in
\* either, crashes anywhere, one of the two files in other hands and hard to
\* read.
SPECIFICATION FairSpec
CONSTANTS
  t1 = t1  t2 = t2  p1 = p1  p2 = p2  m1 = m1  m2 = m2  x = x  y = y  z = z
  Zero = Zero  Missing = Missing  Torn = Torn  Damaged = Damaged
  Procs = {p1, p2}
  Threads = {t1, t2}
  ProcOf <- TwoProcs
  Models = {m1}
  Texts = {x, y}
  Requests <- NoneToPair
  BatchSizes = {1}
  Capacities = {1}
  DiskOn = TRUE
  Touched <- SecondKey
  Unreadable <- SecondKey
INVARIANTS TypeOK AnswersRight CachesSound
PROPERTIES PaidVectorsKept ServiceSpec CallsEnd
