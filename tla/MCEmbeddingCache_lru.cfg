\* One process, two threads, two models, the LRU alone.
SPECIFICATION Spec
CONSTANTS
  t1 = t1  t2 = t2  p1 = p1  p2 = p2  m1 = m1  m2 = m2  x = x  y = y  z = z
  Zero = Zero  Missing = Missing  Torn = Torn  Damaged = Damaged
  Procs = {p1}
  Threads = {t1, t2}
  ProcOf <- OneProc
  Models = {m1, m2}
  Texts = {x, y}
  Requests <- UpToTwo
  BatchSizes = {1, 2}
  Capacities = {1, 2}
  DiskOn = FALSE
  Touched <- NoKeys
  Unreadable <- NoKeys
SYMMETRY BothSymmetry
INVARIANTS AnswersRight CachesSound LruBounded
PROPERTIES CapacityOnlyShrinks EvictsOldestFirst
