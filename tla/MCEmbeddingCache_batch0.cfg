\* One thread that also calls embed(..., batch_size=0).
SPECIFICATION Spec
CONSTANTS
  t1 = t1  t2 = t2  p1 = p1  p2 = p2  m1 = m1  m2 = m2  x = x  y = y  z = z
  Zero = Zero  Missing = Missing  Torn = Torn  Damaged = Damaged
  Procs = {p1}
  Threads = {t1, t2}
  ProcOf <- OneProc
  Models = {m1}
  Texts = {x, y}
  Requests <- NoneToPair
  BatchSizes = {0, 1}
  Capacities = {1}
  DiskOn = TRUE
  Touched <- NoKeys
  Unreadable <- NoKeys
INVARIANTS CachesSound
