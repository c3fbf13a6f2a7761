\* Two overlapping loads, one process, of one embedding model.
SPECIFICATION Spec
CONSTANTS
  t1 = t1  t2 = t2
  Threads = {t1, t2}
  Models <- OnlyOnnx
  Registered <- OnnxRegistered
  Excluded <- NoneExcluded
  Static = {}
  InRust <- OnnxInRust
  Vendored = {}
  Shells <- PlainShell
  LocalAtStart <- Cold
  LoaderSize <- OneEach
INVARIANTS OfflineDoesNotLeak
