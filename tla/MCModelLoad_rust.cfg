\* One load at a time, of a model the ort backend serves.
SPECIFICATION Spec
CONSTANTS
  t1 = t1  t2 = t2
  Threads = {t1}
  Models <- MCModels
  Registered <- MCRegistered
  Excluded <- MCExcluded
  Static <- MCStatic
  InRust <- MCInRust
  Vendored = {"minishlab/potion-base-8M"}
  Shells <- PlainShell
  LocalAtStart <- Cold
  LoaderSize <- OneEach
INVARIANTS OfflineHonored
