\* An application with two threads, with every shell, and each command line.
SPECIFICATION PrefetchSpec
CONSTANTS
  t1 = t1  t2 = t2  cli = cli
  Threads = {t1, t2, cli}
  Cli = cli
  Models <- MCModels
  Asked <- MCAsked
  Registered <- MCRegistered
  Excluded <- MCExcluded
  Static <- MCStatic
  InRust <- MCInRust
  Vendored = {"minishlab/potion-base-8M"}
  Shells <- BothShells
  LocalAtStart <- ColdOrWarm
  LoaderSize <- OneEach
  SortedIds <- MCSortedIds
  Commands <- MCCommands
SYMMETRY ThreadSymmetry
INVARIANTS TypeOK ShellOfflineKept FlagsRestored OfflineIsOwn OwnGateHolds LoaderBounded
INVARIANTS ReportTrue ExitCodeTells
