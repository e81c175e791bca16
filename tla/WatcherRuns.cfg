SPECIFICATION FairSpec
CONSTANTS
  Job = {j1}
  Watcher = {w1, w2, w3}
  Unreliable = {w1, w2}
  HasHook = TRUE
  Careful = TRUE
  StaleReads = TRUE
  NestedInterrupts = FALSE
  Nobody = Nobody
  Unsigned = Unsigned
  NoJob = NoJob
INVARIANTS TypeOK FinalMeansQuiet ChildHoldsLock Exclusive AtMostOnce LaunchIsRecorded VerdictIsHonest FinalIsFenced
PROPERTIES ImplementsRelay FinalImmutable RecoveryCloses ServiceCloses CancelledBeforeRunning
CHECK_DEADLOCK FALSE
