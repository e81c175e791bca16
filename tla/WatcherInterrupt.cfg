SPECIFICATION Spec
CONSTANTS
  Job = {j1}
  Watcher = {w1, w2}
  Unreliable = {w1}
  HasHook = FALSE
  Careful = TRUE
  StaleReads = FALSE
  NestedInterrupts = TRUE
  Nobody = Nobody
  Unsigned = Unsigned
  NoJob = NoJob
INVARIANT FinalMeansQuiet
CHECK_DEADLOCK FALSE
