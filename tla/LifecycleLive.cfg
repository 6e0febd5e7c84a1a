SPECIFICATION FairSpec
CONSTANTS
  CmdBufs = {c1}
  Batches = {b1, b2}
  Syncs = {p1, p2}
  Threads = {t1}
  None = None
  Reuse = FALSE
  MayFail = TRUE
  MayLose = TRUE
  MaxFaults = 1
PROPERTIES ImplementsReclamation EventuallyReclaimed ShutdownOutcome
CHECK_DEADLOCK FALSE
