SPECIFICATION Spec
CONSTANTS
  CmdBufs = {c1}
  Batches = {b1, b2}
  Syncs = {p1, p2}
  Threads = {t1}
  None = None
  Reuse = TRUE
  MayFail = FALSE
  MayLose = FALSE
  MaxFaults = 0
INVARIANTS NoUseAfterFree
CHECK_DEADLOCK FALSE
