SPECIFICATION Spec
CONSTANTS
  CmdBufs = {c1, c2}
  Batches = {b1, b2}
  Syncs = {p1, p2}
  Threads = {t1, t2}
  None = None
  Reuse = FALSE
  MayFail = FALSE
  MayLose = FALSE
  MaxFaults = 1
SYMMETRY Symmetry
PROPERTIES ImplementsReclamation
INVARIANTS TypeOK NoUseAfterFree SyncExclusive PoolClean NoMissedWakeup ShutdownReclaims
CHECK_DEADLOCK FALSE
