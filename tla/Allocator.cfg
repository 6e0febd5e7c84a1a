CONSTANTS
  Threads = {t1, t2}
  Pools = {p1, p2, p3}
  Sets = {s1, s2, s3}
  MaxSets = 2
  MayFail = TRUE
  MaxCount = 3
  None = None
SPECIFICATION FairSpec
PROPERTIES AllocationReturns
INVARIANTS PoolsPartition EveryPoolAskedOnce FreedToOrigin CountCovers ClosedLeavesNoPool
CHECK_DEADLOCK FALSE
