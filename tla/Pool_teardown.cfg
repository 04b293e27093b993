SPECIFICATION FairSpec
CONSTANTS
  Pools = {k1, k2}
  MaxWorkers = 2
  MaxJobs = 2
  MaxHeaps = 6
  Epolls = {TRUE, FALSE}
  OnePool = TRUE
  Faults = {"malloc", "fork"}
INVARIANTS
  TearDownIsClean
  PoolInv
PROPERTIES
  DestroyReturns
CHECK_DEADLOCK FALSE
