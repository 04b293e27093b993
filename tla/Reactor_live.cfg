SPECIFICATION FairSpec
CONSTANTS
  N = 2
  Tasks = {t1, t2}
  NoTask = NoTask
  BlockCap = 1
  Spawns <- AnySpawns
  Faults = {"heap", "arena", "thread", "block", "args"}
INVARIANTS
  TaskInv
  InOrderAtMostOnce
  NoUseAfterDestroy
PROPERTIES
  ShutdownCompletes
  PostedTaskLeavesQueue
CHECK_DEADLOCK FALSE
