SPECIFICATION Spec
CONSTANTS
  N = 1
  Tasks = {t1, t2, t3, t4}
  NoTask = NoTask
  BlockCap = 1
  Spawns <- AnySpawns
  Faults = {"heap", "arena", "thread", "block", "args"}
SYMMETRY TaskSymmetry
INVARIANTS
  SnapshotRuns
  NoStrandedTask
PROPERTIES
  KeepsPromises
CHECK_DEADLOCK FALSE
