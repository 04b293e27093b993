SPECIFICATION Spec
CONSTANTS
  N = 1
  Tasks = {t1, t2}
  NoTask = NoTask
  BlockCap = 1
  Spawns <- NoSpawns
  Faults = {}
PROPERTIES
  ResetWhenAllDone
