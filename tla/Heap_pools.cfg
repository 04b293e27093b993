SPECIFICATION Spec
CONSTANTS
  Threads = {t1}
  Objs = {p1, p2, p3}
  None = None
  MaxHeaps = 3
  MaxSize = 1
  Extra = {}
INVARIANTS
  EveryLiveTracked
CHECK_DEADLOCK FALSE
