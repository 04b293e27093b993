SPECIFICATION FairSpec
CONSTANTS
  Threads = {t1, t2}
  Objs = {p1, p2, p3}
  None = None
  MaxHeaps = 3
  MaxSize = 2
  Extra = {"tracker_init", "heap_free_all"}
INVARIANTS
  HeapInv
  CountersAgree
PROPERTIES
  LockReleased
CHECK_DEADLOCK FALSE
