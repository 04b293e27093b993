SPECIFICATION Spec
CONSTANTS
  Procs = {p1, p2}
  Addrs = {1, 2}
  Fds = {1, 2}
  MaxZones = 2
  Capacity <- MCCapacity
  Header = 1
  Sizes = {1}
SYMMETRY Symmetry
CONSTRAINT Promised
INVARIANTS
  VmaInv
  NoOverlap
  UnlockedNeedsDeath
  NameUntilDestroyed
CHECK_DEADLOCK FALSE
