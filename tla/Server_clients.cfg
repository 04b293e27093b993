SPECIFICATION Spec
CONSTANTS
  Clients = {c1, c2}
  Plans <- MCPlans
  MaxFd = 2
  MaxEvents = 2
INVARIANTS
  ServerInv
  SpinNeedsTwo
PROPERTIES
  ShutdownEnds
  LastIsServed
CHECK_DEADLOCK FALSE
