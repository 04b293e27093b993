SPECIFICATION FairSpec
CONSTANTS
  Programs = {c1, c2}
  Builtins = {}
  None = None
  MaxOut = 1
  PtyCap = 1
  LineSize = 2
  Faults = {}
PROPERTIES
  ChildIsReaped
