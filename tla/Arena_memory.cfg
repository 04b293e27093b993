SPECIFICATION Spec
CONSTANTS
  BlockSize = 1
  Header = 1
  Word = 5
  Ids = 2
  Sizes = {1, 2, 4, 5}
  MaxBlocks = 3
INVARIANTS
  ArenaInv
  WrapNeedsHuge
CHECK_DEADLOCK FALSE
