SPECIFICATION Spec
CONSTANTS
  Lines <- MCLines
  FirstCap = 2
  MaxKids = 4
  Size = 4
  Margin = 2
  Scripts <- MCScripts
  MaxShared = 3
  MaxZones = 3
  Cats <- MCCats
  Cnds <- MCCnds
  Ids <- MCIds
  Flgs <- MCFlgs
  PtyCap = 2
  KeyCap = 1
  Align = 3
  BlockSize = 6
  LineLens = {1, 2, 3, 4}
  MaxLines = 3
INVARIANTS
  LineIsUnderstood
  EndsArePrivate
  ContextIsKept
  ExactAlone
  NothingStaysBuffered
  SharedIsKept
  FieldsKeepTheirValue
  TextComesBack
PROPERTIES
  ManagerEnds
  TerminalMovesOn
CHECK_DEADLOCK FALSE
