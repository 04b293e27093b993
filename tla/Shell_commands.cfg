SPECIFICATION FairSpec
CONSTANTS
  Programs = {c1, c2}
  Builtins = {b1}
  None = None
  MaxOut = 2
  PtyCap = 1
  LineSize = 2
  Faults = {"openpty", "fork", "thread"}
INVARIANTS
  ShellInv
  OneReader
  ShownInOrder
PROPERTIES
  PromptReturns
  WaitedChildIsReaped
