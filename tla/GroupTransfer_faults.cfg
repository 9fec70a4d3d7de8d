SPECIFICATION FairSpec
CONSTANTS
  FileNum = 2
  FileSize = 3
  ReadBufSize = 1
  MaxLine = 1
  BlockLen = 3
  Faults = {"spawn", "malloc", "fin", "reset", "stall"}
INVARIANT SurvivesUntilEnd
INVARIANT StoresAreSafe
PROPERTY ErrorEndsTransfer
CHECK_DEADLOCK FALSE
