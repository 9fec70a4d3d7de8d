SPECIFICATION Spec
CONSTANTS
  FileNum = 2
  FileSize = 4
  ReadBufSize = 1
  MaxLine = 1
  BlockLen = 1
  Faults = {}
INVARIANT RightMeansSameOffsets
CHECK_DEADLOCK FALSE
