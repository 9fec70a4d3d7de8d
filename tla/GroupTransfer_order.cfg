SPECIFICATION Spec
CONSTANTS
  FileNum = 2
  FileSize = 3
  ReadBufSize = 1
  MaxLine = 1
  BlockLen = 1
  Faults = {}
INVARIANT RightMeansInOrder
CHECK_DEADLOCK FALSE
