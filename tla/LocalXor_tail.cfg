SPECIFICATION Spec
CONSTANTS
  FileNum = 2
  Bits = {1}
  Bytes = {{}, {1}}
  MaxLen = 5
  OtherSizes = {}
  OtherLen = 0
  IntSize = 2
  ReadSize = 2
  Faults = {}
INVARIANT SameSizeSucceeds
CHECK_DEADLOCK FALSE
