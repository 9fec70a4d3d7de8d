SPECIFICATION FairSpec
CONSTANTS
  FileNum = 2
  Bits = {1}
  Bytes = {{}, {1}}
  MaxLen = 7
  OtherSizes = {3, 4}
  OtherLen = 5
  IntSize = 3
  ReadSize = 3
  Faults = {"open", "output", "malloc", "full"}
INVARIANT TypeOK
INVARIANT OutputIsPrefix
INVARIANT RightMeansXor
INVARIANT XorFailsOnlyForFF
PROPERTY PlainReturns
CHECK_DEADLOCK FALSE
