SPECIFICATION FairSpec
CONSTANTS
  FileNum = 1
  FileSize = 7
  ReadBufSize = 2
  MaxLine = 2
  BlockLen = 3
  Faults = {"open", "split", "connect", "malloc", "fwrite", "fin", "reset", "stall"}
PROPERTY TransferReturns
CHECK_DEADLOCK FALSE
