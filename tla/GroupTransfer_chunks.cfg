SPECIFICATION Spec
CONSTANTS
  FileNum = 2
  FileSize = 7
  ReadBufSize = 2
  MaxLine = 2
  BlockLen = 4
  Faults = {}
INVARIANT TypeOK
INVARIANT BufferExclusion
INVARIANT FullNumNeverOverstates
INVARIANT OutputIsWholeChunks
INVARIANT XorSizeExact
PROPERTY ImplementsChunkStream
PROPERTY XoredBuffersStay
CHECK_DEADLOCK FALSE
