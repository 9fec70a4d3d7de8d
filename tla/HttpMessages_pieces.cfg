SPECIFICATION FairSpec
CONSTANTS
  Symbols <- Alphabet
  Conversations <- Mixed
  MaxReads = 3
  BufMax = 56
  TextMax = 17
  FieldMax = 4
INVARIANT TypeOK
INVARIANT AlignedServed
INVARIANT AcceptedAreBodies
INVARIANT OneMessageInBounds
INVARIANT RepliesFramed
PROPERTY ScanEnds
CHECK_DEADLOCK FALSE
