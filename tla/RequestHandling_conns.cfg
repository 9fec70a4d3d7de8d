SPECIFICATION FairSpec
CONSTANTS
  Conns = {"c1", "c2"}
  Here = "here"
  Requests <- MixedRequests
  MaxRequests = 1
  ReplyLen = 1
  Faults = {"setup", "post", "answer", "work", "write"}
INVARIANT TypeOK
INVARIANT UncrossedOwnServer
 
PROPERTY Answered
CHECK_DEADLOCK FALSE
