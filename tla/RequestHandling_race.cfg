SPECIFICATION Spec
CONSTANTS
  Conns = {"c1", "c2"}
  Here = "here"
  Requests <- TwoServerRequests
  MaxRequests = 1
  ReplyLen = 1
  Faults = {}
INVARIANT OwnServer
CHECK_DEADLOCK FALSE
