SPECIFICATION Spec
CONSTANTS
  Requests = {1, 2}
  MaxFiles = 2
  Visitors = {1}
  Scenarios <- OneClient
INVARIANT RightMeansOwnFiles
CHECK_DEADLOCK FALSE
