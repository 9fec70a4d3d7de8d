SPECIFICATION FairSpec
CONSTANTS
  Requests = {1, 2}
  MaxFiles = 2
  Visitors = {1}
  Scenarios <- AllScenarios
INVARIANT TypeOK
 
 
INVARIANT LeaksOnePerFile
 
CHECK_DEADLOCK FALSE
