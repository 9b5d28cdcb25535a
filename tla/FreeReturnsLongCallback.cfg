SPECIFICATION FairSpec
CONSTANTS
  MaxHeartbeatErr = 3
  MaxFailures = 2
  MaxInits = 2
PROPERTIES
  FreeReturns
CHECK_DEADLOCK FALSE
