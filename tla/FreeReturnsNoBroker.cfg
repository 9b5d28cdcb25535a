SPECIFICATION NoBrokerSpec
CONSTANTS
  MaxHeartbeatErr = 3
  MaxFailures = 2
  MaxInits = 2
PROPERTIES
  FreeReturnsUnlessStuck
CHECK_DEADLOCK FALSE
