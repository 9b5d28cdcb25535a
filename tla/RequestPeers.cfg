SPECIFICATION FairSpec
CONSTANTS
  a = a
  b = b
  Modules <- TwoModules
  Peers <- OnlyAAsks
  LateHandlers <- OnlyB
  CString <- Whole
  MaxCalls = 2
  MaxLives = 2
  MaxEvents = 1
INVARIANTS
  TypeOK
  HandledAtMostOnce
  AnswerIsGenuine
PROPERTIES
  SilentAfterDestroy
  ImplementsExchange
  CallbacksMayCall
  AcceptedIsResolved
CHECK_DEADLOCK FALSE
