SPECIFICATION Spec
CONSTANTS
  c1 = c1
  c2 = c2
  Callers <- OneCaller
  Timeouts <- OnlyLong
  MaxRequests = 3
  MaxReplies = 3
  Handlers <- AllHandlers
PROPERTIES
  OnlyNotifyDoesNothing
CHECK_DEADLOCK FALSE
