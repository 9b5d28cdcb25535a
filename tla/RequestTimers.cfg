SPECIFICATION FairSpec
CONSTANTS
  c1 = c1
  c2 = c2
  Callers <- TwoCallers
  Timeouts <- ShortAndLong
  MaxRequests = 2
  MaxReplies = 2
  Handlers <- AllHandlers
INVARIANTS
  TypeOK
  AtMostOnce
  AcceptedIsTracked
PROPERTIES
  FailedIsForgotten
  AnsweredNeverTimesOut
  LateReplyIsDropped
  ImplementsContract
  EventuallyResolved
CHECK_DEADLOCK FALSE
