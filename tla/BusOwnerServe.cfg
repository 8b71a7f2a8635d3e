SPECIFICATION FairSpec
CONSTANTS
  TagSpace = 8
  MinEid = 128
  PingEid = 0
  OverflowChecks = TRUE
  QCap = 8
  SockCap = 2
  MaxReq = 9
  MaxUnasked = 3
  AnswerBodies <- GoodBodies
  Unasked <- AllRequests
  Faults = {}
CHECK_DEADLOCK FALSE
INVARIANTS AssignedByRequest
PROPERTIES NotifyServed RoundCompletes
