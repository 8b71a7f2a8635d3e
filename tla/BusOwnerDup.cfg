SPECIFICATION Spec
CONSTANTS
  TagSpace = 2
  MinEid = 128
  PingEid = 9
  OverflowChecks = FALSE
  QCap = 2
  SockCap = 1
  MaxReq = 4
  MaxUnasked = 1
  AnswerBodies <- BridgeBodies
  Unasked <- OnlyNotify
  Faults = {"dup"}
CHECK_DEADLOCK FALSE
INVARIANTS EngineRendezvous StaleAnswerAge
