SPECIFICATION Spec
CONSTANTS
  TagSpace = 2
  MinEid = 128
  PingEid = 0
  OverflowChecks = TRUE
  QCap = 2
  SockCap = 1
  MaxReq = 5
  MaxUnasked = 3
  AnswerBodies <- AnyBodies
  Unasked <- Strange
  Faults = {"send", "recv", "loss"}
CHECK_DEADLOCK FALSE
INVARIANTS TypeOK EngineRendezvous GrantsDisjoint
