SPECIFICATION Spec
CONSTANTS
  TagSpace = 8
  Calls <- SomeCalls
  MaxCalls = 2
  Address = 0
  Tag = 9
  PhyAddrs = {37}
  OwnAddr = 16
  PecBytes = {165}
  MaxLost = 0
CHECK_DEADLOCK FALSE
INVARIANT EidReported
