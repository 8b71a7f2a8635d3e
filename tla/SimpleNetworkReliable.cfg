SPECIFICATION FairSpec
CONSTANTS
  c1 = c1
  c2 = c2
  p1 = p1
  p2 = p2
  Free = Free
  TagSpace = 8
  Callers = {c1, c2}
  Pollers = {p1, p2}
  MaxReq = 2
  ReqIds = {1, 2}
  MaxSockets = 1
  RxCap = 1
  SockCap = 4
  NewAddrs = {16}
  BindArgs <- DistinctArgs
  Addrs <- OneAddr
  PhyAddrs <- GoodPhy
  Oversize = {FALSE}
  Noise <- NoNoise
  Faults = {}
CHECK_DEADLOCK FALSE
PROPERTIES
  SendtoReturns
  AttachUnlessEarlyCall
