SPECIFICATION Spec
CONSTANTS
  c1 = c1
  c2 = c2
  p1 = p1
  p2 = p2
  Free = Free
  TagSpace = 8
  Callers = {c1, c2}
  Pollers = {p1}
  MaxReq = 2
  ReqIds = {1, 2}
  MaxSockets = 1
  RxCap = 1
  SockCap = 1
  NewAddrs = {16}
  BindArgs <- SharedArgs
  Addrs <- TwoAddrs
  PhyAddrs <- GoodPhy
  Oversize = {FALSE}
  Noise <- AllNoise
  Faults = {"loss", "noise", "recv"}
CHECK_DEADLOCK FALSE
INVARIANTS
  HandlerPanicNeedsAbandon
  KeyIsolation
