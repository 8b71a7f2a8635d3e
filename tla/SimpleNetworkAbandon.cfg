SPECIFICATION Spec
CONSTANTS
  c1 = c1
  c2 = c2
  p1 = p1
  p2 = p2
  Free = Free
  TagSpace = 8
  Callers = {c1, c2}
  Pollers = {p1}
  MaxReq = 2
  ReqIds = {1, 2}
  MaxSockets = 1
  RxCap = 1
  SockCap = 2
  NewAddrs = {3}
  BindArgs <- CollidingArgs
  Addrs <- AllAddrs
  PhyAddrs <- AnyPhy
  Oversize = {FALSE, TRUE}
  Noise <- NoNoise
  Faults = {"send", "cancel"}
CHECK_DEADLOCK FALSE
INVARIANTS
  TypeOK
  FlowAccounting
  HandlerPanicNeedsAbandon
  LockDiscipline
PROPERTIES
  AnswersKept
  ImplementsService
