SPECIFICATION FairSpec
CONSTANTS
  c1 = c1
  a1 = a1
  a2 = a2
  a3 = a3
  d1 = d1
  d2 = d2
  Callers = {c1}
  Adders = {a1, a2, a3}
  Devices = {d1, d2}
  DeviceOf <- Registers
  Unconnected = {d2}
  Networks = {1}
  RxCap = 1
  MaxDatagrams = 2
  RecvFails = {a2}
CHECK_DEADLOCK FALSE
INVARIANTS
  VirtualTypeOK
  IdsIssued
  MisfiledNeedsOverlap
  HandlesConserved
PROPERTY HandlerKeepsUp
