SPECIFICATION FairSpec
CONSTANTS
  TagSpace = 8
  Calls <- SomeCalls
  MaxCalls = 3
  Address = 0
  Tag = 9
  PhyAddrs = {37, 165}
  OwnAddr = 3
  PecBytes = {165}
  MaxLost = 2
CHECK_DEADLOCK FALSE
INVARIANTS
  ExchangeTypeOK
  AnswerBelongs
  RequestsAreNotAnswers
  StaleByHalf
  AddressedAsAsked
PROPERTIES
  CallReturns
  LastEidWins
