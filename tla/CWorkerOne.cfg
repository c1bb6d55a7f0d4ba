SPECIFICATION Spec
CONSTANTS
  RequestCount = 2
  ReqLen = 2
  ConnCount = 1
  MaxEvents = 1
  StatusOf <- MCStatusOf
  TlsModes <- PlainAndTls
  FaultSets <- EveryFault
  Timed = TRUE
  MaxOps = 4
INVARIANTS
  TypeOK
  Accounting
  NoLostWakeup
  RoundRobin
PROPERTIES
  AnswersOwnRequest
