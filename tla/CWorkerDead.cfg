SPECIFICATION Spec
CONSTANTS
  RequestCount = 1
  ReqLen = 1
  ConnCount = 2
  MaxEvents = 2
  StatusOf <- MCStatusOf
  TlsModes <- PlainOnly
  FaultSets <- ResetFault
  Timed = TRUE
  MaxOps = 2
INVARIANTS
  FullConcurrency
