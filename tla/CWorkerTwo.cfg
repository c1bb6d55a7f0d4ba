SPECIFICATION FairSpec
CONSTANTS
  RequestCount = 2
  ReqLen = 1
  ConnCount = 2
  MaxEvents = 1
  StatusOf <- MCStatusOf
  TlsModes <- PlainOnly
  FaultSets <- NoFault
  Timed = TRUE
  MaxOps = 2
PROPERTIES
  GeneratesLoad
  Terminates
  ResponseIsRead
