SPECIFICATION Spec
CONSTANTS
  f1 = f1
  f2 = f2
  Fetches <- OneFetch
  RequestCount = 1
  ReqLen = 1
  MaxEvents = 1
  TlsModes <- Plain
  FaultSets <- NoFault
  CallRejects = FALSE
  OtherThreads = TRUE
  LateHandlers = 0
  Parts <- FewParts
  MaxFetches = 2
  MaxIterations = 2
PROPERTIES
  SuccessCounted
