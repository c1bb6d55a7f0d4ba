SPECIFICATION FairSpec
CONSTANTS
  f1 = f1
  f2 = f2
  Fetches <- OneFetch
  RequestCount = 1
  ReqLen = 1
  MaxEvents = 1
  TlsModes <- PlainOrTls
  FaultSets <- Faulty
  CallRejects = FALSE
  OtherThreads = FALSE
  LateHandlers = 1
  Parts <- MostParts
  MaxFetches = 2
  MaxIterations = 2
INVARIANTS
  TypeOK
  NoLostWakeup
PROPERTIES
  FailureCounted
  SuccessCounted
  FetchesSettle
  Terminates
