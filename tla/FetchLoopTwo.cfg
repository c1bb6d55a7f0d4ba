SPECIFICATION Spec
CONSTANTS
  f1 = f1
  f2 = f2
  Fetches <- TwoFetches
  RequestCount = 1
  ReqLen = 1
  MaxEvents = 1
  TlsModes <- Plain
  FaultSets <- NoFault
  CallRejects = TRUE
  OtherThreads = TRUE
  LateHandlers = 1
  Parts <- FewParts
  MaxFetches = 2
  MaxIterations = 1
SYMMETRY AnyFetch
INVARIANTS
  Registered
  OnlyOwnEventDangles
  NoLostWakeup
