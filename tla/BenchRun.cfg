SPECIFICATION FairSpec
CONSTANTS
  Unit = 2
  FineSlots = 3
  CoarseSlots = 2
  CoarseStep = 3
  Percentiles = {250, 500, 667, 999}
  Scripts <- EveryScript
  Outcomes <- EveryOutcome
  BodyLen = 2
  MaxSamples = 3
INVARIANTS
  TypeOK
  EveryConnectionDealt
  ReportComplete
  PercentilesSound
  GoesWhereNamed
  FreedAfterUse
PROPERTIES
  Terminates
