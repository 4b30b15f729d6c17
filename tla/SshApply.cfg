SPECIFICATION FairSpec
CONSTANTS
  Capacity = 2
  Ensures <- MCEnsures
  ExitStatus <- MCExitStatus
  MaxFrames = 1
INVARIANTS
  TypeOK
  OkMeansAllShown
  RanInOrder
  EnsuredBeforeRun
PROPERTIES
  ImplementsHostRun
  ReportedOrHung
