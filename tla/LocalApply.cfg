SPECIFICATION FairSpec
CONSTANTS
  Capacity = 2
  Ensures <- MCEnsures
  MaxChunks = 1
INVARIANTS
  TypeOK
  EnsuredBeforeSpawn
  OrphansAreSilent
  OkShowsWhatWasRead
PROPERTIES
  ImplementsHostRun
  ReportedUnlessPipeHeld
