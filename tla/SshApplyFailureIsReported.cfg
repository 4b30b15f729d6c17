SPECIFICATION FairSpec
CONSTANTS
  Capacity = 1
  Ensures <- MCEnsures
  ExitStatus <- MCExitStatus
  MaxFrames = 1
PROPERTY
  FailureIsReported
