SPECIFICATION FairSpec
CHECK_DEADLOCK FALSE
CONSTANTS
  Host = {s1, l1}
  Ssh = {s1}
  MaxWorkers = 3
  Capacity = 2
  MaxLines = 3
  MaxWaits = 2
INVARIANTS
  TypeOK
  LostLogsWereCutOff
PROPERTIES
  OnlyPanicsEndStarvation
  AnswersUnlessStarved
  EndsUnlessHeld
