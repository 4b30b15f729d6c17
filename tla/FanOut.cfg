SPECIFICATION FairSpec
CONSTANTS
  Plans <- MCPlans
  HostFiles <- MCHostFiles
INVARIANTS
  TypeOK
  AllOrNothing
  InspectedIsNotRefused
  EveryTaskReachesItsHosts
PROPERTIES
  EndedIsReported
