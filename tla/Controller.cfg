SPECIFICATION FairSpec
CONSTANTS
  Job <- MCJob
  Host <- MCHost
  RunsOf <- MCRunsOf
  HostName <- MCHostName
  MaxLines <- MCMaxLines
  CacheSize = 1
INVARIANTS
  TypeOK
  PrintedInOrder
  CompletedIsComplete
PROPERTIES
  JobsOnlyGrow
  PollingEnds
  LogIsStreamed
