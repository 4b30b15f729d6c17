SPECIFICATION Spec
CONSTANTS
  Word <- MCWord
  Parent <- MCParent
  Host <- MCHost
  TaskSets <- MCTaskSets
  Quoted <- MCQuoted
  Exe <- MCExe
  Posted <- MCPosted
INVARIANT
  MissingDirectoryIsNotRefused
