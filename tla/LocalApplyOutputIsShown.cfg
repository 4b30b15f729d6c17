SPECIFICATION Spec
CONSTANTS
  Capacity = 1
  Ensures <- MCOneCommand
  MaxChunks = 1
INVARIANT
  OutputIsShown
