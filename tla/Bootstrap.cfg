SPECIFICATION FairSpec
CHECK_DEADLOCK FALSE
CONSTANTS
  Main = Main
  Agent = {a1}
  Passphrase = {p1, p2}
  Unset = Unset
  Absent = Absent
  Blank = Blank
  Operator = Operator
  Refusal = Refusal
  MaxStarts = 2
  MaxRemovals = 1
  MaxEdits = 1
INVARIANTS
  TypeOK
  OneKey
  PrintedTokenHolds
  ListedOnce
PROPERTIES
  LostKeyIsFinal
  AuthorizedEventually
