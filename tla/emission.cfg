CONSTANTS
  c1 = c1
  c2 = c2
  k1 = k1
  NoKey = NoKey
  Calls = {c1, c2}
  Keys = {k1}
  Passed <- MCPassed
  MaxTries = 2
SPECIFICATION FairSpec
INVARIANTS
  TypeOK
  StoredOnce
  AnswersAreTrue
  PinnedIsConfirmed
PROPERTIES
  EmissionEnds
CHECK_DEADLOCK FALSE
