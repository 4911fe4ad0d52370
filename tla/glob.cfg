CONSTANTS
  Letters = {"a", "b"}
  MaxPattern = 4
  MaxTarget = 5
  Patterns <- MCPatterns
  Targets <- MCTargets
SPECIFICATION FairMatcherSpec
INVARIANTS
  MatcherTypeOK
  Correct
  WorkBounded
PROPERTIES
  Terminates
CHECK_DEADLOCK FALSE
