CONSTANTS
  c1 = c1
  c2 = c2
  Calls = {c1}
  MaxRetry = 0
SPECIFICATION Spec
INVARIANT ValueAlwaysPassed
CHECK_DEADLOCK FALSE
