CONSTANTS
  allows = allows
  escalates = escalates
  denies = denies
  quiet = quiet
  broken = broken
  anyMatch = anyMatch
  allMatch = allMatch
  badPattern = badPattern
  Rules = {allows, escalates, denies, quiet, broken, anyMatch, allMatch, badPattern}
  Outcome <- MCOutcome
  PatternRules = {anyMatch, allMatch, badPattern}
  MatchAll = {allMatch}
  Hits <- MCHits
  Plain <- MCPlain
  MaxRules = 4
SPECIFICATION FairSpec
INVARIANTS
  TypeOK
  NeverFailsOpen
  CompleteAudit
PROPERTIES
  ImplementsPromise
  Returns
CHECK_DEADLOCK FALSE
