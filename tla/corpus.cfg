CONSTANTS
  Absent = Absent
  bot = bot
  scout = scout
  Scenarios <- MCScenarios
  PolicyV1 <- MCPolicyV1
  PolicyV2 <- MCPolicyV2
  Agents = {bot, scout}
  ClusterDays <- MCClusterDays
  Target <- MCTarget
  Tolerance = 75
  MinFirings = 1
SYMMETRY Swap
SPECIFICATION Spec
INVARIANTS
  TypeOK
  ChainsAreLinked
  LimitFiresOnTotal
  BucketsFire
  DiffsExplained
  RulesAgree
CHECK_DEADLOCK FALSE
