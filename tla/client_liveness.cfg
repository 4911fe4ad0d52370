CONSTANTS
  a = a
  b = b
  grants = grants
  denies = denies
  shadowed = shadowed
  broken = broken
  d1 = d1
  d2 = d2
  t1 = t1
  t2 = t2
  NoDoc = NoDoc
  Docs = {grants, denies}
  Actions = {a}
  Permissions <- MCPermissions
  BrokenDocs = {}
  ErrorDocs = {denies}
  DiscoveryDocs = {}
  Domains = {d1}
  MaxAge = 2
  Threads = {t1, t2}
  Kinds = {"fetch"}
  Clients <- OnePlain
  Responses <- PositiveResponses
  MaxChanges = 1
SPECIFICATION FairSpec
PROPERTIES
  CallsReturn
  RevocationTakesEffect
