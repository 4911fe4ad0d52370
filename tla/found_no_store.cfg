CONSTANTS
  a = a
  b = b
  grants = grants
  denies = denies
  shadowed = shadowed
  broken = broken
  d1 = d1
  d2 = d2
  t1 = t1
  t2 = t2
  NoDoc = NoDoc
  Docs = {grants, denies}
  Actions = {a}
  Permissions <- MCPermissions
  BrokenDocs = {}
  ErrorDocs = {}
  DiscoveryDocs = {}
  Domains = {d1}
  MaxAge = 2
  Threads = {t1}
  Kinds = {"fetch"}
  Clients <- OnePlain
  Responses <- NoStoreResponses
  MaxChanges = 1
SPECIFICATION Spec
INVARIANTS
  NoStoreNotCached
