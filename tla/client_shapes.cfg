CONSTANTS
  a = a
  b = b
  grants = grants
  denies = denies
  shadowed = shadowed
  broken = broken
  d1 = d1
  d2 = d2
  t1 = t1
  t2 = t2
  NoDoc = NoDoc
  Docs = {grants, shadowed, broken}
  Actions = {a, b}
  Permissions <- MCPermissions
  BrokenDocs = {broken}
  ErrorDocs = {shadowed}
  DiscoveryDocs = {grants}
  Domains = {d1}
  MaxAge = 2
  Threads = {t1}
  Kinds = {"fetch", "check", "discover", "receipt", "clear", "clear_all"}
  Clients <- Both
  Responses <- ShapeResponses
  MaxChanges = 1
SPECIFICATION Spec
INVARIANTS
  IInv
  AllowIsGrounded
