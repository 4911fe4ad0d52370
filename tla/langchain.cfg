CONSTANTS
  r1 = r1
  r2 = r2
  r3 = r3
  search = search
  fetch = fetch
  Runs = {r1, r2, r3}
  Anonymous = {r3}
  Tools = {search, fetch}
  Default = "default"
SYMMETRY Symmetry
SPECIFICATION Spec
INVARIANTS
  TypeOK
  ReceiptsCorrelate
  PendingOnlyRunning
PROPERTIES
  ImplementsAudit
CHECK_DEADLOCK FALSE
