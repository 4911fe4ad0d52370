CONSTANTS
  c1 = c1
  c2 = c2
  Calls = {c1, c2}
  MaxRetry = 1
SYMMETRY CallSymmetry
SPECIFICATION Spec
INVARIANTS
  TypeOK
  PreStoredFirst
  IngestErrorsStayInside
  StrictToolIsRecorded
PROPERTIES
  ImplementsAudit
CHECK_DEADLOCK FALSE
