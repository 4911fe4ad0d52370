CONSTANTS
  t1 = t1
  t2 = t2
  Threads = {t1, t2}
  Verifiers = {t1}
  Contents = {"a", "float"}
  Uncanonical = {"float"}
  Changes = {"store", "content", "envelope"}
  Nulls = {FALSE, TRUE}
  EntryForms = {"ok", "badLength"}
  StartKeys = {0, 1}
  MaxKeys = 2
  MaxReceipts = 1
SPECIFICATION Spec
INVARIANTS TypeOK ValidMeansSigned FetchDecides SignedIsValid
