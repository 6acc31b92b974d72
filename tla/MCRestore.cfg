SPECIFICATION OwnedSpec
CONSTANTS
  Batch = {b1, b2}
  MaxConcurrency = 2
  NotFoundAttempts = 2
  None = None
  MaxFaults = 2
  StopsWhileRestoring = TRUE
INVARIANTS
  NamespaceIsOwned
