SPECIFICATION OwnedSpec
CONSTANTS
  Batch = {b1, b2}
  MaxConcurrency = 2
  NotFoundAttempts = 2
  None = None
  MaxFaults = 3
  StopsWhileRestoring = FALSE
INVARIANTS
  NamespaceIsOwned
  ReadyNamespaceIsWhole
  FixedReceiptIsWhole
PROPERTIES
  NoWriteAfterCleanup
  CleanupConverges
