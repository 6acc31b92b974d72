SPECIFICATION ServerSpec
CONSTANTS
  c1 = c1
  q1 = q1
  q2 = q2
  Runs = {r1, r2}
  Configs = {c1}
  Queries = {q1}
  WorkItems <- MCOneItem
  MaxConcurrency = 1
  WarmupSearches = 1
  MaxOutages = 1
INVARIANTS
  OneRunExecutes
  RunningRunHasItsService
  CancelledRunNeverCompletes
PROPERTIES
  NoSearchAfterCancel
  ServerImplementsLifecycle
  QueuedRunIsServed
  RunningRunEnds
  ShutdownEnds
CHECK_DEADLOCK FALSE
