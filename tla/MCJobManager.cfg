SPECIFICATION JobSpec
CONSTANTS
  c1 = c1
  c2 = c2
  q1 = q1
  q2 = q2
  Runs = {r1}
  Configs = {c1, c2}
  Queries = {q1, q2}
  WorkItems <- MCWorkItems
  MaxConcurrency = 2
INVARIANTS
  JobOwnsItsRow
  ConcurrencyIsBounded
  EndedJobSettledItsItems
  AcceptedCancelNeverCompletes
PROPERTY
  JobTerminates
CHECK_DEADLOCK FALSE
