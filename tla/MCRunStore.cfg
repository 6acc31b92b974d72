SPECIFICATION StoreSpec
CONSTANTS
  Runs = {run}
  Configs = {c1, c2}
  Queries = {q1, q2}
INVARIANTS
  ProgressMatchesOutcomes
  CompletionIsDurable
  LifecycleColumnsAgree
PROPERTIES
  ImplementsLifecycle
CHECK_DEADLOCK FALSE
