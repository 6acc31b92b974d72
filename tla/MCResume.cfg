SPECIFICATION IngestSpec
CONSTANTS
  Size = 3
  BatchSize = 1
  MaxConcurrency = 2
  ReadinessAttempts = 2
  Ingesters = {p1}
  Preexisting = {}
  MaxFaults = 1
PROPERTY
  RerunsReachReady
CHECK_DEADLOCK FALSE
