SPECIFICATION IngestSpec
CONSTANTS
  Size = 3
  BatchSize = 1
  MaxConcurrency = 2
  ReadinessAttempts = 2
  Ingesters = {p1, p2}
  Preexisting = {0}
  MaxFaults = 1
INVARIANTS
  CheckpointedIsWritten
  ReadyIsExact
  ConfirmedBatchesAreRecorded
  VerifiedRecordIsComplete
PROPERTY
  AttemptEnds
CHECK_DEADLOCK FALSE
