SPECIFICATION SharedSpec
CONSTANTS
  Runs = {r1, r2}
  Configs = {c1}
  Queries = {q1}
  Servers = {s1}
  Commands = {k1}
PROPERTY
  RecoveryMarksOrphansOnly
CHECK_DEADLOCK FALSE
