SPECIFICATION DemoSpec
CONSTANTS
  Runs = {demo}
  Configs = {c1, c2}
  Queries = {q1}
  Documents = {d1}
  Payloads <- MCPayloads
  Seeders = {s1, s2}
  Others = {o1}
  Passed <- MCPassed
  MaxCrashes = 1
  MaxForeign = 1
INVARIANTS
  ProgressIsNeverAhead
  SeededDemoIsWhole
PROPERTIES
  SeedConverges
CHECK_DEADLOCK FALSE
