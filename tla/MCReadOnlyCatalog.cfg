SPECIFICATION Spec
CONSTANTS
  Runs = {run}
  Configs = {base, cand}
  Queries = {q1, q2}
  Baseline = base
  Candidate = cand
  Scale = 2
  Policies <- MCPolicies
SYMMETRY MCSymmetry
INVARIANTS
  AnsweredViewsWereTrue
  VerdictIsOfCommittedEvidence
  GateRewardsNoLoss
CHECK_DEADLOCK FALSE
