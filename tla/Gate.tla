-------------------------------- MODULE Gate --------------------------------
(***************************************************************************)
(* The evaluation gate as a function of its evidence (evals/pairing.py and *)
(* evals/gates.py) and the contract its report must satisfy                *)
(* (contracts/gates.py).  An outcome is missing, failed, succeeded without *)
(* a defined quality (the query has no positive judgment), or measured;    *)
(* only the metric the policy asks for is kept.  Values of the unit        *)
(* interval are counted in steps of 1/Scale, so every comparison is exact. *)
(***************************************************************************)
EXTENDS Integers, FiniteSets, FiniteSetsExt

CONSTANT Scale  \* steps of the unit interval

-----------------------------------------------------------------------------
(* Pairing: one status per query.                                          *)

Missing == [kind |-> "missing", metric |-> 0]
Failed == [kind |-> "failed", metric |-> 0]
Unjudged == [kind |-> "unjudged", metric |-> 0]
Measured(metric) == [kind |-> "measured", metric |-> metric]

Completed(o) == o.kind \in {"unjudged", "measured"}

PairStatus(baseline, candidate) ==
  CASE baseline.kind = "missing" -> "baseline_missing"
    [] baseline.kind # "missing" /\ candidate.kind = "missing" -> "candidate_missing"
    [] baseline.kind = "failed" /\ candidate.kind = "failed" -> "both_failed"
    [] baseline.kind = "failed" /\ Completed(candidate) -> "baseline_failed"
    [] Completed(baseline) /\ candidate.kind = "failed" -> "candidate_failed"
    [] baseline.kind = "measured" /\ candidate.kind = "measured" -> "paired"
    [] OTHER -> "no_positive_qrels"

PairStatuses ==
  { "paired", "baseline_missing", "candidate_missing", "baseline_failed",
    "candidate_failed", "both_failed", "no_positive_qrels" }

WithPairStatus(baseline, candidate, status) ==
  {q \in DOMAIN baseline : PairStatus(baseline[q], candidate[q]) = status}

Paired(baseline, candidate) == WithPairStatus(baseline, candidate, "paired")

Delta(baseline, candidate, q) == candidate[q].metric - baseline[q].metric

DeltaSum(baseline, candidate, queries) ==
  MapThenSumSet(LAMBDA q : Delta(baseline, candidate, q), queries)

-----------------------------------------------------------------------------
(* The four checks of a report and its verdict.  Every threshold is        *)
(* inclusive.  Rates and means are compared as products.                   *)

\* Fault: the failures are counted among the pairs, where there are none.
FailedAmongPaired(baseline, candidate) ==
  {q \in Paired(baseline, candidate) : candidate[q].kind = "failed"}

FailedCandidates(baseline, candidate) ==
  {q \in DOMAIN candidate : candidate[q].kind = "failed"}

Violations(policy, baseline, candidate) ==
  {q \in Paired(baseline, candidate) :
     Delta(baseline, candidate, q) < -policy.maxQueryDrop}

ErrorRateCheck(policy, baseline, candidate) ==
  LET failed == Cardinality(FailedCandidates(baseline, candidate)) IN
    [ passed |-> failed * Scale <= policy.maxErrorRate * Cardinality(DOMAIN candidate),
      failed |-> failed ]

CoverageCheck(policy, baseline, candidate) ==
  LET paired == Cardinality(Paired(baseline, candidate)) IN
    [ passed   |-> paired >= policy.minPaired,
      paired   |-> paired,
      excluded |-> Cardinality(DOMAIN candidate) - paired ]

AggregateCheck(policy, baseline, candidate) ==
  LET paired == Paired(baseline, candidate)
      sum == DeltaSum(baseline, candidate, paired) IN
    [ passed |-> sum >= policy.minDelta * Cardinality(paired),
      paired |-> Cardinality(paired) ]

PerQueryCheck(policy, baseline, candidate) ==
  LET violations == Violations(policy, baseline, candidate) IN
    [ passed |-> violations = {},
      paired |-> Cardinality(Paired(baseline, candidate)),
      violations |-> Cardinality(violations) ]

Report(policy, baseline, candidate) ==
  LET checks == [ errorRate |-> ErrorRateCheck(policy, baseline, candidate),
                  coverage  |-> CoverageCheck(policy, baseline, candidate),
                  aggregate |-> AggregateCheck(policy, baseline, candidate),
                  perQuery  |-> PerQueryCheck(policy, baseline, candidate) ] IN
    [ checks |-> checks,
      verdict |-> IF \A name \in DOMAIN checks : checks[name].passed
                  THEN "passed" ELSE "policy_failed" ]

\* What GateReport and its checks validate when they are built.
ReportIsValid(report, queries) ==
  LET checks == report.checks IN
    /\ checks.coverage.paired \in 1..Cardinality(queries)
    /\ checks.coverage.paired + checks.coverage.excluded = Cardinality(queries)
    /\ checks.coverage.excluded >= checks.errorRate.failed
    /\ checks.aggregate.paired = checks.coverage.paired
    /\ checks.perQuery.paired = checks.coverage.paired
    /\ checks.perQuery.violations <= checks.perQuery.paired
    /\ checks.perQuery.passed = (checks.perQuery.violations = 0)

\* evaluate_gate: evidence with a gap or without a pair has no verdict.
GateVerdict(policy, baseline, candidate) ==
  LET report == Report(policy, baseline, candidate) IN
    IF /\ \A q \in DOMAIN baseline : Missing \notin {baseline[q], candidate[q]}
       /\ Paired(baseline, candidate) # {}
       /\ ReportIsValid(report, DOMAIN baseline)
    THEN report.verdict ELSE "invalid"

=============================================================================
