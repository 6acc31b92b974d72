------------------------------ MODULE RunViews ------------------------------
(***************************************************************************)
(* What application/evaluation_views.py makes of a run it has read: the    *)
(* checks that every projection of a run repeats (_load_run_context), and  *)
(* the projections.  The row and the outcomes come from two sessions, so   *)
(* the checks are all that stands between a client and a torn view.  The   *)
(* catalog of the run is immutable and taken to be the canonical one.      *)
(***************************************************************************)
EXTENDS RunStore, Gate, FiniteSetsExt

CONSTANTS Baseline, Candidate  \* the baseline of the run and one candidate

ASSUME ViewAssumption == Baseline \in Configs /\ Candidate \in Configs

\* The outcomes of a projection name the run's own configs and queries.
InScope(out) == DOMAIN out = Attempts

HasOutcomes(out) == \E a \in Attempts : out[a] # "none"

-----------------------------------------------------------------------------
(* _validate_run_lifecycle; a run that is not there has no view.           *)

ProgressAgrees(row, out) == row.completed = CompletedCount(out)

QueuedAgrees(row, out) ==
  ~row.started /\ ~row.ended /\ ~HasOutcomes(out) /\ row.summaries = NoSummaries /\ ~row.error

RunningAgrees(row, out) ==
  row.started /\ ~row.ended /\ row.summaries = NoSummaries /\ ~row.error

CompletedAgrees(row, out) ==
  /\ row.started /\ row.ended /\ ~row.error
  /\ \A a \in Attempts : out[a] # "none"
  /\ row.summaries = SummariesOf(out)

\* A run that failed or was cancelled may never have started.
StoppedAgrees(row, out, error) ==
  /\ row.ended /\ row.error = error /\ row.summaries = NoSummaries
  /\ ~row.started => ~HasOutcomes(out)

InterruptedAgrees(row, out) ==
  row.started /\ row.ended /\ ~row.error /\ row.summaries = NoSummaries

LifecycleAgrees(row, out) ==
  CASE row.status = "absent"      -> FALSE
    [] row.status = "queued"      -> QueuedAgrees(row, out)
    [] row.status = "running"     -> RunningAgrees(row, out)
    [] row.status = "completed"   -> CompletedAgrees(row, out)
    [] row.status = "failed"      -> StoppedAgrees(row, out, TRUE)
    [] row.status = "cancelled"   -> StoppedAgrees(row, out, FALSE)
    [] row.status = "interrupted" -> InterruptedAgrees(row, out)

\* Fault: the progress column is not compared with the outcomes.
AcceptsLifecycleOnly(row, out) == LifecycleAgrees(row, out)

\* Whether a row and the outcomes read after it make a view.
AcceptsView(row, out) ==
  /\ InScope(out)
  /\ ProgressAgrees(row, out)
  /\ LifecycleAgrees(row, out)

-----------------------------------------------------------------------------
(* The projections.                                                        *)

\* The measured qualities a payload may carry: both configs of a query are
\* judged by the same judgments, so both are defined or neither is.
Qualities(out) ==
  {quality \in [{a \in Attempts : out[a] = "succeeded"} -> {Unjudged} \union {Measured(m) : m \in 0..Scale}] :
     \A a, b \in DOMAIN quality :
       a[2] = b[2] => (quality[a] = Unjudged <=> quality[b] = Unjudged)}

\* _engine_outcomes of one config.
EngineOutcomes(out, quality, c) ==
  [q \in Queries |->
     CASE out[<<c, q>>] = "none"      -> Missing
       [] out[<<c, q>>] = "failed"    -> Failed
       [] out[<<c, q>>] = "succeeded" -> quality[<<c, q>>]]

\* The coverage of a regression response: how many queries have each status.
RegressionCoverage(out, quality) ==
  [status \in PairStatuses |->
     Cardinality(WithPairStatus(EngineOutcomes(out, quality, Baseline),
                                EngineOutcomes(out, quality, Candidate), status))]

\* What the contract of the response asks: every query is counted once.
RegressionsAddUp(out) ==
  \A quality \in Qualities(out) :
    MapThenSumSet(LAMBDA status : RegressionCoverage(out, quality)[status], PairStatuses) = Total

=============================================================================
