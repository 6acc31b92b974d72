------------------------------ MODULE RunStore ------------------------------
(***************************************************************************)
(* The durable evaluation-run tables of persistence/repository.py.  Within *)
(* one process every repository method is synchronous, so each is one step *)
(* here; SharedStore takes the same methods apart for two processes.       *)
(*                                                                         *)
(* rows[r] is the row of eval_runs (its payload repeats the columns) and   *)
(* outcomes[r] the rows of query_outcomes of run r.  Timestamps are kept   *)
(* as "set or not", a summary as its two outcome counts, an error as       *)
(* "present or not".                                                       *)
(***************************************************************************)
EXTENDS Integers, FiniteSets

CONSTANTS
  Runs,     \* the run identifiers that may ever be used
  Configs,  \* the retrieval configurations of every run (four in the code)
  Queries   \* the judged queries of the query set (fifty in the code)

ASSUME StoreAssumption ==
  /\ IsFiniteSet(Configs) /\ Configs # {}
  /\ IsFiniteSet(Queries) /\ Queries # {}

VARIABLES rows, outcomes

storeVars == <<rows, outcomes>>

-----------------------------------------------------------------------------
Terminal == {"completed", "failed", "cancelled", "interrupted"}
Statuses == {"absent", "queued", "running"} \union Terminal

\* _ALLOWED_TRANSITIONS; no edge leaves a terminal status.
Allowed(status) ==
  CASE status = "queued"  -> {"running", "failed", "cancelled"}
    [] status = "running" -> Terminal
    [] OTHER              -> {}

Attempts == Configs \X Queries
Results == {"succeeded", "failed"}
Tally == [completed : Nat, failed : Nat]

\* A row without summaries carries the zero tally, which no validated summary
\* equals because the counts of a summary add up to the number of queries.
NoSummaries == [c \in Configs |-> [completed |-> 0, failed |-> 0]]

NoRow ==
  [ status |-> "absent", completed |-> 0, started |-> FALSE, ended |-> FALSE,
    error |-> FALSE, summaries |-> NoSummaries ]

NoOutcomes == [a \in Attempts |-> "none"]

-----------------------------------------------------------------------------
(* Reads.                                                                  *)

Total == Cardinality(Queries)

\* A query is complete when every config of the run has an outcome for it.
Covered(out) == {q \in Queries : \A c \in Configs : out[<<c, q>>] # "none"}

CompletedCount(out) == Cardinality(Covered(out))

Counted(out, c, result) ==
  Cardinality({q \in Queries : out[<<c, q>>] = result})

\* The tallies the final summaries must carry: they count durable outcomes.
SummariesOf(out) ==
  [c \in Configs |-> [completed |-> Counted(out, c, "succeeded"),
                      failed    |-> Counted(out, c, "failed")]]

\* Fault: the counts are added up and never compared with the outcomes.
SummariesAddUpOnly(out, summaries) ==
  \A c \in Configs : summaries[c].completed + summaries[c].failed = Total

ValidSummaries(out, summaries) ==
  /\ summaries = SummariesOf(out)
  /\ \A c \in Configs : summaries[c].completed + summaries[c].failed = Total

\* list_active_runs and the selection of interrupt_stale_runs.
WithStatus(status) == {r \in Runs : rows[r].status = status}
ActiveRuns == WithStatus("queued") \union WithStatus("running")

-----------------------------------------------------------------------------
(* Row updates, shared by every method that moves a run.                   *)

MayMove(row, target) ==
  /\ target \in Allowed(row.status)
  /\ target = "completed" => row.completed = Total

\* Fault: only a completed run gets its end time.
MovedEndsIfCompleted(row, target, summaries) ==
  [row EXCEPT !.status = target,
              !.started = @ \/ target = "running",
              !.ended = @ \/ target = "completed",
              !.error = target = "failed",
              !.summaries = summaries]

Moved(row, target, summaries) ==
  [row EXCEPT !.status = target,
              !.started = @ \/ target = "running",
              !.ended = @ \/ target \in Terminal,
              !.error = target = "failed",
              !.summaries = summaries]

\* A move without summaries keeps the ones the row has.
MovedTo(row, target) == Moved(row, target, row.summaries)

QueuedRow == [NoRow EXCEPT !.status = "queued"]

Upserted(out, a, result) == [out EXCEPT ![a] = result]

\* Fault: the column counts outcomes as they arrive instead of whole queries.
ProgressedPerOutcome(row, out) == [row EXCEPT !.completed = @ + 1]

Progressed(row, out) == [row EXCEPT !.completed = CompletedCount(out)]

-----------------------------------------------------------------------------
(* The methods.  A call the code refuses raises and changes nothing, so    *)
(* only the accepted calls are steps.                                      *)

\* A repeated create of the same payload returns the stored run unchanged.
CreateRun(r) ==
  /\ rows[r].status = "absent"
  /\ rows' = [rows EXCEPT ![r] = QueuedRow]
  /\ UNCHANGED outcomes

ClaimQueuedRun(r) ==
  /\ rows[r].status = "queued"
  /\ rows' = [rows EXCEPT ![r] = MovedTo(@, "running")]
  /\ UNCHANGED outcomes

\* Every target but completed: the failed one always comes with its error, and
\* the summaries that are passed are stored as they are, whatever the target.
TransitionRun(r, target, summaries) ==
  /\ target # "completed"
  /\ MayMove(rows[r], target)
  /\ rows' = [rows EXCEPT ![r] = Moved(@, target, summaries)]
  /\ UNCHANGED outcomes

\* transition_run without summaries.
MoveRun(r, target) == TransitionRun(r, target, rows[r].summaries)

CompleteRun(r, summaries) ==
  /\ ValidSummaries(outcomes[r], summaries)
  /\ MayMove(rows[r], "completed")
  /\ rows' = [rows EXCEPT ![r] = Moved(@, "completed", summaries)]
  /\ UNCHANGED outcomes

\* Fault: an outcome is also accepted after its run has ended.
RecordOutcomeLate(r, a, result) ==
  /\ rows[r].status \notin {"absent", "queued"}
  /\ outcomes' = [outcomes EXCEPT ![r] = Upserted(@, a, result)]
  /\ rows' = [rows EXCEPT ![r] = Progressed(@, outcomes'[r])]

RecordOutcome(r, a, result) ==
  /\ rows[r].status = "running"
  /\ outcomes' = [outcomes EXCEPT ![r] = Upserted(@, a, result)]
  /\ rows' = [rows EXCEPT ![r] = Progressed(@, outcomes'[r])]

\* Start-up recovery: every running row, whoever executes it.
InterruptedRows ==
  [r \in Runs |-> IF rows[r].status = "running"
                  THEN MovedTo(rows[r], "interrupted")
                  ELSE rows[r]]

InterruptStaleRuns ==
  /\ WithStatus("running") # {}
  /\ rows' = InterruptedRows
  /\ UNCHANGED outcomes

-----------------------------------------------------------------------------
(* The store under callers that call anything in any order.  In src/ only  *)
(* complete_run passes summaries; the method takes them from anybody.      *)

StoreInit ==
  /\ rows = [r \in Runs |-> NoRow]
  /\ outcomes = [r \in Runs |-> NoOutcomes]

Summaries == [Configs -> [completed : 0..Total, failed : 0..Total]]

ApplicationNext ==
  \/ \E r \in Runs : CreateRun(r)
  \/ \E r \in Runs : ClaimQueuedRun(r)
  \/ \E r \in Runs, target \in Statuses : MoveRun(r, target)
  \/ \E r \in Runs, summaries \in Summaries : CompleteRun(r, summaries)
  \/ \E r \in Runs, a \in Attempts, result \in Results : RecordOutcome(r, a, result)
  \/ InterruptStaleRuns

StoreNext ==
  \/ ApplicationNext
  \/ \E r \in Runs, target \in Statuses, summaries \in Summaries :
       TransitionRun(r, target, summaries)

StoreSpec == StoreInit /\ [][StoreNext]_storeVars

-----------------------------------------------------------------------------
(* Properties.                                                             *)

Row ==
  [ status : Statuses, completed : Nat, started : BOOLEAN, ended : BOOLEAN,
    error : BOOLEAN, summaries : [Configs -> Tally] ]

\* Every row and outcome map of the store has the shape the models declare.
StoreTypeOK ==
  /\ rows \in [Runs -> Row]
  /\ outcomes \in [Runs -> [Attempts -> Results \union {"none"}]]

\* The progress column a client polls (record_outcome writes it) is the number
\* of fully durable query groups, in every status, also after the run ended.
ProgressMatchesOutcomes ==
  \A r \in Runs : rows[r].completed = CompletedCount(outcomes[r])

\* A completed run has an outcome of every config for every query, and its
\* stored summaries count exactly the outcomes that are durable now.
CompletionIsDurable ==
  \A r \in Runs :
    rows[r].status = "completed" =>
      /\ \A a \in Attempts : outcomes[r][a] # "none"
      /\ rows[r].summaries = SummariesOf(outcomes[r])

\* The life-cycle columns agree with the status: a run that holds outcomes was
\* started and is no longer queued, an end time marks exactly the terminal
\* rows and an error the failed ones, whichever method ended them.
LifecycleColumnsAgree ==
  \A r \in Runs :
    /\ (\E a \in Attempts : outcomes[r][a] # "none") => rows[r].started
    /\ rows[r].status \in {"running", "completed", "interrupted"} => rows[r].started
    /\ rows[r].status \in {"absent", "queued"} => ~rows[r].started
    /\ rows[r].ended <=> rows[r].status \in Terminal
    /\ rows[r].error <=> rows[r].status = "failed"

\* The repository implements the abstract life cycle: its rows are the phases
\* and its outcome rows the durable attempts.
Abstract ==
  INSTANCE RunLifecycle WITH
    phase <- [r \in Runs |-> rows[r].status],
    durable <- [r \in Runs |-> {a \in Attempts : outcomes[r][a] # "none"}]

ImplementsLifecycle == Abstract!Spec

=============================================================================
