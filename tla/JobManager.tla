----------------------------- MODULE JobManager -----------------------------
(***************************************************************************)
(* The in-process scheduler of jobs/manager.py over the run store.  A job  *)
(* is one asyncio task: it starts work items in order while fewer than     *)
(* MaxConcurrency are in flight, waits for the first to end, records every *)
(* item that is done by then in item order, and ends the run.  Everything  *)
(* between two awaits of the code is one step here.                        *)
(***************************************************************************)
EXTENDS RunStore, Sequences, FiniteSetsExt

CONSTANTS
  WorkItems,       \* the sequence of attempts the job visits
  MaxConcurrency   \* environment.max_concurrency of the run

\* _validate_start refuses duplicate items and a concurrency below one.
ASSUME JobAssumption ==
  /\ WorkItems \in Seq(Attempts)
  /\ \A i, k \in 1..Len(WorkItems) : WorkItems[i] = WorkItems[k] => i = k
  /\ MaxConcurrency \in Nat \ {0}

VARIABLE job   \* job[r]: _active[r] and the local variables of its task

jobVars == <<rows, outcomes, job>>

-----------------------------------------------------------------------------
Items == 1..Len(WorkItems)

\* A task that is done holds its result until the job collects it; a raised
\* one is any error that is not a search or provider error, or an outcome
\* whose identity is not that of its item.
ItemStates ==
  {"waiting", "executing", "succeeded", "failed", "raised", "recorded", "dropped"}

Done == {"succeeded", "failed", "raised"}

IdleJob ==
  [ active |-> FALSE, cancel |-> FALSE, failure |-> FALSE, batch |-> {},
    item |-> [i \in Items |-> "waiting"] ]

NewJob == [IdleJob EXCEPT !.active = TRUE]

Waiting(j) == {i \in Items : j.item[i] = "waiting"}
Inflight(j) == {i \in Items : j.item[i] = "executing" \/ j.item[i] \in Done}
DoneItems(j) == {i \in Items : j.item[i] \in Done}

\* The condition of the inner while loop, at the top of the outer one.
MaySchedule(j) ==
  /\ ~j.failure
  /\ ~j.cancel
  /\ Cardinality(Inflight(j)) < MaxConcurrency
  /\ Waiting(j) # {}

AtLoopTop(j) == j.active /\ j.batch = {}

-----------------------------------------------------------------------------
(* Starting a job.                                                         *)

StartClaimed(r) ==
  /\ ~job[r].active
  /\ rows[r].status = "running"
  /\ job' = [job EXCEPT ![r] = NewJob]
  /\ UNCHANGED <<rows, outcomes>>

Start(r) ==
  /\ ~job[r].active
  /\ ClaimQueuedRun(r)
  /\ job' = [job EXCEPT ![r] = NewJob]

-----------------------------------------------------------------------------
(* The task of the job.                                                    *)

\* Fault: a whole batch is started, whatever is still in flight.
NextItemsIgnoringInflight(j) ==
  {i \in Waiting(j) : i < Min(Waiting(j)) + MaxConcurrency}

\* The next items, as many as there is room for.
NextItems(j) ==
  LET room == MaxConcurrency - Cardinality(Inflight(j))
  IN  {i \in Waiting(j) : i < Min(Waiting(j)) + room}

Schedule(r) ==
  /\ AtLoopTop(job[r])
  /\ MaySchedule(job[r])
  /\ job' = [job EXCEPT ![r].item =
               [i \in Items |-> IF i \in NextItems(job[r]) THEN "executing" ELSE @[i]]]
  /\ UNCHANGED <<rows, outcomes>>

ExecutorReturns(r, i, result) ==
  /\ job[r].active
  /\ job[r].item[i] = "executing"
  /\ job' = [job EXCEPT ![r].item[i] = result]
  /\ UNCHANGED <<rows, outcomes>>

\* asyncio.wait returns every task that is done when the job wakes up.
Collect(r) ==
  /\ AtLoopTop(job[r])
  /\ ~MaySchedule(job[r])
  /\ DoneItems(job[r]) # {}
  /\ job' = [job EXCEPT ![r].batch = DoneItems(job[r])]
  /\ UNCHANGED <<rows, outcomes>>

\* Fault: a settled item is not taken out of the batch.
SettledAndKept(j, i, state, failed) ==
  [j EXCEPT !.item[i] = state,
            !.failure = @ \/ failed]

Settled(j, i, state, failed) ==
  [j EXCEPT !.item[i] = state,
            !.batch = @ \ {i},
            !.failure = @ \/ failed]

\* The outcome is durable before on_progress sees it, so it stays durable
\* when on_progress raises.
RecordItem(r) ==
  /\ job[r].batch # {}
  /\ LET i == Min(job[r].batch)
     IN  /\ job[r].item[i] \in Results
         /\ RecordOutcome(r, WorkItems[i], job[r].item[i])
         /\ \E progressRaises \in BOOLEAN :
              job' = [job EXCEPT ![r] = Settled(@, i, "recorded", progressRaises)]

\* The executor raised, or the store refused the write.
DropItem(r) ==
  /\ job[r].batch # {}
  /\ job' = [job EXCEPT ![r] = Settled(@, Min(job[r].batch), "dropped", TRUE)]
  /\ UNCHANGED <<rows, outcomes>>

\* Fault: the error handler fails the run without reading its status again.
FailedRegardless(row) == MovedTo(row, "failed")

FailedIfRunning(row) ==
  IF row.status = "running" THEN MovedTo(row, "failed") ELSE row

\* finalize demands an outcome for every attempt and complete_run validates
\* again; when either refuses, the handler fails the run if it still runs.
CompletedOrFailed(row, out) ==
  IF /\ \A a \in Attempts : out[a] # "none"
     /\ ValidSummaries(out, SummariesOf(out))
     /\ MayMove(row, "completed")
  THEN Moved(row, "completed", SummariesOf(out))
  ELSE FailedIfRunning(row)

\* Fault: a cancel that comes after the last item was started is forgotten.
EndedRowUnlessAllStarted(row, out, j) ==
  IF j.failure THEN FailedIfRunning(row)
  ELSE IF j.cancel /\ Waiting(j) # {}
       THEN MovedTo(row, "cancelled")
       ELSE CompletedOrFailed(row, out)

EndedRow(row, out, j) ==
  IF j.failure THEN FailedIfRunning(row)
  ELSE IF j.cancel
       THEN IF MayMove(row, "cancelled") THEN MovedTo(row, "cancelled")
                                         ELSE FailedIfRunning(row)
       ELSE CompletedOrFailed(row, out)

\* Fault: a cancelled job ends at once and abandons the items in flight.
FinishAbandoning(r) ==
  /\ AtLoopTop(job[r])
  /\ ~MaySchedule(job[r])
  /\ job[r].cancel \/ Inflight(job[r]) = {}
  /\ rows' = [rows EXCEPT ![r] = EndedRow(@, outcomes[r], job[r])]
  /\ job' = [job EXCEPT ![r].active = FALSE]
  /\ UNCHANGED outcomes

Finish(r) ==
  /\ AtLoopTop(job[r])
  /\ ~MaySchedule(job[r])
  /\ Inflight(job[r]) = {}
  /\ rows' = [rows EXCEPT ![r] = EndedRow(@, outcomes[r], job[r])]
  /\ job' = [job EXCEPT ![r].active = FALSE]
  /\ UNCHANGED outcomes

LoopStep(r) ==
  Schedule(r) \/ Collect(r) \/ RecordItem(r) \/ DropItem(r) \/ Finish(r)

-----------------------------------------------------------------------------
(* Cancellation and shutdown of the manager.                               *)

\* Fault: the row of a live run is cancelled under its active job.
CancelAtOnce(r) ==
  /\ rows[r].status \in {"queued", "running"}
  /\ MoveRun(r, "cancelled")
  /\ job' = [job EXCEPT ![r].cancel = @ \/ job[r].active]

\* Fault: a run without a job, as in its warm-up, has nothing to be cancelled.
CancelJobOnly(r) ==
  /\ job' = [job EXCEPT ![r].cancel = @ \/ job[r].active]
  /\ UNCHANGED <<rows, outcomes>>

\* An active job is only asked to stop; any other live run ends here.
Cancel(r) ==
  \/ /\ job[r].active
     /\ job' = [job EXCEPT ![r].cancel = TRUE]
     /\ UNCHANGED <<rows, outcomes>>
  \/ /\ ~job[r].active
     /\ rows[r].status \in {"queued", "running"}
     /\ MoveRun(r, "cancelled")
     /\ UNCHANGED job

ClosedJobs == [r \in Runs |-> [job[r] EXCEPT !.cancel = @ \/ job[r].active]]

Close ==
  /\ job' = ClosedJobs
  /\ UNCHANGED <<rows, outcomes>>

-----------------------------------------------------------------------------
JobInit ==
  /\ StoreInit
  /\ job = [r \in Runs |-> IdleJob]

JobNext ==
  \/ \E r \in Runs : CreateRun(r) /\ UNCHANGED job
  \/ \E r \in Runs : ClaimQueuedRun(r) /\ UNCHANGED job
  \/ \E r \in Runs : Start(r)
  \/ \E r \in Runs : StartClaimed(r)
  \/ \E r \in Runs : LoopStep(r)
  \/ \E r \in Runs, i \in Items, result \in Done : ExecutorReturns(r, i, result)
  \/ \E r \in Runs : Cancel(r)
  \/ Close

\* The event loop runs every ready task, and a search ends: its provider call
\* has a deadline.  Nobody is obliged to create, start or cancel a run.
JobFairness ==
  \A r \in Runs :
    /\ WF_jobVars(LoopStep(r))
    /\ \A i \in Items : WF_jobVars(\E result \in Done : ExecutorReturns(r, i, result))

JobSpec == JobInit /\ [][JobNext]_jobVars /\ JobFairness

-----------------------------------------------------------------------------
(* Properties.                                                             *)

Job ==
  [ active : BOOLEAN, cancel : BOOLEAN, failure : BOOLEAN,
    batch : SUBSET Items, item : [Items -> ItemStates] ]

\* The store and every job have the shape the models declare.
JobTypeOK ==
  /\ StoreTypeOK
  /\ job \in [Runs -> Job]

\* While a job is scheduled its run is running: cancel asks the job to stop
\* and never ends the row under it, so no started search is thrown away.
JobOwnsItsRow ==
  \A r \in Runs : job[r].active => rows[r].status = "running"

\* Never more searches in flight than the concurrency stored with the run.
ConcurrencyIsBounded ==
  \A r \in Runs : Cardinality(Inflight(job[r])) <= MaxConcurrency

\* A job that ended left no started item behind: a cancelled run dropped none,
\* a completed run visited all, a failed one has an item to blame, and what
\* was recorded is durable in the store.
EndedJobSettledItsItems ==
  \A r \in Runs :
    LET j == job[r]
    IN  /\ ~j.active => Inflight(j) = {}
        /\ rows[r].status = "cancelled" => \A i \in Items : j.item[i] \in {"waiting", "recorded"}
        /\ rows[r].status = "completed" => \A i \in Items : j.item[i] = "recorded"
        /\ rows[r].status = "failed" => j.failure
        /\ \A i \in Items : j.item[i] = "recorded" => outcomes[r][WorkItems[i]] # "none"

\* Once a job was asked to stop, its run does not end as completed, even when
\* its last search was already in flight.
AcceptedCancelNeverCompletes ==
  \A r \in Runs : job[r].cancel => rows[r].status # "completed"

\* Every job ends, and its run with it.
JobTerminates ==
  \A r \in Runs : job[r].active ~> (~job[r].active /\ rows[r].status \in Terminal)

=============================================================================
