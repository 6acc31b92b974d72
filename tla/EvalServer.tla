----------------------------- MODULE EvalServer -----------------------------
(***************************************************************************)
(* The API process that owns evaluation execution: EvaluationApiRuntime of *)
(* application/evaluation_runtime.py with the service of                   *)
(* application/evaluations.py it builds per run, over the job manager and  *)
(* the run store.  The control lock is never held across an await that     *)
(* suspends, so a critical section is one step.  The process may crash or  *)
(* be hard-exited at any step, and is started again; while it is down a    *)
(* CLI command may run against the same database and die.                  *)
(***************************************************************************)
EXTENDS JobManager

CONSTANTS
  WarmupSearches,  \* warm-up queries times configs, per run
  MaxOutages       \* bound: how often the server crashes or is shut down

ASSUME ServerAssumption == WarmupSearches \in Nat /\ MaxOutages \in Nat

VARIABLES
  up,        \* the process lives and holds the worker guard
  closing,   \* _closing
  driver,    \* driver[r]: where the _drive_run task of r stands
  warm,      \* warm[r]: warm-up searches issued for r by this process
  born,      \* created_at order of the runs
  outages,   \* crashes and shutdowns so far
  cancelling,  \* cancelling[r]: a shielded cancel task has not run yet
  asked      \* history: a cancel reached r before it ended

procVars == <<up, closing, driver, warm>>
requests == <<cancelling, asked>>
serverVars == <<rows, outcomes, job, procVars, born, outages, requests>>

\* "closing" is the finally block waiting for the search backend to close.
DriverStates == {"none", "scheduled", "warming", "measuring", "closing"}

\* _services[r] is registered from the claim until the finally block is done.
HasService(r) == driver[r] \in {"warming", "measuring", "closing"}

MaxActiveRuns == 1

-----------------------------------------------------------------------------
(* _pump_queued_locked: give the oldest queued run without a driver one,   *)
(* if neither a running row nor a scheduled driver takes the only slot.    *)

Available(store, drivers) ==
  MaxActiveRuns
    - Cardinality({r \in Runs : store[r].status = "running"})
    - Cardinality({r \in Runs : store[r].status = "queued" /\ drivers[r] # "none"})

Unserved(store, drivers) ==
  {r \in Runs : store[r].status = "queued" /\ drivers[r] = "none"}

Oldest(S) == CHOOSE r \in S : \A s \in S : born[r] <= born[s]

\* Fault: a scheduled driver is not subtracted from the free slots.
PumpedWithoutCounting(store, drivers) ==
  IF Available(store, drivers) > 0
  THEN [r \in Runs |-> IF r \in Unserved(store, drivers) THEN "scheduled" ELSE drivers[r]]
  ELSE drivers

Pumped(store, drivers) ==
  IF Available(store, drivers) > 0 /\ Unserved(store, drivers) # {}
  THEN [drivers EXCEPT ![Oldest(Unserved(store, drivers))] = "scheduled"]
  ELSE drivers

\* Fault: a driver that ends does not look for the next queued run.
DriverGoneQuietly(store, r) == [driver EXCEPT ![r] = "none"]

\* The end of _drive_run: forget the driver and pump, unless closing.
DriverGone(store, r) ==
  LET left == [driver EXCEPT ![r] = "none"]
  IN  IF closing THEN left ELSE Pumped(store, left)

-----------------------------------------------------------------------------
(* The driver of a run.                                                    *)

\* Fault: a driver that finds the runtime closing waits instead of returning.
DriverSkipsEndedOnly(r) ==
  /\ driver[r] = "scheduled"
  /\ rows[r].status # "queued"
  /\ driver' = DriverGone(rows, r)
  /\ UNCHANGED <<rows, outcomes, job, up, closing, warm, born, outages, requests>>

\* Closing, or no longer queued: nothing to do.
DriverSkips(r) ==
  /\ driver[r] = "scheduled"
  /\ closing \/ rows[r].status # "queued"
  /\ driver' = DriverGone(rows, r)
  /\ UNCHANGED <<rows, outcomes, job, up, closing, warm, born, outages, requests>>

\* The binding, the claim, the credential and the factories, without an await.
DriverClaims(r) ==
  /\ driver[r] = "scheduled"
  /\ ~closing
  /\ ClaimQueuedRun(r)
  /\ driver' = [driver EXCEPT ![r] = "warming"]
  /\ warm' = [warm EXCEPT ![r] = 0]
  /\ UNCHANGED <<job, up, closing, born, outages, requests>>

\* One of them fails, before or after the claim: _fail_reconstruction.  A
\* search backend that was already built is closed first.
DriverFails(r) ==
  /\ driver[r] = "scheduled"
  /\ ~closing
  /\ rows[r].status = "queued"
  /\ \E claimed, built \in BOOLEAN :
       LET row == IF claimed THEN MovedTo(rows[r], "running") ELSE rows[r]
       IN  /\ built => claimed
           /\ rows' = [rows EXCEPT ![r] = MovedTo(row, "failed")]
           /\ driver' = IF built THEN [driver EXCEPT ![r] = "closing"]
                                 ELSE DriverGone(rows', r)
  /\ UNCHANGED <<outcomes, job, up, closing, warm, born, outages, requests>>

\* _execute_run and _warm_up read the status before every search; a search
\* or provider error of a warm-up is ignored.
WarmUpStops(r) ==
  /\ driver[r] = "warming"
  /\ rows[r].status # "running"
  /\ driver' = [driver EXCEPT ![r] = "closing"]
  /\ UNCHANGED <<rows, outcomes, job, up, closing, warm, born, outages, requests>>

\* Fault: the warm-up does not read the status between its searches.
WarmUpSearchesBlindly(r) ==
  /\ driver[r] = "warming"
  /\ warm[r] < WarmupSearches
  /\ warm' = [warm EXCEPT ![r] = @ + 1]
  /\ UNCHANGED <<rows, outcomes, job, up, closing, driver, born, outages, requests>>

WarmUpSearches(r) ==
  /\ driver[r] = "warming"
  /\ rows[r].status = "running"
  /\ warm[r] < WarmupSearches
  /\ warm' = [warm EXCEPT ![r] = @ + 1]
  /\ UNCHANGED <<rows, outcomes, job, up, closing, driver, born, outages, requests>>

\* Fault: a failed warm-up leaves the row to somebody else.
WarmUpFailsSilently(r) ==
  /\ driver[r] = "warming"
  /\ driver' = [driver EXCEPT ![r] = "closing"]
  /\ UNCHANGED <<rows, outcomes, job, up, closing, warm, born, outages, requests>>

WarmUpFails(r) ==
  /\ driver[r] = "warming"
  /\ rows' = [rows EXCEPT ![r] = FailedIfRunning(@)]
  /\ driver' = [driver EXCEPT ![r] = "closing"]
  /\ UNCHANGED <<outcomes, job, up, closing, warm, born, outages, requests>>

Measures(r) ==
  /\ driver[r] = "warming"
  /\ warm[r] = WarmupSearches
  /\ StartClaimed(r)
  /\ driver' = [driver EXCEPT ![r] = "measuring"]
  /\ UNCHANGED <<up, closing, warm, born, outages, requests>>

DriverResumes(r) ==
  /\ driver[r] = "measuring"
  /\ ~job[r].active
  /\ driver' = [driver EXCEPT ![r] = "closing"]
  /\ UNCHANGED <<rows, outcomes, job, up, closing, warm, born, outages, requests>>

BackendClosed(r) ==
  /\ driver[r] = "closing"
  /\ driver' = DriverGone(rows, r)
  /\ UNCHANGED <<rows, outcomes, job, up, closing, warm, born, outages, requests>>

DriverStep(r) ==
  \/ DriverSkips(r) \/ DriverClaims(r) \/ DriverFails(r)
  \/ WarmUpStops(r) \/ WarmUpSearches(r) \/ WarmUpFails(r)
  \/ Measures(r) \/ DriverResumes(r) \/ BackendClosed(r)

JobStep(r) ==
  /\ LoopStep(r)
  /\ UNCHANGED <<procVars, born, outages, requests>>

SearchEnds(r, i) ==
  /\ \E result \in Done : ExecutorReturns(r, i, result)
  /\ UNCHANGED <<procVars, born, outages, requests>>

-----------------------------------------------------------------------------
(* The requests of the API.                                                *)

Stamped(r) == [born EXCEPT ![r] = 1 + Cardinality({s \in Runs : born[s] > 0})]

\* Any active row refuses the request, as an equivalent run or for capacity.
CreateEvalRun(r) ==
  /\ up /\ ~closing
  /\ ActiveRuns = {}
  /\ CreateRun(r)
  /\ driver' = [driver EXCEPT ![r] = "scheduled"]
  /\ born' = Stamped(r)
  /\ UNCHANGED <<job, up, closing, warm, outages, requests>>

\* Terminal rows are returned as they are, a running row without a service
\* is refused; neither is a step.  A running row is cancelled by a task of its
\* own, so that a client which disconnects cannot revoke the request.
CancelEvalRun(r) ==
  /\ up /\ ~closing
  /\ \/ /\ rows[r].status = "queued"
        /\ MoveRun(r, "cancelled")
        /\ asked' = [asked EXCEPT ![r] = TRUE]
        /\ UNCHANGED cancelling
     \/ /\ rows[r].status = "running" /\ HasService(r)
        /\ cancelling' = [cancelling EXCEPT ![r] = TRUE]
        /\ UNCHANGED <<rows, outcomes, asked>>
  /\ UNCHANGED <<job, procVars, born, outages>>

\* The task asks the manager, which returns a run that ended meanwhile as it is.
CancelReaches(r) ==
  /\ cancelling[r]
  /\ cancelling' = [cancelling EXCEPT ![r] = FALSE]
  /\ \/ /\ Cancel(r)
        /\ asked' = [asked EXCEPT ![r] = TRUE]
     \/ /\ ~job[r].active
        /\ rows[r].status \in Terminal
        /\ UNCHANGED <<rows, outcomes, job, asked>>
  /\ UNCHANGED <<procVars, born, outages>>

-----------------------------------------------------------------------------
(* The life of the process.                                                *)

\* Fault: the server pumps without recovering what the last process left.
StartWithoutRecovery ==
  /\ ~up
  /\ up' = TRUE
  /\ driver' = Pumped(rows, driver)
  /\ UNCHANGED <<rows, outcomes, job, closing, warm, born, outages, requests>>

\* Guard, recovery of stale rows, first pump.
StartServer ==
  /\ ~up
  /\ up' = TRUE
  /\ rows' = InterruptedRows
  /\ driver' = Pumped(rows', driver)
  /\ UNCHANGED <<outcomes, job, closing, warm, born, outages, requests>>

\* shutdown_execution up to its first await: admission stops, and the jobs
\* the manager knows are asked to stop.
BeginShutdown ==
  /\ up /\ ~closing
  /\ outages < MaxOutages
  /\ closing' = TRUE
  /\ Close
  /\ UNCHANGED <<up, driver, warm, born, outages, requests>>

NoTasks ==
  /\ up' = FALSE
  /\ closing' = FALSE
  /\ driver' = [r \in Runs |-> "none"]
  /\ warm' = [r \in Runs |-> 0]
  /\ cancelling' = [r \in Runs |-> FALSE]
  /\ outages' = outages + 1
  /\ UNCHANGED <<rows, outcomes, born, asked>>

\* The jobs and the drivers are drained; dispose releases the guard.
FinishShutdown ==
  /\ closing
  /\ \A r \in Runs : driver[r] = "none" /\ ~job[r].active
  /\ NoTasks
  /\ UNCHANGED job

\* The process dies, by the watchdog of a slow shutdown too.
Crash ==
  /\ up
  /\ outages < MaxOutages
  /\ NoTasks
  /\ job' = [r \in Runs |-> IdleJob]

\* A CLI command recovers the store as it starts, creates its run and dies
\* before it claims it.  Commands beside a live server are in SharedStore.
CliDies(r) ==
  /\ ~up
  /\ rows[r].status = "absent"
  /\ rows' = [InterruptedRows EXCEPT ![r] = QueuedRow]
  /\ born' = Stamped(r)
  /\ UNCHANGED <<outcomes, job, procVars, outages, requests>>

-----------------------------------------------------------------------------
ServerInit ==
  /\ JobInit
  /\ up = FALSE
  /\ closing = FALSE
  /\ driver = [r \in Runs |-> "none"]
  /\ warm = [r \in Runs |-> 0]
  /\ born = [r \in Runs |-> 0]
  /\ outages = 0
  /\ cancelling = [r \in Runs |-> FALSE]
  /\ asked = [r \in Runs |-> FALSE]

ServerNext ==
  \/ \E r \in Runs : DriverStep(r)
  \/ \E r \in Runs : JobStep(r)
  \/ \E r \in Runs, i \in Items : SearchEnds(r, i)
  \/ \E r \in Runs : CreateEvalRun(r) \/ CancelEvalRun(r) \/ CliDies(r)
  \/ \E r \in Runs : CancelReaches(r)
  \/ StartServer \/ BeginShutdown \/ FinishShutdown \/ Crash

\* The event loop runs every ready task, searches and backend closes end, and
\* somebody starts a server that is down.  No request is ever obliged to come.
ServerFairness ==
  /\ \A r \in Runs : WF_serverVars(DriverStep(r)) /\ WF_serverVars(JobStep(r))
                    /\ WF_serverVars(CancelReaches(r))
  /\ \A r \in Runs, i \in Items : WF_serverVars(SearchEnds(r, i))
  /\ WF_serverVars(StartServer)
  /\ WF_serverVars(FinishShutdown)

ServerSpec == ServerInit /\ [][ServerNext]_serverVars /\ ServerFairness

-----------------------------------------------------------------------------
(* Properties.                                                             *)

\* The single-worker bound in terms of work and not only of rows: at most one
\* run is running and at most one is measured, although a cancelled run may
\* still be finishing a warm-up search when the next one is admitted.
OneRunExecutes ==
  /\ Cardinality(WithStatus("running")) <= MaxActiveRuns
  /\ Cardinality({r \in Runs : job[r].active}) <= MaxActiveRuns

\* While the server lives, a running row has a registered service whose task
\* is still at work: a cancel request is never answered with the refusal for
\* an unowned run, and no row stays running after its driver left.
RunningRunHasItsService ==
  up => \A r \in WithStatus("running") : driver[r] \in {"warming", "measuring"}

Searches(r) == warm[r] + Cardinality({i \in Items : job[r].item[i] # "waiting"})

\* A cancel that reached its run schedules no further search, neither of the
\* warm-up nor of the measurement ("Cancelling stops scheduling new queries").
NoSearchAfterCancel ==
  [][\A r \in Runs : asked[r] => Searches(r)' <= Searches(r)]_serverVars

\* A run that a cancel reached ends cancelled, failed or interrupted and never
\* completed, whatever was in flight and however often it restarts.
CancelledRunNeverCompletes ==
  \A r \in Runs : asked[r] => rows[r].status # "completed"

\* Across crashes, restarts, shutdowns and cancels the runs keep to the
\* abstract life cycle: terminal runs and their outcomes are immutable.
ServerImplementsLifecycle == Abstract!Spec

\* No queued run waits forever, orphans of a dead command included.
QueuedRunIsServed ==
  \A r \in Runs : rows[r].status = "queued" ~> rows[r].status # "queued"

\* Every run that was claimed ends, in this process or by the next start.
RunningRunEnds ==
  \A r \in Runs : rows[r].status = "running" ~> rows[r].status \in Terminal

\* A shutdown comes to an end.
ShutdownEnds == closing ~> ~up

=============================================================================
