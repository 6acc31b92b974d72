-------------------------- MODULE EvalServerProofs --------------------------
(***************************************************************************)
(* The job manager and the API process above it, for every number of runs, *)
(* configs, queries, work items, slots, warm-up searches and outages.      *)
(*                                                                         *)
(* First the manager alone (JobSpec): what its steps do to a job, which    *)
(* needs nothing of the store and gives the bound on concurrency; then     *)
(* that every step is a step of the store or leaves it alone, which brings *)
(* the theorems of RunStoreProofs along; then what ties a job to its row;  *)
(* then that the plan the job follows visits every attempt once.           *)
(*                                                                         *)
(* Then the process (ServerSpec): what its steps do to the store and to    *)
(* the jobs; how row, driver, job and request of one run fit each other    *)
(* (Fits); and that one run at a time takes the slot (Alone).  The only    *)
(* step that gives a slot away is the pump.                                *)
(***************************************************************************)
EXTENDS EvalServer, WorkPlan, RunStoreProofs

JobShape == job \in [Runs -> Job]

-----------------------------------------------------------------------------
(* Work items.                                                             *)

\* The items of a batch are settled in order: there always is a first one.
LEMMA MinIsAMember ==
  ASSUME NEW S \in SUBSET Nat, S # {}
  PROVE  Min(S) \in S /\ \A i \in S : Min(S) <= i
<1> DEFINE Less == {ss \in Nat \X Nat : ss[1] < ss[2]}
<1>1. IsWellFoundedOn(Less, Nat)
  BY NatLessThanWellFounded, Zenon DEF OpToRel
<1>2. \E x \in S : \A y \in S : ~ (<<y, x>> \in Less)
  <2> HIDE DEF Less
  <2>1. QED
    BY <1>1, WFMin
<1>3. \E x \in S : \A y \in S : x <= y
  <2>1. PICK x \in S : \A y \in S : ~ (<<y, x>> \in Less)
    BY <1>2
  <2>2. ASSUME NEW y \in S PROVE x <= y
    <3> DEFINE pair == <<y, x>>
    <3>1. pair \in Nat \X Nat /\ pair[1] = y /\ pair[2] = x
      OBVIOUS
    <3>2. ~ (pair[1] < pair[2])
      BY <2>1, <3>1
    <3>3. QED
      BY <3>1, <3>2
  <2>3. QED
    BY <2>2
<1>4. QED
  BY <1>3 DEF Min

\* Items are positions in a finite sequence.
LEMMA ItemsAreNaturals == Items \in SUBSET Nat /\ IsFiniteSet(Items)
<1>1. Len(WorkItems) \in Nat
  BY JobAssumption
<1>2. QED
  BY <1>1, FS_Interval DEF Items

\* The item a job settles next belongs to its batch.
LEMMA FirstOfBatch ==
  ASSUME NEW S \in SUBSET Items, S # {}
  PROVE  Min(S) \in S
BY ItemsAreNaturals, MinIsAMember

\* Every item is an attempt of the run.
LEMMA ItemsAreAttempts == ASSUME NEW i \in Items PROVE WorkItems[i] \in Attempts
BY JobAssumption DEF Items

-----------------------------------------------------------------------------
(* Single jobs.                                                            *)

\* The items a job has started, and a batch of items that wait to be settled.
Started(j) == {i \in Items : j.item[i] # "waiting"}
BatchHolds(j) == \A i \in j.batch : j.item[i] \in Done

\* A step that puts nothing in flight starts nothing either, unless the batch
\* names an item that was never started.
Settles(j, k) ==
  /\ k \in Job
  /\ Inflight(k) \subseteq Inflight(j)
  /\ BatchHolds(j) => BatchHolds(k) /\ Started(k) \subseteq Started(j)

\* A job that was never started, or just was, has the shape of a job.
LEMMA IdleJobIsTyped == IdleJob \in Job /\ NewJob \in Job
<1>1. IdleJob \in Job
  BY DEF IdleJob, Job, ItemStates
<1>2. QED
  BY <1>1 DEF NewJob, Job

\* So has a job one of whose items was settled.
LEMMA SettledIsTyped ==
  ASSUME NEW j \in Job, NEW i \in Items, NEW state \in ItemStates, NEW failed \in BOOLEAN
  PROVE  Settled(j, i, state, failed) \in Job
BY DEF Settled, Job

\* A new job has nothing in flight.
LEMMA NewJobIsQuiet ==
  /\ Inflight(IdleJob) = {} /\ BatchHolds(IdleJob) /\ Started(IdleJob) = {}
  /\ Inflight(NewJob) = {} /\ BatchHolds(NewJob) /\ Started(NewJob) = {}
BY DEF NewJob, IdleJob, Inflight, Done, BatchHolds, Started

\* Settling the first item of a batch, recorded or dropped, takes it out of
\* flight.
LEMMA SettledLeavesFlight ==
  ASSUME NEW j \in Job, NEW i \in j.batch, NEW state \in {"recorded", "dropped"},
         NEW failed \in BOOLEAN
  PROVE  Settles(j, Settled(j, i, state, failed))
<1> DEFINE k == Settled(j, i, state, failed)
<1>1. i \in Items /\ k \in Job
  BY SettledIsTyped DEF Job, ItemStates
<1>2. /\ k.batch = j.batch \ {i}
      /\ \A n \in Items : k.item[n] = IF n = i THEN state ELSE j.item[n]
  BY <1>1 DEF Settled, Job
<1>3. Inflight(k) \subseteq Inflight(j)
  BY <1>2 DEF Inflight, Done
<1>4. ASSUME BatchHolds(j) PROVE BatchHolds(k) /\ Started(k) \subseteq Started(j)
  BY <1>1, <1>2, <1>4 DEF BatchHolds, Started, Done, Job
<1>5. QED
  BY <1>1, <1>3, <1>4 DEF Settles

\* Settling an item ends no job and forgets no request to stop.
LEMMA SettlingKeepsRequests ==
  ASSUME NEW j \in Job, NEW i, NEW state, NEW failed
  PROVE  /\ Settled(j, i, state, failed).active = j.active
         /\ Settled(j, i, state, failed).cancel = j.cancel
BY DEF Settled, Job

\* An item whose executor returned was in flight before.
LEMMA ReturnedStaysInFlight ==
  ASSUME NEW j \in Job, NEW i \in Items, NEW result \in Done, j.item[i] = "executing"
  PROVE  Settles(j, [j EXCEPT !.item[i] = result])
<1> DEFINE k == [j EXCEPT !.item[i] = result]
<1>1. /\ k \in Job /\ k.batch = j.batch
      /\ \A n \in Items : k.item[n] = IF n = i THEN result ELSE j.item[n]
  BY DEF Job, Done, ItemStates
<1>2. QED
  BY <1>1 DEF Settles, Inflight, BatchHolds, Started, Done, Job

-----------------------------------------------------------------------------
(* The steps of a job.                                                     *)

\* The job with its next items started.
Scheduled(j) ==
  [j EXCEPT !.item = [i \in Items |-> IF i \in NextItems(j) THEN "executing" ELSE @[i]]]

\* What a step may do to a job: start it anew, start more of its items, or
\* anything that puts no further item in flight.
JobUpdate(j, k) ==
  \/ k = NewJob
  \/ AtLoopTop(j) /\ MaySchedule(j) /\ k = Scheduled(j)
  \/ Settles(j, k)

\* Every job makes such a step, most of them one that changes nothing.
JobsUpdate ==
  /\ job' = [s \in Runs |-> job'[s]]
  /\ \A s \in Runs : JobUpdate(job[s], job'[s])

\* One job makes such a step and the others stay as they are.
LEMMA OneJobSteps ==
  ASSUME JobShape, NEW r \in Runs, NEW k, JobUpdate(job[r], k), job' = [job EXCEPT ![r] = k]
  PROVE  JobsUpdate
<1>1. ASSUME NEW s \in Runs PROVE JobUpdate(job[s], job'[s])
  <2>1. CASE s = r
    BY <2>1 DEF JobShape
  <2>2. CASE s # r
    BY <2>2 DEF JobShape, JobUpdate, Settles
  <2>3. QED
    BY <2>1, <2>2
<1>2. job' = [s \in Runs |-> job'[s]]
  BY DEF JobShape
<1>3. QED
  BY <1>1, <1>2 DEF JobsUpdate

\* Every step of the manager is one of these for every job.
LEMMA JobsOnlyStep ==
  ASSUME JobShape, [JobNext]_jobVars
  PROVE  JobsUpdate
<1>0. \A r \in Runs : job[r] \in Job
  BY DEF JobShape
<1>1. CASE UNCHANGED job
  BY <1>0, <1>1 DEF JobsUpdate, JobUpdate, JobShape, Settles
<1>2. ASSUME NEW r \in Runs, Start(r) \/ StartClaimed(r) PROVE JobsUpdate
  <2>1. job' = [job EXCEPT ![r] = NewJob]
    BY <1>2 DEF Start, StartClaimed
  <2>2. JobUpdate(job[r], NewJob)
    BY DEF JobUpdate
  <2>3. QED
    BY <2>1, <2>2, OneJobSteps
<1>3. ASSUME NEW r \in Runs, LoopStep(r) PROVE JobsUpdate
  <2>1. CASE Schedule(r)
    <3>1. job' = [job EXCEPT ![r] = Scheduled(job[r])]
      BY <1>0, <2>1 DEF Schedule, Scheduled, JobShape
    <3>2. JobUpdate(job[r], Scheduled(job[r]))
      BY <2>1 DEF Schedule, JobUpdate
    <3>3. QED
      BY <3>1, <3>2, OneJobSteps
  <2>2. CASE Collect(r)
    <3> DEFINE k == [job[r] EXCEPT !.batch = DoneItems(job[r])]
    <3>1. job' = [job EXCEPT ![r] = k]
      BY <2>2 DEF Collect
    <3>2. Settles(job[r], k)
      BY <1>0 DEF Job, DoneItems, Inflight, Settles, BatchHolds, Started
    <3>3. JobUpdate(job[r], k)
      BY <3>2 DEF JobUpdate
    <3> HIDE DEF k
    <3>4. QED
      BY <3>1, <3>3, OneJobSteps
  <2>3. CASE RecordItem(r) \/ DropItem(r)
    <3> DEFINE i == Min(job[r].batch)
    <3>1. i \in job[r].batch
      BY <1>0, <2>3, FirstOfBatch DEF RecordItem, DropItem, Job
    <3>2. PICK state \in {"recorded", "dropped"}, failed \in BOOLEAN :
            job' = [job EXCEPT ![r] = Settled(job[r], i, state, failed)]
      BY <1>0, <2>3 DEF RecordItem, DropItem, JobShape
    <3> HIDE DEF i
    <3>3. JobUpdate(job[r], Settled(job[r], i, state, failed))
      BY <1>0, <3>1, SettledLeavesFlight DEF JobUpdate
    <3>4. QED
      BY <3>2, <3>3, OneJobSteps
  <2>4. CASE Finish(r)
    <3> DEFINE k == [job[r] EXCEPT !.active = FALSE]
    <3>1. job' = [job EXCEPT ![r] = k]
      BY <2>4 DEF Finish
    <3>2. Settles(job[r], k)
      BY <1>0 DEF Job, Inflight, Settles, BatchHolds, Started
    <3>3. JobUpdate(job[r], k)
      BY <3>2 DEF JobUpdate
    <3> HIDE DEF k
    <3>4. QED
      BY <3>1, <3>3, OneJobSteps
  <2>5. QED
    BY <1>3, <2>1, <2>2, <2>3, <2>4 DEF LoopStep
<1>4. ASSUME NEW r \in Runs, NEW i \in Items, NEW result \in Done,
             ExecutorReturns(r, i, result)
      PROVE  JobsUpdate
  <2> DEFINE k == [job[r] EXCEPT !.item[i] = result]
  <2>1. job' = [job EXCEPT ![r] = k]
    BY <1>4 DEF ExecutorReturns
  <2>2. JobUpdate(job[r], k)
    BY <1>0, <1>4, ReturnedStaysInFlight DEF ExecutorReturns, JobUpdate
  <2> HIDE DEF k
  <2>3. QED
    BY <2>1, <2>2, OneJobSteps
<1>5. ASSUME NEW r \in Runs, Cancel(r) PROVE JobsUpdate
  <2>1. CASE UNCHANGED job
    BY <2>1, <1>1
  <2>2. CASE job' = [job EXCEPT ![r].cancel = TRUE]
    <3> DEFINE k == [job[r] EXCEPT !.cancel = TRUE]
    <3>1. job' = [job EXCEPT ![r] = k]
      BY <2>2
    <3>2. Settles(job[r], k)
      BY <1>0 DEF Job, Inflight, Settles, BatchHolds, Started
    <3>3. JobUpdate(job[r], k)
      BY <3>2 DEF JobUpdate
    <3> HIDE DEF k
    <3>4. QED
      BY <3>1, <3>3, OneJobSteps
  <2>3. QED
    BY <1>5, <2>1, <2>2 DEF Cancel
<1>6. ASSUME Close PROVE JobsUpdate
  <2> SUFFICES ASSUME NEW s \in Runs PROVE JobUpdate(job[s], job'[s])
    BY <1>6 DEF Close, ClosedJobs, JobsUpdate
  <2>1. job'[s] = [job[s] EXCEPT !.cancel = job[s].cancel \/ job[s].active]
    BY <1>0, <1>6 DEF Close, ClosedJobs
  <2>2. Settles(job[s], job'[s])
    BY <1>0, <2>1 DEF Job, Inflight, Settles, BatchHolds, Started
  <2>3. QED
    BY <2>2 DEF JobUpdate
<1>7. QED
  BY <1>1, <1>2, <1>3, <1>4, <1>5, <1>6 DEF JobNext, jobVars

-----------------------------------------------------------------------------
(* Concurrency.                                                            *)

\* The items that may be started next are waiting, and no more than the free
\* slots.
LEMMA NextItemsFit ==
  ASSUME NEW j \in Job, MaySchedule(j)
  PROVE  /\ NextItems(j) \subseteq Waiting(j)
         /\ IsFiniteSet(NextItems(j))
         /\ Cardinality(NextItems(j)) <= MaxConcurrency - Cardinality(Inflight(j))
<1> DEFINE room == MaxConcurrency - Cardinality(Inflight(j))
           first == Min(Waiting(j))
<1>1. IsFiniteSet(Inflight(j))
  BY ItemsAreNaturals, FS_Subset DEF Inflight
<1>2. room \in Nat /\ room > 0
  BY <1>1, FS_CardinalityType, JobAssumption DEF MaySchedule
<1>3. Waiting(j) \in SUBSET Nat /\ Waiting(j) # {}
  BY ItemsAreNaturals DEF Waiting, MaySchedule
<1>4. first \in Nat /\ \A i \in Waiting(j) : first <= i
  BY <1>3, MinIsAMember
<1> HIDE DEF first, room
<1>5. NextItems(j) = {i \in Waiting(j) : i < first + room}
  BY DEF NextItems, first, room
<1>6. NextItems(j) \subseteq first..(first + room - 1)
  BY <1>2, <1>3, <1>4, <1>5
<1>7. /\ IsFiniteSet(first..(first + room - 1))
      /\ Cardinality(first..(first + room - 1)) = room
  BY <1>2, <1>4, FS_Interval
<1>8. IsFiniteSet(NextItems(j)) /\ Cardinality(NextItems(j)) <= room
  BY <1>6, <1>7, FS_Subset
<1>9. QED
  BY <1>5, <1>8 DEF room

\* Starting them fills the slots and overflows none.
LEMMA ScheduledFits ==
  ASSUME NEW j \in Job, MaySchedule(j)
  PROVE  /\ Scheduled(j) \in Job
         /\ Cardinality(Inflight(Scheduled(j))) <= MaxConcurrency
<1>1. Scheduled(j) \in Job
  BY DEF Scheduled, Job, ItemStates
<1>2. IsFiniteSet(Inflight(j))
  BY ItemsAreNaturals, FS_Subset DEF Inflight
<1>3. Inflight(Scheduled(j)) = Inflight(j) \union NextItems(j)
  BY NextItemsFit DEF Scheduled, Job, Inflight, Waiting, Done
<1>4. /\ IsFiniteSet(Inflight(j) \intersect NextItems(j))
      /\ Cardinality(Inflight(j) \union NextItems(j)) =
           Cardinality(Inflight(j)) + Cardinality(NextItems(j))
             - Cardinality(Inflight(j) \intersect NextItems(j))
  BY <1>2, NextItemsFit, FS_Union, FS_Intersection
<1>5. /\ Cardinality(Inflight(j)) \in Nat
      /\ Cardinality(NextItems(j)) \in Nat
      /\ Cardinality(Inflight(j) \intersect NextItems(j)) \in Nat
  BY <1>2, <1>4, NextItemsFit, FS_CardinalityType
<1>6. QED
  BY <1>1, <1>3, <1>4, <1>5, NextItemsFit, JobAssumption

\* The jobs keep their shape and their bound.
LEMMA JobsStayBounded ==
  ASSUME JobShape, ConcurrencyIsBounded, [JobNext]_jobVars
  PROVE  JobShape' /\ ConcurrencyIsBounded'
<1>1. ASSUME NEW r \in Runs
      PROVE  job'[r] \in Job /\ Cardinality(Inflight(job'[r])) <= MaxConcurrency
  <2>1. JobUpdate(job[r], job'[r])
    BY JobsOnlyStep DEF JobsUpdate
  <2>2. CASE job'[r] = NewJob
    BY <2>2, IdleJobIsTyped, NewJobIsQuiet, FS_EmptySet, JobAssumption
  <2>3. CASE MaySchedule(job[r]) /\ job'[r] = Scheduled(job[r])
    BY <2>3, ScheduledFits DEF JobShape
  <2>4. CASE Settles(job[r], job'[r])
    <3>1. IsFiniteSet(Inflight(job[r]))
      BY ItemsAreNaturals, FS_Subset DEF Inflight
    <3>2. Cardinality(Inflight(job'[r])) <= Cardinality(Inflight(job[r]))
      BY <2>4, <3>1, FS_Subset DEF Settles
    <3>3. /\ Cardinality(Inflight(job[r])) \in Nat
          /\ Cardinality(Inflight(job'[r])) \in Nat
      BY <2>4, <3>1, FS_Subset, FS_CardinalityType DEF Settles
    <3>4. QED
      BY <2>4, <3>2, <3>3, JobAssumption DEF ConcurrencyIsBounded, Settles
  <2>5. QED
    BY <2>1, <2>2, <2>3, <2>4 DEF JobUpdate
<1>2. job' = [s \in Runs |-> job'[s]]
  BY JobsOnlyStep DEF JobsUpdate
<1>3. QED
  BY <1>1, <1>2 DEF JobShape, ConcurrencyIsBounded

\* Never more searches in flight than the run may have, for any number of
\* items and slots, in whatever order searches end.
THEOREM JobsRespectConcurrency == JobSpec => []ConcurrencyIsBounded
<1>1. JobInit => JobShape /\ ConcurrencyIsBounded
  <2>1. Cardinality(Inflight(IdleJob)) <= MaxConcurrency
    BY NewJobIsQuiet, FS_EmptySet, JobAssumption
  <2>2. QED
    BY <2>1, IdleJobIsTyped DEF JobInit, JobShape, ConcurrencyIsBounded
<1>2. QED
  BY <1>1, JobsStayBounded, PTL DEF JobSpec

-----------------------------------------------------------------------------
(* Batches.                                                                *)

\* A batch holds only items whose result is there, and an item that was never
\* started becomes a started one only by the scheduling of a job that may.
LEMMA OnlySchedulingStarts ==
  ASSUME JobShape, \A r \in Runs : BatchHolds(job[r]), [JobNext]_jobVars, NEW s \in Runs
  PROVE  /\ BatchHolds(job'[s])
         /\ \/ Started(job'[s]) \subseteq Started(job[s])
            \/ AtLoopTop(job[s]) /\ MaySchedule(job[s])
<1>1. JobUpdate(job[s], job'[s])
  BY JobsOnlyStep DEF JobsUpdate
<1>2. CASE job'[s] = NewJob
  BY <1>2, NewJobIsQuiet
<1>3. CASE AtLoopTop(job[s]) /\ MaySchedule(job[s]) /\ job'[s] = Scheduled(job[s])
  <2>1. job[s] \in Job /\ job[s].batch = {}
    BY <1>3 DEF JobShape, AtLoopTop
  <2>2. Scheduled(job[s]).batch = {}
    BY <2>1 DEF Scheduled, Job
  <2>3. QED
    BY <1>3, <2>2 DEF BatchHolds
<1>4. CASE Settles(job[s], job'[s])
  BY <1>4 DEF Settles
<1>5. QED
  BY <1>1, <1>2, <1>3, <1>4 DEF JobUpdate

-----------------------------------------------------------------------------
(* The manager as a client of the store.                                   *)

JobSound == SoundStore /\ JobShape

\* The end of a job is a transition or a completion the store accepts, or
\* leaves the row as it is.
LEMMA EndIsAStoreStep ==
  ASSUME JobSound, NEW r \in Runs, Finish(r)
  PROVE  [StoreNext]_storeVars
<1>0. /\ rows' = [rows EXCEPT ![r] = EndedRow(rows[r], outcomes[r], job[r])]
      /\ UNCHANGED outcomes
  BY DEF Finish, JobSound, SoundStore
<1>1. ASSUME NEW target \in {"failed", "cancelled"}, MayMove(rows[r], target),
             EndedRow(rows[r], outcomes[r], job[r]) = MovedTo(rows[r], target)
      PROVE  StoreNext
  <2>1. MoveRun(r, target)
    BY <1>0, <1>1 DEF MoveRun, TransitionRun, MovedTo, JobSound, SoundStore
  <2>2. QED
    BY <2>1 DEF StoreNext, ApplicationNext, Statuses, Terminal
<1>2. CASE EndedRow(rows[r], outcomes[r], job[r]) = FailedIfRunning(rows[r])
  <2>1. CASE rows[r].status = "running"
    <3>1. MayMove(rows[r], "failed")
      BY <2>1 DEF MayMove, Allowed, Terminal
    <3>2. QED
      BY <1>1, <1>2, <2>1, <3>1 DEF FailedIfRunning
  <2>2. CASE rows[r].status # "running"
    <3>1. rows' = rows
      BY <1>0, <1>2, <2>2 DEF FailedIfRunning, JobSound, SoundStore
    <3>2. QED
      BY <1>0, <3>1 DEF storeVars
  <2>3. QED
    BY <2>1, <2>2
<1>3. CASE /\ MayMove(rows[r], "cancelled")
           /\ EndedRow(rows[r], outcomes[r], job[r]) = MovedTo(rows[r], "cancelled")
  BY <1>1, <1>3
<1>4. CASE /\ MayMove(rows[r], "completed")
           /\ ValidSummaries(outcomes[r], SummariesOf(outcomes[r]))
           /\ EndedRow(rows[r], outcomes[r], job[r])
                = Moved(rows[r], "completed", SummariesOf(outcomes[r]))
  <2>1. CompleteRun(r, SummariesOf(outcomes[r]))
    BY <1>0, <1>4 DEF CompleteRun, JobSound, SoundStore
  <2>2. QED
    BY <2>1, SummariesArePossible DEF StoreNext, ApplicationNext
<1>5. QED
  BY <1>2, <1>3, <1>4 DEF EndedRow, CompletedOrFailed

\* Whatever the manager does to the store is one of the repository's methods.
LEMMA JobStepIsAStoreStep ==
  ASSUME JobSound, [JobNext]_jobVars
  PROVE  [StoreNext]_storeVars
<1>1. CASE UNCHANGED storeVars
  BY <1>1
<1>2. ASSUME NEW r \in Runs, CreateRun(r) PROVE StoreNext
  BY <1>2 DEF StoreNext, ApplicationNext
<1>3. ASSUME NEW r \in Runs, ClaimQueuedRun(r) PROVE StoreNext
  BY <1>3 DEF StoreNext, ApplicationNext
<1>4. ASSUME NEW r \in Runs, LoopStep(r) PROVE [StoreNext]_storeVars
  <2>1. CASE RecordItem(r)
    <3> DEFINE i == Min(job[r].batch)
    <3>1. i \in Items
      BY <2>1, FirstOfBatch DEF RecordItem, JobSound, JobShape, Job
    <3>2. /\ job[r].item[i] \in Results
          /\ RecordOutcome(r, WorkItems[i], job[r].item[i])
      BY <2>1 DEF RecordItem
    <3> HIDE DEF i
    <3>3. QED
      BY <3>1, <3>2, ItemsAreAttempts DEF StoreNext, ApplicationNext
  <2>2. CASE Finish(r)
    BY <2>2, EndIsAStoreStep
  <2>3. QED
    BY <1>4, <2>1, <2>2 DEF LoopStep, Schedule, Collect, DropItem, storeVars
<1>5. ASSUME NEW r \in Runs, Cancel(r) PROVE [StoreNext]_storeVars
  <2>1. CASE MoveRun(r, "cancelled")
    BY <2>1 DEF StoreNext, ApplicationNext, Statuses, Terminal
  <2>2. QED
    BY <1>5, <2>1 DEF Cancel, storeVars
<1>6. QED
  BY <1>1, <1>2, <1>3, <1>4, <1>5
     DEF JobNext, jobVars, storeVars, Start, StartClaimed, ExecutorReturns, Close

\* The manager keeps the store sound and the jobs in shape.
LEMMA JobStaysSound ==
  ASSUME JobSound, [JobNext]_jobVars
  PROVE  JobSound'
<1>1. SoundStore'
  BY JobStepIsAStoreStep, StoreStepIsSound DEF JobSound
<1>2. job' \in [Runs -> Job]
  <2>1. ASSUME NEW r \in Runs PROVE job'[r] \in Job
    <3>1. JobUpdate(job[r], job'[r])
      BY JobsOnlyStep DEF JobsUpdate, JobSound
    <3>2. QED
      BY <3>1, IdleJobIsTyped, ScheduledFits DEF JobUpdate, JobSound, JobShape, Settles
  <2>2. QED
    BY <2>1, JobsOnlyStep DEF JobsUpdate, JobSound
<1>3. QED
  BY <1>1, <1>2 DEF JobSound, JobShape

\* A manager without jobs is sound.
LEMMA JobInitIsSound == JobInit => JobSound
BY StoreInitIsSound, IdleJobIsTyped DEF JobInit, JobSound, JobShape

\* Every behaviour of the manager keeps the store sound, so all invariants of
\* the store hold for it too.
THEOREM JobsAreSound == JobSpec => []JobSound
BY JobInitIsSound, JobStaysSound, PTL DEF JobSpec

\* The manager uses the store as its callers may: every theorem about
\* StoreSpec, the implementation of RunLifecycle among them, is one about it.
THEOREM JobsImplementStore == JobSpec => StoreSpec
<1>1. JobInit => StoreInit
  BY DEF JobInit
<1>2. JobSound /\ [JobNext]_jobVars => [StoreNext]_storeVars
  BY JobStepIsAStoreStep
<1>3. QED
  BY <1>1, <1>2, JobsAreSound, PTL DEF JobSpec, StoreSpec

\* The store and the jobs of the manager keep their shape.
THEOREM JobTypeCorrect == JobSpec => []JobTypeOK
<1>1. JobSound => JobTypeOK
  BY DEF JobSound, JobShape, JobTypeOK, SoundStore, StoreTypeOK, OutcomeMaps
<1>2. QED
  BY <1>1, JobsAreSound, PTL

-----------------------------------------------------------------------------
(* A job and its row.                                                      *)

\* While a job is scheduled nobody else ends its run, and only a job that was
\* not asked to stop completes one: neither part is inductive alone.
JobTiedToRow == JobOwnsItsRow /\ AcceptedCancelNeverCompletes

\* What the two say of one run.
Tied(row, j) ==
  /\ j.active => row.status = "running"
  /\ j.cancel => row.status # "completed"

\* When every attempt has an outcome, the run is full and its tallies add up.
LEMMA FullOutcomesAreComplete ==
  ASSUME NEW out \in OutcomeMaps, \A a \in Attempts : out[a] # "none"
  PROVE  CompletedCount(out) = Total /\ ValidSummaries(out, SummariesOf(out))
<1>1. Covered(out) = Queries
  BY DEF Covered, Attempts
<1>2. ASSUME NEW c \in Configs
      PROVE  Counted(out, c, "succeeded") + Counted(out, c, "failed") = Total
  <2> DEFINE good == {q \in Queries : out[<<c, q>>] = "succeeded"}
             bad == {q \in Queries : out[<<c, q>>] = "failed"}
  <2>1. \A q \in Queries : <<c, q>> \in Attempts /\ out[<<c, q>>] \in Results
    BY DEF OutcomeMaps, Attempts
  <2>2. good \union bad = Queries /\ good \intersect bad = {}
    BY <2>1 DEF Results
  <2>3. IsFiniteSet(good) /\ IsFiniteSet(bad)
    BY StoreAssumption, FS_Subset
  <2> HIDE DEF good, bad
  <2>4. Cardinality(Queries) = Cardinality(good) + Cardinality(bad) - Cardinality({})
    <3>1. Cardinality(good \union bad)
            = Cardinality(good) + Cardinality(bad) - Cardinality(good \intersect bad)
      BY <2>3, FS_Union
    <3>2. QED
      BY <2>2, <3>1, Zenon
  <2>5. Cardinality(good) \in Nat /\ Cardinality(bad) \in Nat /\ Cardinality({}) = 0
    <3>1. Cardinality(good) \in Nat /\ Cardinality(bad) \in Nat
      BY <2>3, FS_CardinalityType
    <3>2. QED
      BY <3>1, FS_EmptySet
  <2>6. Cardinality(good) + Cardinality(bad) = Cardinality(Queries)
    <3>1. \A m, n, z, t : m \in Nat /\ n \in Nat /\ z = 0 /\ t = m + n - z => m + n = t
      OBVIOUS
    <3>2. QED
      BY <2>4, <2>5, <3>1
  <2>7. QED
    BY <2>6 DEF good, bad, Counted, Total
<1>3. QED
  BY <1>1, <1>2 DEF CompletedCount, Total, ValidSummaries, SummariesOf

\* The end of a run that runs: failed when an item is to blame, otherwise
\* cancelled when somebody asked, otherwise completed unless an outcome is
\* missing.
LEMMA EndOfRunningRow ==
  ASSUME JobSound, NEW r \in Runs, rows[r].status = "running"
  PROVE  LET end == EndedRow(rows[r], outcomes[r], job[r]).status
         IN  /\ end \in Terminal
             /\ job[r].cancel => end \in {"failed", "cancelled"}
             /\ end = "cancelled" => ~job[r].failure
             /\ end = "completed" => ~job[r].failure /\ ~job[r].cancel
             /\ end = "failed" => \/ job[r].failure
                                  \/ /\ ~job[r].cancel
                                     /\ \E a \in Attempts : outcomes[r][a] = "none"
<1>1. rows[r] \in Row /\ SoundRow(rows[r], outcomes[r]) /\ outcomes[r] \in OutcomeMaps
  BY DEF JobSound, SoundStore
<1>2. /\ MovedTo(rows[r], "failed").status = "failed"
      /\ MovedTo(rows[r], "cancelled").status = "cancelled"
      /\ Moved(rows[r], "completed", SummariesOf(outcomes[r])).status = "completed"
  BY <1>1, MovedHasStatus
<1>3. FailedIfRunning(rows[r]).status = "failed"
  BY <1>2 DEF FailedIfRunning
<1>4. MayMove(rows[r], "cancelled")
  BY DEF MayMove, Allowed, Terminal
<1>5. \/ CompletedOrFailed(rows[r], outcomes[r]).status = "completed"
      \/ /\ CompletedOrFailed(rows[r], outcomes[r]).status = "failed"
         /\ \E a \in Attempts : outcomes[r][a] = "none"
  <2>1. CASE \A a \in Attempts : outcomes[r][a] # "none"
    <3>1. ValidSummaries(outcomes[r], SummariesOf(outcomes[r])) /\ rows[r].completed = Total
      BY <1>1, <2>1, FullOutcomesAreComplete DEF SoundRow
    <3>2. MayMove(rows[r], "completed")
      BY <3>1 DEF MayMove, Allowed, Terminal
    <3>3. QED
      BY <1>2, <2>1, <3>1, <3>2 DEF CompletedOrFailed
  <2>2. CASE ~ \A a \in Attempts : outcomes[r][a] # "none"
    BY <1>3, <2>2 DEF CompletedOrFailed
  <2>3. QED
    BY <2>1, <2>2
<1>6. QED
  BY <1>2, <1>3, <1>4, <1>5 DEF EndedRow, Terminal

\* Every step keeps every job tied to its row.
LEMMA JobsStayTied ==
  ASSUME JobSound, JobTiedToRow, [JobNext]_jobVars
  PROVE  JobTiedToRow'
<1> SUFFICES ASSUME NEW s \in Runs PROVE Tied(rows[s], job[s])'
  BY DEF JobTiedToRow, JobOwnsItsRow, AcceptedCancelNeverCompletes, Tied
<1>0. /\ \A r \in Runs : rows[r] \in Row /\ job[r] \in Job
      /\ rows \in [Runs -> Row] /\ job \in [Runs -> Job]
      /\ \A r \in Runs : Tied(rows[r], job[r])
  BY DEF JobSound, SoundStore, JobShape, JobTiedToRow, JobOwnsItsRow,
         AcceptedCancelNeverCompletes, Tied
<1>1. CASE UNCHANGED <<rows, job>>
  BY <1>0, <1>1 DEF Tied
<1>2. ASSUME NEW r \in Runs, CreateRun(r), UNCHANGED job PROVE Tied(rows[s], job[s])'
  <2>1. QueuedRow.status = "queued"
    BY NoRowIsTyped DEF QueuedRow, Row
  <2>2. QED
    BY <1>0, <1>2, <2>1 DEF CreateRun, Tied
<1>3. ASSUME NEW r \in Runs, ClaimQueuedRun(r), UNCHANGED job PROVE Tied(rows[s], job[s])'
  <2>1. MovedTo(rows[r], "running").status = "running"
    BY <1>0, MovedHasStatus
  <2>2. QED
    BY <1>0, <1>3, <2>1 DEF ClaimQueuedRun, Tied
<1>4. ASSUME NEW r \in Runs, Start(r) \/ StartClaimed(r) PROVE Tied(rows[s], job[s])'
  <2>1. NewJob.active /\ ~NewJob.cancel
    BY DEF NewJob, IdleJob
  <2>2. MovedTo(rows[r], "running").status = "running"
    BY <1>0, MovedHasStatus
  <2>3. /\ job' = [job EXCEPT ![r] = NewJob]
        /\ \/ rows' = rows /\ rows[r].status = "running"
           \/ rows' = [rows EXCEPT ![r] = MovedTo(rows[r], "running")]
    BY <1>0, <1>4 DEF Start, StartClaimed, ClaimQueuedRun
  <2>4. rows'[r].status = "running" /\ (s # r => rows'[s] = rows[s] /\ job'[s] = job[s])
    BY <1>0, <2>2, <2>3
  <2>5. job'[r] = NewJob
    BY <1>0, <2>3
  <2>6. QED
    BY <1>0, <2>1, <2>4, <2>5 DEF Tied
<1>5. ASSUME NEW r \in Runs, LoopStep(r) PROVE Tied(rows[s], job[s])'
  <2>1. CASE Schedule(r) \/ Collect(r)
    <3>1. /\ rows' = rows
          /\ job'[s].active = job[s].active /\ job'[s].cancel = job[s].cancel
      <4>1. CASE Schedule(r)
        BY <1>0, <4>1 DEF Schedule, Job
      <4>2. CASE Collect(r)
        BY <1>0, <4>2 DEF Collect, Job
      <4>3. QED
        BY <2>1, <4>1, <4>2
    <3>2. QED
      BY <1>0, <3>1 DEF Tied
  <2>2. CASE RecordItem(r) \/ DropItem(r)
    <3>1. rows'[s].status = rows[s].status
      <4>1. CASE RecordItem(r)
        <5>1. \/ rows'[s] = rows[s]
              \/ \E out : rows'[s] = Progressed(rows[s], out)
          BY <1>0, <4>1 DEF RecordItem, RecordOutcome
        <5>2. QED
          BY <1>0, <5>1 DEF Progressed, Row
      <4>2. CASE DropItem(r)
        BY <4>2 DEF DropItem
      <4>3. QED
        BY <2>2, <4>1, <4>2
    <3>2. job'[s].active = job[s].active /\ job'[s].cancel = job[s].cancel
      <4>1. PICK i, state, failed :
              job' = [job EXCEPT ![r] = Settled(job[r], i, state, failed)]
        BY <2>2 DEF RecordItem, DropItem
      <4>2. /\ Settled(job[r], i, state, failed).active = job[r].active
            /\ Settled(job[r], i, state, failed).cancel = job[r].cancel
        BY <1>0, SettlingKeepsRequests
      <4>3. QED
        BY <1>0, <4>1, <4>2
    <3>3. QED
      BY <1>0, <3>1, <3>2 DEF Tied
  <2>3. CASE Finish(r)
    <3>1. CASE s # r
      BY <1>0, <2>3, <3>1 DEF Finish, Tied
    <3>2. CASE s = r
      <4>1. /\ rows'[r] = EndedRow(rows[r], outcomes[r], job[r])
            /\ ~job'[r].active /\ job'[r].cancel = job[r].cancel
        BY <1>0, <2>3 DEF Finish, Job
      <4>2. rows[r].status = "running"
        BY <1>0, <2>3 DEF Finish, AtLoopTop, Tied
      <4>3. job[r].cancel => rows'[r].status # "completed"
        BY <4>1, <4>2, EndOfRunningRow
      <4>4. QED
        BY <3>2, <4>1, <4>3 DEF Tied
    <3>3. QED
      BY <3>1, <3>2
  <2>4. QED
    BY <1>5, <2>1, <2>2, <2>3 DEF LoopStep
<1>6. ASSUME NEW r \in Runs, NEW i \in Items, NEW result \in Done,
             ExecutorReturns(r, i, result)
      PROVE  Tied(rows[s], job[s])'
  <2>1. /\ rows' = rows
        /\ job'[s].active = job[s].active /\ job'[s].cancel = job[s].cancel
    BY <1>0, <1>6 DEF ExecutorReturns, Job
  <2>2. QED
    BY <1>0, <2>1 DEF Tied
<1>7. ASSUME NEW r \in Runs, Cancel(r) PROVE Tied(rows[s], job[s])'
  <2>1. CASE job[r].active
    <3>1. rows' = rows /\ job'[s].active = job[s].active
      BY <1>0, <1>7, <2>1 DEF Cancel, Job
    <3>2. job'[s].cancel => job[s].cancel \/ job[s].active
      BY <1>0, <1>7, <2>1 DEF Cancel, Job
    <3>3. QED
      BY <1>0, <3>1, <3>2 DEF Tied
  <2>2. CASE ~job[r].active
    <3>1. MovedTo(rows[r], "cancelled").status = "cancelled"
      BY <1>0, MovedHasStatus
    <3>2. job' = job /\ rows' = [rows EXCEPT ![r] = MovedTo(rows[r], "cancelled")]
      BY <1>7, <2>2 DEF Cancel, MoveRun, TransitionRun, MovedTo
    <3>3. QED
      BY <1>0, <2>2, <3>1, <3>2 DEF Tied
  <2>3. QED
    BY <2>1, <2>2
<1>8. ASSUME Close PROVE Tied(rows[s], job[s])'
  <2>1. job'[s] = [job[s] EXCEPT !.cancel = job[s].cancel \/ job[s].active] /\ rows' = rows
    BY <1>0, <1>8 DEF Close, ClosedJobs
  <2>2. /\ job'[s].active = job[s].active
        /\ job'[s].cancel => job[s].cancel \/ job[s].active
    BY <1>0, <2>1 DEF Job
  <2>3. QED
    BY <1>0, <2>1, <2>2 DEF Tied
<1>9. QED
  BY <1>1, <1>2, <1>3, <1>4, <1>5, <1>6, <1>7, <1>8 DEF JobNext, jobVars

\* Both hold initially: nothing is active, nothing completed.
LEMMA JobInitIsTied == JobInit => JobTiedToRow
BY DEF JobInit, JobTiedToRow, JobOwnsItsRow, AcceptedCancelNeverCompletes, IdleJob

\* Nobody ends a run under the job that executes it.
THEOREM JobsOwnTheirRows == JobSpec => []JobOwnsItsRow
<1>1. JobTiedToRow => JobOwnsItsRow
  BY DEF JobTiedToRow
<1>2. QED
  BY <1>1, JobInitIsTied, JobsStayTied, JobsAreSound, PTL DEF JobSpec

\* A run whose job was asked to stop never completes, wherever in the job the
\* request arrived.
THEOREM CancelIsHonoured == JobSpec => []AcceptedCancelNeverCompletes
<1>1. JobTiedToRow => AcceptedCancelNeverCompletes
  BY DEF JobTiedToRow
<1>2. QED
  BY <1>1, JobInitIsTied, JobsStayTied, JobsAreSound, PTL DEF JobSpec

-----------------------------------------------------------------------------
(* A job and its items.                                                    *)

\* What is inductive about the items of a job: a batch holds results, only an
\* active job has items in flight, a run that has not ended and has no job has
\* none that was started, and every ended item left its trace.
Settling(row, out, j) ==
  /\ BatchHolds(j)
  /\ ~j.active => Inflight(j) = {}
  /\ ~j.active /\ row.status \notin Terminal => Started(j) = {}
  /\ \A i \in Items : j.item[i] = "dropped" => j.failure
  /\ \A i \in Items : j.item[i] = "recorded" => out[WorkItems[i]] # "none"
  /\ row.status = "cancelled" => \A i \in Items : j.item[i] \in {"waiting", "recorded"}
  /\ row.status = "completed" => \A i \in Items : j.item[i] = "recorded"
  /\ row.status = "failed" => j.failure

ItemsSettle == \A r \in Runs : Settling(rows[r], outcomes[r], job[r])

\* The plan of the job covers every attempt of the run, as the plan that
\* WorkPlan models does.
PlanCovers == \A a \in Attempts : \E i \in Items : WorkItems[i] = a

\* A job with nothing in flight that may not schedule has nothing left to do,
\* or has been asked to stop, or has failed.
LEMMA QuietJobIsThrough ==
  ASSUME NEW j \in Job, ~MaySchedule(j), Inflight(j) = {}, ~j.failure, ~j.cancel
  PROVE  Waiting(j) = {}
BY FS_EmptySet, JobAssumption DEF MaySchedule

\* Another run's items are not disturbed.
LEMMA OthersSettle ==
  ASSUME ItemsSettle, NEW s \in Runs, rows'[s] = rows[s], outcomes'[s] = outcomes[s],
         job'[s] = job[s]
  PROVE  Settling(rows[s], outcomes[s], job[s])'
BY DEF ItemsSettle, Settling, BatchHolds, Inflight, Started

\* A job only asked to stop keeps its items.
LEMMA AskedJobSettles ==
  ASSUME ItemsSettle, NEW s \in Runs, rows'[s] = rows[s], outcomes'[s] = outcomes[s],
         job[s] \in Job, NEW flag, job'[s] = [job[s] EXCEPT !.cancel = flag]
  PROVE  Settling(rows[s], outcomes[s], job[s])'
<1>1. /\ job'[s].active = job[s].active /\ job'[s].failure = job[s].failure
      /\ job'[s].batch = job[s].batch /\ job'[s].item = job[s].item
  BY DEF Job
<1>2. QED
  BY <1>1 DEF ItemsSettle, Settling, BatchHolds, Inflight, Started

\* The steps of the task of a job.
LEMMA LoopSettles ==
  ASSUME PlanCovers, JobSound, JobTiedToRow, ItemsSettle, NEW r \in Runs,
         LoopStep(r) \/ \E i \in Items, result \in Done : ExecutorReturns(r, i, result)
  PROVE  Settling(rows[r], outcomes[r], job[r])'
<1>0. /\ rows \in [Runs -> Row] /\ outcomes \in [Runs -> OutcomeMaps] /\ job \in [Runs -> Job]
      /\ rows[r] \in Row /\ outcomes[r] \in OutcomeMaps /\ job[r] \in Job
      /\ Settling(rows[r], outcomes[r], job[r])
      /\ job[r].active => rows[r].status = "running"
  BY DEF JobSound, SoundStore, JobShape, ItemsSettle, JobTiedToRow, JobOwnsItsRow
<1>1. CASE Schedule(r)
  <2>1. /\ rows' = rows /\ outcomes' = outcomes /\ job'[r] = Scheduled(job[r])
        /\ job[r].active /\ job[r].batch = {}
    BY <1>0, <1>1 DEF Schedule, Scheduled, AtLoopTop
  <2>2. /\ job'[r].active /\ job'[r].batch = {} /\ job'[r].failure = job[r].failure
        /\ \A i \in Items : job'[r].item[i] \in {"executing", job[r].item[i]}
    BY <1>0, <2>1 DEF Scheduled, Job
  <2>3. QED
    BY <1>0, <2>1, <2>2 DEF Settling, BatchHolds
<1>2. CASE Collect(r)
  <2>1. /\ rows' = rows /\ outcomes' = outcomes /\ job[r].active
        /\ job'[r] = [job[r] EXCEPT !.batch = DoneItems(job[r])]
    BY <1>0, <1>2 DEF Collect, AtLoopTop
  <2>2. QED
    BY <1>0, <2>1 DEF Settling, BatchHolds, DoneItems, Job
<1>3. CASE RecordItem(r) \/ DropItem(r)
  <2> DEFINE n == Min(job[r].batch)
  <2>1. n \in job[r].batch /\ n \in Items
    BY <1>0, <1>3, FirstOfBatch DEF RecordItem, DropItem, Job
  <2>2. job[r].active /\ rows[r].status = "running"
    BY <1>0, <2>1 DEF Settling, BatchHolds, Inflight
  <2>3. CASE RecordItem(r)
    <3>1. PICK raises \in BOOLEAN, result \in Results :
            /\ job'[r] = Settled(job[r], n, "recorded", raises)
            /\ outcomes'[r] = [outcomes[r] EXCEPT ![WorkItems[n]] = result]
            /\ rows'[r] = Progressed(rows[r], outcomes'[r])
      BY <1>0, <2>3 DEF RecordItem, RecordOutcome, Upserted
    <3> HIDE DEF n
    <3>2. rows'[r].status = "running"
      BY <1>0, <2>2, <3>1 DEF Progressed, Row
    <3>3. /\ job'[r].active /\ job'[r].batch \subseteq job[r].batch \ {n}
          /\ job[r].failure => job'[r].failure
          /\ \A i \in Items : job'[r].item[i] = IF i = n THEN "recorded" ELSE job[r].item[i]
      BY <1>0, <2>1, <2>2, <3>1 DEF Settled, Job
    <3>4. \A i \in Items : job'[r].item[i] = "recorded" => outcomes'[r][WorkItems[i]] # "none"
      BY <1>0, <2>1, <3>1, <3>3, ItemsAreAttempts DEF Settling, OutcomeMaps, Results
    <3>5. BatchHolds(job'[r])
      BY <1>0, <3>3 DEF Settling, BatchHolds, Job
    <3>6. QED
      BY <1>0, <3>2, <3>3, <3>4, <3>5 DEF Settling, Terminal
  <2>4. CASE DropItem(r)
    <3>1. /\ job'[r] = Settled(job[r], n, "dropped", TRUE)
          /\ rows' = rows /\ outcomes' = outcomes
      BY <1>0, <2>4 DEF DropItem
    <3> HIDE DEF n
    <3>2. /\ job'[r].active /\ job'[r].batch \subseteq job[r].batch \ {n} /\ job'[r].failure
          /\ \A i \in Items : job'[r].item[i] = IF i = n THEN "dropped" ELSE job[r].item[i]
      BY <1>0, <2>1, <2>2, <3>1 DEF Settled, Job
    <3>3. BatchHolds(job'[r])
      BY <1>0, <3>2 DEF Settling, BatchHolds, Job
    <3>4. QED
      BY <1>0, <2>2, <3>1, <3>2, <3>3 DEF Settling, Terminal
  <2>5. QED
    BY <1>3, <2>3, <2>4
<1>4. CASE Finish(r)
  <2>1. /\ rows'[r] = EndedRow(rows[r], outcomes[r], job[r]) /\ outcomes' = outcomes
        /\ job'[r] = [job[r] EXCEPT !.active = FALSE]
        /\ job[r].active /\ job[r].batch = {} /\ ~MaySchedule(job[r]) /\ Inflight(job[r]) = {}
        /\ rows[r].status = "running"
    BY <1>0, <1>4 DEF Finish, AtLoopTop
  <2>2. /\ ~job'[r].active /\ job'[r].batch = {} /\ job'[r].failure = job[r].failure
        /\ job'[r].item = job[r].item
    BY <1>0, <2>1 DEF Job
  <2>3. \A i \in Items : job[r].item[i] \in {"waiting", "recorded", "dropped"}
    BY <1>0, <2>1 DEF Inflight, Job, ItemStates, Done
  <2>4. ~job[r].failure /\ ~job[r].cancel => \A i \in Items : job[r].item[i] = "recorded"
    BY <1>0, <2>1, <2>3, QuietJobIsThrough DEF Waiting, Settling
  <2>5. ~job[r].failure /\ ~job[r].cancel => \A a \in Attempts : outcomes[r][a] # "none"
    BY <1>0, <2>4 DEF PlanCovers, Settling
  <2>6. /\ rows'[r].status \in Terminal
        /\ rows'[r].status = "cancelled" => ~job[r].failure
        /\ rows'[r].status = "completed" => ~job[r].failure /\ ~job[r].cancel
        /\ rows'[r].status = "failed" => job[r].failure
    BY <2>1, <2>5, EndOfRunningRow
  <2>7. QED
    BY <1>0, <2>1, <2>2, <2>3, <2>4, <2>6 DEF Settling, BatchHolds, Inflight
<1>5. ASSUME NEW i \in Items, NEW result \in Done, ExecutorReturns(r, i, result)
      PROVE  Settling(rows[r], outcomes[r], job[r])'
  <2>1. /\ rows' = rows /\ outcomes' = outcomes /\ job[r].active
        /\ job'[r] = [job[r] EXCEPT !.item[i] = result]
    BY <1>0, <1>5 DEF ExecutorReturns
  <2>2. /\ job'[r].active /\ job'[r].batch = job[r].batch /\ job'[r].failure = job[r].failure
        /\ \A n \in Items : job'[r].item[n] = IF n = i THEN result ELSE job[r].item[n]
    BY <1>0, <2>1 DEF Job
  <2>3. BatchHolds(job'[r])
    BY <1>0, <2>2 DEF Settling, BatchHolds, Job
  <2>4. rows'[r].status = "running"
    BY <1>0, <2>1
  <2>5. QED
    BY <1>0, <2>1, <2>2, <2>3, <2>4 DEF Settling, Done, Terminal
<1>6. QED
  BY <1>1, <1>2, <1>3, <1>4, <1>5 DEF LoopStep

\* Every step lets every job settle its items.
LEMMA JobsSettle ==
  ASSUME PlanCovers, JobSound, JobTiedToRow, ItemsSettle, [JobNext]_jobVars
  PROVE  ItemsSettle'
<1> SUFFICES ASSUME NEW s \in Runs PROVE Settling(rows[s], outcomes[s], job[s])'
  BY DEF ItemsSettle
<1>0. /\ rows \in [Runs -> Row] /\ outcomes \in [Runs -> OutcomeMaps] /\ job \in [Runs -> Job]
      /\ rows[s] \in Row /\ job[s] \in Job /\ Settling(rows[s], outcomes[s], job[s])
  BY DEF JobSound, SoundStore, JobShape, ItemsSettle
<1>1. CASE UNCHANGED <<rows[s], outcomes[s], job[s]>>
  BY <1>1, OthersSettle
<1>2. ASSUME NEW r \in Runs, (CreateRun(r) \/ ClaimQueuedRun(r)) /\ UNCHANGED job
      PROVE  Settling(rows[s], outcomes[s], job[s])'
  <2>1. CASE s = r
    <3>1. /\ rows[r].status \in {"absent", "queued"} /\ rows'[r].status \in {"queued", "running"}
          /\ outcomes' = outcomes /\ job' = job
      BY <1>0, <1>2, <2>1, MovedHasStatus DEF CreateRun, ClaimQueuedRun, QueuedRow, NoRow
    <3>2. QED
      BY <1>0, <2>1, <3>1 DEF Settling, Terminal, BatchHolds, Inflight, Started
  <2>2. CASE s # r
    <3>1. UNCHANGED <<rows[s], outcomes[s], job[s]>>
      BY <1>0, <1>2, <2>2 DEF CreateRun, ClaimQueuedRun
    <3>2. QED
      BY <1>1, <3>1
  <2>3. QED
    BY <2>1, <2>2
<1>3. ASSUME NEW r \in Runs, Start(r) \/ StartClaimed(r)
      PROVE  Settling(rows[s], outcomes[s], job[s])'
  <2>1. CASE s = r
    <3>1. rows'[r].status = "running" /\ job'[r] = NewJob
      BY <1>0, <1>3, <2>1, MovedHasStatus DEF Start, StartClaimed, ClaimQueuedRun
    <3>2. /\ NewJob.active /\ NewJob.batch = {}
          /\ \A i \in Items : NewJob.item[i] = "waiting"
      BY DEF NewJob, IdleJob
    <3>3. QED
      BY <2>1, <3>1, <3>2 DEF Settling, Terminal, BatchHolds
  <2>2. CASE s # r
    <3>1. UNCHANGED <<rows[s], outcomes[s], job[s]>>
      BY <1>0, <1>3, <2>2 DEF Start, StartClaimed, ClaimQueuedRun
    <3>2. QED
      BY <1>1, <3>1
  <2>3. QED
    BY <2>1, <2>2
<1>4. ASSUME NEW r \in Runs,
             LoopStep(r) \/ \E i \in Items, result \in Done : ExecutorReturns(r, i, result)
      PROVE  Settling(rows[s], outcomes[s], job[s])'
  <2>1. CASE s = r
    BY <1>4, <2>1, LoopSettles
  <2>2. CASE s # r
    <3>1. UNCHANGED <<rows[s], outcomes[s], job[s]>>
      BY <1>0, <1>4, <2>2
         DEF LoopStep, Schedule, Collect, RecordItem, RecordOutcome, DropItem, Finish,
             ExecutorReturns
    <3>2. QED
      BY <1>1, <3>1
  <2>3. QED
    BY <2>1, <2>2
<1>5. ASSUME NEW r \in Runs, Cancel(r) PROVE Settling(rows[s], outcomes[s], job[s])'
  <2>1. CASE s # r
    <3>1. UNCHANGED <<rows[s], outcomes[s], job[s]>>
      BY <1>0, <1>5, <2>1 DEF Cancel, MoveRun, TransitionRun
    <3>2. QED
      BY <1>1, <3>1
  <2>2. CASE s = r /\ job[r].active
    <3>1. /\ rows' = rows /\ outcomes' = outcomes
          /\ job'[r] = [job[r] EXCEPT !.cancel = TRUE]
      BY <1>0, <1>5, <2>2 DEF Cancel
    <3>2. QED
      BY <1>0, <2>2, <3>1, AskedJobSettles
  <2>3. CASE s = r /\ ~job[r].active
    <3>1. /\ rows[r].status \notin Terminal /\ rows'[r].status = "cancelled"
          /\ outcomes' = outcomes /\ job' = job
      BY <1>0, <1>5, <2>3, MovedHasStatus DEF Cancel, MoveRun, TransitionRun, Terminal
    <3>2. \A i \in Items : job[r].item[i] = "waiting"
      BY <1>0, <2>3, <3>1 DEF Settling, Started
    <3>3. QED
      BY <1>0, <2>3, <3>1, <3>2 DEF Settling, Terminal, BatchHolds, Inflight, Started
  <2>4. QED
    BY <2>1, <2>2, <2>3
<1>6. ASSUME Close PROVE Settling(rows[s], outcomes[s], job[s])'
  <2>1. /\ rows' = rows /\ outcomes' = outcomes
        /\ job'[s] = [job[s] EXCEPT !.cancel = job[s].cancel \/ job[s].active]
    BY <1>0, <1>6 DEF Close, ClosedJobs
  <2>2. QED
    BY <1>0, <2>1, AskedJobSettles
<1>7. CASE UNCHANGED jobVars
  BY <1>1, <1>7 DEF jobVars
<1>8. QED
  BY <1>2, <1>3, <1>4, <1>5, <1>6, <1>7 DEF JobNext

\* No item of a run without a job was started.
LEMMA JobInitSettles == JobInit => ItemsSettle
BY DEF JobInit, StoreInit, ItemsSettle, Settling, BatchHolds, Inflight, Started, Done,
       IdleJob, NoRow

\* Whatever ends a run, its job left no started item behind, and every outcome
\* it recorded is durable.
THEOREM JobsSettleTheirItems ==
  ASSUME PlanCovers
  PROVE  JobSpec => []EndedJobSettledItsItems
<1>1. ItemsSettle => EndedJobSettledItsItems
  BY DEF ItemsSettle, Settling, EndedJobSettledItsItems
<1>2. ItemsSettle /\ JobSound /\ JobTiedToRow /\ [JobNext]_jobVars => ItemsSettle'
  BY JobsSettle
<1>3. JobSpec => []JobTiedToRow
  BY JobInitIsTied, JobsStayTied, JobsAreSound, PTL DEF JobSpec
<1>4. QED
  BY <1>1, <1>2, <1>3, JobInitSettles, JobsAreSound, PTL DEF JobSpec

-----------------------------------------------------------------------------
(* The work plan.                                                          *)

\* A sequence names every member of a set once.
Enumerates(s, S) ==
  /\ s \in Seq(S)
  /\ \A x \in S : \E i \in 1..Len(s) : s[i] = x
  /\ \A i, j \in 1..Len(s) : s[i] = s[j] => i = j

\* Multiplication by a natural number keeps the order.
LEMMA ProductsGrow ==
  ASSUME NEW a \in Int, NEW b \in Int, NEW n \in Nat, a <= b
  PROVE  a * n <= b * n
<1>1. (b - a) * n >= 0
  OBVIOUS
<1>2. (b - a) * n = b * n - a * n
  OBVIOUS
<1>3. a * n \in Int /\ b * n \in Int
  OBVIOUS
<1>4. QED
  BY <1>1, <1>2, <1>3

\* What division by a positive number gives.
LEMMA QuotientAndRemainder ==
  ASSUME NEW n \in Nat \ {0}, NEW k \in Nat
  PROVE  /\ k \div n \in Nat /\ k % n \in 0..(n - 1)
         /\ k = (k \div n) * n + (k % n)
<1>1. k \div n \in Int /\ k % n \in Int /\ 0 <= k % n /\ k % n < n
  OBVIOUS
<1>2. k = n * (k \div n) + (k % n)
  OBVIOUS
<1>3. k \div n >= 0
  OBVIOUS
<1>4. n * (k \div n) = (k \div n) * n
  BY <1>1
<1>5. QED
  BY <1>1, <1>2, <1>3, <1>4

\* Row and column of a position in rows of n.
LEMMA RowAndColumn ==
  ASSUME NEW n \in Nat \ {0}, NEW row \in Nat, NEW column \in 0..(n - 1)
  PROVE  /\ (row * n + column) \div n = row
         /\ (row * n + column) % n = column
<1> DEFINE k == row * n + column
<1>1. k \in Nat /\ row * n \in Nat
  OBVIOUS
<1>2. /\ k \div n \in Int /\ k % n \in 0..(n - 1)
      /\ k = (k \div n) * n + (k % n)
  BY <1>1
<1>3. k \div n = row
  <2> DEFINE d == k \div n
            m == k % n
  <2>1. /\ d \in Int /\ m \in 0..(n - 1) /\ k = d * n + m /\ d * n \in Int
    BY <1>1, <1>2
  <2> HIDE DEF d, m
  <2>2. CASE d <= row - 1
    <3>1. d * n <= (row - 1) * n
      BY <2>1, <2>2, ProductsGrow
    <3>2. (row - 1) * n = row * n - n
      OBVIOUS
    <3>3. QED
      BY <1>1, <2>1, <3>1, <3>2
  <2>3. CASE d >= row + 1
    <3>1. (row + 1) * n <= d * n
      BY <2>1, <2>3, ProductsGrow
    <3>2. (row + 1) * n = row * n + n
      OBVIOUS
    <3>3. QED
      BY <1>1, <2>1, <3>1, <3>2
  <2>4. d = row
    BY <2>1, <2>2, <2>3
  <2>5. QED
    BY <2>4 DEF d
<1>4. k % n = column
  BY <1>1, <1>2, <1>3
<1>5. QED
  BY <1>3, <1>4

\* A rotation puts different columns in different places.
LEMMA SameRotation ==
  ASSUME NEW n \in Nat \ {0}, NEW c \in 0..(n - 1), NEW d \in 0..(n - 1), NEW r \in Nat,
         (c + r) % n = (d + r) % n
  PROVE  c = d
<1>1. c + r \in Nat /\ d + r \in Nat
  OBVIOUS
<1> DEFINE x == (c + r) \div n
           y == (d + r) \div n
           m == (c + r) % n
<1>2. /\ x \in Nat /\ y \in Nat /\ m \in 0..(n - 1)
      /\ c + r = x * n + m /\ d + r = y * n + m
  BY <1>1, QuotientAndRemainder
<1> HIDE DEF x, y, m
<1>3. x * n \in Nat /\ y * n \in Nat
  BY <1>2
<1>4. CASE x + 1 <= y
  <2>1. (x + 1) * n <= y * n /\ (x + 1) * n = x * n + n
    BY <1>2, <1>4, ProductsGrow
  <2>2. QED
    BY <1>2, <1>3, <2>1
<1>5. CASE y + 1 <= x
  <2>1. (y + 1) * n <= x * n /\ (y + 1) * n = y * n + n
    BY <1>2, <1>5, ProductsGrow
  <2>2. QED
    BY <1>2, <1>3, <2>1
<1>6. x = y
  BY <1>2, <1>4, <1>5
<1>7. QED
  BY <1>2, <1>3, <1>6


\* A position of the plan is a row and a column.
LEMMA PositionIsRowAndColumn ==
  ASSUME NEW n \in Nat, NEW height \in Nat, NEW k \in 1..(height * n)
  PROVE  /\ n # 0
         /\ \E row \in 0..(height - 1), column \in 0..(n - 1) : k = row * n + column + 1
<1>1. n \in Nat \ {0} /\ k - 1 \in Nat /\ height * n \in Nat
  OBVIOUS
<1>2. PICK row \in Nat, column \in 0..(n - 1) : k - 1 = row * n + column
  <2>1. \A m \in Nat : m \div n \in Nat /\ m % n \in 0..(n - 1) /\ m = (m \div n) * n + (m % n)
    BY <1>1, QuotientAndRemainder
  <2>2. QED
    BY <1>1, <2>1
<1>3. CASE height <= row
  <2>1. height * n <= row * n /\ row * n \in Nat
    BY <1>3, ProductsGrow
  <2>2. QED
    BY <1>1, <1>2, <2>1
<1>4. CASE row \in 0..(height - 1)
  <2>1. k = row * n + column + 1
    BY <1>1, <1>2
  <2>2. QED
    BY <1>1, <1>4, <2>1
<1>5. QED
  BY <1>2, <1>3, <1>4

\* Every row and column is a position of the plan.
LEMMA RowAndColumnArePosition ==
  ASSUME NEW n \in Nat, NEW height \in Nat, NEW row \in 0..(height - 1), NEW column \in 0..(n - 1)
  PROVE  row * n + column + 1 \in 1..(height * n)
<1>1. row * n <= (height - 1) * n /\ (height - 1) * n = height * n - n
  BY ProductsGrow
<1>2. row * n \in Nat /\ height * n \in Nat
  OBVIOUS
<1>3. QED
  BY <1>1, <1>2

\* Some column of a row holds each config.
LEMMA RotationIsComplete ==
  ASSUME NEW n \in Nat \ {0}, NEW r \in Nat, NEW c \in 0..(n - 1)
  PROVE  \E column \in 0..(n - 1) : (column + r) % n = c
<1> DEFINE m == c + (n - 1) * r
<1>1. m \in Nat /\ m = c + r * n - r
  <2>1. (n - 1) * r = r * n - r /\ n - 1 \in Nat
    OBVIOUS
  <2>2. (n - 1) * r \in Nat
    BY <2>1
  <2>3. QED
    BY <2>1, <2>2
<1> HIDE DEF m
<1>2. PICK x \in Nat, column \in 0..(n - 1) : m = x * n + column
  BY <1>1, QuotientAndRemainder
<1>3. column + r = (r - x) * n + c
  <2>1. (r - x) * n = r * n - x * n /\ r * n \in Nat /\ x * n \in Nat
    OBVIOUS
  <2>2. QED
    BY <1>1, <1>2, <2>1
<1>4. CASE r - x <= -1
  <2>1. (r - x) * n <= (-1) * n /\ (-1) * n = -n
    BY <1>4, ProductsGrow
  <2>2. (r - x) * n \in Int
    OBVIOUS
  <2>3. QED
    BY <1>3, <2>1, <2>2
<1>5. CASE r - x >= 0
  <2>1. r - x \in Nat
    BY <1>5
  <2>2. ((r - x) * n + c) % n = c
    BY <2>1, RowAndColumn
  <2>3. QED
    BY <1>3, <2>2
<1>6. QED
  BY <1>4, <1>5

\* Offsets and positions.
LEMMA ShiftsByOne ==
  ASSUME NEW n \in Nat, NEW x \in 0..(n - 1)
  PROVE  x + 1 \in 1..n
OBVIOUS

\* _interleaved_work_items visits every attempt exactly once, in whatever order
\* the queries come and however many there are of queries and configs: the
\* rotation of the configs by the number of the query loses and repeats none.
THEOREM PlanVisitsEachAttemptOnce ==
  ASSUME NEW Cs, NEW Qs, NEW queries, Enumerates(queries, Qs), NEW configs, Enumerates(configs, Cs)
  PROVE  Enumerates(InterleavedWorkItems(queries, configs), Cs \X Qs)
<1> DEFINE plan == InterleavedWorkItems(queries, configs)
<1>0. PICK n, height : n = Len(configs) /\ height = Len(queries)
  OBVIOUS
<1> DEFINE Item(row, column) == <<configs[((column + row) % n) + 1], queries[row + 1]>>
<1>1. n \in Nat /\ height \in Nat /\ height * n \in Nat
  BY <1>0 DEF Enumerates
<1>2. DOMAIN plan = 1..(height * n) /\ plan = [k \in 1..(height * n) |-> plan[k]]
  BY <1>0 DEF InterleavedWorkItems
<1> HIDE DEF plan
<1>3. \A row \in 0..(height - 1), column \in 0..(n - 1) :
        /\ (column + row) % n \in 0..(n - 1)
        /\ plan[row * n + column + 1] = Item(row, column)
  <2> SUFFICES ASSUME NEW row \in 0..(height - 1), NEW column \in 0..(n - 1)
               PROVE  /\ (column + row) % n \in 0..(n - 1)
                      /\ plan[row * n + column + 1] = Item(row, column)
    OBVIOUS
  <2>0. n # 0 /\ row \in Nat /\ column \in Nat
    BY <1>1
  <2>1. /\ n \in Nat \ {0} /\ row \in Nat /\ column + row \in Nat
        /\ row * n + column \in Nat
    <3>1. row * n \in Nat
      BY <1>1, <2>0
    <3>2. QED
      BY <1>1, <2>0, <3>1
  <2>2. PICK k : k = row * n + column + 1
    OBVIOUS
  <2>3. k \in 1..(height * n)
    BY <1>1, <2>2, RowAndColumnArePosition
  <2>4. k - 1 = row * n + column
    BY <2>1, <2>2
  <2>5. (k - 1) \div n = row /\ (k - 1) % n = column
    BY <2>1, <2>4, RowAndColumn
  <2>6. plan[k] = <<configs[((((k - 1) % n) + ((k - 1) \div n)) % n) + 1],
                    queries[((k - 1) \div n) + 1]>>
    BY <1>0, <2>3 DEF InterleavedWorkItems, plan
  <2>7. plan[k] = Item(row, column)
    BY <2>5, <2>6
  <2>8. (column + row) % n \in 0..(n - 1)
    BY <2>1, QuotientAndRemainder
  <2>9. QED
    BY <2>2, <2>7, <2>8
<1>4. \A k \in 1..(height * n) : n # 0 /\
        \E row \in 0..(height - 1), column \in 0..(n - 1) : k = row * n + column + 1
  BY <1>1, PositionIsRowAndColumn
<1>5. \A row \in 0..(height - 1), column \in 0..(n - 1) : row * n + column + 1 \in 1..(height * n)
  BY <1>1, RowAndColumnArePosition
<1>6. \A i \in 1..n, j \in 1..height : configs[i] \in Cs /\ queries[j] \in Qs
  <2>1. \A i \in 1..Len(configs) : configs[i] \in Cs
    BY DEF Enumerates
  <2>2. \A j \in 1..Len(queries) : queries[j] \in Qs
    BY DEF Enumerates
  <2>3. QED
    BY <1>0, <2>1, <2>2
<1>7. ASSUME NEW a \in Cs \X Qs PROVE \E k \in 1..(height * n) : plan[k] = a
  <2>0. a[1] \in Cs /\ a[2] \in Qs
    OBVIOUS
  <2>1. PICK i \in 1..height, j \in 1..n : queries[i] = a[2] /\ configs[j] = a[1]
    BY <1>0, <2>0 DEF Enumerates
  <2>2. n \in Nat \ {0} /\ i - 1 \in 0..(height - 1) /\ j - 1 \in 0..(n - 1)
    <3>1. i \in 1..height /\ j \in 1..n
      BY <2>1
    <3>2. QED
      BY <1>1, <3>1
  <2>3. PICK column \in 0..(n - 1) : (column + (i - 1)) % n = j - 1
    <3>1. i - 1 \in Nat
      BY <1>1
    <3>2. QED
      BY <2>2, <3>1, RotationIsComplete
  <2>4. Item(i - 1, column) = <<configs[j], queries[i]>>
    <3>1. (j - 1) + 1 = j /\ (i - 1) + 1 = i
      BY <1>1
    <3>2. QED
      BY <2>3, <3>1
  <2> HIDE DEF Item
  <2>5. plan[(i - 1) * n + column + 1] = <<a[1], a[2]>>
    BY <1>3, <2>1, <2>2, <2>4
  <2>6. (i - 1) * n + column + 1 \in 1..(height * n)
    BY <1>5, <2>2
  <2>7. a = <<a[1], a[2]>>
    OBVIOUS
  <2>8. QED
    BY <2>5, <2>6, <2>7
<1>8. ASSUME NEW k \in 1..(height * n) PROVE plan[k] \in Cs \X Qs
  <2>1. PICK row \in 0..(height - 1), column \in 0..(n - 1) : k = row * n + column + 1
    BY <1>4
  <2>2. plan[k] = Item(row, column) /\ (column + row) % n \in 0..(n - 1)
    BY <1>3, <2>1
  <2>3. ((column + row) % n) + 1 \in 1..n /\ row + 1 \in 1..height
    BY <1>1, <2>2, ShiftsByOne
  <2>4. configs[((column + row) % n) + 1] \in Cs /\ queries[row + 1] \in Qs
    BY <1>6, <2>3
  <2>5. Item(row, column) \in Cs \X Qs
    BY <2>4
  <2> HIDE DEF Item
  <2>6. QED
    BY <2>2, <2>5
<1>9. ASSUME NEW k \in 1..(height * n), NEW l \in 1..(height * n), plan[k] = plan[l] PROVE k = l
  <2>1. PICK row \in 0..(height - 1), column \in 0..(n - 1) : k = row * n + column + 1
    BY <1>4
  <2>2. PICK row2 \in 0..(height - 1), column2 \in 0..(n - 1) : l = row2 * n + column2 + 1
    BY <1>4
  <2> DEFINE x == (column + row) % n
             y == (column2 + row2) % n
  <2>3. /\ plan[k] = Item(row, column) /\ plan[l] = Item(row2, column2)
        /\ x \in 0..(n - 1) /\ y \in 0..(n - 1)
    BY <1>3, <2>1, <2>2
  <2>4. configs[x + 1] = configs[y + 1] /\ queries[row + 1] = queries[row2 + 1]
    <3>1. Item(row, column) = Item(row2, column2)
      BY <1>9, <2>3
    <3>2. <<configs[x + 1], queries[row + 1]>> = <<configs[y + 1], queries[row2 + 1]>>
      BY <3>1
    <3> HIDE DEF x, y, Item
    <3>3. QED
      BY <3>2
  <2> HIDE DEF x, y, Item
  <2>5. x + 1 \in 1..n /\ y + 1 \in 1..n /\ row + 1 \in 1..height /\ row2 + 1 \in 1..height
    BY <1>1, <2>3
  <2>6. x + 1 = y + 1 /\ row + 1 = row2 + 1
    BY <1>0, <2>4, <2>5 DEF Enumerates
  <2>7. row = row2
    BY <1>1, <2>6
  <2>8. x = y
    BY <1>1, <2>3, <2>6
  <2>9. column = column2
    <3>1. n \in Nat \ {0} /\ row \in Nat
      BY <1>1
    <3>2. (column + row) % n = (column2 + row) % n
      BY <2>7, <2>8 DEF x, y
    <3>3. QED
      BY <3>1, <3>2, SameRotation
  <2>10. QED
    BY <2>1, <2>2, <2>7, <2>9
<1>10. Len(plan) = height * n /\ plan \in Seq(Cs \X Qs)
  <2>1. \A m \in Nat : [1..m -> Cs \X Qs] \subseteq Seq(Cs \X Qs)
    OBVIOUS
  <2>2. plan \in [1..(height * n) -> Cs \X Qs]
    BY <1>2, <1>8
  <2>3. plan \in Seq(Cs \X Qs)
    BY <1>1, <2>1, <2>2
  <2>4. QED
    BY <1>1, <1>2, <2>3
<1>11. Enumerates(plan, Cs \X Qs)
  BY <1>7, <1>9, <1>10 DEF Enumerates
<1>12. QED
  BY <1>11 DEF plan

\* With the plan of _interleaved_work_items, whatever ends a run, its job left
\* no started item behind and every outcome it recorded is durable.
THEOREM PlannedJobsSettle ==
  ASSUME NEW queries, Enumerates(queries, Queries), NEW configs, Enumerates(configs, Configs),
         WorkItems = InterleavedWorkItems(queries, configs)
  PROVE  JobSpec => []EndedJobSettledItsItems
<1>1. Enumerates(WorkItems, Configs \X Queries)
  BY PlanVisitsEachAttemptOnce
<1>2. PlanCovers
  BY <1>1 DEF Enumerates, PlanCovers, Items, Attempts
<1>3. QED
  BY <1>2, JobsSettleTheirItems

-----------------------------------------------------------------------------
(* The store and the jobs under the server.                                *)

\* Each run stays, records or moves along the life cycle.
LifecycleStep == \A s \in Runs : RunStays(s) \/ RunRecords(s) \/ RunMoves(s)

\* A step of the manager keeps store and jobs sound and is one of the life
\* cycle.
LEMMA ManagerStep ==
  ASSUME JobSound, [JobNext]_jobVars
  PROVE  JobSound' /\ LifecycleStep
<1>1. JobSound'
  BY JobStaysSound
<1>2. [StoreNext]_storeVars
  BY JobStepIsAStoreStep
<1>3. LifecycleStep
  <2>1. CASE StoreNext
    BY <2>1, StoreStepsAreRunSteps DEF LifecycleStep, JobSound
  <2>2. CASE UNCHANGED storeVars
    BY <2>2 DEF storeVars, LifecycleStep, RunStays
  <2>3. QED
    BY <1>2, <2>1, <2>2
<1>4. QED
  BY <1>1, <1>3

\* A step that replaces one row by another sound one, along an edge.
LEMMA RowStep ==
  ASSUME JobSound, NEW r \in Runs, NEW row, SoundRow(row, outcomes[r]),
         rows' = [rows EXCEPT ![r] = row], UNCHANGED <<outcomes, job>>,
         rows[r].status \in {"queued", "running"}, row.status = "failed"
  PROVE  JobSound' /\ LifecycleStep
<1>1. SoundStore'
  BY OneRowReplaced DEF JobSound
<1>2. LifecycleStep
  <2>1. "failed" \in Allowed(rows[r].status)
    BY DEF Allowed, Terminal
  <2>2. QED
    BY <2>1, OneRunMoves DEF LifecycleStep, JobSound
<1>3. QED
  BY <1>1, <1>2 DEF JobSound, JobShape

\* A driver that fails a run fails a sound row, claimed or not.
LEMMA FailedRows ==
  ASSUME JobSound, NEW r \in Runs
  PROVE  /\ rows[r].status \in {"queued", "running"} =>
              /\ SoundRow(MovedTo(rows[r], "failed"), outcomes[r])
              /\ MovedTo(rows[r], "failed").status = "failed"
         /\ rows[r].status = "queued" =>
              LET row == MovedTo(MovedTo(rows[r], "running"), "failed")
              IN  SoundRow(row, outcomes[r]) /\ row.status = "failed"
<1>1. SoundRow(rows[r], outcomes[r]) /\ rows[r] \in Row
  BY DEF JobSound, SoundStore
<1>2. ASSUME NEW row, SoundRow(row, outcomes[r]), row.status \in {"queued", "running"}
      PROVE  /\ SoundRow(MovedTo(row, "failed"), outcomes[r])
             /\ MovedTo(row, "failed").status = "failed"
  <2>1. row \in Row /\ MayMove(row, "failed")
    BY <1>2 DEF SoundRow, MayMove, Allowed, Terminal
  <2>2. QED
    BY <1>2, <2>1, RowMovedAloneIsSound, MovedHasStatus
<1>3. ASSUME rows[r].status = "queued"
      PROVE  /\ SoundRow(MovedTo(rows[r], "running"), outcomes[r])
             /\ MovedTo(rows[r], "running").status = "running"
  <2>1. MayMove(rows[r], "running")
    BY <1>3 DEF MayMove, Allowed
  <2>2. QED
    BY <1>1, <2>1, RowMovedAloneIsSound, MovedHasStatus
<1>4. QED
  BY <1>1, <1>2, <1>3

\* Recovery ends every running row and leaves the others.
LEMMA RecoveredRows ==
  ASSUME JobSound, NEW r \in Runs
  PROVE  /\ SoundRow(InterruptedRows[r], outcomes[r])
         /\ InterruptedRows[r].status =
              IF rows[r].status = "running" THEN "interrupted" ELSE rows[r].status
<1>1. SoundRow(rows[r], outcomes[r]) /\ rows[r] \in Row
  BY DEF JobSound, SoundStore
<1>2. CASE rows[r].status = "running"
  <2>1. MayMove(rows[r], "interrupted")
    BY <1>2 DEF MayMove, Allowed, Terminal
  <2>2. QED
    BY <1>1, <1>2, <2>1, RowMovedAloneIsSound, MovedHasStatus DEF InterruptedRows
<1>3. CASE rows[r].status # "running"
  BY <1>1, <1>3 DEF InterruptedRows
<1>4. QED
  BY <1>2, <1>3

\* A step that recovers the store, and may create one run as well.
LEMMA RecoveryStep ==
  ASSUME JobSound, UNCHANGED <<outcomes, job>>, NEW C \in SUBSET Runs,
         \A s \in C : rows[s].status = "absent",
         rows' = [s \in Runs |-> IF s \in C THEN QueuedRow ELSE InterruptedRows[s]]
  PROVE  JobSound' /\ LifecycleStep
<1>1. QueuedRow.status = "queued"
  BY NoRowIsTyped DEF QueuedRow, Row
<1>2. ASSUME NEW s \in Runs
      PROVE  SoundRow(rows'[s], outcomes[s]) /\ (RunStays(s) \/ RunMoves(s))
  <2>1. CASE s \in C
    <3>1. rows'[s] = QueuedRow /\ rows[s].status = "absent" /\ SoundRow(rows[s], outcomes[s])
      BY <2>1 DEF JobSound, SoundStore
    <3>2. QED
      BY <1>1, <3>1, QueuedRowIsSound DEF RunMoves
  <2>2. CASE s \notin C
    <3>1. rows'[s] = InterruptedRows[s]
      BY <2>2
    <3>2. QED
      BY <3>1, RecoveredRows DEF RunStays, RunMoves, Allowed, Terminal
  <2>3. QED
    BY <2>1, <2>2
<1>3. rows' \in [Runs -> Row]
  BY <1>2 DEF SoundRow
<1>4. QED
  BY <1>2, <1>3 DEF JobSound, JobShape, SoundStore, LifecycleStep

-----------------------------------------------------------------------------
(* One run.                                                                *)

\* How the status, the driver, the job and the request of a run fit: an active
\* job belongs to a measuring driver and a running row; while the process is up
\* a running row is warmed up or measured; a process that is down has neither
\* drivers nor jobs; a run is driven only after its creation; and a run that
\* was asked to stop has ended, or has a job that knows.
Fits(status, d, j, ask, alive) ==
  /\ j.active => d = "measuring" /\ status = "running"
  /\ alive /\ status = "running" => d = "warming" \/ (d = "measuring" /\ j.active)
  /\ ~alive => d = "none" /\ ~j.active
  /\ status = "absent" => d = "none"
  /\ status = "queued" => d \in {"none", "scheduled"}
  /\ ask => \/ status \in {"cancelled", "failed", "interrupted"}
            \/ status = "running" /\ (alive => j.active /\ j.cancel)

AllFit == \A s \in Runs : Fits(rows[s].status, driver[s], job[s], asked[s], up)

ProcessShape ==
  /\ driver \in [Runs -> DriverStates]
  /\ up \in BOOLEAN
  /\ asked \in [Runs -> BOOLEAN]
  /\ warm \in [Runs -> Nat]
  /\ born \in [Runs -> Nat]
  /\ IsFiniteSet({s \in Runs : born[s] > 0})

-----------------------------------------------------------------------------
(* The slot.                                                               *)

\* A run takes the slot when it is running, or queued with a driver.
Takes(store, drivers, r) ==
  \/ store[r].status = "running"
  \/ store[r].status = "queued" /\ drivers[r] # "none"

Alone(store, drivers) ==
  \A r, s \in Runs : Takes(store, drivers, r) /\ Takes(store, drivers, s) => r = s

\* A set whose elements are all the same is finite and has at most one.
LEMMA AtMostOne ==
  ASSUME NEW S, \A x, y \in S : x = y
  PROVE  IsFiniteSet(S) /\ Cardinality(S) \in Nat /\ Cardinality(S) <= 1
         /\ (Cardinality(S) = 0 => S = {})
<1>1. CASE S = {}
  BY <1>1, FS_EmptySet
<1>2. CASE S # {}
  <2>1. PICK x \in S : TRUE
    BY <1>2
  <2>2. S = {x}
    BY <2>1
  <2>3. IsFiniteSet(S) /\ Cardinality(S) = 1
    BY <2>2, FS_Singleton
  <2>4. QED
    BY <2>3
<1>3. QED
  BY <1>1, <1>2

\* The oldest run of a set is one of it.
LEMMA OldestIsAMember ==
  ASSUME ProcessShape, NEW S \in SUBSET Runs, S # {}
  PROVE  Oldest(S) \in S
<1> DEFINE ages == {born[s] : s \in S}
<1>1. ages \in SUBSET Nat /\ ages # {}
  BY DEF ProcessShape
<1>2. \E n \in ages : \A m \in ages : n <= m
  <2> HIDE DEF ages
  <2>1. Min(ages) \in ages /\ \A m \in ages : Min(ages) <= m
    BY <1>1, MinIsAMember
  <2>2. QED
    BY <2>1
<1>3. \E r \in S : \A s \in S : born[r] <= born[s]
  BY <1>2
<1>4. QED
  BY <1>3 DEF Oldest

\* What the pump may do: nothing, or schedule one queued run without a driver
\* when nobody takes the slot.
PumpedAt(store, drivers, pumped) ==
  \/ pumped = drivers
  \/ \E p \in Runs :
       /\ store[p].status = "queued" /\ drivers[p] = "none"
       /\ \A s \in Runs : ~Takes(store, drivers, s)
       /\ pumped = [drivers EXCEPT ![p] = "scheduled"]

LEMMA PumpTakesTheFreeSlot ==
  ASSUME ProcessShape, NEW store, NEW drivers, Alone(store, drivers)
  PROVE  PumpedAt(store, drivers, Pumped(store, drivers))
<1> DEFINE running == {r \in Runs : store[r].status = "running"}
           driven == {r \in Runs : store[r].status = "queued" /\ drivers[r] # "none"}
           p == Oldest(Unserved(store, drivers))
<1>1. /\ \A x, y \in running : x = y
      /\ \A x, y \in driven : x = y
  BY DEF Alone, Takes
<1>2. /\ Cardinality(running) \in Nat /\ (Cardinality(running) = 0 => running = {})
      /\ Cardinality(driven) \in Nat /\ (Cardinality(driven) = 0 => driven = {})
  <2> HIDE DEF running, driven
  <2>1. QED
    BY <1>1, AtMostOne
<1>3. CASE Available(store, drivers) > 0 /\ Unserved(store, drivers) # {}
  <2>1. 1 - Cardinality(running) - Cardinality(driven) > 0
    BY <1>3 DEF Available, MaxActiveRuns
  <2>2. Cardinality(running) = 0 /\ Cardinality(driven) = 0
    <3> HIDE DEF running, driven
    <3>1. QED
      BY <1>2, <2>1
  <2>3. running = {} /\ driven = {}
    BY <1>2, <2>2
  <2>4. \A s \in Runs : ~Takes(store, drivers, s)
    BY <2>3 DEF Takes
  <2>5. p \in Unserved(store, drivers)
    BY <1>3, OldestIsAMember DEF Unserved
  <2>6. /\ p \in Runs /\ store[p].status = "queued" /\ drivers[p] = "none"
        /\ Pumped(store, drivers) = [drivers EXCEPT ![p] = "scheduled"]
    BY <1>3, <2>5 DEF Pumped, Unserved
  <2> HIDE DEF p
  <2>7. QED
    BY <2>4, <2>6 DEF PumpedAt
<1>4. CASE ~(Available(store, drivers) > 0 /\ Unserved(store, drivers) # {})
  BY <1>4 DEF Pumped, PumpedAt
<1>5. QED
  BY <1>3, <1>4

\* After it drivers are drivers, one run takes the slot, and all runs fit.
LEMMA PumpKeepsFits ==
  ASSUME NEW drivers \in [Runs -> DriverStates], Alone(rows', drivers),
         PumpedAt(rows', drivers, driver'), up' = TRUE,
         \A s \in Runs : Fits(rows'[s].status, drivers[s], job'[s], asked'[s], TRUE)
  PROVE  /\ driver' \in [Runs -> DriverStates]
         /\ Alone(rows', driver')
         /\ AllFit'
<1>1. CASE driver' = drivers
  BY <1>1 DEF AllFit
<1>2. ASSUME NEW p \in Runs,
             rows'[p].status = "queued", drivers[p] = "none",
             \A s \in Runs : ~Takes(rows', drivers, s),
             driver' = [drivers EXCEPT ![p] = "scheduled"]
      PROVE  /\ driver' \in [Runs -> DriverStates]
             /\ Alone(rows', driver')
             /\ AllFit'
  <2>1. driver' \in [Runs -> DriverStates]
    BY <1>2 DEF DriverStates
  <2>2. \A s \in Runs : driver'[s] = IF s = p THEN "scheduled" ELSE drivers[s]
    BY <1>2
  <2>3. \A s \in Runs : Takes(rows', driver', s) => s = p
    BY <1>2, <2>2 DEF Takes
  <2>4. Alone(rows', driver')
    BY <2>3 DEF Alone
  <2>5. ASSUME NEW s \in Runs
        PROVE  Fits(rows'[s].status, driver'[s], job'[s], asked'[s], up')
    <3>1. CASE s = p
      <4>1. Fits("queued", "none", job'[p], asked'[p], TRUE)
        BY <1>2
      <4>2. Fits("queued", "scheduled", job'[p], asked'[p], TRUE)
        BY <4>1 DEF Fits
      <4>3. QED
        BY <1>2, <2>2, <3>1, <4>2
    <3>2. CASE s # p
      BY <2>2, <3>2
    <3>3. QED
      BY <3>1, <3>2
  <2>6. QED
    BY <2>1, <2>4, <2>5 DEF AllFit
<1>3. QED
  BY <1>1, <1>2 DEF PumpedAt

-----------------------------------------------------------------------------
(* The steps.                                                              *)

ServerSound == JobSound /\ ProcessShape /\ AllFit /\ Alone(rows, driver)

\* What a step leaves of the process.
FitsAlone ==
  /\ driver \in [Runs -> DriverStates]
  /\ AllFit
  /\ Alone(rows, driver)

\* A step of one run, whose driver goes on, or leaves and looks for the next
\* queued run.
LEMMA OneRunSteps ==
  ASSUME ServerSound, NEW r \in Runs, NEW d \in DriverStates, up' = up,
         \A s \in Runs \ {r} : /\ rows'[s].status = rows[s].status
                               /\ job'[s] = job[s]
                               /\ asked'[s] = asked[s],
         Fits(rows'[r].status, d, job'[r], asked'[r], up),
         (\/ rows'[r].status = "running"
          \/ rows'[r].status = "queued" /\ d # "none") => Takes(rows, driver, r),
         \/ driver' = [driver EXCEPT ![r] = d]
         \/ d = "none" /\ up /\ driver' = DriverGone(rows', r)
  PROVE  FitsAlone'
<1> DEFINE drivers == [driver EXCEPT ![r] = d]
<1>1. /\ drivers \in [Runs -> DriverStates]
      /\ \A s \in Runs : drivers[s] = IF s = r THEN d ELSE driver[s]
  BY DEF ServerSound, ProcessShape
<1>2. \A s \in Runs : Fits(rows'[s].status, drivers[s], job'[s], asked'[s], up)
  BY <1>1 DEF ServerSound, AllFit
<1>3. \A s \in Runs : Takes(rows', drivers, s) => Takes(rows, driver, s)
  BY <1>1 DEF Takes
<1>4. Alone(rows', drivers)
  BY <1>3 DEF Alone, ServerSound
<1>5. CASE driver' = drivers
  BY <1>1, <1>2, <1>4, <1>5 DEF FitsAlone, AllFit
<1>6. CASE d = "none" /\ up /\ driver' = DriverGone(rows', r)
  <2>1. driver' = drivers \/ driver' = Pumped(rows', drivers)
    BY <1>6 DEF DriverGone
  <2>2. ASSUME driver' = Pumped(rows', drivers) PROVE FitsAlone'
    <3>1. up' = TRUE /\ up = TRUE
      BY <1>6 DEF ServerSound, ProcessShape
    <3> HIDE DEF drivers
    <3>2. PumpedAt(rows', drivers, driver')
      BY <1>4, <2>2, PumpTakesTheFreeSlot DEF ServerSound
    <3>3. QED
      BY <1>1, <1>2, <1>4, <3>1, <3>2, PumpKeepsFits DEF FitsAlone
  <2>3. QED
    BY <1>5, <2>1, <2>2
<1>7. QED
  BY <1>5, <1>6

\* A step in which a run keeps its status, its driver and its requests.
LEMMA QuietStep ==
  ASSUME ServerSound, UNCHANGED <<driver, up, asked>>,
         \A s \in Runs : /\ rows'[s].status = rows[s].status
                         /\ job'[s].active = job[s].active
                         /\ job[s].cancel /\ job[s].active => job'[s].cancel
  PROVE  FitsAlone'
<1>1. ASSUME NEW s \in Runs
      PROVE  Fits(rows'[s].status, driver'[s], job'[s], asked'[s], up')
  BY DEF ServerSound, AllFit, Fits
<1>2. Alone(rows', driver')
  BY DEF ServerSound, Alone, Takes
<1>3. QED
  BY <1>1, <1>2 DEF FitsAlone, AllFit, ServerSound, ProcessShape

\* A step after which the process is down.
LEMMA DownStep ==
  ASSUME ServerSound, up' = FALSE, driver' = [s \in Runs |-> "none"], asked' = asked,
         \A s \in Runs : /\ rows'[s].status = rows[s].status
                         /\ ~job'[s].active
  PROVE  FitsAlone'
<1>1. ASSUME NEW s \in Runs
      PROVE  Fits(rows'[s].status, driver'[s], job'[s], asked'[s], up')
  BY DEF ServerSound, AllFit, Fits
<1>2. Alone(rows', driver')
  BY DEF ServerSound, Alone, Takes
<1>3. QED
  BY <1>1, <1>2 DEF FitsAlone, AllFit, DriverStates

-----------------------------------------------------------------------------
(* The actions.                                                            *)

\* Neither the guard of the slot nor the fit is lost by a step of a driver.
LEMMA DriverKeepsFit ==
  ASSUME ServerSound, NEW r \in Runs, DriverStep(r)
  PROVE  FitsAlone'
<1>0. /\ rows \in [Runs -> Row] /\ job \in [Runs -> Job] /\ driver \in [Runs -> DriverStates]
      /\ Fits(rows[r].status, driver[r], job[r], asked[r], up)
      /\ rows[r] \in Row
  BY DEF ServerSound, JobSound, SoundStore, JobShape, ProcessShape, AllFit
<1>1. CASE DriverSkips(r)
  <2>1. UNCHANGED <<rows, job, asked, up>> /\ driver' = DriverGone(rows', r)
    BY <1>1 DEF DriverSkips, requests
  <2>2. driver[r] = "scheduled"
    BY <1>1 DEF DriverSkips
  <2>3. Fits(rows'[r].status, "none", job'[r], asked'[r], up) /\ up
    BY <1>0, <2>1, <2>2 DEF Fits
  <2>4. rows'[r].status = "running" => Takes(rows, driver, r)
    BY <2>1 DEF Takes
  <2>5. QED
    BY <2>1, <2>3, <2>4, OneRunSteps DEF DriverStates
<1>2. CASE DriverClaims(r)
  <2>1. /\ UNCHANGED <<job, asked, up>> /\ driver' = [driver EXCEPT ![r] = "warming"]
        /\ rows' = [rows EXCEPT ![r] = MovedTo(rows[r], "running")]
        /\ rows[r].status = "queued" /\ driver[r] = "scheduled"
    BY <1>2 DEF DriverClaims, ClaimQueuedRun, requests
  <2>2. rows'[r].status = "running" /\ \A s \in Runs \ {r} : rows'[s] = rows[s]
    BY <1>0, <2>1, MovedHasStatus
  <2>3. Fits("running", "warming", job[r], asked[r], up)
    BY <1>0, <2>1 DEF Fits
  <2>4. Takes(rows, driver, r)
    BY <2>1 DEF Takes
  <2>5. QED
    BY <2>1, <2>2, <2>3, <2>4, OneRunSteps DEF DriverStates
<1>3. CASE DriverFails(r)
  <2>1. /\ UNCHANGED <<job, asked, up>>
        /\ rows[r].status = "queued" /\ driver[r] = "scheduled"
        /\ \/ driver' = [driver EXCEPT ![r] = "closing"]
           \/ driver' = DriverGone(rows', r)
        /\ \/ rows' = [rows EXCEPT ![r] = MovedTo(MovedTo(rows[r], "running"), "failed")]
           \/ rows' = [rows EXCEPT ![r] = MovedTo(rows[r], "failed")]
    BY <1>3 DEF DriverFails, requests
  <2>2. rows'[r].status = "failed" /\ \A s \in Runs \ {r} : rows'[s] = rows[s]
    BY <1>0, <2>1, FailedRows DEF ServerSound
  <2>3. Fits("failed", "closing", job[r], asked[r], up) /\ Fits("failed", "none", job[r], asked[r], up) /\ up
    BY <1>0, <2>1 DEF Fits
  <2>4. QED
    BY <2>1, <2>2, <2>3, OneRunSteps DEF DriverStates
<1>4. CASE WarmUpStops(r)
  <2>1. /\ UNCHANGED <<rows, job, asked, up>> /\ driver' = [driver EXCEPT ![r] = "closing"]
        /\ driver[r] = "warming" /\ rows[r].status # "running"
    BY <1>4 DEF WarmUpStops, requests
  <2>2. Fits(rows[r].status, "closing", job[r], asked[r], up) /\ rows[r].status # "queued"
    BY <1>0, <2>1 DEF Fits
  <2>3. QED
    BY <2>1, <2>2, OneRunSteps DEF DriverStates
<1>5. CASE WarmUpSearches(r)
  <2>1. UNCHANGED <<rows, job, asked, up, driver>>
    BY <1>5 DEF WarmUpSearches, requests
  <2>2. QED
    BY <2>1, QuietStep
<1>6. CASE WarmUpFails(r)
  <2>1. /\ UNCHANGED <<job, asked, up>> /\ driver' = [driver EXCEPT ![r] = "closing"]
        /\ driver[r] = "warming"
        /\ rows' = [rows EXCEPT ![r] = FailedIfRunning(rows[r])]
    BY <1>0, <1>6 DEF WarmUpFails, requests
  <2>2. /\ rows'[r].status = IF rows[r].status = "running" THEN "failed" ELSE rows[r].status
        /\ \A s \in Runs \ {r} : rows'[s] = rows[s]
    BY <1>0, <2>1, MovedHasStatus DEF FailedIfRunning
  <2>3. Fits(rows'[r].status, "closing", job[r], asked[r], up) /\ rows[r].status # "queued"
    BY <1>0, <2>1, <2>2 DEF Fits
  <2>4. rows'[r].status \notin {"running", "queued"}
    BY <2>2, <2>3
  <2>5. QED
    BY <2>1, <2>2, <2>3, <2>4, OneRunSteps DEF DriverStates
<1>7. CASE Measures(r)
  <2>1. /\ UNCHANGED <<rows, asked, up>> /\ driver' = [driver EXCEPT ![r] = "measuring"]
        /\ driver[r] = "warming" /\ rows[r].status = "running" /\ ~job[r].active
        /\ job' = [job EXCEPT ![r] = NewJob]
    BY <1>7 DEF Measures, StartClaimed, requests
  <2>2. job'[r] = NewJob /\ (\A s \in Runs \ {r} : job'[s] = job[s]) /\ NewJob.active
    BY <1>0, <2>1 DEF NewJob, IdleJob
  <2>3. Fits(rows[r].status, "measuring", NewJob, asked[r], up)
    BY <1>0, <2>1, <2>2 DEF Fits
  <2>4. Takes(rows, driver, r)
    BY <2>1 DEF Takes
  <2>5. QED
    BY <2>1, <2>2, <2>3, <2>4, OneRunSteps DEF DriverStates
<1>8. CASE DriverResumes(r)
  <2>1. /\ UNCHANGED <<rows, job, asked, up>> /\ driver' = [driver EXCEPT ![r] = "closing"]
        /\ driver[r] = "measuring" /\ ~job[r].active
    BY <1>8 DEF DriverResumes, requests
  <2>2. Fits(rows[r].status, "closing", job[r], asked[r], up)
        /\ rows[r].status \notin {"queued", "running"}
    BY <1>0, <2>1 DEF Fits
  <2>3. QED
    BY <2>1, <2>2, OneRunSteps DEF DriverStates
<1>9. CASE BackendClosed(r)
  <2>1. UNCHANGED <<rows, job, asked, up>> /\ driver' = DriverGone(rows', r)
        /\ driver[r] = "closing"
    BY <1>9 DEF BackendClosed, requests
  <2>2. Fits(rows[r].status, "none", job[r], asked[r], up) /\ up
        /\ rows[r].status \notin {"queued", "running"}
    BY <1>0, <2>1 DEF Fits
  <2>3. QED
    BY <2>1, <2>2, OneRunSteps DEF DriverStates
<1>10. QED
  BY <1>1, <1>2, <1>3, <1>4, <1>5, <1>6, <1>7, <1>8, <1>9 DEF DriverStep

\* Nor by a step of a job.
LEMMA JobKeepsFit ==
  ASSUME ServerSound, NEW r \in Runs, JobStep(r)
  PROVE  FitsAlone'
<1>0. /\ rows \in [Runs -> Row] /\ job \in [Runs -> Job]
      /\ Fits(rows[r].status, driver[r], job[r], asked[r], up)
      /\ rows[r] \in Row /\ driver[r] \in DriverStates
      /\ driver = [driver EXCEPT ![r] = driver[r]]
      /\ UNCHANGED <<driver, up, asked>> /\ LoopStep(r)
  BY DEF ServerSound, JobSound, SoundStore, JobShape, ProcessShape, AllFit,
         JobStep, procVars, requests
<1>1. CASE Schedule(r) \/ Collect(r)
  <2>1. rows' = rows
    BY <1>1 DEF Schedule, Collect
  <2>2. ASSUME NEW s \in Runs
        PROVE  job'[s].active = job[s].active /\ job'[s].cancel = job[s].cancel
    <3>1. PICK k \in Job : /\ job' = [job EXCEPT ![r] = k]
                           /\ k.active = job[r].active /\ k.cancel = job[r].cancel
      <4>1. CASE Schedule(r)
        <5>1. job' = [job EXCEPT ![r] = Scheduled(job[r])]
          BY <1>0, <4>1 DEF Schedule, Scheduled
        <5>2. /\ Scheduled(job[r]) \in Job
              /\ Scheduled(job[r]).active = job[r].active
              /\ Scheduled(job[r]).cancel = job[r].cancel
          BY <1>0, <4>1, ScheduledFits DEF Schedule, Scheduled, Job
        <5>3. QED
          BY <5>1, <5>2
      <4>2. CASE Collect(r)
        <5> DEFINE k == [job[r] EXCEPT !.batch = DoneItems(job[r])]
        <5>1. job' = [job EXCEPT ![r] = k]
          BY <4>2 DEF Collect
        <5>2. k \in Job /\ k.active = job[r].active /\ k.cancel = job[r].cancel
          BY <1>0 DEF Job, DoneItems
        <5>3. QED
          BY <5>1, <5>2
      <4>3. QED
        BY <1>1, <4>1, <4>2
    <3>2. QED
      BY <1>0, <3>1
  <2>3. QED
    BY <1>0, <2>1, <2>2, QuietStep
<1>2. CASE RecordItem(r) \/ DropItem(r)
  <2>1. \A s \in Runs : rows'[s].status = rows[s].status
    <3>1. CASE RecordItem(r)
      <4>1. PICK out : rows' = [rows EXCEPT ![r] = Progressed(rows[r], out)]
        BY <1>0, <3>1 DEF RecordItem, RecordOutcome
      <4>2. Progressed(rows[r], out).status = rows[r].status
        BY <1>0 DEF Progressed, Row
      <4>3. QED
        BY <1>0, <4>1, <4>2
    <3>2. CASE DropItem(r)
      BY <3>2 DEF DropItem
    <3>3. QED
      BY <1>2, <3>1, <3>2
  <2>2. \A s \in Runs : job'[s].active = job[s].active /\ job'[s].cancel = job[s].cancel
    <3>1. PICK i, state, failed :
            job' = [job EXCEPT ![r] = Settled(job[r], i, state, failed)]
      BY <1>2 DEF RecordItem, DropItem
    <3>2. /\ Settled(job[r], i, state, failed).active = job[r].active
          /\ Settled(job[r], i, state, failed).cancel = job[r].cancel
      BY <1>0, SettlingKeepsRequests
    <3>3. QED
      BY <1>0, <3>1, <3>2
  <2>3. QED
    BY <1>0, <2>1, <2>2, QuietStep
<1>3. CASE Finish(r)
  <2>1. /\ rows' = [rows EXCEPT ![r] = EndedRow(rows[r], outcomes[r], job[r])]
        /\ job' = [job EXCEPT ![r].active = FALSE]
        /\ job[r].active
    BY <1>0, <1>3 DEF Finish, AtLoopTop
  <2>2. rows[r].status = "running" /\ driver[r] = "measuring"
    BY <1>0, <2>1 DEF Fits
  <2>3. /\ rows'[r].status \in Terminal
        /\ job[r].cancel => rows'[r].status \in {"failed", "cancelled"}
    BY <1>0, <2>1, <2>2, EndOfRunningRow DEF ServerSound
  <2>4. \A s \in Runs \ {r} : rows'[s] = rows[s] /\ job'[s] = job[s]
    BY <1>0, <2>1
  <2>5. ~job'[r].active /\ job'[r].cancel = job[r].cancel
    BY <1>0, <2>1 DEF Job
  <2>6. Fits(rows'[r].status, "measuring", job'[r], asked[r], up)
    BY <1>0, <2>1, <2>2, <2>3, <2>5 DEF Fits, Terminal, ServerSound, ProcessShape
  <2>7. QED
    BY <1>0, <2>2, <2>3, <2>4, <2>6, OneRunSteps DEF Terminal
<1>4. QED
  BY <1>0, <1>1, <1>2, <1>3 DEF LoopStep

\* Nor by a search that ends.
LEMMA SearchKeepsFit ==
  ASSUME ServerSound, NEW r \in Runs, NEW i \in Items, SearchEnds(r, i)
  PROVE  FitsAlone'
<1>1. job \in [Runs -> Job]
  BY DEF ServerSound, JobSound, JobShape
<1>2. /\ UNCHANGED <<rows, driver, up, asked>>
      /\ \A s \in Runs : job'[s].active = job[s].active /\ job'[s].cancel = job[s].cancel
  BY <1>1 DEF SearchEnds, ExecutorReturns, procVars, requests, Job
<1>3. QED
  BY <1>2, QuietStep

\* A request creates a run only where none is active, so it may take the slot.
LEMMA CreateKeepsFit ==
  ASSUME ServerSound, NEW r \in Runs, CreateEvalRun(r)
  PROVE  FitsAlone'
<1>0. /\ rows \in [Runs -> Row] /\ driver \in [Runs -> DriverStates]
      /\ Fits(rows[r].status, driver[r], job[r], asked[r], up)
  BY DEF ServerSound, JobSound, SoundStore, ProcessShape, AllFit
<1>1. /\ rows[r].status = "absent" /\ rows' = [rows EXCEPT ![r] = QueuedRow]
      /\ driver' = [driver EXCEPT ![r] = "scheduled"]
      /\ UNCHANGED <<job, up, asked>> /\ up
      /\ \A s \in Runs : rows[s].status \notin {"queued", "running"}
  BY DEF CreateEvalRun, CreateRun, requests, ActiveRuns, WithStatus
<1>2. QueuedRow.status = "queued"
  BY NoRowIsTyped DEF QueuedRow, Row
<1>3. /\ rows'[r].status = "queued" /\ driver'[r] = "scheduled"
      /\ \A s \in Runs \ {r} : rows'[s] = rows[s] /\ driver'[s] = driver[s]
      /\ driver' \in [Runs -> DriverStates]
  BY <1>0, <1>1, <1>2 DEF DriverStates
<1>4. Fits("queued", "scheduled", job[r], asked[r], up)
  BY <1>0, <1>1 DEF Fits
<1>5. \A s \in Runs : Takes(rows', driver', s) => s = r
  BY <1>1, <1>3 DEF Takes
<1>6. ASSUME NEW s \in Runs
      PROVE  Fits(rows'[s].status, driver'[s], job'[s], asked'[s], up')
  <2>1. CASE s = r
    BY <1>1, <1>3, <1>4, <2>1
  <2>2. CASE s # r
    BY <1>1, <1>3, <2>2 DEF ServerSound, AllFit
  <2>3. QED
    BY <2>1, <2>2
<1>7. Alone(rows', driver')
  BY <1>5 DEF Alone
<1>8. QED
  BY <1>3, <1>6, <1>7 DEF FitsAlone, AllFit

\* A cancel ends a run nobody executes, and otherwise tells the job.
LEMMA CancelKeepsFit ==
  ASSUME ServerSound, NEW r \in Runs, CancelEvalRun(r) \/ CancelReaches(r)
  PROVE  FitsAlone'
<1>0. /\ rows \in [Runs -> Row] /\ job \in [Runs -> Job] /\ asked \in [Runs -> BOOLEAN]
      /\ Fits(rows[r].status, driver[r], job[r], asked[r], up)
      /\ rows[r] \in Row /\ driver[r] \in DriverStates
      /\ driver = [driver EXCEPT ![r] = driver[r]]
      /\ UNCHANGED <<driver, up>>
  BY DEF ServerSound, JobSound, SoundStore, JobShape, ProcessShape, AllFit,
         CancelEvalRun, CancelReaches, procVars
<1>1. CASE UNCHANGED <<rows, job, asked>>
  BY <1>0, <1>1, QuietStep
<1>2. CASE /\ ~job[r].active /\ rows[r].status \in {"queued", "running"}
           /\ MoveRun(r, "cancelled")
           /\ job' = job /\ asked' = [asked EXCEPT ![r] = TRUE]
  <2>1. rows'[r].status = "cancelled" /\ \A s \in Runs \ {r} : rows'[s] = rows[s]
    BY <1>0, <1>2, MovedHasStatus DEF MoveRun, TransitionRun
  <2>2. Fits("cancelled", driver[r], job[r], asked'[r], up)
    BY <1>0, <1>2 DEF Fits
  <2>3. \A s \in Runs \ {r} : job'[s] = job[s] /\ asked'[s] = asked[s]
    BY <1>0, <1>2
  <2>4. /\ \A s \in Runs \ {r} : rows'[s].status = rows[s].status
        /\ rows'[r].status \notin {"queued", "running"}
    BY <2>1
  <2>5. Fits(rows'[r].status, driver[r], job'[r], asked'[r], up)
    BY <1>2, <2>1, <2>2
  <2>6. /\ driver[r] \in DriverStates
        /\ driver' = [driver EXCEPT ![r] = driver[r]] /\ up' = up
    BY <1>0
  <2>7. QED
    BY <2>3, <2>4, <2>5, <2>6, OneRunSteps
<1>3. CASE /\ job[r].active /\ rows' = rows
           /\ job' = [job EXCEPT ![r].cancel = TRUE] /\ asked' = [asked EXCEPT ![r] = TRUE]
  <2>1. /\ job'[r].active /\ job'[r].cancel /\ asked'[r]
        /\ \A s \in Runs \ {r} : job'[s] = job[s] /\ asked'[s] = asked[s]
    BY <1>0, <1>3 DEF Job
  <2>2. rows[r].status = "running"
    BY <1>0, <1>3 DEF Fits
  <2>3. Fits(rows[r].status, driver[r], job'[r], asked'[r], up)
    BY <1>0, <1>3, <2>1, <2>2 DEF Fits
  <2>4. Takes(rows, driver, r)
    BY <2>2 DEF Takes
  <2>5. QED
    BY <1>0, <1>3, <2>1, <2>3, <2>4, OneRunSteps
<1>4. CASE CancelEvalRun(r)
  <2>1. rows[r].status = "queued" => ~job[r].active
    BY <1>0 DEF Fits
  <2>2. QED
    BY <1>1, <1>2, <1>4, <2>1 DEF CancelEvalRun
<1>5. CASE CancelReaches(r)
  BY <1>1, <1>2, <1>3, <1>5 DEF CancelReaches, Cancel
<1>6. QED
  BY <1>4, <1>5

\* Starting, shutting down, dying: a process that is down holds nothing, and
\* one that starts recovers the store before it gives the slot away.
LEMMA OutageKeepsFit ==
  ASSUME ServerSound, BeginShutdown \/ FinishShutdown \/ Crash
  PROVE  FitsAlone'
<1>0. job \in [Runs -> Job]
  BY DEF ServerSound, JobSound, JobShape
<1>1. CASE BeginShutdown
  <2>1. UNCHANGED <<rows, driver, up, asked>>
    BY <1>1 DEF BeginShutdown, Close, requests
  <2>2. ASSUME NEW s \in Runs
        PROVE  job'[s].active = job[s].active /\ (job[s].cancel => job'[s].cancel)
    <3>1. job'[s] = [job[s] EXCEPT !.cancel = job[s].cancel \/ job[s].active]
      BY <1>0, <1>1 DEF BeginShutdown, Close, ClosedJobs
    <3>2. QED
      BY <1>0, <3>1 DEF Job
  <2>3. QED
    BY <2>1, <2>2, QuietStep
<1>2. CASE FinishShutdown
  BY <1>2, DownStep DEF FinishShutdown, NoTasks
<1>3. CASE Crash
  <2>1. /\ up' = FALSE /\ driver' = [s \in Runs |-> "none"] /\ UNCHANGED <<rows, asked>>
        /\ job' = [s \in Runs |-> IdleJob]
    BY <1>3 DEF Crash, NoTasks
  <2>2. \A s \in Runs : ~job'[s].active
    BY <2>1 DEF IdleJob
  <2>3. QED
    BY <2>1, <2>2, DownStep
<1>4. QED
  BY <1>1, <1>2, <1>3

LEMMA StartKeepsFit ==
  ASSUME ServerSound, StartServer
  PROVE  FitsAlone'
<1>1. /\ rows' = InterruptedRows /\ UNCHANGED <<job, asked>> /\ ~up /\ up' = TRUE
      /\ driver' = Pumped(rows', driver)
      /\ driver \in [Runs -> DriverStates]
  BY DEF StartServer, requests, ServerSound, ProcessShape
<1>2. ASSUME NEW s \in Runs
      PROVE  /\ Fits(rows'[s].status, driver[s], job'[s], asked'[s], TRUE)
             /\ ~Takes(rows', driver, s)
  <2>1. rows'[s].status = IF rows[s].status = "running" THEN "interrupted" ELSE rows[s].status
    BY <1>1, RecoveredRows DEF ServerSound
  <2>2. Fits(rows[s].status, driver[s], job[s], asked[s], up)
    BY DEF ServerSound, AllFit
  <2>3. job'[s] = job[s] /\ asked'[s] = asked[s]
    BY <1>1
  <2>4. QED
    BY <1>1, <2>1, <2>2, <2>3 DEF Fits, Takes
<1>3. Alone(rows', driver)
  BY <1>2 DEF Alone
<1>4. PumpedAt(rows', driver, driver')
  BY <1>1, <1>3, PumpTakesTheFreeSlot DEF ServerSound
<1>5. QED
  BY <1>1, <1>2, <1>3, <1>4, PumpKeepsFits DEF FitsAlone

\* A command that runs while the server is down executes nothing.
LEMMA CliKeepsFit ==
  ASSUME ServerSound, NEW r \in Runs, CliDies(r)
  PROVE  FitsAlone'
<1>1. /\ rows' = [InterruptedRows EXCEPT ![r] = QueuedRow]
      /\ UNCHANGED <<job, asked, up, driver>> /\ ~up /\ rows[r].status = "absent"
  BY DEF CliDies, procVars, requests
<1>2. QueuedRow.status = "queued"
  BY NoRowIsTyped DEF QueuedRow, Row
<1>3. ASSUME NEW s \in Runs
      PROVE  /\ Fits(rows'[s].status, driver'[s], job'[s], asked'[s], up')
             /\ ~Takes(rows', driver', s)
  <2>1. \/ s = r /\ rows'[s].status = "queued"
        \/ s # r /\ rows'[s] = InterruptedRows[s]
    BY <1>1, <1>2 DEF InterruptedRows
  <2>2. rows'[s] = InterruptedRows[s] =>
          rows'[s].status = IF rows[s].status = "running" THEN "interrupted" ELSE rows[s].status
    BY RecoveredRows DEF ServerSound
  <2>3. Fits(rows[s].status, driver[s], job[s], asked[s], up)
    BY DEF ServerSound, AllFit
  <2>4. job'[s] = job[s] /\ asked'[s] = asked[s] /\ driver'[s] = driver[s]
    BY <1>1
  <2>5. QED
    BY <1>1, <2>1, <2>2, <2>3, <2>4 DEF Fits, Takes
<1>4. Alone(rows', driver')
  BY <1>3 DEF Alone
<1>5. QED
  BY <1>1, <1>3, <1>4 DEF FitsAlone, AllFit, ServerSound, ProcessShape

-----------------------------------------------------------------------------
(* All steps.                                                              *)

\* Every step keeps store and jobs sound and is a step of the life cycle.
LEMMA ServerStepsTheStore ==
  ASSUME ServerSound, [ServerNext]_serverVars
  PROVE  JobSound' /\ LifecycleStep
<1> DEFINE Goal == JobSound' /\ LifecycleStep
<1>0. /\ JobSound
      /\ rows \in [Runs -> Row] /\ job \in [Runs -> Job]
      /\ \A s \in Runs : Fits(rows[s].status, driver[s], job[s], asked[s], up)
  BY DEF ServerSound, JobSound, SoundStore, JobShape, AllFit
<1>1. CASE UNCHANGED jobVars
  BY <1>0, <1>1, ManagerStep
<1>2. ASSUME NEW r \in Runs, DriverStep(r) PROVE Goal
  <2>1. CASE DriverClaims(r) \/ Measures(r)
    <3>1. JobNext
      BY <2>1 DEF DriverClaims, Measures, JobNext
    <3>2. QED
      BY <1>0, <3>1, ManagerStep
  <2>2. CASE DriverFails(r)
    <3>1. /\ rows[r].status = "queued" /\ UNCHANGED <<outcomes, job>>
          /\ \/ rows' = [rows EXCEPT ![r] = MovedTo(MovedTo(rows[r], "running"), "failed")]
             \/ rows' = [rows EXCEPT ![r] = MovedTo(rows[r], "failed")]
      BY <2>2 DEF DriverFails
    <3>2. QED
      BY <1>0, <3>1, FailedRows, RowStep
  <2>3. CASE WarmUpFails(r)
    <3>1. rows' = [rows EXCEPT ![r] = FailedIfRunning(rows[r])] /\ UNCHANGED <<outcomes, job>>
      BY <1>0, <2>3 DEF WarmUpFails
    <3>2. CASE rows[r].status = "running"
      <4>1. rows' = [rows EXCEPT ![r] = MovedTo(rows[r], "failed")]
        BY <3>1, <3>2 DEF FailedIfRunning
      <4>2. QED
        BY <1>0, <3>1, <3>2, <4>1, FailedRows, RowStep
    <3>3. CASE rows[r].status # "running"
      <4>1. rows' = rows
        BY <1>0, <3>1, <3>3 DEF FailedIfRunning
      <4>2. QED
        BY <1>1, <3>1, <4>1 DEF jobVars
    <3>4. QED
      BY <3>2, <3>3
  <2>4. CASE UNCHANGED jobVars
    BY <1>1, <2>4
  <2>5. QED
    BY <1>2, <2>1, <2>2, <2>3, <2>4
       DEF DriverStep, DriverSkips, WarmUpStops, WarmUpSearches, DriverResumes,
           BackendClosed, jobVars
<1>3. ASSUME NEW r \in Runs, JobStep(r) PROVE Goal
  <2>1. JobNext
    BY <1>3 DEF JobStep, JobNext
  <2>2. QED
    BY <1>0, <2>1, ManagerStep
<1>4. ASSUME NEW r \in Runs, NEW i \in Items, SearchEnds(r, i) PROVE Goal
  <2>1. JobNext
    BY <1>4 DEF SearchEnds, JobNext
  <2>2. QED
    BY <1>0, <2>1, ManagerStep
<1>5. ASSUME NEW r \in Runs, CreateEvalRun(r) PROVE Goal
  <2>1. JobNext
    BY <1>5 DEF CreateEvalRun, JobNext
  <2>2. QED
    BY <1>0, <2>1, ManagerStep
<1>6. ASSUME NEW r \in Runs, CancelEvalRun(r) \/ CancelReaches(r) PROVE Goal
  <2>1. UNCHANGED jobVars \/ Cancel(r)
    <3>1. rows[r].status = "queued" => ~job[r].active
      BY <1>0 DEF Fits
    <3>2. QED
      BY <1>6, <3>1 DEF CancelEvalRun, CancelReaches, Cancel, jobVars
  <2>2. UNCHANGED jobVars \/ JobNext
    BY <2>1 DEF JobNext
  <2>3. QED
    BY <1>0, <1>1, <2>2, ManagerStep
<1>7. ASSUME NEW r \in Runs, CliDies(r) PROVE Goal
  <2>1. /\ rows' = [InterruptedRows EXCEPT ![r] = QueuedRow]
        /\ UNCHANGED <<outcomes, job>> /\ rows[r].status = "absent"
    BY <1>7 DEF CliDies
  <2>2. rows' = [s \in Runs |-> IF s \in {r} THEN QueuedRow ELSE InterruptedRows[s]]
    BY <2>1 DEF InterruptedRows
  <2>3. QED
    BY <1>0, <2>1, <2>2, RecoveryStep
<1>8. CASE StartServer
  <2>1. rows' = InterruptedRows /\ UNCHANGED <<outcomes, job>>
    BY <1>8 DEF StartServer
  <2> DEFINE created == {}
  <2>2. /\ created \in SUBSET Runs /\ \A s \in created : rows[s].status = "absent"
        /\ rows' = [s \in Runs |-> IF s \in created THEN QueuedRow ELSE InterruptedRows[s]]
    BY <2>1 DEF InterruptedRows
  <2> HIDE DEF created
  <2>3. QED
    BY <1>0, <2>1, <2>2, RecoveryStep
<1>9. CASE BeginShutdown
  <2>1. JobNext
    BY <1>9 DEF BeginShutdown, JobNext
  <2>2. QED
    BY <1>0, <2>1, ManagerStep
<1>10. CASE FinishShutdown
  BY <1>1, <1>10 DEF FinishShutdown, NoTasks, jobVars
<1>11. CASE Crash
  <2>1. UNCHANGED <<rows, outcomes>> /\ job' = [s \in Runs |-> IdleJob]
    BY <1>11 DEF Crash, NoTasks
  <2>2. JobSound'
    BY <1>0, <2>1, IdleJobIsTyped DEF JobSound, JobShape, SoundStore
  <2>3. QED
    BY <2>1, <2>2 DEF LifecycleStep, RunStays
<1>12. QED
  BY <1>1, <1>2, <1>3, <1>4, <1>5, <1>6, <1>7, <1>8, <1>9, <1>10, <1>11
     DEF ServerNext, serverVars, jobVars

\* Every step keeps the fit and the slot.
LEMMA ServerStepsTheProcess ==
  ASSUME ServerSound, [ServerNext]_serverVars
  PROVE  FitsAlone'
<1>1. CASE UNCHANGED serverVars
  BY <1>1 DEF serverVars, procVars, requests, ServerSound, FitsAlone, AllFit, ProcessShape
<1>2. CASE ServerNext
  BY <1>2, DriverKeepsFit, JobKeepsFit, SearchKeepsFit, CreateKeepsFit, CancelKeepsFit,
     CliKeepsFit, StartKeepsFit, OutageKeepsFit
     DEF ServerNext
<1>3. QED
  BY <1>1, <1>2

\* A new stamp is a number, and there remain finitely many.
LEMMA StampsStayFinite ==
  ASSUME ProcessShape, NEW r \in Runs, born' = Stamped(r)
  PROVE  born' \in [Runs -> Nat] /\ IsFiniteSet({s \in Runs : born'[s] > 0})
<1> DEFINE stamped == {s \in Runs : born[s] > 0}
<1>1. IsFiniteSet(stamped) /\ Cardinality(stamped) \in Nat
  BY FS_CardinalityType DEF ProcessShape
<1>2. born' = [born EXCEPT ![r] = 1 + Cardinality(stamped)]
  BY DEF Stamped
<1> HIDE DEF stamped
<1>3. born' \in [Runs -> Nat]
  BY <1>1, <1>2 DEF ProcessShape
<1>4. \A s \in Runs : born'[s] > 0 => born[s] > 0 \/ s = r
  BY <1>2 DEF ProcessShape
<1>5. {s \in Runs : born'[s] > 0} \subseteq stamped \union {r}
  BY <1>4 DEF stamped
<1>6. IsFiniteSet(stamped \union {r})
  BY <1>1, FS_AddElement
<1>7. QED
  BY <1>3, <1>5, <1>6, FS_Subset

\* The variables of the process keep their shape.
LEMMA ProcessKeepsShape ==
  ASSUME ServerSound, [ServerNext]_serverVars
  PROVE  ProcessShape'
<1>0. ProcessShape /\ driver' \in [Runs -> DriverStates]
  BY ServerStepsTheProcess DEF ServerSound, FitsAlone
<1>1. CASE UNCHANGED <<warm, born, asked, up>>
  BY <1>0, <1>1 DEF ProcessShape
<1>2. ASSUME NEW r \in Runs, DriverStep(r) PROVE ProcessShape'
  <2>1. /\ UNCHANGED <<born, asked, up>>
        /\ \/ UNCHANGED warm
           \/ warm' = [warm EXCEPT ![r] = 0]
           \/ warm' = [warm EXCEPT ![r] = warm[r] + 1]
    BY <1>0, <1>2
       DEF DriverStep, DriverSkips, DriverClaims, DriverFails, WarmUpStops, WarmUpSearches,
           WarmUpFails, Measures, DriverResumes, BackendClosed, requests, ProcessShape
  <2>2. warm' \in [Runs -> Nat]
    BY <1>0, <2>1 DEF ProcessShape
  <2>3. QED
    BY <1>0, <2>1, <2>2 DEF ProcessShape
<1>3. ASSUME NEW r \in Runs, CreateEvalRun(r) \/ CliDies(r) PROVE ProcessShape'
  <2>1. UNCHANGED <<warm, asked, up>> /\ born' = Stamped(r)
    BY <1>3 DEF CreateEvalRun, CliDies, procVars, requests
  <2>2. QED
    BY <1>0, <2>1, StampsStayFinite DEF ProcessShape
<1>4. ASSUME NEW r \in Runs, CancelEvalRun(r) \/ CancelReaches(r) PROVE ProcessShape'
  <2>1. UNCHANGED <<warm, born, up>> /\ asked' \in [Runs -> BOOLEAN]
    BY <1>0, <1>4 DEF CancelEvalRun, CancelReaches, procVars, ProcessShape
  <2>2. QED
    BY <1>0, <2>1 DEF ProcessShape
<1>5. CASE StartServer \/ FinishShutdown \/ Crash
  <2>1. /\ up' \in BOOLEAN /\ UNCHANGED <<born, asked>>
        /\ warm' = warm \/ warm' = [s \in Runs |-> 0]
    BY <1>5 DEF StartServer, FinishShutdown, Crash, NoTasks, requests
  <2>2. warm' \in [Runs -> Nat]
    BY <1>0, <2>1 DEF ProcessShape
  <2>3. QED
    BY <1>0, <2>1, <2>2 DEF ProcessShape
<1>6. QED
  BY <1>1, <1>2, <1>3, <1>4, <1>5
     DEF ServerNext, serverVars, procVars, requests, JobStep, SearchEnds, BeginShutdown

-----------------------------------------------------------------------------
(* The theorems.                                                           *)

\* A process that was never started is sound.
LEMMA ServerInitIsSound == ServerInit => ServerSound
<1> SUFFICES ASSUME ServerInit PROVE ServerSound
  OBVIOUS
<1>1. JobSound
  BY JobInitIsSound DEF ServerInit
<1>2. \A s \in Runs : born[s] = 0
  BY DEF ServerInit
<1>3. {s \in Runs : born[s] > 0} = {}
  BY <1>2
<1>4. ProcessShape
  BY <1>3, FS_EmptySet DEF ServerInit, ProcessShape, DriverStates
<1>5. \A s \in Runs : rows[s].status = "absent" /\ driver[s] = "none" /\ ~asked[s] /\ ~job[s].active
  BY DEF ServerInit, JobInit, StoreInit, NoRow, IdleJob
<1>6. AllFit /\ Alone(rows, driver)
  BY <1>5 DEF AllFit, Fits, Alone, Takes, ServerInit
<1>7. QED
  BY <1>1, <1>4, <1>6 DEF ServerSound

LEMMA ServerStaysSound == ServerSound /\ [ServerNext]_serverVars => ServerSound'
BY ServerStepsTheStore, ServerStepsTheProcess, ProcessKeepsShape DEF ServerSound, FitsAlone

\* Whatever requests, searches, outages and commands do: the store is sound,
\* row, driver, job and request of each run fit, one run takes the slot.
THEOREM ServerIsSound == ServerSpec => []ServerSound
BY ServerInitIsSound, ServerStaysSound, PTL DEF ServerSpec

\* One run is executed at a time, in its row and in its job, also while a
\* cancelled run still finishes a search beside the next one.
THEOREM OneRunIsExecuted == ServerSpec => []OneRunExecutes
<1>1. ASSUME ServerSound PROVE OneRunExecutes
  <2>1. \A r, s \in Runs : rows[r].status = "running" /\ rows[s].status = "running" => r = s
    BY <1>1 DEF ServerSound, Alone, Takes
  <2>2. \A r \in Runs : job[r].active => rows[r].status = "running"
    BY <1>1 DEF ServerSound, AllFit, Fits
  <2>3. Cardinality(WithStatus("running")) <= 1
    BY <2>1, AtMostOne DEF WithStatus
  <2>4. Cardinality({r \in Runs : job[r].active}) <= 1
    BY <2>1, <2>2, AtMostOne
  <2>5. QED
    BY <2>3, <2>4 DEF OneRunExecutes, MaxActiveRuns
<1>2. QED
  BY <1>1, ServerIsSound, PTL

\* While the process lives every running row has a service at work on it.
THEOREM RunningRunsAreServed == ServerSpec => []RunningRunHasItsService
<1>1. ServerSound => RunningRunHasItsService
  BY DEF ServerSound, AllFit, Fits, RunningRunHasItsService, WithStatus
<1>2. QED
  BY <1>1, ServerIsSound, PTL

\* A run that a cancel reached never completes, not after a restart either.
THEOREM CancelsAreFinal == ServerSpec => []CancelledRunNeverCompletes
<1>1. ServerSound => CancelledRunNeverCompletes
  BY DEF ServerSound, AllFit, Fits, CancelledRunNeverCompletes
<1>2. QED
  BY <1>1, ServerIsSound, PTL

\* Requests, crashes, restarts and commands included, the server implements
\* the abstract life cycle.
THEOREM ServerRefinesLifecycle == ServerSpec => ServerImplementsLifecycle
<1>1. ServerInit => Abstract!Init
  BY DEF ServerInit, JobInit, StoreInit, Abstract!Init, NoRow, NoOutcomes
<1>2. ServerSound /\ [ServerNext]_serverVars => [Abstract!Next]_(Abstract!vars)
  BY ServerStepsTheStore, RunStepsAreLifecycleSteps DEF LifecycleStep
<1>3. QED
  BY <1>1, <1>2, ServerIsSound, PTL DEF ServerSpec, ServerImplementsLifecycle, Abstract!Spec

-----------------------------------------------------------------------------
(* Searches.                                                               *)

BatchesHold == \A r \in Runs : BatchHolds(job[r])

\* Jobs change by the steps of the manager, or are lost with the process.
LEMMA ServerStepsTheJobs ==
  ASSUME ServerSound, [ServerNext]_serverVars
  PROVE  UNCHANGED job \/ [JobNext]_jobVars \/ job' = [r \in Runs |-> IdleJob]
<1>0. \A r \in Runs : Fits(rows[r].status, driver[r], job[r], asked[r], up)
  BY DEF ServerSound, AllFit
<1>1. ASSUME NEW r \in Runs, DriverStep(r) PROVE UNCHANGED job \/ JobNext
  BY <1>1 DEF DriverStep, DriverSkips, DriverClaims, DriverFails, WarmUpStops, WarmUpSearches,
              WarmUpFails, Measures, DriverResumes, BackendClosed, JobNext
<1>2. ASSUME NEW r \in Runs, JobStep(r) PROVE JobNext
  BY <1>2 DEF JobStep, JobNext
<1>3. ASSUME NEW r \in Runs, NEW i \in Items, SearchEnds(r, i) PROVE JobNext
  BY <1>3 DEF SearchEnds, JobNext
<1>4. ASSUME NEW r \in Runs, CreateEvalRun(r) \/ CancelEvalRun(r) \/ CliDies(r)
      PROVE  UNCHANGED job
  BY <1>4 DEF CreateEvalRun, CancelEvalRun, CliDies
<1>5. ASSUME NEW r \in Runs, CancelReaches(r) PROVE UNCHANGED job \/ JobNext
  BY <1>5 DEF CancelReaches, JobNext
<1>6. BeginShutdown => JobNext
  BY DEF BeginShutdown, JobNext
<1>7. QED
  BY <1>1, <1>2, <1>3, <1>4, <1>5, <1>6
     DEF ServerNext, serverVars, StartServer, FinishShutdown, Crash

\* Batches hold results across all of them.
LEMMA ServerKeepsBatches ==
  ASSUME ServerSound, BatchesHold, [ServerNext]_serverVars
  PROVE  BatchesHold'
<1>1. JobShape
  BY DEF ServerSound, JobSound
<1>2. CASE [JobNext]_jobVars
  BY <1>1, <1>2, OnlySchedulingStarts DEF BatchesHold
<1>3. CASE UNCHANGED job
  BY <1>3 DEF BatchesHold
<1>4. CASE job' = [r \in Runs |-> IdleJob]
  BY <1>4, NewJobIsQuiet DEF BatchesHold
<1>5. QED
  BY <1>2, <1>3, <1>4, ServerStepsTheJobs

\* The searches of a run that was asked to stop are neither warm-up searches,
\* which need a running row without a job, nor items, which need a job that
\* does not know.
LEMMA AskedRunStartsNothing ==
  ASSUME ServerSound, BatchesHold, [ServerNext]_serverVars, NEW r \in Runs, asked[r]
  PROVE  Searches(r)' <= Searches(r)
<1>0. /\ Fits(rows[r].status, driver[r], job[r], asked[r], up)
      /\ warm \in [Runs -> Nat] /\ warm' \in [Runs -> Nat]
      /\ JobShape
  BY ProcessKeepsShape DEF ServerSound, AllFit, ProcessShape, JobSound
<1>1. warm'[r] <= warm[r]
  <2>1. CASE warm' = warm
    BY <1>0, <2>1
  <2>2. ASSUME NEW s \in Runs, DriverStep(s) PROVE warm'[r] <= warm[r]
    <3>1. CASE WarmUpSearches(s)
      <4>1. s # r
        BY <1>0, <3>1 DEF WarmUpSearches, Fits
      <4>2. QED
        BY <1>0, <3>1, <4>1 DEF WarmUpSearches
    <3>2. CASE DriverClaims(s)
      BY <1>0, <3>2 DEF DriverClaims
    <3>3. QED
      BY <2>1, <2>2, <3>1, <3>2
         DEF DriverStep, DriverSkips, DriverFails, WarmUpStops, WarmUpFails, Measures,
             DriverResumes, BackendClosed
  <2>3. CASE NoTasks
    BY <1>0, <2>3 DEF NoTasks
  <2>4. QED
    BY <2>1, <2>2, <2>3
       DEF ServerNext, serverVars, procVars, JobStep, SearchEnds, CreateEvalRun,
           CancelEvalRun, CliDies, CancelReaches, StartServer, BeginShutdown,
           FinishShutdown, Crash
<1>2. Started(job'[r]) \subseteq Started(job[r])
  <2>1. CASE [JobNext]_jobVars
    <3>1. ~(AtLoopTop(job[r]) /\ MaySchedule(job[r]))
      BY <1>0 DEF Fits, AtLoopTop, MaySchedule
    <3>2. QED
      BY <1>0, <2>1, <3>1, OnlySchedulingStarts DEF BatchesHold
  <2>2. CASE UNCHANGED job
    BY <2>2
  <2>3. CASE job' = [s \in Runs |-> IdleJob]
    BY <2>3, NewJobIsQuiet
  <2>4. QED
    BY <2>1, <2>2, <2>3, ServerStepsTheJobs
<1>3. IsFiniteSet(Started(job[r]))
  BY ItemsAreNaturals, FS_Subset DEF Started
<1>4. /\ Cardinality(Started(job'[r])) <= Cardinality(Started(job[r]))
      /\ Cardinality(Started(job[r])) \in Nat /\ Cardinality(Started(job'[r])) \in Nat
  BY <1>2, <1>3, FS_Subset, FS_CardinalityType
<1>5. /\ Searches(r) = warm[r] + Cardinality(Started(job[r]))
      /\ Searches(r)' = warm'[r] + Cardinality(Started(job'[r]))
  BY DEF Searches, Started
<1>6. QED
  BY <1>0, <1>1, <1>4, <1>5

\* A cancel that reached its run schedules no further search.
THEOREM CancelsStopSearches == ServerSpec => NoSearchAfterCancel
<1>1. ServerInit => BatchesHold
  BY NewJobIsQuiet DEF ServerInit, JobInit, BatchesHold
<1>2. ServerSound /\ BatchesHold /\ [ServerNext]_serverVars =>
        [\A r \in Runs : asked[r] => Searches(r)' <= Searches(r)]_serverVars
  BY AskedRunStartsNothing
<1>3. ServerSound /\ BatchesHold /\ [ServerNext]_serverVars => BatchesHold'
  BY ServerKeepsBatches
<1>4. QED
  BY <1>1, <1>2, <1>3, ServerIsSound, PTL DEF ServerSpec, NoSearchAfterCancel

=============================================================================
