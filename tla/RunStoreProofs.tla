--------------------------- MODULE RunStoreProofs ---------------------------
(***************************************************************************)
(* The invariants of RunStore for every number of runs, configs and        *)
(* queries, and its implementation of RunLifecycle.                        *)
(*                                                                         *)
(* The four invariants support each other, so what is inductive is their   *)
(* conjunction.  It speaks of each run alone: SoundRow is its part for one *)
(* row and the outcomes of that run, the lemmas show that every update of  *)
(* a row keeps the row sound, and the actions apply one of those updates   *)
(* to one run (recovery to several).                                       *)
(***************************************************************************)
EXTENDS RunStore, FiniteSetTheorems, TLAPS

OutcomeMaps == [Attempts -> Results \union {"none"}]

SoundRow(row, out) ==
  /\ row \in Row
  /\ out \in OutcomeMaps
  /\ row.completed = CompletedCount(out)
  /\ row.status = "completed" =>
       /\ \A a \in Attempts : out[a] # "none"
       /\ row.summaries = SummariesOf(out)
  /\ (\E a \in Attempts : out[a] # "none") => row.started
  /\ row.status \in {"running", "completed", "interrupted"} => row.started
  /\ row.status \in {"absent", "queued"} => ~row.started
  /\ row.ended <=> row.status \in Terminal
  /\ row.error <=> row.status = "failed"

SoundStore ==
  /\ rows \in [Runs -> Row]
  /\ outcomes \in [Runs -> OutcomeMaps]
  /\ \A r \in Runs : SoundRow(rows[r], outcomes[r])

-----------------------------------------------------------------------------
(* Counting.                                                               *)

\* A count of queries is a number between zero and the size of the query set.
LEMMA CountsAreBounded ==
  /\ Total \in Nat /\ Total > 0
  /\ \A S \in SUBSET Queries : Cardinality(S) \in Nat /\ Cardinality(S) <= Total
<1>1. IsFiniteSet(Queries) /\ Queries # {}
  BY StoreAssumption
<1>2. Total \in Nat
  BY <1>1, FS_CardinalityType DEF Total
<1>3. Total # 0
  BY <1>1, FS_EmptySet DEF Total
<1>4. ASSUME NEW S \in SUBSET Queries
      PROVE  Cardinality(S) \in Nat /\ Cardinality(S) <= Total
  <2>1. IsFiniteSet(S) /\ Cardinality(S) <= Total
    BY <1>1, FS_Subset DEF Total
  <2>2. QED
    BY <2>1, FS_CardinalityType
<1>5. QED
  BY <1>2, <1>3, <1>4

\* The progress of any outcome map is a number.
LEMMA ProgressIsNatural ==
  ASSUME NEW out
  PROVE  CompletedCount(out) \in Nat
<1>1. Covered(out) \in SUBSET Queries
  BY DEF Covered
<1>2. QED
  BY <1>1, CountsAreBounded DEF CompletedCount

\* Progress is full only when every config has an outcome for every query:
\* the completion guard of _transition_row looks at the number alone.
LEMMA FullProgressIsFullCoverage ==
  ASSUME NEW out, CompletedCount(out) = Total
  PROVE  \A a \in Attempts : out[a] # "none"
<1>1. Covered(out) \in SUBSET Queries
  BY DEF Covered
<1>2. Covered(out) = Queries
  BY <1>1, FS_Subset, StoreAssumption DEF CompletedCount, Total
<1>3. QED
  BY <1>2 DEF Covered, Attempts

\* The tallies of an outcome map are well-formed summaries.
LEMMA SummariesAreTallies ==
  ASSUME NEW out
  PROVE  SummariesOf(out) \in [Configs -> Tally]
<1>1. ASSUME NEW c \in Configs, NEW result
      PROVE  Counted(out, c, result) \in Nat
  BY CountsAreBounded DEF Counted
<1>2. QED
  BY <1>1 DEF SummariesOf, Tally

\* The tallies of the outcomes are among the summaries a caller may pass.
LEMMA SummariesArePossible ==
  ASSUME NEW out
  PROVE  SummariesOf(out) \in Summaries
<1>1. ASSUME NEW c \in Configs, NEW result
      PROVE  Counted(out, c, result) \in 0..Total
  <2>1. Counted(out, c, result) \in Nat /\ Counted(out, c, result) <= Total
    BY CountsAreBounded DEF Counted
  <2>2. QED
    BY <2>1, CountsAreBounded
<1>2. QED
  BY <1>1 DEF SummariesOf, Summaries

\* What a caller passes has the shape of what a row keeps.
LEMMA PassedSummariesAreTallies ==
  ASSUME NEW summaries \in Summaries
  PROVE  summaries \in [Configs -> Tally]
<1>1. Total \in Nat
  BY StoreAssumption, FS_CardinalityType DEF Total
<1>2. QED
  BY <1>1 DEF Summaries, Tally

-----------------------------------------------------------------------------
(* Rows.                                                                   *)

\* Without outcomes there is no progress.
LEMMA NothingRecordedIsNoProgress ==
  ASSUME NEW out, \A a \in Attempts : out[a] = "none"
  PROVE  CompletedCount(out) = 0
<1>1. Covered(out) = {}
  BY StoreAssumption DEF Covered, Attempts
<1>2. QED
  BY <1>1, FS_EmptySet DEF CompletedCount

\* The row of a run that was never created has the shape of a row.
LEMMA NoRowIsTyped == NoRow \in Row
<1>1. NoSummaries \in [Configs -> Tally]
  BY DEF NoSummaries, Tally
<1>2. QED
  BY <1>1 DEF NoRow, Row, Statuses

\* And it is sound: no outcome, no progress, no column set.
LEMMA NoRowIsSound == SoundRow(NoRow, NoOutcomes)
<1>1. NoOutcomes \in OutcomeMaps /\ \A a \in Attempts : NoOutcomes[a] = "none"
  BY DEF NoOutcomes, OutcomeMaps
<1>2. CompletedCount(NoOutcomes) = 0
  BY <1>1, NothingRecordedIsNoProgress
<1>3. QED
  BY <1>1, <1>2, NoRowIsTyped DEF SoundRow, NoRow, Terminal

\* Only a row that is absent is created, and it holds no outcome.
LEMMA QueuedRowIsSound ==
  ASSUME NEW row, NEW out, SoundRow(row, out), row.status = "absent"
  PROVE  SoundRow(QueuedRow, out)
<1>1. ~row.started /\ \A a \in Attempts : out[a] = "none"
  BY DEF SoundRow
<1>2. CompletedCount(out) = 0
  BY <1>1, NothingRecordedIsNoProgress
<1>3. /\ QueuedRow \in Row
      /\ QueuedRow.status = "queued"
      /\ QueuedRow.completed = 0
      /\ ~QueuedRow.started /\ ~QueuedRow.ended /\ ~QueuedRow.error
  BY NoRowIsTyped DEF QueuedRow, NoRow, Row, Statuses
<1>4. QED
  BY <1>1, <1>2, <1>3 DEF SoundRow, Terminal

\* A row that moves along an allowed edge, other than to completed, stays sound.
LEMMA MovedRowIsSound ==
  ASSUME NEW row, NEW out, SoundRow(row, out), NEW summaries \in [Configs -> Tally],
         NEW target, target # "completed", MayMove(row, target)
  PROVE  SoundRow(Moved(row, target, summaries), out)
<1>1. /\ row.status \in {"queued", "running"}
      /\ target \in {"running", "failed", "cancelled", "interrupted"}
      /\ target = "interrupted" => row.status = "running"
  BY DEF MayMove, Allowed, Terminal
<1> DEFINE new == Moved(row, target, summaries)
<1>2. /\ new \in Row
      /\ new.status = target
      /\ new.completed = row.completed
      /\ new.started <=> (row.started \/ target = "running")
      /\ new.ended <=> (row.ended \/ target \in Terminal)
      /\ new.error <=> target = "failed"
  BY <1>1 DEF SoundRow, Row, Moved, Statuses, Terminal
<1> HIDE DEF new
<1>3. SoundRow(new, out)
  BY <1>1, <1>2 DEF SoundRow, Terminal
<1>4. QED
  BY <1>3 DEF new

\* The same, when the row keeps the summaries it has.
LEMMA RowMovedAloneIsSound ==
  ASSUME NEW row, NEW out, SoundRow(row, out),
         NEW target, target # "completed", MayMove(row, target)
  PROVE  SoundRow(MovedTo(row, target), out)
<1>1. row.summaries \in [Configs -> Tally]
  BY DEF SoundRow, Row
<1>2. QED
  BY <1>1, MovedRowIsSound DEF MovedTo

\* A run that completes is covered, and keeps the tallies that were compared
\* with its outcomes.
LEMMA CompletedRowIsSound ==
  ASSUME NEW row, NEW out, SoundRow(row, out),
         NEW summaries, ValidSummaries(out, summaries), MayMove(row, "completed")
  PROVE  SoundRow(Moved(row, "completed", summaries), out)
<1>1. row.status = "running" /\ row.completed = Total
  BY DEF MayMove, Allowed
<1>2. \A a \in Attempts : out[a] # "none"
  BY <1>1, FullProgressIsFullCoverage DEF SoundRow
<1>3. summaries = SummariesOf(out) /\ summaries \in [Configs -> Tally]
  BY SummariesAreTallies DEF ValidSummaries
<1> DEFINE new == Moved(row, "completed", summaries)
<1>4. /\ new \in Row
      /\ new.status = "completed"
      /\ new.completed = row.completed
      /\ new.summaries = summaries
      /\ new.started <=> row.started
      /\ new.ended
      /\ ~new.error
  BY <1>1, <1>3 DEF SoundRow, Row, Moved, Statuses, Terminal
<1> HIDE DEF new
<1>5. SoundRow(new, out)
  BY <1>1, <1>2, <1>3, <1>4 DEF SoundRow, Terminal
<1>6. QED
  BY <1>5 DEF new

\* Recording an outcome recomputes the progress of the row and nothing else.
LEMMA RecordedRowIsSound ==
  ASSUME NEW row, NEW out, SoundRow(row, out), row.status = "running",
         NEW a \in Attempts, NEW result \in Results
  PROVE  SoundRow(Progressed(row, Upserted(out, a, result)), Upserted(out, a, result))
<1> DEFINE out2 == Upserted(out, a, result)
           new == Progressed(row, out2)
<1>1. out2 \in OutcomeMaps
  BY DEF SoundRow, OutcomeMaps, Upserted
<1>2. CompletedCount(out2) \in Nat
  BY ProgressIsNatural
<1> HIDE DEF out2
<1>3. /\ new \in Row
      /\ new.completed = CompletedCount(out2)
      /\ new.status = "running"
      /\ new.summaries = row.summaries
      /\ new.started = row.started /\ new.ended = row.ended /\ new.error = row.error
  BY <1>2 DEF SoundRow, Row, Progressed
<1> HIDE DEF new
<1>4. SoundRow(new, out2)
  BY <1>1, <1>3 DEF SoundRow, Terminal
<1>5. QED
  BY <1>4 DEF new, out2

-----------------------------------------------------------------------------
(* The store.                                                              *)

\* One run's row is replaced by a sound one, and no outcome is touched.
LEMMA OneRowReplaced ==
  ASSUME SoundStore, NEW r \in Runs, NEW row, SoundRow(row, outcomes[r]),
         rows' = [rows EXCEPT ![r] = row], UNCHANGED outcomes
  PROVE  SoundStore'
<1>1. row \in Row
  BY DEF SoundRow
<1>2. rows' \in [Runs -> Row] /\ outcomes' \in [Runs -> OutcomeMaps]
  BY <1>1 DEF SoundStore
<1>3. ASSUME NEW s \in Runs PROVE SoundRow(rows'[s], outcomes'[s])
  <2>1. CASE s = r
    BY <2>1 DEF SoundStore
  <2>2. CASE s # r
    BY <2>2 DEF SoundStore
  <2>3. QED
    BY <2>1, <2>2
<1>4. QED
  BY <1>2, <1>3 DEF SoundStore

\* An empty store is sound.
LEMMA StoreInitIsSound == StoreInit => SoundStore
BY NoRowIsSound DEF StoreInit, SoundStore, SoundRow

\* Every method of the repository keeps the store sound.
LEMMA StoreStepIsSound == SoundStore /\ [StoreNext]_storeVars => SoundStore'
<1> SUFFICES ASSUME SoundStore, [StoreNext]_storeVars
             PROVE  SoundStore'
  OBVIOUS
<1> USE DEF SoundStore
<1>1. ASSUME NEW r \in Runs, CreateRun(r) PROVE SoundStore'
  BY <1>1, QueuedRowIsSound, OneRowReplaced DEF CreateRun
<1>2. ASSUME NEW r \in Runs, ClaimQueuedRun(r) PROVE SoundStore'
  <2>1. MayMove(rows[r], "running")
    BY <1>2 DEF ClaimQueuedRun, MayMove, Allowed
  <2>2. SoundRow(MovedTo(rows[r], "running"), outcomes[r])
    BY <2>1, RowMovedAloneIsSound
  <2>3. QED
    BY <1>2, <2>2, OneRowReplaced DEF ClaimQueuedRun
<1>3. ASSUME NEW r \in Runs, NEW target \in Statuses, NEW summaries \in [Configs -> Tally],
             TransitionRun(r, target, summaries)
      PROVE  SoundStore'
  <2>1. SoundRow(Moved(rows[r], target, summaries), outcomes[r])
    BY <1>3, MovedRowIsSound DEF TransitionRun
  <2>2. QED
    BY <1>3, <2>1, OneRowReplaced DEF TransitionRun
<1>4. ASSUME NEW r \in Runs, NEW summaries, CompleteRun(r, summaries)
      PROVE  SoundStore'
  <2>1. SoundRow(Moved(rows[r], "completed", summaries), outcomes[r])
    BY <1>4, CompletedRowIsSound DEF CompleteRun
  <2>2. QED
    BY <1>4, <2>1, OneRowReplaced DEF CompleteRun
<1>5. ASSUME NEW r \in Runs, NEW a \in Attempts, NEW result \in Results,
             RecordOutcome(r, a, result)
      PROVE  SoundStore'
  <2>1. /\ outcomes'[r] = Upserted(outcomes[r], a, result)
        /\ rows'[r] = Progressed(rows[r], Upserted(outcomes[r], a, result))
        /\ \A s \in Runs \ {r} : rows'[s] = rows[s] /\ outcomes'[s] = outcomes[s]
    BY <1>5 DEF RecordOutcome
  <2>2. \A s \in Runs : SoundRow(rows'[s], outcomes'[s])
    BY <1>5, <2>1, RecordedRowIsSound DEF RecordOutcome
  <2>3. /\ rows' = [s \in Runs |-> rows'[s]]
        /\ outcomes' = [s \in Runs |-> outcomes'[s]]
    BY <1>5 DEF RecordOutcome
  <2>4. QED
    BY <2>2, <2>3 DEF SoundRow
<1>6. ASSUME InterruptStaleRuns PROVE SoundStore'
  <2>1. ASSUME NEW r \in Runs PROVE SoundRow(InterruptedRows[r], outcomes[r])
    <3>1. CASE rows[r].status = "running"
      <4>1. MayMove(rows[r], "interrupted")
        BY <3>1 DEF MayMove, Allowed, Terminal
      <4>2. QED
        BY <3>1, <4>1, RowMovedAloneIsSound DEF InterruptedRows
    <3>2. CASE rows[r].status # "running"
      BY <3>2 DEF InterruptedRows
    <3>3. QED
      BY <3>1, <3>2
  <2>2. /\ rows' = [r \in Runs |-> InterruptedRows[r]]
        /\ outcomes' = outcomes
    BY <1>6 DEF InterruptStaleRuns, InterruptedRows
  <2>3. QED
    BY <2>1, <2>2 DEF SoundRow
<1>7. CASE UNCHANGED storeVars
  BY <1>7 DEF storeVars
<1>8. ASSUME NEW r \in Runs, NEW target \in Statuses, MoveRun(r, target)
      PROVE  SoundStore'
  <2>1. rows[r].summaries \in [Configs -> Tally]
    BY DEF Row
  <2>2. QED
    BY <1>3, <1>8, <2>1 DEF MoveRun
<1>9. CASE ApplicationNext
  BY <1>1, <1>2, <1>4, <1>5, <1>6, <1>8, <1>9 DEF ApplicationNext
<1>10. QED
  BY <1>3, <1>7, <1>9, PassedSummariesAreTallies DEF StoreNext

\* The conjunction of the four invariants holds in every reachable state.
THEOREM StoreIsSound == StoreSpec => []SoundStore
BY StoreInitIsSound, StoreStepIsSound, PTL DEF StoreSpec

-----------------------------------------------------------------------------
(* The invariants of the runs.                                             *)

\* The rows and outcomes of the repository keep their shape.
THEOREM StoreTypeCorrect == StoreSpec => []StoreTypeOK
<1>1. SoundStore => StoreTypeOK
  BY DEF SoundStore, StoreTypeOK, OutcomeMaps
<1>2. QED
  BY <1>1, StoreIsSound, PTL

\* The progress column record_outcome maintains is always the number of fully
\* durable query groups.
THEOREM ProgressIsExact == StoreSpec => []ProgressMatchesOutcomes
<1>1. SoundStore => ProgressMatchesOutcomes
  BY DEF SoundStore, SoundRow, ProgressMatchesOutcomes
<1>2. QED
  BY <1>1, StoreIsSound, PTL

\* A completed run is fully covered by durable outcomes, and its summaries
\* still count exactly those, for any number of configs and queries.
THEOREM CompletionIsCovered == StoreSpec => []CompletionIsDurable
<1>1. SoundStore => CompletionIsDurable
  BY DEF SoundStore, SoundRow, CompletionIsDurable
<1>2. QED
  BY <1>1, StoreIsSound, PTL

\* Timestamps and error agree with the status of every row, whatever its
\* callers passed as summaries, and a run with outcomes has been started.
THEOREM LifecycleColumnsAreExact == StoreSpec => []LifecycleColumnsAgree
<1>1. SoundStore => LifecycleColumnsAgree
  BY DEF SoundStore, SoundRow, LifecycleColumnsAgree
<1>2. QED
  BY <1>1, StoreIsSound, PTL

-----------------------------------------------------------------------------
(* The store implements RunLifecycle.                                      *)

Durable(out) == {a \in Attempts : out[a] # "none"}

\* A step of the store is a step of the life cycle if each run stays, records
\* or moves; stated on the rows, for the actions to establish.
RunStays(r) ==
  /\ rows'[r].status = rows[r].status
  /\ Durable(outcomes'[r]) = Durable(outcomes[r])

RunRecords(r) ==
  /\ rows[r].status = "running"
  /\ rows'[r].status = "running"
  /\ \E a \in Attempts : Durable(outcomes'[r]) = Durable(outcomes[r]) \union {a}

RunMoves(r) ==
  /\ \/ rows[r].status = "absent" /\ rows'[r].status = "queued"
     \/ rows[r].status \in {"queued", "running"} /\ rows'[r].status \in Allowed(rows[r].status)
  /\ rows'[r].status = "completed" => Durable(outcomes[r]) = Attempts
  /\ Durable(outcomes'[r]) = Durable(outcomes[r])

\* Steps of the runs are steps of the life cycle.
LEMMA RunStepsAreLifecycleSteps ==
  ASSUME \A r \in Runs : RunStays(r) \/ RunRecords(r) \/ RunMoves(r)
  PROVE  Abstract!Next
<1> SUFFICES ASSUME NEW r \in Runs
             PROVE  Abstract!Stays(r) \/ Abstract!Records(r) \/ Abstract!Moves(r)
  BY DEF Abstract!Next
<1>1. CASE RunStays(r)
  BY <1>1 DEF RunStays, Abstract!Stays, Durable
<1>2. CASE RunRecords(r)
  BY <1>2 DEF RunRecords, Abstract!Records, Durable
<1>3. CASE RunMoves(r)
  <2>1. CASE rows[r].status = "absent"
    BY <1>3, <2>1 DEF RunMoves, Abstract!Moves, Abstract!Allowed, Durable, Allowed
  <2>2. CASE rows[r].status = "queued"
    BY <1>3, <2>2 DEF RunMoves, Abstract!Moves, Abstract!Allowed, Durable, Allowed
  <2>3. CASE rows[r].status = "running"
    BY <1>3, <2>3 DEF RunMoves, Abstract!Moves, Abstract!Allowed, Abstract!Terminal,
                      Durable, Allowed, Terminal
  <2>4. QED
    BY <1>3, <2>1, <2>2, <2>3 DEF RunMoves
<1>4. QED
  BY <1>1, <1>2, <1>3

\* An update of one run that leaves the outcomes alone.
LEMMA OneRunMoves ==
  ASSUME SoundStore, NEW r \in Runs, NEW row, UNCHANGED outcomes,
         rows' = [rows EXCEPT ![r] = row],
         \/ rows[r].status = "absent" /\ row.status = "queued"
         \/ rows[r].status \in {"queued", "running"} /\ row.status \in Allowed(rows[r].status),
         row.status = "completed" => Durable(outcomes[r]) = Attempts
  PROVE  \A s \in Runs : RunStays(s) \/ RunRecords(s) \/ RunMoves(s)
<1> TAKE s \in Runs
<1>1. rows'[s] = IF s = r THEN row ELSE rows[s]
  BY DEF SoundStore
<1>2. CASE s = r
  BY <1>1, <1>2 DEF RunMoves
<1>3. CASE s # r
  BY <1>1, <1>3 DEF RunStays
<1>4. QED
  BY <1>2, <1>3

\* The status of a moved row is the target, whatever its other columns.
LEMMA MovedHasStatus ==
  ASSUME NEW row \in Row, NEW target, NEW summaries
  PROVE  /\ Moved(row, target, summaries).status = target
         /\ MovedTo(row, target).status = target
BY DEF Row, Moved, MovedTo

\* Every method makes each run stay, record or move.
LEMMA StoreStepsAreRunSteps ==
  ASSUME SoundStore, StoreNext
  PROVE  \A s \in Runs : RunStays(s) \/ RunRecords(s) \/ RunMoves(s)
<1> DEFINE Goal == \A s \in Runs : RunStays(s) \/ RunRecords(s) \/ RunMoves(s)
<1>0. \A r \in Runs : rows[r] \in Row /\ outcomes[r] \in OutcomeMaps
  BY DEF SoundStore
<1>1. ASSUME NEW r \in Runs, CreateRun(r) PROVE Goal
  <2>1. QueuedRow.status = "queued"
    BY NoRowIsTyped DEF QueuedRow, Row
  <2>2. QED
    BY <1>1, <2>1, OneRunMoves DEF CreateRun
<1>2. ASSUME NEW r \in Runs, ClaimQueuedRun(r) PROVE Goal
  <2>1. MovedTo(rows[r], "running").status = "running"
    BY <1>0, MovedHasStatus
  <2>2. "running" \in Allowed(rows[r].status)
    BY <1>2 DEF ClaimQueuedRun, Allowed
  <2>3. QED
    BY <1>2, <2>1, <2>2, OneRunMoves DEF ClaimQueuedRun
<1>3. ASSUME NEW r \in Runs, NEW target \in Statuses, NEW summaries,
             TransitionRun(r, target, summaries)
      PROVE  Goal
  <2>1. Moved(rows[r], target, summaries).status = target
    BY <1>0, MovedHasStatus
  <2>2. /\ rows[r].status \in {"queued", "running"}
        /\ target \in Allowed(rows[r].status)
        /\ target # "completed"
    BY <1>3 DEF TransitionRun, MayMove, Allowed
  <2>3. QED
    BY <1>3, <2>1, <2>2, OneRunMoves DEF TransitionRun
<1>4. ASSUME NEW r \in Runs, NEW summaries, CompleteRun(r, summaries) PROVE Goal
  <2>1. Moved(rows[r], "completed", summaries).status = "completed"
    BY <1>0, MovedHasStatus
  <2>2. /\ rows[r].status \in {"queued", "running"}
        /\ "completed" \in Allowed(rows[r].status)
        /\ rows[r].completed = Total
    BY <1>4 DEF CompleteRun, MayMove, Allowed
  <2>3. Durable(outcomes[r]) = Attempts
    BY <2>2, FullProgressIsFullCoverage DEF SoundStore, SoundRow, Durable
  <2>4. QED
    BY <1>4, <2>1, <2>2, <2>3, OneRunMoves DEF CompleteRun
<1>5. ASSUME NEW r \in Runs, NEW a \in Attempts, NEW result \in Results,
             RecordOutcome(r, a, result)
      PROVE  Goal
  <2> SUFFICES ASSUME NEW s \in Runs
               PROVE  RunStays(s) \/ RunRecords(s) \/ RunMoves(s)
    OBVIOUS
  <2>1. CASE s # r
    <3>1. rows'[s] = rows[s] /\ outcomes'[s] = outcomes[s]
      BY <1>5, <2>1 DEF RecordOutcome, SoundStore
    <3>2. QED
      BY <3>1 DEF RunStays
  <2>2. CASE s = r
    <3>1. /\ outcomes'[r] = [outcomes[r] EXCEPT ![a] = result]
          /\ rows'[r] = Progressed(rows[r], outcomes'[r])
          /\ rows[r].status = "running"
      BY <1>5 DEF RecordOutcome, SoundStore, Upserted
    <3>2. rows'[r].status = "running"
      BY <1>0, <3>1 DEF Progressed, Row
    <3>3. Durable(outcomes'[r]) = Durable(outcomes[r]) \union {a}
      BY <1>0, <3>1 DEF Durable, OutcomeMaps, Results
    <3>4. QED
      BY <2>2, <3>1, <3>2, <3>3 DEF RunRecords
  <2>3. QED
    BY <2>1, <2>2
<1>6. ASSUME InterruptStaleRuns PROVE Goal
  <2> SUFFICES ASSUME NEW s \in Runs
               PROVE  RunStays(s) \/ RunRecords(s) \/ RunMoves(s)
    OBVIOUS
  <2>1. outcomes'[s] = outcomes[s] /\ rows'[s] = InterruptedRows[s]
    BY <1>6 DEF InterruptStaleRuns
  <2>2. CASE rows[s].status = "running"
    <3>1. rows'[s].status = "interrupted"
      BY <1>0, <2>1, <2>2, MovedHasStatus DEF InterruptedRows
    <3>2. QED
      BY <2>1, <2>2, <3>1 DEF RunMoves, Allowed, Terminal
  <2>3. CASE rows[s].status # "running"
    BY <2>1, <2>3 DEF InterruptedRows, RunStays
  <2>4. QED
    BY <2>2, <2>3
<1>7. ASSUME NEW r \in Runs, NEW target \in Statuses, MoveRun(r, target) PROVE Goal
  BY <1>3, <1>7 DEF MoveRun
<1>8. CASE ApplicationNext
  BY <1>1, <1>2, <1>4, <1>5, <1>6, <1>7, <1>8 DEF ApplicationNext
<1>9. QED
  BY <1>3, <1>8 DEF StoreNext

\* The repository implements the abstract life cycle: whatever is called in
\* whatever order, runs move along allowed edges only, outcomes accumulate only
\* while a run is running, and a terminal run never changes.
THEOREM StoreRefinesLifecycle == StoreSpec => ImplementsLifecycle
<1>1. StoreInit => Abstract!Init
  BY DEF StoreInit, Abstract!Init, NoRow, NoOutcomes
<1>2. SoundStore /\ [StoreNext]_storeVars => [Abstract!Next]_(Abstract!vars)
  <2> SUFFICES ASSUME SoundStore, [StoreNext]_storeVars
               PROVE  [Abstract!Next]_(Abstract!vars)
    OBVIOUS
  <2>1. CASE StoreNext
    BY <2>1, StoreStepsAreRunSteps, RunStepsAreLifecycleSteps
  <2>2. CASE UNCHANGED storeVars
    BY <2>2 DEF storeVars, Abstract!vars
  <2>3. QED
    BY <2>1, <2>2
<1>3. QED
  BY <1>1, <1>2, StoreIsSound, PTL DEF StoreSpec, ImplementsLifecycle, Abstract!Spec

=============================================================================
