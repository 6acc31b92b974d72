------------------------ MODULE SyntheticDemoProofs ------------------------
(***************************************************************************)
(* The seed command beside any number of other commands, crashes and calls *)
(* of other processes, for every set of configs, queries and documents.    *)
(*                                                                         *)
(* Calls overlap, so the row itself is not sound (RunStoreProofs): a stale *)
(* flush may tear it.  What is inductive is, first, that every run a call  *)
(* carries, like the stored one, counts no more than is durable: outcomes  *)
(* are never taken back, so a count that was right once is never ahead.    *)
(* Second, the demo that was verified while nobody was inside of a method  *)
(* is final: each method decodes the row and leaves a completed run alone, *)
(* so no call on it ever begins again.                                     *)
(***************************************************************************)
EXTENDS SyntheticDemo, RunStoreProofs

Stamp == {"none", "other", Authored}

Identity == Payloads \union {"none", Authored}

Run == [row : Row, at : [identity : Identity, started : Stamp, ended : Stamp]]

ColumnNames == {"status", "completed", "started", "ended"}

CallFields ==
  [ step : {"none", "count", "look", "update", "insert", "overwrite"},
    old : Run, new : Run, about : SUBSET Attempts, result : Results \union {"none"} ]

\* A call that may still write an outcome has one to write.
Call ==
  {c \in CallFields : c.step \in {"look", "insert", "overwrite"} => c.result \in Results}

Labels ==
  {"idle", "dataset", "configs", "query set", "titles", "find run", "create", "list",
   "claim", "record", "finalize", "complete", "verify run", "verify outcomes"}

Fields ==
  [ pc : Labels, left : SUBSET (Configs \union Attempts),
    summaries : [Configs -> Tally], read : Run, alone : BOOLEAN ]

\* What is left to record are attempts.
Seeder == {c \in Fields : c.pc = "record" => c.left \subseteq Attempts}

DemoShape ==
  /\ rows \in [Runs -> Row]
  /\ outcomes \in [Runs -> OutcomeMaps]
  /\ RunNow \in Run
  /\ DOMAIN column = ColumnNames
  /\ call \in [Procs -> Call]
  /\ seeders \in [Seeders -> Seeder]

\* A run that counts no more than the outcomes, and is completed with all.
Behind(run, out) ==
  /\ run.row.completed <= CompletedCount(out)
  /\ run.row.status = "completed" => \A a \in Attempts : out[a] # "none"

CallsAreBehind ==
  /\ Behind(RunNow, outcomes[Demo])
  /\ \A p \in Procs : Behind(call[p].old, outcomes[Demo]) /\ Behind(call[p].new, outcomes[Demo])

ColumnsAreBehind ==
  /\ column.completed \in Nat
  /\ column.completed <= CompletedCount(outcomes[Demo])
  /\ column.status = "completed" => \A a \in Attempts : outcomes[Demo][a] # "none"

DemoBehind == DemoShape /\ CallsAreBehind /\ ColumnsAreBehind

-----------------------------------------------------------------------------
(* Runs that are read and written.                                         *)

\* The one run is a run of the store.
LEMMA DemoIsARun == Demo \in Runs
<1>1. Runs # {}
  BY DemoAssumption, FS_EmptySet
<1>2. QED
  BY <1>1 DEF Demo

\* Outcomes that are not taken back make no run run ahead.
LEMMA BehindStays ==
  ASSUME NEW out, NEW out2, NEW run \in Run, Behind(run, out),
         \A a \in Attempts : out[a] # "none" => out2[a] # "none"
  PROVE  /\ CompletedCount(out) <= CompletedCount(out2)
         /\ Behind(run, out2)
<1>1. Covered(out) \subseteq Covered(out2) /\ Covered(out2) \subseteq Queries
  BY DEF Covered, Attempts
<1>2. IsFiniteSet(Covered(out2))
  BY <1>1, StoreAssumption, FS_Subset
<1>3. CompletedCount(out) <= CompletedCount(out2)
  BY <1>1, <1>2, FS_Subset DEF CompletedCount
<1>4. run.row.completed \in Nat
  BY DEF Run, Row
<1>5. QED
  BY <1>3, <1>4, ProgressIsNatural DEF Behind

\* A run that has not been created counts nothing.
LEMMA NewRunsAreBehind ==
  ASSUME NEW out
  PROVE  /\ NoRun \in Run /\ Behind(NoRun, out)
         /\ \A identity \in Identity :
              QueuedRun(identity) \in Run /\ Behind(QueuedRun(identity), out)
<1>1. NoRow.completed = 0 /\ NoRow.status = "absent" /\ QueuedRow.completed = 0
  BY DEF NoRow, QueuedRow
<1>2. QueuedRow \in Row /\ QueuedRow.status = "queued"
  BY NoRowIsTyped DEF QueuedRow, Row, Statuses
<1>3. CompletedCount(out) \in Nat
  BY ProgressIsNatural
<1>4. NoRun \in Run
  BY NoRowIsTyped DEF NoRun, Run, Stamp, Identity
<1>5. \A identity \in Identity : QueuedRun(identity) \in Run
  BY <1>2 DEF QueuedRun, Run, Stamp
<1>6. Behind(NoRun, out)
  BY <1>1, <1>3 DEF NoRun, Behind
<1>7. \A identity \in Identity : Behind(QueuedRun(identity), out)
  BY <1>1, <1>2, <1>3 DEF QueuedRun, Behind
<1>8. QED
  BY <1>4, <1>5, <1>6, <1>7

\* A run that is moved keeps its count, and is completed only with a full one.
LEMMA MovedRunsAreBehind ==
  ASSUME NEW run \in Run, NEW out, Behind(run, out), NEW target \in Statuses,
         NEW summaries \in [Configs -> Tally], NEW stamp \in Stamp, MayMove(run.row, target)
  PROVE  /\ MovedAt(run, target, summaries, stamp) \in Run
         /\ Behind(MovedAt(run, target, summaries, stamp), out)
<1> DEFINE row == Moved(run.row, target, summaries)
           at == [run.at EXCEPT !.started = IF target = "running" THEN stamp ELSE @,
                                !.ended = IF target \in Terminal THEN stamp ELSE @]
<1>1. run.row \in Row /\ run.at \in [identity : Identity, started : Stamp, ended : Stamp]
  BY DEF Run
<1>2. row \in Row /\ row.completed = run.row.completed /\ row.status = target
  BY <1>1 DEF Row, Moved
<1>3. at \in [identity : Identity, started : Stamp, ended : Stamp]
  BY <1>1
<1>4. MovedAt(run, target, summaries, stamp) = [row |-> row, at |-> at]
  BY DEF MovedAt
<1> HIDE DEF row, at
<1>5. target = "completed" => \A a \in Attempts : out[a] # "none"
  <2> SUFFICES ASSUME target = "completed" PROVE \A a \in Attempts : out[a] # "none"
    OBVIOUS
  <2>1. run.row.completed = Total
    BY DEF MayMove
  <2>2. CompletedCount(out) \in Nat /\ CompletedCount(out) <= Total
    BY CountsAreBounded DEF CompletedCount, Covered
  <2>3. CompletedCount(out) = Total
    BY <2>1, <2>2, CountsAreBounded DEF Behind
  <2>4. QED
    BY <2>3, FullProgressIsFullCoverage
<1>6. QED
  BY <1>2, <1>3, <1>4, <1>5 DEF Behind, Run

\* A run that counts the outcomes anew counts what is there.
LEMMA ProgressedRunsAreBehind ==
  ASSUME NEW run \in Run, NEW out, Behind(run, out)
  PROVE  ProgressedRun(run, out) \in Run /\ Behind(ProgressedRun(run, out), out)
<1> DEFINE row == Progressed(run.row, out)
<1>1. run.row \in Row /\ CompletedCount(out) \in Nat
  BY ProgressIsNatural DEF Run
<1>2. row \in Row /\ row.completed = CompletedCount(out) /\ row.status = run.row.status
  BY <1>1 DEF Progressed, Row
<1>3. ProgressedRun(run, out) = [run EXCEPT !.row = row]
  BY DEF ProgressedRun
<1> HIDE DEF row
<1>4. ProgressedRun(run, out) \in Run /\ ProgressedRun(run, out).row = row
  BY <1>2, <1>3 DEF Run
<1>5. QED
  BY <1>1, <1>2, <1>4 DEF Behind

\* A flush stores the run of the call or the one that was there, and each column
\* is that of one of them.
LEMMA FlushStaysBehind ==
  ASSUME DemoShape, NEW out, NEW old \in Run, NEW new \in Run, Flush(old, new),
         Behind(RunNow, out), Behind(new, out),
         column.completed \in Nat, column.completed <= CompletedCount(out),
         column.status = "completed" => \A a \in Attempts : out[a] # "none"
  PROVE  /\ rows' \in [Runs -> Row] /\ RunNow' \in Run /\ DOMAIN column' = ColumnNames
         /\ Behind(RunNow', out)
         /\ column'.completed \in Nat /\ column'.completed <= CompletedCount(out)
         /\ column'.status = "completed" => \A a \in Attempts : out[a] # "none"
<1> DEFINE stored == IF new # old THEN new ELSE RunNow
<1>1. stored \in Run /\ Behind(stored, out)
  BY DEF DemoShape
<1>2. rows' = [rows EXCEPT ![Demo] = stored.row] /\ stamps' = stored.at
  BY DEF Flush
<1>3. stored.row \in Row /\ stored = [row |-> stored.row, at |-> stored.at]
  BY <1>1 DEF Run
<1> HIDE DEF stored
<1>4. rows' \in [Runs -> Row] /\ RunNow' = stored
  BY <1>2, <1>3, DemoIsARun DEF DemoShape, RunNow
<1>5. DOMAIN column' = ColumnNames
  BY DEF DemoShape, Flush
<1>6. column'.completed \in {column.completed, new.row.completed}
  BY DEF DemoShape, ColumnNames, Flush, Columns
<1>7. column'.status \in {column.status, new.row.status}
  BY DEF DemoShape, ColumnNames, Flush, Columns
<1>8. new.row.completed \in Nat
  BY DEF Run, Row
<1>9. QED
  BY <1>1, <1>4, <1>5, <1>6, <1>7, <1>8 DEF Behind

-----------------------------------------------------------------------------
(* Steps, sorted by what they do to the run and to the calls.              *)

Begins(p) ==
  \/ \E target \in Statuses, summaries \in [Configs -> Tally], stamp \in Stamp :
       EntersMove(p, target, summaries, stamp)
  \/ \E summaries \in [Configs -> Tally], stamp \in Stamp :
       EntersComplete(p, summaries, stamp)
  \/ \E a \in Attempts, result \in Results : EntersRecord(p, a, result)

LeavesTheRun ==
  /\ UNCHANGED runVars
  /\ UNCHANGED call \/ \E p \in Procs : call' = [call EXCEPT ![p] = NoCall]

\* Every step begins a call, is one inside of a call, inserts the run, or leaves
\* the run alone and at most ends a call.
LEMMA StepsOfTheRun ==
  ASSUME DemoShape, [DemoNext]_demoVars
  PROVE  \/ LeavesTheRun
         \/ \E p \in Procs : Begins(p) \/ Counts(p) \/ Looks(p) \/ Writes(p)
         \/ \E identity \in Identity : Inserts(identity)
<1> DEFINE Goal == \/ LeavesTheRun
                   \/ \E p \in Procs : Begins(p) \/ Counts(p) \/ Looks(p) \/ Writes(p)
                   \/ \E identity \in Identity : Inserts(identity)
<1>1. CASE UNCHANGED demoVars
  BY <1>1 DEF demoVars, LeavesTheRun
<1>2. ASSUME NEW p \in Procs, Ends(p) PROVE Goal
  BY <1>2 DEF Ends, LeavesTheRun
<1>3. ASSUME NoWrite PROVE Goal
  BY <1>3 DEF NoWrite, LeavesTheRun
<1>4. ASSUME UNCHANGED <<runVars, call, overlapped>> PROVE Goal
  BY <1>4 DEF LeavesTheRun
<1>5. ASSUME NEW p \in Procs, Proceeds(p) PROVE Goal
  BY <1>2, <1>5 DEF Proceeds
<1>6. rows[Demo].summaries \in [Configs -> Tally]
  BY DemoIsARun DEF DemoShape, Row
<1>7. /\ Authored \in Identity /\ Authored \in Stamp /\ "other" \in Stamp
      /\ "running" \in Statuses /\ Seeders \subseteq Procs /\ Others \subseteq Procs
  BY DEF Identity, Stamp, Statuses, Procs
<1>8. ASSUME NEW s \in Seeders, Commands(s) PROVE Goal
  <2>1. CASE SeedDataset(s) \/ SeedConfig(s) \/ SeedQuerySet(s) \/ SeedTitles(s)
    BY <1>3, <1>4, <2>1
       DEF SeedDataset, SeedConfig, SeedQuerySet, SeedTitles, Puts, Refuses
  <2>2. CASE FindRun(s) \/ ListOutcomes(s) \/ Finalize(s) \/ VerifyRun(s)
    BY <1>3, <2>2 DEF FindRun, ListOutcomes, Finalize, VerifyRun, Refuses
  <2>3. CASE SeedRun(s)
    BY <1>3, <1>7, <2>3 DEF SeedRun, Refuses
  <2>4. CASE ClaimDemo(s)
    BY <1>3, <1>6, <1>7, <2>4 DEF ClaimDemo, Refuses, Begins
  <2>5. CASE RecordAuthored(s)
    <3>1. CASE NoWrite
      BY <1>3, <3>1
    <3>2. CASE /\ seeders[s].left # {}
               /\ EntersRecord(s, NextOf(seeders[s].left), AuthoredOutcomes[NextOf(seeders[s].left)])
      <4>1. seeders[s].left \subseteq Attempts
        BY <2>5 DEF RecordAuthored, At, DemoShape, Seeder
      <4>2. NextOf(seeders[s].left) \in Attempts
        BY <3>2, <4>1 DEF NextOf
      <4>3. AuthoredOutcomes[NextOf(seeders[s].left)] \in Results
        BY <4>2 DEF AuthoredOutcomes, Results
      <4>4. QED
        BY <1>7, <3>2, <4>2, <4>3 DEF Begins
    <3>3. QED
      BY <2>5, <3>1, <3>2 DEF RecordAuthored, Refuses
  <2>6. CASE CompleteDemo(s)
    <3>1. seeders[s].summaries \in [Configs -> Tally]
      BY DEF DemoShape, Seeder, Fields
    <3>2. QED
      BY <1>3, <1>7, <2>6, <3>1 DEF CompleteDemo, Refuses, Begins
  <2>7. QED
    BY <1>8, <2>1, <2>2, <2>3, <2>4, <2>5, <2>6 DEF Commands
<1>9. ASSUME NEW o \in Others, Foreign(o) PROVE Goal
  <2>1. CASE OtherCall(o)
    <3>1. Passed \subseteq [Configs -> Tally]
      BY DemoAssumption, PassedSummariesAreTallies
    <3>2. QED
      BY <1>6, <1>7, <2>1, <3>1 DEF OtherCall, Begins
  <2>2. ASSUME NEW payload \in Payloads, OtherInsert(payload) PROVE Goal
    BY <2>2 DEF OtherInsert, Identity
  <2>3. ASSUME NEW payload, OtherPuts(payload) PROVE Goal
    BY <1>4, <2>3 DEF OtherPuts, OtherPut
  <2>4. QED
    BY <1>9, <2>1, <2>2, <2>3 DEF Foreign
<1>10. ASSUME NEW s \in Seeders, Start(s) \/ Continue(s) PROVE Goal
  BY <1>3, <1>5, <1>7, <1>8, <1>10 DEF Start, Continue, VerifyOutcomes
<1>11. ASSUME NEW p \in Procs, Crash(p) PROVE Goal
  BY <1>2, <1>11 DEF Crash
<1>12. QED
  BY <1>1, <1>5, <1>7, <1>9, <1>10, <1>11 DEF DemoNext

\* A process that is inside of no method carries a run of no account.
LEMMA NoCallIsTyped ==
  ASSUME NEW out
  PROVE  NoCall \in Call /\ Behind(NoCall.old, out) /\ Behind(NoCall.new, out)
<1>1. NoRun \in Run /\ Behind(NoRun, out)
  BY NewRunsAreBehind
<1>2. NoCall \in Call
  BY <1>1 DEF NoCall, Call, CallFields
<1>3. QED
  BY <1>1, <1>2 DEF NoCall

\* What a step makes of the run, the columns and the calls, seeders aside.
RunIsBehind ==
  /\ rows \in [Runs -> Row]
  /\ outcomes \in [Runs -> OutcomeMaps]
  /\ RunNow \in Run
  /\ DOMAIN column = ColumnNames
  /\ call \in [Procs -> Call]
  /\ CallsAreBehind
  /\ ColumnsAreBehind

\* One call replaced, the run left alone.
LEMMA CallReplaced ==
  ASSUME DemoBehind, UNCHANGED runVars, NEW p \in Procs, NEW new \in Call,
         call' = [call EXCEPT ![p] = new],
         Behind(new.old, outcomes[Demo]), Behind(new.new, outcomes[Demo])
  PROVE  RunIsBehind'
<1>1. rows' = rows /\ outcomes' = outcomes /\ stamps' = stamps /\ column' = column
  BY DEF runVars, storeVars
<1>2. RunNow' = RunNow
  BY <1>1 DEF RunNow
<1>3. call' \in [Procs -> Call]
  BY DEF DemoBehind, DemoShape
<1>4. CallsAreBehind'
  BY <1>1, <1>2 DEF DemoBehind, DemoShape, CallsAreBehind
<1>5. ColumnsAreBehind'
  BY <1>1 DEF DemoBehind, ColumnsAreBehind
<1>6. QED
  BY <1>1, <1>2, <1>3, <1>4, <1>5 DEF DemoBehind, DemoShape, RunIsBehind

\* A method that begins carries what it has read and what it makes of it.
LEMMA EnteredCallIsBehind ==
  ASSUME DemoBehind, NEW p \in Procs, NEW step \in {"update", "count", "look"},
         NEW new \in Run, Behind(new, outcomes[Demo]), NEW about \in SUBSET Attempts,
         NEW result \in Results \union {"none"}, step = "look" => result \in Results,
         Enters(p, step, new, about, result)
  PROVE  RunIsBehind'
<1> DEFINE entered == [ step |-> step, old |-> RunNow, new |-> new,
                        about |-> about, result |-> result ]
<1>1. RunNow \in Run /\ Behind(RunNow, outcomes[Demo])
  BY DEF DemoBehind, DemoShape, CallsAreBehind
<1>2. entered \in Call
  BY <1>1 DEF Call, CallFields
<1>3. call' = [call EXCEPT ![p] = entered] /\ UNCHANGED runVars
  BY DEF Enters
<1>4. entered.old = RunNow /\ entered.new = new
  OBVIOUS
<1> HIDE DEF entered
<1>5. QED
  BY <1>1, <1>2, <1>3, <1>4, CallReplaced

\* So does each of the three kinds.
LEMMA BegunCallIsBehind ==
  ASSUME DemoBehind, NEW p \in Procs, Begins(p)
  PROVE  RunIsBehind'
<1>1. RunNow \in Run /\ Behind(RunNow, outcomes[Demo]) /\ RunNow.row = rows[Demo]
  BY DEF DemoBehind, DemoShape, CallsAreBehind, RunNow
<1>2. ASSUME NEW target \in Statuses, NEW summaries \in [Configs -> Tally],
             NEW stamp \in Stamp, EntersMove(p, target, summaries, stamp)
      PROVE  RunIsBehind'
  BY <1>1, <1>2, MovedRunsAreBehind, EnteredCallIsBehind DEF EntersMove
<1>3. ASSUME NEW summaries \in [Configs -> Tally], NEW stamp \in Stamp,
             EntersComplete(p, summaries, stamp)
      PROVE  RunIsBehind'
  <2>1. "completed" \in Statuses
    BY DEF Statuses, Terminal
  <2>2. QED
    BY <1>1, <1>3, <2>1, MovedRunsAreBehind, EnteredCallIsBehind DEF EntersComplete
<1>4. ASSUME NEW a \in Attempts, NEW result \in Results, EntersRecord(p, a, result)
      PROVE  RunIsBehind'
  BY <1>1, <1>4, EnteredCallIsBehind DEF EntersRecord
<1>5. QED
  BY <1>2, <1>3, <1>4 DEF Begins

\* The reads inside of a method.
LEMMA ReadingCallIsBehind ==
  ASSUME DemoBehind, NEW p \in Procs, Counts(p) \/ Looks(p)
  PROVE  RunIsBehind'
<1> DEFINE c == call[p]
           out == outcomes[Demo]
<1>1. c \in CallFields /\ (c.step = "look" => c.result \in Results)
  BY DEF DemoBehind, DemoShape, Call
<1>2. c.old \in Run /\ c.new \in Run /\ Behind(c.old, out) /\ Behind(c.new, out)
  BY <1>1 DEF DemoBehind, CallsAreBehind, CallFields
<1>3. ASSUME NEW step \in {"update", "insert", "overwrite"}, GoesOn(p, [c EXCEPT !.step = step]),
             step # "update" => c.step = "look"
      PROVE  RunIsBehind'
  <2> DEFINE new == [c EXCEPT !.step = step]
  <2>1. new \in Call /\ new.old = c.old /\ new.new = c.new
    BY <1>1, <1>3 DEF Call, CallFields
  <2>2. call' = [call EXCEPT ![p] = new] /\ UNCHANGED runVars
    BY <1>3 DEF GoesOn
  <2> HIDE DEF new
  <2>3. QED
    BY <1>2, <2>1, <2>2, CallReplaced
<1>4. ASSUME GoesOn(p, [c EXCEPT !.step = "update", !.new = ProgressedRun(@, out)])
      PROVE  RunIsBehind'
  <2> DEFINE counted == ProgressedRun(c.new, out)
             new == [c EXCEPT !.step = "update", !.new = counted]
  <2>1. counted \in Run /\ Behind(counted, out)
    BY <1>2, ProgressedRunsAreBehind
  <2>2. call' = [call EXCEPT ![p] = new] /\ UNCHANGED runVars
    BY <1>4 DEF GoesOn
  <2> HIDE DEF counted
  <2>3. new \in Call /\ new.old = c.old /\ new.new = counted
    BY <1>1, <2>1 DEF Call, CallFields
  <2> HIDE DEF new
  <2>4. QED
    BY <1>2, <2>1, <2>2, <2>3, CallReplaced
<1>5. QED
  BY <1>3, <1>4 DEF Counts, Looks

\* The transaction of a method: outcomes are added or replaced, and the run that
\* is flushed counts what was durable when it was made.
LEMMA WritingCallIsBehind ==
  ASSUME DemoBehind, NEW p \in Procs, Writes(p)
  PROVE  RunIsBehind'
<1> DEFINE c == call[p]
           out == outcomes[Demo]
<1>1. c \in CallFields /\ (c.step \in {"insert", "overwrite"} => c.result \in Results)
  BY DEF DemoBehind, DemoShape, Call
<1>2. /\ c.old \in Run /\ c.new \in Run
      /\ \A q \in Procs : call[q] \in Call /\ call[q].old \in Run /\ call[q].new \in Run
  BY <1>1 DEF DemoBehind, DemoShape, Call, CallFields
<1>3. ASSUME outcomes' \in [Runs -> OutcomeMaps], NEW new \in Run, Flush(c.old, new),
             Behind(new, outcomes'[Demo]),
             \A a \in Attempts : out[a] # "none" => outcomes'[Demo][a] # "none"
      PROVE  RunIsBehind'
  <2> DEFINE out2 == outcomes'[Demo]
  <2>1. \A run \in Run : Behind(run, out) => Behind(run, out2)
    BY <1>3, BehindStays
  <2>2. CompletedCount(out) <= CompletedCount(out2)
    BY <1>3, BehindStays DEF DemoBehind, DemoShape, CallsAreBehind
  <2>3. column.completed <= CompletedCount(out2)
    BY <2>2, ProgressIsNatural DEF DemoBehind, ColumnsAreBehind
  <2>4. column.status = "completed" => \A a \in Attempts : out2[a] # "none"
    BY <1>3 DEF DemoBehind, ColumnsAreBehind
  <2>5. Behind(RunNow, out2)
    BY <2>1 DEF DemoBehind, DemoShape, CallsAreBehind
  <2>6. /\ rows' \in [Runs -> Row] /\ RunNow' \in Run /\ DOMAIN column' = ColumnNames
        /\ Behind(RunNow', out2) /\ ColumnsAreBehind'
    BY <1>2, <1>3, <2>3, <2>4, <2>5, FlushStaysBehind DEF DemoBehind, ColumnsAreBehind
  <2>7. call' = [call EXCEPT ![p] = NoCall]
    BY DEF Writes
  <2>8. \A q \in Procs : /\ call'[q] \in Call
                         /\ Behind(call'[q].old, out2) /\ Behind(call'[q].new, out2)
    <3> TAKE q \in Procs
    <3>1. CASE q = p
      BY <2>7, <3>1, NoCallIsTyped DEF DemoBehind, DemoShape
    <3>2. CASE q # p
      BY <1>2, <2>1, <2>7, <3>2 DEF DemoBehind, DemoShape, CallsAreBehind
    <3>3. QED
      BY <3>1, <3>2
  <2>9. call' \in [Procs -> Call]
    BY <2>7, <2>8 DEF DemoBehind, DemoShape
  <2>10. QED
    BY <1>3, <2>6, <2>8, <2>9 DEF RunIsBehind, CallsAreBehind
<1>4. CASE c.step = "update" /\ UNCHANGED outcomes /\ Flush(c.old, c.new)
  <2>1. Behind(c.new, outcomes'[Demo]) /\ outcomes' \in [Runs -> OutcomeMaps]
    BY <1>4 DEF DemoBehind, DemoShape, CallsAreBehind
  <2>2. QED
    BY <1>2, <1>3, <1>4, <2>1
<1>5. ASSUME NEW a \in c.about, c.step \in {"insert", "overwrite"},
             outcomes' = [outcomes EXCEPT ![Demo] = Upserted(@, a, c.result)],
             Flush(c.old, ProgressedRun(c.old, outcomes'[Demo]))
      PROVE  RunIsBehind'
  <2>1. a \in Attempts /\ c.result \in Results
    BY <1>1, <1>5 DEF CallFields
  <2>2. outcomes'[Demo] = [out EXCEPT ![a] = c.result] /\ out \in OutcomeMaps
    BY <1>5, DemoIsARun DEF DemoBehind, DemoShape, Upserted
  <2>3. outcomes'[Demo] \in OutcomeMaps
    BY <2>1, <2>2 DEF OutcomeMaps
  <2>4. outcomes' \in [Runs -> OutcomeMaps]
    BY <1>5, <2>3, DemoIsARun DEF DemoBehind, DemoShape
  <2>5. \A b \in Attempts : out[b] # "none" => outcomes'[Demo][b] # "none"
    BY <2>1, <2>2 DEF OutcomeMaps, Results
  <2>6. Behind(c.old, outcomes'[Demo])
    BY <1>2, <2>5, BehindStays DEF DemoBehind, CallsAreBehind
  <2>7. /\ ProgressedRun(c.old, outcomes'[Demo]) \in Run
        /\ Behind(ProgressedRun(c.old, outcomes'[Demo]), outcomes'[Demo])
    BY <1>2, <2>6, ProgressedRunsAreBehind
  <2>8. QED
    BY <1>3, <1>5, <2>4, <2>5, <2>7
<1>6. QED
  BY <1>4, <1>5 DEF Writes

\* The run is inserted where there was none.
LEMMA InsertedRunIsBehind ==
  ASSUME DemoBehind, NEW identity \in Identity, Inserts(identity)
  PROVE  RunIsBehind'
<1> DEFINE queued == QueuedRun(identity)
<1>1. queued \in Run /\ Behind(queued, outcomes[Demo])
  BY NewRunsAreBehind
<1>2. queued.row = QueuedRow /\ QueuedRow \in Row
  BY <1>1 DEF QueuedRun, Run
<1>3. /\ rows' = [rows EXCEPT ![Demo] = QueuedRow] /\ stamps' = queued.at
      /\ column' = Columns(queued) /\ UNCHANGED <<outcomes, call>>
  BY DEF Inserts, CreateRun
<1>4. rows' \in [Runs -> Row] /\ RunNow' = queued
  BY <1>2, <1>3, DemoIsARun DEF DemoBehind, DemoShape, RunNow, QueuedRun
<1>5. /\ DOMAIN column' = ColumnNames /\ column'.completed = queued.row.completed
      /\ column'.status = queued.row.status
  BY <1>3 DEF Columns, ColumnNames
<1>6. queued.row.completed \in Nat
  BY <1>1 DEF Run, Row
<1> HIDE DEF queued
<1>7. CallsAreBehind'
  BY <1>1, <1>3, <1>4 DEF DemoBehind, CallsAreBehind
<1>8. ColumnsAreBehind'
  BY <1>1, <1>3, <1>5, <1>6 DEF Behind, ColumnsAreBehind
<1>9. QED
  BY <1>1, <1>3, <1>4, <1>5, <1>7, <1>8 DEF DemoBehind, DemoShape, RunIsBehind

\* No step lets anything run ahead of the outcomes.
LEMMA RunStaysBehind ==
  ASSUME DemoBehind, [DemoNext]_demoVars
  PROVE  RunIsBehind'
<1>1. CASE LeavesTheRun
  <2>1. CASE UNCHANGED call
    <3>1. UNCHANGED <<rows, outcomes, stamps, column, call>> /\ RunNow' = RunNow
      BY <1>1, <2>1 DEF LeavesTheRun, runVars, storeVars, RunNow
    <3>2. QED
      BY <3>1 DEF DemoBehind, DemoShape, RunIsBehind, CallsAreBehind, ColumnsAreBehind
  <2>2. ASSUME NEW p \in Procs, call' = [call EXCEPT ![p] = NoCall] PROVE RunIsBehind'
    BY <1>1, <2>2, NoCallIsTyped, CallReplaced DEF LeavesTheRun
  <2>3. QED
    BY <1>1, <2>1, <2>2 DEF LeavesTheRun
<1>2. QED
  BY <1>1, StepsOfTheRun, BegunCallIsBehind, ReadingCallIsBehind, WritingCallIsBehind,
     InsertedRunIsBehind DEF DemoBehind

-----------------------------------------------------------------------------
(* What stays.                                                             *)

\* A put that is accepted leaves an authored record as it is, and makes one of
\* every record it writes with the authored payload.
LEMMA AcceptedPutKeepsAuthored ==
  ASSUME NEW put, Accepts(put), PutRecords(put), NEW record \in Records
  PROVE  /\ catalog[record] = Authored => catalog'[record] = Authored
         /\ record \in DOMAIN put.writes => catalog'[record] = put.writes[record]
<1>1. Authored # "absent"
  BY DEF Authored
<1>2. catalog'[record] = IF record \in DOMAIN put.writes THEN put.writes[record]
                         ELSE catalog[record]
  BY DEF PutRecords
<1>3. record \in DOMAIN put.writes => catalog[record] \in {"absent", put.writes[record]}
  BY DEF Accepts
<1>4. QED
  BY <1>1, <1>2, <1>3

\* No step changes a record that holds its authored payload.
LEMMA AuthoredRecordsStay ==
  ASSUME [DemoNext]_demoVars, NEW record \in Records, catalog[record] = Authored
  PROVE  catalog'[record] = Authored
<1>1. ASSUME NEW put, Accepts(put), PutRecords(put) PROVE catalog'[record] = Authored
  BY <1>1, AcceptedPutKeepsAuthored
<1>2. ASSUME NEW p, Proceeds(p) \/ Crash(p) PROVE catalog' = catalog
  BY <1>2 DEF Proceeds, Crash, Ends
<1>3. ASSUME NEW s \in Seeders, Start(s) \/ Continue(s) PROVE catalog'[record] = Authored
  <2>1. ASSUME NEW put, NEW next, Puts(s, put, next) PROVE catalog'[record] = Authored
    BY <1>1, <2>1 DEF Puts, Refuses, NoWrite
  <2>2. QED
    BY <1>2, <1>3, <2>1
       DEF Start, Continue, Commands, SeedDataset, SeedConfig, SeedQuerySet, SeedTitles,
           FindRun, SeedRun, Inserts, ListOutcomes, ClaimDemo, RecordAuthored, Finalize,
           CompleteDemo, VerifyRun, VerifyOutcomes, EntersMove, EntersRecord,
           EntersComplete, Enters, Refuses, NoWrite
<1>4. ASSUME NEW o \in Others, Foreign(o) PROVE catalog'[record] = Authored
  BY <1>1, <1>4 DEF Foreign, OtherCall, EntersMove, EntersRecord, EntersComplete, Enters,
                    OtherInsert, Inserts, OtherPuts, OtherPut
<1>5. QED
  BY <1>2, <1>3, <1>4 DEF DemoNext, demoVars

\* The completed demo that every read accepts, and nobody inside of a method.
Final == IsAuthoredRun(RunNow) /\ Decodes /\ NobodyCalls

\* No step changes it: a method that begins would have to find the run queued or
\* running, or absent, and none is under way that could still write.
LEMMA FinalStays ==
  ASSUME DemoShape, [DemoNext]_demoVars, Final
  PROVE  UNCHANGED runVars /\ Final'
<1>1. rows[Demo].status = "completed"
  BY DEF Final, IsAuthoredRun, RunNow, AuthoredRow
<1>2. \A p \in Procs : call[p].step = "none"
  BY DEF Final, NobodyCalls, Calls, NoCall
<1>3. ASSUME NEW p \in Procs, Begins(p) PROVE FALSE
  BY <1>1, <1>3 DEF Begins, EntersMove, EntersComplete, EntersRecord, MayMove, Allowed
<1>4. ASSUME NEW p \in Procs, Counts(p) \/ Looks(p) \/ Writes(p) PROVE FALSE
  BY <1>2, <1>4 DEF Counts, Looks, Writes
<1>5. ASSUME NEW identity, Inserts(identity) PROVE FALSE
  BY <1>1, <1>5 DEF Inserts, CreateRun
<1>6. LeavesTheRun
  BY <1>3, <1>4, <1>5, StepsOfTheRun
<1>7. RunNow' = RunNow /\ column' = column
  BY <1>6 DEF LeavesTheRun, runVars, storeVars, RunNow
<1>8. NobodyCalls'
  BY <1>6 DEF LeavesTheRun, Final, NobodyCalls, Calls, DemoShape
<1>9. IsAuthoredRun(RunNow')
  BY <1>7 DEF Final
<1>10. Decodes'
  BY <1>7 DEF Final, Decodes, Columns
<1>11. QED
  BY <1>6, <1>8, <1>9, <1>10
     DEF LeavesTheRun, Final, IsAuthoredRun, AuthoredRow, AuthoredStamps, SummariesOf,
         Counted, AuthoredOutcomes

-----------------------------------------------------------------------------
(* The steps of a command.                                                 *)

\* The records a command has put when it stands at its label.
HasPut(c) ==
  CASE c.pc \in {"idle", "dataset"} -> {}
    [] c.pc = "configs"             -> {Dataset} \union (Configs \ c.left)
    [] c.pc = "query set"           -> {Dataset} \union Configs
    [] c.pc = "titles"              -> {Dataset, QuerySet} \union Configs
    [] OTHER                        -> Records

\* It was alone when it verified the run, and has read the completed demo.
Vouches(c) == c.pc = "verify outcomes" /\ c.alone /\ IsAuthoredRun(c.read)

\* What a step of command s makes of the commands: only s moves, it has put
\* nothing new that does not hold its authored payload now, and the demo it
\* vouches for is final.
CommandStep(s) ==
  \E new \in Seeder :
    /\ seeders' = [seeders EXCEPT ![s] = new]
    /\ \A record \in HasPut(new) :
         record \in HasPut(seeders[s]) \/ catalog'[record] = Authored
    /\ Vouches(new) => Final

\* A command before its first step has put nothing and vouches for nothing, and
\* neither does one that has only moved on to another label.
LEMMA IdleIsTyped ==
  /\ Idle \in Seeder
  /\ HasPut(Idle) = {}
  /\ ~IsAuthoredRun(Idle.read)
<1>1. NoSummaries \in [Configs -> Tally]
  BY DEF NoSummaries, Tally
<1>2. Idle \in Seeder
  BY <1>1, NewRunsAreBehind DEF Idle, Seeder, Fields, Labels
<1>3. HasPut(Idle) = {}
  BY DEF Idle, HasPut
<1>4. Idle.read.row.status = "absent"
  BY DEF Idle, NoRun, NoRow
<1>5. ~IsAuthoredRun(Idle.read)
  BY <1>4 DEF IsAuthoredRun, AuthoredRow
<1>6. QED
  BY <1>2, <1>3, <1>5

\* A command that becomes idle knows nothing.
LEMMA ToIdleIsACommandStep ==
  ASSUME NEW s \in Seeders, Become(s, Idle)
  PROVE  CommandStep(s)
BY IdleIsTyped DEF Become, CommandStep, Vouches

\* What a command put does not depend on what it reads or has left to record.
LatePcs == Labels \ {"idle", "dataset", "configs", "query set", "titles"}

LEMMA LateCommandsPutAll == ASSUME NEW c, c.pc \in LatePcs PROVE HasPut(c) = Records
BY DEF LatePcs, HasPut

\* A step of a command that has put all records keeps it a sound one.
LEMMA LateStepIsACommandStep ==
  ASSUME NEW s \in Seeders, seeders[s].pc \in LatePcs,
         NEW new \in Seeder, new.pc \in LatePcs, Become(s, new), Vouches(new) => Final
  PROVE  CommandStep(s)
<1>1. HasPut(new) = HasPut(seeders[s])
  BY LateCommandsPutAll
<1>2. QED
  BY <1>1 DEF Become, CommandStep

\* A command that goes on without what it remembered.
LEMMA LateGoesIsACommandStep ==
  ASSUME NEW s \in Seeders, seeders[s].pc \in LatePcs,
         NEW pc \in LatePcs \ {"verify outcomes"}, Goes(s, pc)
  PROVE  CommandStep(s)
<1> DEFINE new == [Idle EXCEPT !.pc = pc]
<1>1. new \in Seeder /\ new.pc = pc
  BY IdleIsTyped DEF Idle, Seeder, Fields, LatePcs
<1>2. Become(s, new)
  BY DEF Goes
<1> HIDE DEF new
<1>3. QED
  BY <1>1, <1>2, LateStepIsACommandStep DEF Vouches

\* A put of the command: when it is accepted the command has put what it wrote.
LEMMA PutIsACommandStep ==
  ASSUME NEW s \in Seeders, NEW put, NEW next \in Seeder, Puts(s, put, next),
         \A record \in DOMAIN put.writes : put.writes[record] = Authored,
         HasPut(next) \subseteq HasPut(seeders[s]) \union DOMAIN put.writes,
         HasPut(next) \subseteq Records, next.pc # "verify outcomes"
  PROVE  CommandStep(s)
<1>1. CASE Accepts(put) /\ PutRecords(put) /\ Become(s, next)
  <2>1. \A record \in HasPut(next) : record \in HasPut(seeders[s]) \/ catalog'[record] = Authored
    BY <1>1, AcceptedPutKeepsAuthored
  <2>2. QED
    BY <1>1, <2>1 DEF Become, CommandStep, Vouches
<1>2. CASE Refuses(s)
  BY <1>2, ToIdleIsACommandStep DEF Refuses
<1>3. QED
  BY <1>1, <1>2 DEF Puts

\* A command that starts has put nothing yet.
LEMMA StartIsACommandStep ==
  ASSUME NEW s \in Seeders, Start(s)
  PROVE  CommandStep(s)
<1> DEFINE new == [Idle EXCEPT !.pc = "dataset"]
<1>1. new \in Seeder /\ new.pc = "dataset"
  BY IdleIsTyped DEF Idle, Seeder, Fields, Labels
<1>2. seeders' = [seeders EXCEPT ![s] = new]
  BY DEF Start, Goes, Become
<1> HIDE DEF new
<1>3. HasPut(new) = {}
  BY <1>1 DEF HasPut
<1>4. QED
  BY <1>1, <1>2, <1>3 DEF CommandStep, Vouches

\* The dataset version goes first, the configs after it.
LEMMA SeedDatasetIsACommandStep ==
  ASSUME DemoShape, NEW s \in Seeders, SeedDataset(s)
  PROVE  CommandStep(s)
<1> DEFINE put == DatasetVersionPut(Authored)
           next == [Idle EXCEPT !.pc = "configs", !.left = Configs]
<1>1. /\ next \in Seeder /\ next.pc = "configs" /\ next.left = Configs
  BY IdleIsTyped DEF Seeder, Fields, Labels
<1>2. /\ DOMAIN put.writes = {Dataset}
      /\ \A record \in DOMAIN put.writes : put.writes[record] = Authored
  BY DEF DatasetVersionPut
<1>3. Puts(s, put, next)
  BY DEF SeedDataset
<1> HIDE DEF put, next
<1>4. HasPut(next) = {Dataset}
  BY <1>1 DEF HasPut
<1>5. {Dataset} \subseteq Records
  BY DEF Records
<1>6. QED
  BY <1>1, <1>2, <1>3, <1>4, <1>5, IdleIsTyped, PutIsACommandStep

\* Configs that are no longer left have been put.
LEMMA SeedConfigIsACommandStep ==
  ASSUME DemoShape, NEW s \in Seeders, SeedConfig(s)
  PROVE  CommandStep(s)
<1> DEFINE left == seeders[s].left
           c == NextOf(left)
           put == RetrievalConfigPut(c, Authored)
           last == [Idle EXCEPT !.pc = "query set"]
           rest == [seeders[s] EXCEPT !.left = @ \ {c}]
<1>1. seeders[s] \in Fields /\ seeders[s].pc = "configs"
  BY DEF DemoShape, Seeder, SeedConfig, At
<1>2. last \in Seeder /\ last.pc = "query set"
  BY IdleIsTyped DEF Seeder, Fields, Labels
<1>3. /\ rest \in Seeder /\ rest.pc = "configs" /\ rest.left = left \ {c}
  BY <1>1 DEF Seeder, Fields
<1>4. /\ DOMAIN put.writes = {c}
      /\ \A record \in DOMAIN put.writes : put.writes[record] = Authored
  BY DEF RetrievalConfigPut
<1>5. Puts(s, put, IF left = {c} THEN last ELSE rest)
  BY DEF SeedConfig
<1>6. HasPut(seeders[s]) = {Dataset} \union (Configs \ left)
  BY <1>1 DEF HasPut
<1>7. {Dataset} \union Configs \subseteq Records
  BY DEF Records
<1> HIDE DEF c, put, last, rest
<1>8. CASE left = {c}
  <2>1. HasPut(last) = {Dataset} \union Configs
    BY <1>2 DEF HasPut
  <2>2. Puts(s, put, last)
    BY <1>5, <1>8
  <2>3. HasPut(last) \subseteq HasPut(seeders[s]) \union DOMAIN put.writes
    BY <1>4, <1>6, <1>8, <2>1
  <2>4. QED
    BY <1>2, <1>4, <1>7, <2>1, <2>2, <2>3, IdleIsTyped, PutIsACommandStep
<1>9. CASE left # {c}
  <2>1. HasPut(rest) = {Dataset} \union (Configs \ (left \ {c}))
    BY <1>3 DEF HasPut
  <2>2. Puts(s, put, rest)
    BY <1>5, <1>9
  <2>3. HasPut(rest) \subseteq HasPut(seeders[s]) \union DOMAIN put.writes
    BY <1>4, <1>6, <2>1
  <2>4. QED
    BY <1>3, <1>4, <1>7, <2>1, <2>2, <2>3, PutIsACommandStep
<1>10. QED
  BY <1>8, <1>9

\* The query set goes after the configs, the titles of the documents after it.
LEMMA SeedQuerySetIsACommandStep ==
  ASSUME DemoShape, NEW s \in Seeders, SeedQuerySet(s)
  PROVE  CommandStep(s)
<1> DEFINE put == QuerySetPut(Authored)
           next == [Idle EXCEPT !.pc = "titles"]
<1>1. next \in Seeder /\ next.pc = "titles"
  BY IdleIsTyped DEF Seeder, Fields, Labels
<1>2. /\ DOMAIN put.writes = {QuerySet}
      /\ \A record \in DOMAIN put.writes : put.writes[record] = Authored
  BY DEF QuerySetPut
<1>3. Puts(s, put, next) /\ seeders[s].pc = "query set"
  BY DEF SeedQuerySet, At
<1> HIDE DEF put, next
<1>4. HasPut(next) = {Dataset, QuerySet} \union Configs
  BY <1>1 DEF HasPut
<1>5. HasPut(seeders[s]) = {Dataset} \union Configs
  BY <1>3 DEF HasPut
<1>6. HasPut(next) \subseteq Records
  BY <1>4 DEF Records
<1>7. QED
  BY <1>1, <1>2, <1>3, <1>4, <1>5, <1>6, IdleIsTyped, PutIsACommandStep

LEMMA SeedTitlesIsACommandStep ==
  ASSUME DemoShape, NEW s \in Seeders, SeedTitles(s)
  PROVE  CommandStep(s)
<1> DEFINE put == JudgedDocumentTitlesPut(Titles)
           next == [Idle EXCEPT !.pc = "find run"]
<1>1. next \in Seeder /\ next.pc = "find run"
  BY IdleIsTyped DEF Seeder, Fields, Labels
<1>2. /\ DOMAIN put.writes = Documents
      /\ \A record \in DOMAIN put.writes : put.writes[record] = Authored
  BY DEF JudgedDocumentTitlesPut, Titles
<1>3. Puts(s, put, next) /\ seeders[s].pc = "titles"
  BY DEF SeedTitles, At
<1> HIDE DEF put, next
<1>4. HasPut(next) = Records
  BY <1>1 DEF HasPut
<1>5. HasPut(seeders[s]) = {Dataset, QuerySet} \union Configs
  BY <1>3 DEF HasPut
<1>6. HasPut(next) \subseteq HasPut(seeders[s]) \union DOMAIN put.writes
  BY <1>2, <1>4, <1>5 DEF Records
<1>7. QED
  BY <1>1, <1>2, <1>3, <1>4, <1>6, IdleIsTyped, PutIsACommandStep

\* What the command keeps of a run that it has found or created.
LEMMA ToListIsACommandStep ==
  ASSUME NEW s \in Seeders, seeders[s].pc \in LatePcs, NEW read \in Run,
         Become(s, [Idle EXCEPT !.pc = "list", !.read = read])
  PROVE  CommandStep(s)
<1> DEFINE new == [Idle EXCEPT !.pc = "list", !.read = read]
<1>1. new \in Seeder /\ new.pc = "list"
  BY IdleIsTyped DEF Idle, Seeder, Fields, Labels
<1>2. Become(s, new)
  OBVIOUS
<1> HIDE DEF new
<1>3. QED
  BY <1>1, <1>2, LateStepIsACommandStep DEF LatePcs, Labels, Vouches

LEMMA FindRunIsACommandStep ==
  ASSUME DemoShape, NEW s \in Seeders, FindRun(s)
  PROVE  CommandStep(s)
<1>1. seeders[s].pc \in LatePcs
  BY DEF FindRun, At, LatePcs, Labels
<1>2. \/ Goes(s, "create")
      \/ Become(s, [Idle EXCEPT !.pc = "list", !.read = RunNow])
      \/ Refuses(s)
  BY DEF FindRun
<1>3. QED
  BY <1>1, <1>2, LateGoesIsACommandStep, ToListIsACommandStep, ToIdleIsACommandStep
     DEF DemoShape, LatePcs, Labels, Refuses

LEMMA SeedRunIsACommandStep ==
  ASSUME DemoShape, NEW s \in Seeders, SeedRun(s)
  PROVE  CommandStep(s)
<1>1. seeders[s].pc \in LatePcs
  BY DEF SeedRun, At, LatePcs, Labels
<1>2. QueuedRun(Authored) \in Run
  BY NewRunsAreBehind DEF Identity
<1>3. \/ Become(s, [Idle EXCEPT !.pc = "list", !.read = QueuedRun(Authored)])
      \/ Refuses(s)
  BY DEF SeedRun
<1>4. QED
  BY <1>1, <1>2, <1>3, ToListIsACommandStep, ToIdleIsACommandStep DEF Refuses

\* A command that goes on to record has attempts left.
LEMMA ToRecordIsACommandStep ==
  ASSUME NEW s \in Seeders, seeders[s].pc \in LatePcs, NEW left \in SUBSET Attempts,
         Become(s, [Idle EXCEPT !.pc = "record", !.left = left])
  PROVE  CommandStep(s)
<1> DEFINE new == [Idle EXCEPT !.pc = "record", !.left = left]
<1>1. new \in Seeder /\ new.pc = "record"
  BY IdleIsTyped DEF Idle, Seeder, Fields, Labels
<1>2. Become(s, new)
  OBVIOUS
<1> HIDE DEF new
<1>3. QED
  BY <1>1, <1>2, LateStepIsACommandStep DEF LatePcs, Labels, Vouches

LEMMA ListOutcomesIsACommandStep ==
  ASSUME NEW s \in Seeders, ListOutcomes(s)
  PROVE  CommandStep(s)
<1>1. seeders[s].pc \in LatePcs
  BY DEF ListOutcomes, At, LatePcs, Labels
<1>2. \/ Goes(s, "verify run")
      \/ Goes(s, "claim")
      \/ Become(s, [Idle EXCEPT !.pc = "record", !.left = Attempts \ Recorded])
      \/ Become(s, Idle)
  BY DEF ListOutcomes
<1>3. QED
  BY <1>1, <1>2, LateGoesIsACommandStep, ToRecordIsACommandStep, ToIdleIsACommandStep
     DEF LatePcs, Labels

LEMMA ClaimDemoIsACommandStep ==
  ASSUME NEW s \in Seeders, ClaimDemo(s)
  PROVE  CommandStep(s)
<1>1. seeders[s].pc \in LatePcs
  BY DEF ClaimDemo, At, LatePcs, Labels
<1>2. QED
  BY <1>1, ToRecordIsACommandStep, ToIdleIsACommandStep DEF ClaimDemo, Refuses

LEMMA RecordAuthoredIsACommandStep ==
  ASSUME DemoShape, NEW s \in Seeders, RecordAuthored(s)
  PROVE  CommandStep(s)
<1>1. seeders[s].pc \in LatePcs /\ seeders[s].pc = "record"
  BY DEF RecordAuthored, At, LatePcs, Labels
<1>2. ASSUME NEW a, Become(s, [seeders[s] EXCEPT !.left = seeders[s].left \ {a}])
      PROVE  CommandStep(s)
  <2> DEFINE new == [seeders[s] EXCEPT !.left = seeders[s].left \ {a}]
  <2>1. seeders[s] \in Fields /\ seeders[s].left \subseteq Attempts
    BY <1>1 DEF DemoShape, Seeder
  <2>2. new \in Seeder /\ new.pc = "record"
    BY <1>1, <2>1 DEF Seeder, Fields
  <2>3. Become(s, new)
    BY <1>2
  <2> HIDE DEF new
  <2>4. QED
    BY <1>1, <2>2, <2>3, LateStepIsACommandStep DEF LatePcs, Labels, Vouches
<1>3. CASE Goes(s, "finalize")
  BY <1>1, <1>3, LateGoesIsACommandStep DEF LatePcs, Labels
<1>4. CASE Refuses(s)
  BY <1>4, ToIdleIsACommandStep DEF Refuses
<1>5. QED
  BY <1>2, <1>3, <1>4 DEF RecordAuthored

LEMMA FinalizeIsACommandStep ==
  ASSUME NEW s \in Seeders, Finalize(s)
  PROVE  CommandStep(s)
<1> DEFINE tallies == SummariesOf(outcomes[Demo])
           new == [Idle EXCEPT !.pc = "complete", !.summaries = tallies]
<1>1. seeders[s].pc \in LatePcs
  BY DEF Finalize, At, LatePcs, Labels
<1>2. CASE Become(s, new)
  <2>1. tallies \in [Configs -> Tally]
    BY SummariesAreTallies
  <2> HIDE DEF tallies
  <2>2. new \in Seeder /\ new.pc = "complete"
    BY <2>1, IdleIsTyped DEF Idle, Seeder, Fields, Labels
  <2> HIDE DEF new
  <2>3. QED
    BY <1>1, <1>2, <2>2, LateStepIsACommandStep DEF LatePcs, Labels, Vouches
<1>3. CASE Refuses(s)
  BY <1>3, ToIdleIsACommandStep DEF Refuses
<1>4. QED
  BY <1>2, <1>3 DEF Finalize

LEMMA CompleteDemoIsACommandStep ==
  ASSUME NEW s \in Seeders, CompleteDemo(s)
  PROVE  CommandStep(s)
<1>1. seeders[s].pc \in LatePcs
  BY DEF CompleteDemo, At, LatePcs, Labels
<1>2. Goes(s, "verify run") \/ Refuses(s)
  BY DEF CompleteDemo
<1>3. QED
  BY <1>1, <1>2, LateGoesIsACommandStep, ToIdleIsACommandStep DEF LatePcs, Labels, Refuses

\* The command vouches for what it reads while nobody is inside of a method.
LEMMA VerifyRunIsACommandStep ==
  ASSUME DemoShape, NEW s \in Seeders, VerifyRun(s)
  PROVE  CommandStep(s)
<1> DEFINE new == [Idle EXCEPT !.pc = "verify outcomes", !.read = RunNow, !.alone = NobodyCalls]
<1>1. seeders[s].pc \in LatePcs
  BY DEF VerifyRun, At, LatePcs, Labels
<1>2. CASE Become(s, new) /\ Decodes
  <2>1. NobodyCalls \in BOOLEAN
    BY DEF NobodyCalls
  <2>2. /\ new \in Fields /\ new.pc = "verify outcomes" /\ new.read = RunNow
        /\ new.alone = NobodyCalls
    BY <2>1, IdleIsTyped DEF DemoShape, Idle, Seeder, Fields, Labels
  <2> HIDE DEF new
  <2>3. new \in Seeder
    BY <2>2 DEF Seeder
  <2>4. Vouches(new) => Final
    BY <1>2, <2>2 DEF Vouches, Final
  <2>5. QED
    BY <1>1, <1>2, <2>2, <2>3, <2>4, LateStepIsACommandStep DEF LatePcs, Labels
<1>3. CASE Refuses(s)
  BY <1>3, ToIdleIsACommandStep DEF Refuses
<1>4. QED
  BY <1>2, <1>3 DEF VerifyRun

\* A process that dies leaves the commands alone, or is one that becomes idle.
LEMMA EndsMovesOneCommand ==
  ASSUME DemoShape, NEW p \in Procs, Ends(p)
  PROVE  UNCHANGED seeders \/ \E s \in Seeders : CommandStep(s)
<1>1. CASE p \in Seeders
  <2>1. Become(p, Idle)
    BY <1>1 DEF Ends, Become, DemoShape
  <2>2. QED
    BY <1>1, <2>1, ToIdleIsACommandStep
<1>2. CASE p \notin Seeders
  BY <1>2 DEF Ends, DemoShape
<1>3. QED
  BY <1>1, <1>2

\* Either one command makes a step, or the commands are as they were.
LEMMA OneCommandMoves ==
  ASSUME DemoShape, [DemoNext]_demoVars
  PROVE  UNCHANGED seeders \/ \E s \in Seeders : CommandStep(s)
<1> DEFINE Goal == UNCHANGED seeders \/ \E s \in Seeders : CommandStep(s)
<1>1. ASSUME NEW s \in Seeders, Commands(s) PROVE CommandStep(s)
  BY <1>1, SeedDatasetIsACommandStep, SeedConfigIsACommandStep, SeedQuerySetIsACommandStep,
     SeedTitlesIsACommandStep, FindRunIsACommandStep, SeedRunIsACommandStep,
     ListOutcomesIsACommandStep, ClaimDemoIsACommandStep, RecordAuthoredIsACommandStep,
     FinalizeIsACommandStep, CompleteDemoIsACommandStep, VerifyRunIsACommandStep
     DEF Commands
<1>2. ASSUME NEW p \in Procs, Proceeds(p) \/ Crash(p) PROVE Goal
  BY <1>2, EndsMovesOneCommand DEF Proceeds, Crash
<1>3. ASSUME NEW s \in Seeders, Start(s) \/ VerifyOutcomes(s) PROVE CommandStep(s)
  BY <1>3, StartIsACommandStep, ToIdleIsACommandStep DEF VerifyOutcomes
<1>4. QED
  BY <1>1, <1>2, <1>3 DEF DemoNext, demoVars, Continue, Foreign, Procs

-----------------------------------------------------------------------------
(* The invariant.                                                          *)

PutsAreStored ==
  \A s \in Seeders : \A record \in HasPut(seeders[s]) : catalog[record] = Authored

VouchedDemoIsFinal ==
  \A s \in Seeders : Vouches(seeders[s]) => Final

SeededDemoIsFinal ==
  seeded => /\ Final
            /\ outcomes[Demo] = AuthoredOutcomes
            /\ \A record \in Records : catalog[record] = Authored

DemoSound ==
  DemoBehind /\ PutsAreStored /\ VouchedDemoIsFinal /\ SeededDemoIsFinal

\* Only a command that vouches for the run and finds every outcome reports success.
LEMMA OnlyVerifiedIsReported ==
  ASSUME [DemoNext]_demoVars, seeded', ~seeded
  PROVE  \E s \in Seeders :
           /\ Vouches(seeders[s])
           /\ outcomes[Demo] = AuthoredOutcomes
           /\ UNCHANGED <<outcomes, catalog>>
<1>1. \E s \in Seeders : VerifyOutcomes(s)
  BY DEF DemoNext, demoVars, Start, Crash, Continue, Commands, Proceeds, Foreign
<1>2. QED
  BY <1>1 DEF VerifyOutcomes, At, Verified, Vouches, NoWrite, runVars, storeVars

\* No step makes the invariant false.
LEMMA DemoStaysSound ==
  ASSUME DemoSound, [DemoNext]_demoVars
  PROVE  DemoSound'
<1>1. DemoBehind /\ DemoShape
  BY DEF DemoSound, DemoBehind
<1>2. ASSUME NEW record \in Records, catalog[record] = Authored
      PROVE  catalog'[record] = Authored
  BY <1>2, AuthoredRecordsStay
<1>3. ASSUME NEW c \in Seeder PROVE HasPut(c) \subseteq Records
  BY <1>3 DEF HasPut, Records
<1>4. DemoBehind'
  <2>1. seeders' \in [Seeders -> Seeder]
    BY <1>1, OneCommandMoves DEF DemoShape, CommandStep
  <2>2. QED
    BY <1>1, <2>1, RunStaysBehind DEF RunIsBehind, DemoBehind, DemoShape
<1>5. PutsAreStored'
  <2> SUFFICES ASSUME NEW s \in Seeders, NEW record \in HasPut(seeders'[s])
               PROVE  catalog'[record] = Authored
    BY DEF PutsAreStored, HasPut
  <2>1. seeders[s] \in Seeder /\ seeders'[s] \in Seeder
    BY <1>1, <1>4 DEF DemoBehind, DemoShape
  <2>2. record \in HasPut(seeders[s]) => catalog'[record] = Authored
    BY <1>2, <1>3, <2>1 DEF DemoSound, PutsAreStored
  <2>3. record \in HasPut(seeders[s]) \/ catalog'[record] = Authored
    BY <1>1, OneCommandMoves DEF DemoShape, CommandStep
  <2>4. QED
    BY <2>2, <2>3
<1>6. VouchedDemoIsFinal'
  <2> SUFFICES ASSUME NEW s \in Seeders, Vouches(seeders'[s]) PROVE Final'
    BY DEF VouchedDemoIsFinal, Vouches, IsAuthoredRun, AuthoredRow, AuthoredStamps,
           SummariesOf, Counted, AuthoredOutcomes
  <2>1. seeders'[s] = seeders[s] \/ Final
    BY <1>1, OneCommandMoves DEF DemoShape, CommandStep
  <2>2. Final
    BY <2>1 DEF DemoSound, VouchedDemoIsFinal
  <2>3. QED
    BY <1>1, <2>2, FinalStays
<1>7. SeededDemoIsFinal'
  <2> SUFFICES ASSUME seeded'
               PROVE  /\ Final'
                      /\ outcomes'[Demo] = AuthoredOutcomes
                      /\ \A record \in Records : catalog'[record] = Authored
    BY DEF SeededDemoIsFinal
  <2>1. CASE seeded
    BY <1>1, <1>2, <2>1, FinalStays DEF DemoSound, SeededDemoIsFinal, runVars, storeVars
  <2>2. CASE ~seeded
    <3>1. PICK s \in Seeders :
            /\ Vouches(seeders[s])
            /\ outcomes[Demo] = AuthoredOutcomes
            /\ UNCHANGED <<outcomes, catalog>>
      BY <2>2, OnlyVerifiedIsReported
    <3>2. Final'
      BY <1>1, <3>1, FinalStays DEF DemoSound, VouchedDemoIsFinal
    <3>3. HasPut(seeders[s]) = Records
      BY <3>1, LateCommandsPutAll DEF Vouches, LatePcs, Labels
    <3>4. QED
      BY <3>1, <3>2, <3>3 DEF DemoSound, PutsAreStored
  <2>3. QED
    BY <2>1, <2>2
<1>8. QED
  BY <1>4, <1>5, <1>6, <1>7 DEF DemoSound

\* Before the first command there is nothing to be wrong about.
LEMMA DemoInitIsSound == DemoInit => DemoSound
<1> SUFFICES ASSUME DemoInit PROVE DemoSound
  OBVIOUS
<1>1. /\ \A s \in Seeders : seeders[s] = Idle
      /\ \A p \in Procs : call[p] = NoCall
  BY DEF DemoInit
<1>2. rows[Demo] = NoRow /\ rows \in [Runs -> Row] /\ outcomes \in [Runs -> OutcomeMaps]
  BY DemoIsARun, NoRowIsTyped DEF DemoInit, StoreInit, NoOutcomes, OutcomeMaps
<1>3. RunNow = NoRun
  BY <1>2 DEF DemoInit, RunNow, NoRun
<1>4. DemoShape
  BY <1>2, <1>3, IdleIsTyped, NoCallIsTyped, NewRunsAreBehind
     DEF DemoInit, DemoShape, Columns, ColumnNames
<1>5. CallsAreBehind
  BY <1>1, <1>3, NoCallIsTyped, NewRunsAreBehind DEF CallsAreBehind
<1>6. ColumnsAreBehind
  <2>1. column.completed = 0 /\ column.status = "absent"
    BY DEF DemoInit, Columns, NoRun, NoRow
  <2>2. QED
    BY <2>1, ProgressIsNatural DEF ColumnsAreBehind
<1>7. QED
  BY <1>1, <1>4, <1>5, <1>6, IdleIsTyped
     DEF DemoInit, DemoBehind, DemoSound, PutsAreStored, VouchedDemoIsFinal, Vouches,
         SeededDemoIsFinal

\* The invariant holds in every state the commands and the other callers reach.
THEOREM DemoIsSound == DemoSpec => []DemoSound
BY DemoInitIsSound, DemoStaysSound, PTL DEF DemoSpec

-----------------------------------------------------------------------------
(* The theorems.                                                           *)

\* When a seed command that was alone has reported success (seeder.py,
\* _verified_result), the store holds exactly the authored demo and every later
\* read accepts it from then on, whatever overlapped before and comes after.
THEOREM ReportedDemoIsWhole == DemoSpec => []SeededDemoIsWhole
<1>1. DemoSound => SeededDemoIsWhole
  BY DEF DemoSound, SeededDemoIsFinal, Final, SeededDemoIsWhole
<1>2. QED
  BY <1>1, DemoIsSound, PTL

\* However the methods of any number of processes overlap, no payload and no
\* column counts a query that is not durable, and no column says completed
\* before every outcome is (repository.py, record_outcome and complete_run).
THEOREM OverlappingProgressIsNeverAhead == DemoSpec => []ProgressIsNeverAhead
<1>1. ASSUME DemoSound PROVE ProgressIsNeverAhead
  <2>1. rows[Demo].completed <= CompletedCount(outcomes[Demo])
    BY <1>1 DEF DemoSound, DemoBehind, CallsAreBehind, Behind, RunNow
  <2>2. QED
    BY <1>1, <2>1 DEF DemoSound, DemoBehind, ColumnsAreBehind, ProgressIsNeverAhead, Recorded
<1>2. QED
  BY <1>1, DemoIsSound, PTL

=============================================================================
