------------------------ MODULE ReadOnlyCatalogProofs ------------------------
(***************************************************************************)
(* Readers beside the writer, for every number of runs, configs, queries   *)
(* and policies.                                                           *)
(*                                                                         *)
(* FilesSound says how the connection, the durable database and the pages  *)
(* of the file relate: they differ only while a transaction is open, and   *)
(* then by one store operation.  On it rest two arguments.  A copy of the  *)
(* gate is the file as long as the file has not moved (GateSound).  And    *)
(* what became durable after a view has read its row shows in the number   *)
(* of covered queries, or is the end of the run (ViewSound).               *)
(*                                                                         *)
(* The verdicts of the gate come last: the sum it compares is computed by  *)
(* recursion over a finite set, which has a solution and is monotone by    *)
(* the least number principle, applied to the sizes of subsets.            *)
(***************************************************************************)
EXTENDS ReadOnlyCatalog, RunStoreProofs, WellFoundedInduction

\* What one store operation does to one run.
RunChange(row, out, row2, out2) ==
  \/ row2 = row /\ out2 = out
  \/ /\ out2 = out
     /\ row.status \notin Terminal
     /\ \/ row.status = "absent"
        \/ row.status = "queued" /\ row2.status = "running"
        \/ row2.status \in Terminal
  \/ /\ row.status = "running"
     /\ row2 = Progressed(row, out2)
     /\ \E a \in Attempts, result \in Results : out2 = Upserted(out, a, result)

Database == [rows : [Runs -> Row], outcomes : [Runs -> OutcomeMaps]]

FilesSound ==
  /\ SoundStore
  /\ committed \in Database /\ disk \in Database
  /\ \A r \in Runs : SoundRow(committed.rows[r], committed.outcomes[r])
  /\ journal \in {"none", "live", "hot"}
  /\ journal = "none" => disk = committed
  /\ journal # "live" => Current = committed
  /\ \A r \in Runs :
       RunChange(committed.rows[r], committed.outcomes[r], rows[r], outcomes[r])

-----------------------------------------------------------------------------
(* The writer.                                                             *)

\* Every operation of the store changes each run in one of those ways.
LEMMA StoreStepsChangeRuns ==
  ASSUME SoundStore, StoreNext, NEW s \in Runs
  PROVE  RunChange(rows[s], outcomes[s], rows'[s], outcomes'[s])
<1>0. /\ rows \in [Runs -> Row] /\ outcomes \in [Runs -> OutcomeMaps]
      /\ \A r \in Runs : rows[r] \in Row
  BY DEF SoundStore
<1>1. ASSUME NEW r \in Runs, CreateRun(r) PROVE RunChange(rows[s], outcomes[s], rows'[s], outcomes'[s])
  BY <1>0, <1>1 DEF CreateRun, RunChange, Terminal
<1>2. ASSUME NEW r \in Runs, ClaimQueuedRun(r)
      PROVE  RunChange(rows[s], outcomes[s], rows'[s], outcomes'[s])
  BY <1>0, <1>2, MovedHasStatus DEF ClaimQueuedRun, RunChange, Terminal
<1>3. ASSUME NEW r \in Runs, NEW target \in Statuses, NEW summaries,
             TransitionRun(r, target, summaries)
      PROVE  RunChange(rows[s], outcomes[s], rows'[s], outcomes'[s])
  <2>1. /\ rows[r].status \in {"queued", "running"}
        /\ target \in Terminal \/ (rows[r].status = "queued" /\ target = "running")
    BY <1>3 DEF TransitionRun, MayMove, Allowed, Terminal
  <2>2. rows' = [rows EXCEPT ![r] = Moved(rows[r], target, summaries)] /\ outcomes' = outcomes
    BY <1>3 DEF TransitionRun
  <2>3. Moved(rows[r], target, summaries).status = target
    BY <1>0, MovedHasStatus
  <2>4. QED
    BY <1>0, <2>1, <2>2, <2>3 DEF RunChange, Terminal
<1>4. ASSUME NEW r \in Runs, NEW summaries, CompleteRun(r, summaries)
      PROVE  RunChange(rows[s], outcomes[s], rows'[s], outcomes'[s])
  <2>1. rows[r].status = "running"
    BY <1>4 DEF CompleteRun, MayMove, Allowed, Terminal
  <2>2. /\ rows' = [rows EXCEPT ![r] = Moved(rows[r], "completed", summaries)]
        /\ outcomes' = outcomes
    BY <1>4 DEF CompleteRun
  <2>3. Moved(rows[r], "completed", summaries).status = "completed"
    BY <1>0, MovedHasStatus
  <2>4. QED
    BY <1>0, <2>1, <2>2, <2>3 DEF RunChange, Terminal
<1>5. ASSUME NEW r \in Runs, NEW a \in Attempts, NEW result \in Results, RecordOutcome(r, a, result)
      PROVE  RunChange(rows[s], outcomes[s], rows'[s], outcomes'[s])
  <2>1. CASE s = r
    <3>1. /\ outcomes'[r] = Upserted(outcomes[r], a, result)
          /\ rows'[r] = Progressed(rows[r], outcomes'[r]) /\ rows[r].status = "running"
      BY <1>0, <1>5 DEF RecordOutcome
    <3>2. QED
      BY <2>1, <3>1 DEF RunChange
  <2>2. CASE s # r
    BY <1>0, <1>5, <2>2 DEF RecordOutcome, RunChange
  <2>3. QED
    BY <2>1, <2>2
<1>6. ASSUME InterruptStaleRuns PROVE RunChange(rows[s], outcomes[s], rows'[s], outcomes'[s])
  <2>1. outcomes' = outcomes
    BY <1>6 DEF InterruptStaleRuns
  <2>2. rows'[s] = IF rows[s].status = "running" THEN MovedTo(rows[s], "interrupted") ELSE rows[s]
    BY <1>6 DEF InterruptStaleRuns, InterruptedRows
  <2>3. MovedTo(rows[s], "interrupted").status = "interrupted"
    BY <1>0, MovedHasStatus
  <2>4. QED
    BY <2>1, <2>2, <2>3 DEF RunChange, Terminal
<1>7. ASSUME NEW r \in Runs, NEW target \in Statuses, MoveRun(r, target)
      PROVE  RunChange(rows[s], outcomes[s], rows'[s], outcomes'[s])
  BY <1>3, <1>7 DEF MoveRun
<1>8. CASE ApplicationNext
  BY <1>1, <1>2, <1>4, <1>5, <1>6, <1>7, <1>8 DEF ApplicationNext
<1>9. QED
  BY <1>3, <1>8 DEF StoreNext

\* The writer keeps the files sound, step by step of a transaction.
LEMMA WriterKeepsFiles ==
  ASSUME FilesSound, Writer
  PROVE  FilesSound'
<1>0. Current \in Database /\ Current = [rows |-> rows, outcomes |-> outcomes]
  BY DEF FilesSound, SoundStore, Database, Current
<1>1. CASE BeginWrite
  <2>1. SoundStore'
    BY <1>1, StoreStepIsSound DEF BeginWrite, FilesSound, StoreNext
  <2>2. rows = committed.rows /\ outcomes = committed.outcomes
    BY <1>1 DEF BeginWrite, FilesSound, Current
  <2>3. \A r \in Runs : RunChange(committed.rows[r], committed.outcomes[r], rows'[r], outcomes'[r])
    BY <1>1, <2>2, StoreStepsChangeRuns DEF BeginWrite, FilesSound, StoreNext
  <2>4. QED
    BY <1>1, <2>1, <2>3 DEF BeginWrite, FilesSound
<1>2. ASSUME NEW page \in Pages, WritePage(page) PROVE FilesSound'
  <2>1. disk' \in Database
    BY <1>0, <1>2 DEF WritePage, Pages, FilesSound, Database
  <2>2. QED
    BY <1>2, <2>1 DEF WritePage, FilesSound, SoundStore, Current
<1>3. CASE Commit
  <2>1. /\ committed' = [rows |-> rows, outcomes |-> outcomes] /\ disk' = disk /\ disk = Current
        /\ rows' = rows /\ outcomes' = outcomes /\ journal' = "none"
    BY <1>3 DEF Commit, Current
  <2>2. committed'.rows = rows /\ committed'.outcomes = outcomes
    BY <2>1
  <2>3. QED
    BY <1>0, <2>1, <2>2 DEF FilesSound, SoundStore, Current, RunChange
<1>4. CASE Crash \/ RollBack
  <2>1. /\ rows' = committed.rows /\ outcomes' = committed.outcomes /\ committed' = committed
        /\ journal' \in {"none", "hot"} /\ disk' \in {disk, committed}
        /\ journal' = "none" => disk' = committed
    BY <1>4 DEF Crash, RollBack
  <2>2. SoundStore'
    BY <2>1 DEF FilesSound, SoundStore, Database
  <2>3. Current' = committed
    BY <2>1 DEF Current, FilesSound, Database
  <2>4. QED
    BY <2>1, <2>2, <2>3 DEF FilesSound, RunChange
<1>5. QED
  BY <1>1, <1>2, <1>3, <1>4 DEF Writer

\* Readers never write.
LEMMA ReadersKeepFiles ==
  ASSUME FilesSound, Viewer \/ Gatekeeper \/ UNCHANGED vars
  PROVE  FilesSound' /\ UNCHANGED <<rows, outcomes, committed, disk, journal>>
<1>1. UNCHANGED <<rows, outcomes, committed, disk, journal>>
  BY DEF Viewer, ReadRun, ReadOutcomes, EndView, Gatekeeper, Acquire, Copy, Open, Evaluate,
         Close, Interrupt, EndGate, GateStep, vars
<1>2. QED
  BY <1>1 DEF FilesSound, SoundStore, Current

\* An empty database is sound.
LEMMA InitFilesAreSound == Init => FilesSound
<1> SUFFICES ASSUME Init PROVE FilesSound
  OBVIOUS
<1>1. SoundStore
  BY StoreInitIsSound DEF Init
<1>2. Current \in Database /\ Current.rows = rows /\ Current.outcomes = outcomes
  BY <1>1 DEF SoundStore, Database, Current
<1>3. QED
  BY <1>1, <1>2 DEF Init, FilesSound, SoundStore, RunChange

\* The file, the journal and the connections agree in every behaviour.
LEMMA FilesStaySound == FilesSound /\ [Next]_vars => FilesSound'
BY WriterKeepsFiles, ReadersKeepFiles DEF Next

-----------------------------------------------------------------------------
(* The gate.                                                               *)

GateShape(g) ==
  g = [ phase |-> g.phase, run |-> g.run, moved |-> g.moved, read |-> g.read, copy |-> g.copy,
        policy |-> g.policy, quality |-> g.quality, result |-> g.result ]

Rejected == {"invalid", "internal"}

\* A copied page is the page of the file until the file moves; a judged copy
\* is whole, and so is the evidence of a verdict that was kept.
SoundCopy(g, pages, durable) ==
  /\ GateShape(g)
  /\ g.copy = [rows |-> g.copy.rows, outcomes |-> g.copy.outcomes]
  /\ g.phase \in {"idle", "guarded", "open", "evaluated", "closed"}
  /\ g.phase \in {"guarded", "open", "evaluated"} => g.run \in Runs
  /\ g.phase = "closed" => g.run \in Runs \/ g.result \in Rejected
  /\ g.phase \in {"guarded", "open", "evaluated"} /\ ~g.moved =>
       \A page \in g.read : g.copy[page] = pages[page]
  /\ g.phase \in {"open", "evaluated"} => g.read = Pages
  /\ g.phase \in {"evaluated", "closed"} /\ g.result \notin Rejected =>
       g.copy.rows[g.run].status = "completed"
  /\ g.phase = "closed" /\ g.result \notin Rejected =>
       /\ g.copy.rows[g.run] = durable.rows[g.run]
       /\ g.copy.outcomes[g.run] = durable.outcomes[g.run]

GateSound == SoundCopy(gate, disk, committed)

\* A gate that was not asked, or refused.
LEMMA NoGateIsSound ==
  ASSUME NEW pages, NEW durable
  PROVE  /\ SoundCopy(NoGate, pages, durable)
         /\ SoundCopy(Refused, pages, durable)
         /\ SoundCopy([NoGate EXCEPT !.phase = "closed", !.result = "internal"], pages, durable)
<1>1. EmptyDatabase = [rows |-> EmptyDatabase.rows, outcomes |-> EmptyDatabase.outcomes]
  BY DEF EmptyDatabase
<1>2. GateShape(NoGate) /\ NoGate.phase = "idle" /\ NoGate.copy = EmptyDatabase
  BY DEF NoGate, GateShape
<1>3. ASSUME NEW result \in Rejected, NEW g, g = [NoGate EXCEPT !.phase = "closed", !.result = result]
      PROVE  SoundCopy(g, pages, durable)
  <2>1. GateShape(g) /\ g.phase = "closed" /\ g.result = result /\ g.copy = EmptyDatabase
    BY <1>2, <1>3 DEF GateShape
  <2>2. QED
    BY <1>1, <2>1 DEF SoundCopy
<1>4. SoundCopy(NoGate, pages, durable)
  BY <1>1, <1>2 DEF SoundCopy
<1>5. QED
  BY <1>3, <1>4 DEF Refused, Rejected

\* A file that moves takes its copy's place away but no kept verdict.
LEMMA MovedCopyIsSound ==
  ASSUME GateSound, FileMoves, committed' = committed
  PROVE  GateSound'
<1>1. CASE gate.phase \in {"idle", "closed"}
  BY <1>1 DEF FileMoves, GateSound, SoundCopy
<1>2. CASE gate.phase \notin {"idle", "closed"}
  <2>1. gate' = [gate EXCEPT !.moved = TRUE]
    BY <1>2 DEF FileMoves
  <2>2. /\ GateShape(gate') /\ gate'.phase = gate.phase /\ gate'.run = gate.run /\ gate'.moved
        /\ gate'.read = gate.read /\ gate'.copy = gate.copy /\ gate'.result = gate.result
    BY <2>1 DEF GateSound, SoundCopy, GateShape
  <2>3. QED
    BY <1>2, <2>2 DEF GateSound, SoundCopy
<1>3. QED
  BY <1>1, <1>2

\* A completed run is final: no later transaction changes it.
LEMMA CompletedRunsAreFinal ==
  ASSUME FilesSound, NEW r \in Runs, committed.rows[r].status = "completed"
  PROVE  rows[r] = committed.rows[r] /\ outcomes[r] = committed.outcomes[r]
BY DEF FilesSound, RunChange, Terminal

\* Every step of the writer leaves the gate a sound copy.
LEMMA WriterKeepsGate ==
  ASSUME FilesSound, GateSound, Writer
  PROVE  GateSound'
<1>1. CASE BeginWrite \/ Crash
  BY <1>1 DEF BeginWrite, Crash, GateSound
<1>2. CASE \E page \in Pages : WritePage(page)
  BY <1>2, MovedCopyIsSound DEF WritePage
<1>3. CASE RollBack
  BY <1>3, MovedCopyIsSound DEF RollBack
<1>4. CASE Commit
  <2>1. /\ gate' = gate /\ disk' = disk
        /\ committed'.rows = rows /\ committed'.outcomes = outcomes
    BY <1>4 DEF Commit, Current
  <2>2. ASSUME gate.phase = "closed", gate.result \notin Rejected
        PROVE  /\ gate.copy.rows[gate.run] = rows[gate.run]
               /\ gate.copy.outcomes[gate.run] = outcomes[gate.run]
    BY <2>2, CompletedRunsAreFinal DEF GateSound, SoundCopy
  <2>3. QED
    BY <2>1, <2>2 DEF GateSound, SoundCopy
<1>5. QED
  BY <1>1, <1>2, <1>3, <1>4 DEF Writer

\* When the gate verifies, what it copied is durable.
LEMMA VerifiedCopyIsDurable ==
  ASSUME FilesSound, GateSound, Verified, gate.phase = "evaluated"
  PROVE  gate.copy.rows = committed.rows /\ gate.copy.outcomes = committed.outcomes
<1>1. disk = committed /\ "rows" \in gate.read /\ "outcomes" \in gate.read
  BY DEF FilesSound, GateSound, SoundCopy, Verified, Pages
<1>2. gate.copy["rows"] = disk["rows"] /\ gate.copy["outcomes"] = disk["outcomes"]
  BY <1>1 DEF GateSound, SoundCopy, Verified
<1>3. QED
  BY <1>1, <1>2

\* Every step of the gate keeps its copy sound.
LEMMA GatekeeperKeepsGate ==
  ASSUME FilesSound, GateSound, Gatekeeper
  PROVE  GateSound'
<1>0. disk' = disk /\ committed' = committed
  BY ReadersKeepFiles
<1> USE DEF GateSound
<1>1. CASE gate' \in {NoGate, Refused, [NoGate EXCEPT !.phase = "closed", !.result = "internal"]}
  BY <1>1, NoGateIsSound
<1>2. ASSUME NEW r \in Runs, gate' = [NoGate EXCEPT !.phase = "guarded", !.run = r]
      PROVE  GateSound'
  BY <1>2 DEF SoundCopy, GateShape, NoGate, EmptyDatabase
<1>3. ASSUME NEW page \in Pages, Copy(page) PROVE GateSound'
  <2>1. /\ gate' = [gate EXCEPT !.read = gate.read \union {page}, !.copy[page] = disk[page]]
        /\ gate.phase = "guarded"
    BY <1>3 DEF Copy, GateStep
  <2>2. /\ GateShape(gate') /\ gate'.phase = "guarded" /\ gate'.run = gate.run
        /\ gate'.moved = gate.moved /\ gate'.read = gate.read \union {page}
        /\ gate'.copy = [gate.copy EXCEPT ![page] = disk[page]] /\ gate'.result = gate.result
    BY <2>1 DEF SoundCopy, GateShape
  <2>3. gate'.copy = [rows |-> gate'.copy.rows, outcomes |-> gate'.copy.outcomes]
    BY <2>2 DEF SoundCopy, Pages
  <2>4. ASSUME ~gate.moved, NEW p \in gate'.read PROVE gate'.copy[p] = disk[p]
    BY <1>3, <2>1, <2>2, <2>4 DEF SoundCopy, Pages
  <2>5. QED
    BY <1>0, <2>1, <2>2, <2>3, <2>4 DEF SoundCopy
<1>4. CASE Open /\ gate' # Refused
  <2>1. /\ gate.phase = "guarded" /\ gate.read = Pages /\ gate' = [gate EXCEPT !.phase = "open"]
    BY <1>4 DEF Open, GateStep
  <2>2. QED
    BY <1>0, <2>1 DEF SoundCopy, GateShape
<1>5. CASE Evaluate
  <2>1. gate.phase = "open" /\ GateShape(gate)
    BY <1>5 DEF Evaluate, GateStep, SoundCopy
  <2>2. CASE gate' = [gate EXCEPT !.phase = "evaluated", !.result = "invalid"]
    <3>1. /\ GateShape(gate') /\ gate'.phase = "evaluated" /\ gate'.run = gate.run
          /\ gate'.moved = gate.moved /\ gate'.read = gate.read /\ gate'.copy = gate.copy
          /\ gate'.result \in Rejected
      BY <2>1, <2>2 DEF GateShape, Rejected
    <3>2. QED
      BY <1>0, <2>1, <3>1 DEF SoundCopy
  <2>3. CASE /\ gate.copy.rows[gate.run].status = "completed"
             /\ \E policy, quality, result :
                  gate' = [gate EXCEPT !.phase = "evaluated", !.policy = policy,
                                       !.quality = quality, !.result = result]
    <3>1. /\ GateShape(gate') /\ gate'.phase = "evaluated" /\ gate'.run = gate.run
          /\ gate'.moved = gate.moved /\ gate'.read = gate.read /\ gate'.copy = gate.copy
      BY <2>1, <2>3 DEF GateShape
    <3>2. QED
      BY <1>0, <2>1, <2>3, <3>1 DEF SoundCopy
  <2>4. QED
    <3>1. Evidence(gate.copy.rows[gate.run], gate.copy.outcomes[gate.run])
            => gate.copy.rows[gate.run].status = "completed"
      BY DEF Evidence
    <3>2. QED
      BY <1>5, <2>2, <2>3, <3>1, Zenon DEF Evaluate
<1>6. CASE Close /\ gate' # Refused
  <2>1. gate.phase = "evaluated" /\ Verified /\ gate' = [gate EXCEPT !.phase = "closed"]
    BY <1>6 DEF Close, GateStep
  <2>2. /\ GateShape(gate') /\ gate'.phase = "closed" /\ gate'.run = gate.run
        /\ gate'.copy = gate.copy /\ gate'.result = gate.result
    BY <2>1 DEF SoundCopy, GateShape
  <2>3. QED
    BY <1>0, <2>1, <2>2, VerifiedCopyIsDurable DEF SoundCopy
<1>7. QED
  BY <1>1, <1>2, <1>3, <1>4, <1>5, <1>6
     DEF Gatekeeper, Acquire, Open, Close, Interrupt, EndGate

\* The steps of a view leave the gate alone.
LEMMA GateStaysSound == FilesSound /\ GateSound /\ [Next]_vars => GateSound'
<1> SUFFICES ASSUME FilesSound, GateSound, [Next]_vars PROVE GateSound'
  OBVIOUS
<1>1. CASE Viewer \/ UNCHANGED vars
  BY <1>1 DEF Viewer, ReadRun, ReadOutcomes, EndView, vars, GateSound
<1>2. QED
  BY <1>1, WriterKeepsGate, GatekeeperKeepsGate DEF Next

\* A verdict the gate exits with rests on evidence that is durable and final,
\* whatever the writer did beside the copy and wherever it died.
THEOREM VerdictsAreOfCommittedEvidence == Spec => []VerdictIsOfCommittedEvidence
<1>1. Init => GateSound
  BY NoGateIsSound DEF Init, GateSound
<1>2. FilesSound /\ GateSound => VerdictIsOfCommittedEvidence
  <2> SUFFICES ASSUME FilesSound, GateSound, gate.phase = "closed", ExitCode(gate.result) \in {0, 4}
               PROVE  /\ gate.copy.rows[gate.run] = committed.rows[gate.run]
                      /\ gate.copy.outcomes[gate.run] = committed.outcomes[gate.run]
                      /\ committed.rows[gate.run].status = "completed"
    BY DEF VerdictIsOfCommittedEvidence
  <2>1. ExitCode("invalid") = 2 /\ ExitCode("internal") = 1
    BY DEF ExitCode
  <2>2. gate.result \notin Rejected
    BY <2>1 DEF Rejected
  <2>3. QED
    BY <2>2 DEF GateSound, SoundCopy
<1>3. QED
  BY <1>1, <1>2, InitFilesAreSound, FilesStaySound, GateStaysSound, PTL DEF Spec

-----------------------------------------------------------------------------
(* Views.                                                                  *)

ViewShape(v) ==
  v = [phase |-> v.phase, run |-> v.run, row |-> v.row, out |-> v.out, beside |-> v.beside]

\* What is durable of a run whose row was read earlier: the very row, or more
\* covered queries than the row counts, or the end of the run with the same
\* outcomes, or an outcome of a run that was queued when it was read.
ReadBefore(row, beside, row2, out2) ==
  \/ row2 = row /\ out2 = beside
  \/ CompletedCount(out2) > row.completed
  \/ row2.status \in Terminal /\ out2 = beside
  \/ row.status = "queued" /\ (HasOutcomes(out2) \/ out2 = beside)

SoundView(v, durable) ==
  /\ ViewShape(v)
  /\ v.phase \in {"idle", "row read", "answered", "unavailable"}
  /\ v.phase = "row read" =>
       /\ v.run \in Runs
       /\ v.row \in Row
       /\ v.row.status # "absent"
       /\ ReadBefore(v.row, v.beside, durable.rows[v.run], durable.outcomes[v.run])
  /\ v.phase = "answered" => v.out = v.beside

ViewSound == SoundView(view, committed)

\* With more outcomes no fewer queries are covered.
LEMMA MoreOutcomesCoverMore ==
  ASSUME NEW old, NEW more, \A a \in Attempts : old[a] # "none" => more[a] # "none"
  PROVE  CompletedCount(more) >= CompletedCount(old)
<1>1. Covered(old) \subseteq Covered(more)
  <2> SUFFICES ASSUME NEW q \in Queries, \A c \in Configs : old[<<c, q>>] # "none"
               PROVE  \A c \in Configs : more[<<c, q>>] # "none"
    BY DEF Covered
  <2> TAKE c \in Configs
  <2>1. <<c, q>> \in Attempts
    BY DEF Attempts
  <2>2. QED
    BY <2>1
<1>2. IsFiniteSet(Covered(more))
  <2>1. Covered(more) \subseteq Queries /\ IsFiniteSet(Queries)
    BY StoreAssumption DEF Covered
  <2>2. QED
    BY <2>1, FS_Subset
<1>3. Cardinality(Covered(old)) <= Cardinality(Covered(more))
  BY <1>1, <1>2, FS_Subset
<1>4. CompletedCount(old) = Cardinality(Covered(old)) /\ CompletedCount(more) = Cardinality(Covered(more))
  BY DEF CompletedCount
<1>5. CompletedCount(old) \in Nat /\ CompletedCount(more) \in Nat
  BY ProgressIsNatural
<1>6. QED
  BY <1>3, <1>4, <1>5

\* Recording an outcome covers no fewer queries.
LEMMA RecordingCoversMore ==
  ASSUME NEW out \in OutcomeMaps, NEW a \in Attempts, NEW result \in Results
  PROVE  /\ CompletedCount(Upserted(out, a, result)) >= CompletedCount(out)
         /\ HasOutcomes(Upserted(out, a, result))
<1>1. \A b \in Attempts : out[b] # "none" => Upserted(out, a, result)[b] # "none"
  BY DEF Upserted, OutcomeMaps, Results
<1>2. Upserted(out, a, result)[a] # "none"
  BY DEF Upserted, OutcomeMaps, Results
<1>3. QED
  BY <1>1, <1>2, MoreOutcomesCoverMore DEF HasOutcomes

\* A store operation that becomes durable leaves the run read before.
LEMMA DurableChangeIsVisible ==
  ASSUME NEW row \in Row, NEW beside, NEW row1, NEW out1, NEW row2, NEW out2,
         SoundRow(row1, out1), SoundRow(row2, out2), RunChange(row1, out1, row2, out2),
         ReadBefore(row, beside, row1, out1), row.status # "absent", row2 # row
  PROVE  ReadBefore(row, beside, row2, out2)
<1>0. /\ row.completed \in Nat /\ CompletedCount(out1) \in Nat /\ CompletedCount(out2) \in Nat
      /\ row1 \in Row /\ row2 \in Row /\ out1 \in OutcomeMaps
      /\ row1.completed = CompletedCount(out1) /\ row2.completed = CompletedCount(out2)
  BY ProgressIsNatural DEF Row, SoundRow
<1>1. CASE row2 = row1 /\ out2 = out1
  BY <1>1
<1>2. CASE /\ out2 = out1 /\ row1.status \notin Terminal
           /\ \/ row1.status = "absent"
              \/ row1.status = "queued" /\ row2.status = "running"
              \/ row2.status \in Terminal
  <2>1. ASSUME row1.status = "absent" PROVE row1 # row
    BY <2>1
  <2>2. ASSUME row1.status = "absent" PROVE ~HasOutcomes(out1)
    BY <2>2 DEF SoundRow, HasOutcomes
  <2>3. QED
    BY <1>2, <2>1, <2>2 DEF ReadBefore
<1>3. ASSUME row1.status = "running", row2 = Progressed(row1, out2),
             NEW a \in Attempts, NEW result \in Results, out2 = Upserted(out1, a, result)
      PROVE  ReadBefore(row, beside, row2, out2)
  <2>1. CompletedCount(out2) >= CompletedCount(out1) /\ HasOutcomes(out2)
    BY <1>0, <1>3, RecordingCoversMore
  <2>2. row1.status \notin Terminal
    BY <1>3 DEF Terminal
  <2>3. CASE row1 = row
    <3>1. row2.completed # row1.completed
      <4>1. row2 = [row1 EXCEPT !.completed = CompletedCount(out2)]
        BY <1>3 DEF Progressed
      <4>2. row2.completed = row1.completed => row2 = row1
        BY <1>0, <4>1 DEF Row
      <4>3. QED
        BY <2>3, <4>2
    <3>2. QED
      BY <1>0, <2>1, <2>3, <3>1 DEF ReadBefore
  <2>4. CASE row1 # row
    BY <1>0, <2>1, <2>2, <2>4 DEF ReadBefore
  <2>5. QED
    BY <2>3, <2>4
<1>4. QED
  BY <1>1, <1>2, <1>3 DEF RunChange

\* Every commit leaves the view a sound one.
LEMMA WriterKeepsView ==
  ASSUME FilesSound, ViewSound, Writer
  PROVE  ViewSound'
<1>1. CASE ~Commit
  <2>1. view' = view /\ committed' = committed
    BY <1>1 DEF Writer, BeginWrite, WritePage, Crash, RollBack
  <2>2. QED
    BY <2>1 DEF ViewSound
<1>2. CASE Commit
  <2>1. /\ committed'.rows = rows /\ committed'.outcomes = outcomes
        /\ view' = IF view.phase = "row read" /\ rows[view.run] = view.row
                   THEN [view EXCEPT !.beside = outcomes[view.run]]
                   ELSE view
    BY <1>2 DEF Commit, Current
  <2>2. CASE view.phase # "row read"
    BY <2>1, <2>2 DEF ViewSound, SoundView
  <2>3. CASE view.phase = "row read" /\ rows[view.run] = view.row
    <3>1. view' = [view EXCEPT !.beside = outcomes[view.run]]
      BY <2>1, <2>3
    <3>2. /\ ViewShape(view') /\ view'.phase = "row read" /\ view'.run = view.run
          /\ view'.row = view.row /\ view'.beside = outcomes[view.run]
      BY <2>3, <3>1 DEF ViewSound, SoundView, ViewShape
    <3>3. QED
      BY <2>1, <2>3, <3>2 DEF ViewSound, SoundView, ReadBefore
  <2>4. CASE view.phase = "row read" /\ rows[view.run] # view.row
    <3> DEFINE r == view.run
    <3>1. /\ r \in Runs /\ view.row \in Row /\ view.row.status # "absent"
          /\ ReadBefore(view.row, view.beside, committed.rows[r], committed.outcomes[r])
      BY <2>4 DEF ViewSound, SoundView
    <3>2. /\ SoundRow(committed.rows[r], committed.outcomes[r]) /\ SoundRow(rows[r], outcomes[r])
          /\ RunChange(committed.rows[r], committed.outcomes[r], rows[r], outcomes[r])
      BY <3>1 DEF FilesSound, SoundStore
    <3>3. ReadBefore(view.row, view.beside, rows[r], outcomes[r])
      BY <2>4, <3>1, <3>2, DurableChangeIsVisible
    <3>4. QED
      BY <2>1, <2>4, <3>3 DEF ViewSound, SoundView
  <2>5. QED
    BY <2>2, <2>3, <2>4
<1>3. QED
  BY <1>1, <1>2

\* A view that a projection accepts has read outcomes beside its row.
LEMMA AcceptedViewWasTrue ==
  ASSUME NEW row \in Row, NEW beside, NEW row2, NEW out, row.status # "absent",
         SoundRow(row2, out), ReadBefore(row, beside, row2, out), AcceptsView(row, out)
  PROVE  out = beside
<1>1. row.completed = CompletedCount(out) /\ row.completed \in Nat
  BY DEF AcceptsView, ProgressAgrees, Row
<1>2. row.status = "queued" => ~HasOutcomes(out)
  BY DEF AcceptsView, LifecycleAgrees, QueuedAgrees
<1>3. QED
  BY <1>1, <1>2 DEF ReadBefore

\* The two sessions of a view keep it sound.
LEMMA ViewerKeepsView ==
  ASSUME FilesSound, ViewSound, Viewer
  PROVE  ViewSound'
<1>0. committed' = committed
  BY ReadersKeepFiles
<1>1. ASSUME NEW r \in Runs, ReadRun(r) PROVE ViewSound'
  <2>1. committed.rows[r] \in Row
    BY DEF FilesSound, SoundRow
  <2>2. QED
    BY <1>0, <1>1, <2>1 DEF ReadRun, ViewSound, SoundView, ViewShape, ReadBefore
<1>2. CASE ReadOutcomes
  <2> DEFINE out == committed.outcomes[view.run]
             phase == IF AcceptsView(view.row, out) /\ RegressionsAddUp(out)
                      THEN "answered" ELSE "unavailable"
  <2>1. view.phase = "row read" /\ view' = [view EXCEPT !.out = out, !.phase = phase]
    BY <1>2 DEF ReadOutcomes
  <2>2. phase = "answered" => out = view.beside
    <3>1. /\ view.run \in Runs /\ view.row \in Row /\ view.row.status # "absent"
          /\ ReadBefore(view.row, view.beside, committed.rows[view.run], out)
          /\ SoundRow(committed.rows[view.run], out)
      BY <2>1 DEF ViewSound, SoundView, FilesSound
    <3>2. QED
      BY <3>1, AcceptedViewWasTrue
  <2>3. phase \in {"answered", "unavailable"}
    OBVIOUS
  <2> HIDE DEF phase, out
  <2>4. /\ ViewShape(view') /\ view'.phase = phase /\ view'.out = out
        /\ view'.beside = view.beside
    BY <2>1 DEF ViewSound, SoundView, ViewShape
  <2>5. QED
    BY <2>2, <2>3, <2>4 DEF ViewSound, SoundView
<1>3. CASE EndView
  BY <1>3 DEF EndView, NoView, ViewSound, SoundView, ViewShape
<1>4. QED
  BY <1>1, <1>2, <1>3 DEF Viewer

\* The steps of the gate leave the view alone.
LEMMA ViewStaysSound == FilesSound /\ ViewSound /\ [Next]_vars => ViewSound'
<1> SUFFICES ASSUME FilesSound, ViewSound, [Next]_vars PROVE ViewSound'
  OBVIOUS
<1>1. CASE Gatekeeper \/ UNCHANGED vars
  BY <1>1 DEF Gatekeeper, Acquire, Copy, Open, Evaluate, Close, Interrupt, EndGate, GateStep,
              vars, ViewSound
<1>2. QED
  BY <1>1, WriterKeepsView, ViewerKeepsView DEF Next

\* An answered view shows a run as it stood at one moment, although its row
\* and its outcomes were read in two sessions with commits between them.
THEOREM ViewsAreOfOneMoment == Spec => []AnsweredViewsWereTrue
<1>1. Init => ViewSound
  BY DEF Init, NoView, ViewSound, SoundView, ViewShape
<1>2. ViewSound => AnsweredViewsWereTrue
  BY DEF ViewSound, SoundView, AnsweredViewsWereTrue
<1>3. QED
  BY <1>1, <1>2, InitFilesAreSound, FilesStaySound, ViewStaysSound, PTL DEF Spec

-----------------------------------------------------------------------------
(* Sums over finite sets.                                                  *)

\* Every nonempty set of natural numbers has a least member.
LEMMA LeastNumber ==
  ASSUME NEW T, T \subseteq Nat, T # {}
  PROVE  \E n \in T : \A k \in T : n <= k
<1> DEFINE R == OpToRel(<, Nat)
<1>1. IsWellFoundedOn(R, Nat)
  BY NatLessThanWellFounded, Zenon
<1>2. \A x, y \in Nat : y < x => <<y, x>> \in R
  BY DEF OpToRel
<1> HIDE DEF R
<1>3. PICK n \in T : \A k \in T : ~(<<k, n>> \in R)
  BY <1>1, WFMin
<1>4. \A k \in T : k \in Nat /\ n \in Nat /\ ~(k < n)
  BY <1>2, <1>3
<1>5. QED
  BY <1>4

\* The recursion by which MapThenSumSet computes a sum: total[s] is the sum of f
\* over s, for every subset s of S.
Pick(s) == CHOOSE x \in s : TRUE

Summed(total, f, s) == IF s = {} THEN 0 ELSE f[Pick(s)] + total[s \ {Pick(s)}]

IsTotal(total, f, S) == total = [s \in SUBSET S |-> Summed(total, f, s)]

\* The picked member leaves a subset with one member less.
LEMMA PickLeavesLess ==
  ASSUME NEW S, IsFiniteSet(S), NEW s \in SUBSET S
  PROVE  /\ IsFiniteSet(s) /\ Cardinality(s) \in Nat
         /\ s # {} => /\ Pick(s) \in s /\ s \ {Pick(s)} \in SUBSET S
                      /\ Cardinality(s \ {Pick(s)}) = Cardinality(s) - 1
                      /\ Cardinality(s) > 0
<1>1. IsFiniteSet(s) /\ Cardinality(s) \in Nat
  BY FS_Subset, FS_CardinalityType
<1>2. ASSUME s # {} PROVE Pick(s) \in s
  BY <1>2 DEF Pick
<1>3. ASSUME s # {} PROVE Cardinality(s \ {Pick(s)}) = Cardinality(s) - 1 /\ Cardinality(s) > 0
  <2>1. Cardinality(s \ {Pick(s)}) = Cardinality(s) - 1
    BY <1>1, <1>2, <1>3, FS_RemoveElement
  <2>2. Cardinality(s) # 0
    BY <1>1, <1>3, FS_EmptySet
  <2>3. QED
    BY <1>1, <2>1, <2>2
<1>4. QED
  BY <1>1, <1>2, <1>3

\* The recursion has a solution, built up over the sizes of the subsets.
LEMMA TotalsExist ==
  ASSUME NEW S, IsFiniteSet(S), NEW f
  PROVE  \E total : IsTotal(total, f, S)
<1> DEFINE UpTo(k, total) ==
             /\ total = [s \in SUBSET S |-> total[s]]
             /\ \A s \in SUBSET S : Cardinality(s) <= k => total[s] = Summed(total, f, s)
           unsolved == {k \in Nat : ~ \E total : UpTo(k, total)}
<1>1. unsolved = {}
  <2> SUFFICES ASSUME unsolved # {} PROVE FALSE
    OBVIOUS
  <2>1. PICK n \in unsolved : \A k \in unsolved : n <= k
    <3>1. unsolved \subseteq Nat
      OBVIOUS
    <3> HIDE DEF unsolved
    <3>2. QED
      BY <3>1, LeastNumber
  <2>2. n \in Nat /\ ~ \E total : UpTo(n, total)
    OBVIOUS
  <2>3. CASE n = 0
    <3> DEFINE zero == [s \in SUBSET S |-> 0]
    <3>1. ASSUME NEW s \in SUBSET S, Cardinality(s) <= 0 PROVE s = {}
      <4>1. Cardinality(s) \in Nat /\ (s # {} => Cardinality(s) > 0)
        BY PickLeavesLess
      <4>2. QED
        BY <3>1, <4>1
    <3>2. UpTo(0, zero)
      BY <3>1 DEF Summed
    <3>3. QED
      BY <2>2, <2>3, <3>2
  <2>4. CASE n # 0
    <3>1. n - 1 \in Nat /\ n - 1 \notin unsolved
      <4> HIDE DEF unsolved
      <4>1. n - 1 \in Nat /\ ~(n <= n - 1)
        BY <2>2, <2>4
      <4>2. QED
        BY <2>1, <4>1
    <3>2. PICK less : UpTo(n - 1, less)
      BY <3>1
    <3> DEFINE more == [s \in SUBSET S |-> IF Cardinality(s) < n THEN less[s] ELSE Summed(less, f, s)]
    <3>3. more = [s \in SUBSET S |-> more[s]]
      OBVIOUS
    <3>4. ASSUME NEW s \in SUBSET S, Cardinality(s) <= n PROVE more[s] = Summed(more, f, s)
      <4>1. more[s] = Summed(less, f, s)
        <5>1. Cardinality(s) \in Nat
          BY PickLeavesLess
        <5>2. Cardinality(s) < n => Cardinality(s) <= n - 1
          BY <2>2, <5>1
        <5>3. QED
          BY <3>2, <5>2
      <4>2. CASE s = {}
        BY <4>1, <4>2 DEF Summed
      <4>3. CASE s # {}
        <5> DEFINE rest == s \ {Pick(s)}
        <5>1. rest \in SUBSET S /\ Cardinality(rest) = Cardinality(s) - 1 /\ Cardinality(s) \in Nat
          BY <4>3, PickLeavesLess
        <5>2. Cardinality(rest) < n
          BY <2>2, <3>4, <5>1
        <5>3. more[rest] = less[rest]
          BY <5>1, <5>2
        <5>4. QED
          BY <4>1, <4>3, <5>3 DEF Summed
      <4>4. QED
        BY <4>2, <4>3
    <3> HIDE DEF more
    <3>5. QED
      BY <2>2, <3>3, <3>4
  <2>5. QED
    BY <2>3, <2>4
<1>2. Cardinality(S) \in Nat /\ \A s \in SUBSET S : Cardinality(s) <= Cardinality(S)
  BY FS_CardinalityType, FS_Subset
<1>3. PICK total : UpTo(Cardinality(S), total)
  BY <1>1, <1>2
<1>4. total = [s \in SUBSET S |-> Summed(total, f, s)]
  <2>1. \A s \in SUBSET S : total[s] = Summed(total, f, s)
    BY <1>2, <1>3
  <2>2. [s \in SUBSET S |-> total[s]] = [s \in SUBSET S |-> Summed(total, f, s)]
    BY <2>1
  <2>3. QED
    BY <1>3, <2>2, Zenon
<1>5. QED
  BY <1>4 DEF IsTotal

\* Smaller terms have a smaller sum, and sums of integers are integers.
LEMMA SumsAreMonotone ==
  ASSUME NEW S, IsFiniteSet(S), NEW f \in [S -> Int], NEW g \in [S -> Int],
         \A x \in S : f[x] <= g[x],
         NEW low, IsTotal(low, f, S), NEW high, IsTotal(high, g, S)
  PROVE  low[S] \in Int /\ high[S] \in Int /\ low[S] <= high[S]
<1> DEFINE Fine(s) == low[s] \in Int /\ high[s] \in Int /\ low[s] <= high[s]
           bad == {s \in SUBSET S : ~Fine(s)}
           sizes == {Cardinality(s) : s \in bad}
<1>0. \A s \in SUBSET S : low[s] = Summed(low, f, s) /\ high[s] = Summed(high, g, s)
  <2>1. low = [s \in SUBSET S |-> Summed(low, f, s)]
    BY DEF IsTotal
  <2>2. high = [s \in SUBSET S |-> Summed(high, g, s)]
    BY DEF IsTotal
  <2>3. ASSUME NEW s \in SUBSET S PROVE low[s] = Summed(low, f, s)
    BY <2>1
  <2>4. ASSUME NEW s \in SUBSET S PROVE high[s] = Summed(high, g, s)
    BY <2>2
  <2>5. QED
    BY <2>3, <2>4
<1>1. bad = {}
  <2> SUFFICES ASSUME bad # {} PROVE FALSE
    OBVIOUS
  <2>1. sizes \subseteq Nat /\ sizes # {}
    <3>1. \A s \in SUBSET S : Cardinality(s) \in Nat
      BY FS_Subset, FS_CardinalityType
    <3>2. QED
      BY <3>1
  <2>2. PICK n \in sizes : \A k \in sizes : n <= k
    <3> HIDE DEF sizes
    <3>1. QED
      BY <2>1, LeastNumber
  <2>3. PICK s \in bad : Cardinality(s) = n
    OBVIOUS
  <2>4. s \in SUBSET S /\ ~Fine(s)
    OBVIOUS
  <2>5. s # {}
    <3>1. Summed(low, f, {}) = 0 /\ Summed(high, g, {}) = 0
      BY DEF Summed
    <3>2. s = {} => low[s] = 0 /\ high[s] = 0
      BY <1>0, <2>4, <3>1
    <3>3. QED
      BY <2>4, <3>2
  <2> DEFINE rest == s \ {Pick(s)}
  <2>6. /\ Pick(s) \in S /\ rest \in SUBSET S /\ Cardinality(s) \in Nat
        /\ Cardinality(rest) = Cardinality(s) - 1
    BY <2>4, <2>5, PickLeavesLess
  <2>7. rest \notin bad
    <3>1. rest \in bad => n <= Cardinality(rest)
      BY <2>2
    <3>2. QED
      BY <2>3, <2>6, <3>1
  <2>8. Fine(rest)
    BY <2>6, <2>7
  <2>9. low[s] = f[Pick(s)] + low[rest] /\ high[s] = g[Pick(s)] + high[rest]
    BY <1>0, <2>4, <2>5 DEF Summed
  <2>10. f[Pick(s)] \in Int /\ g[Pick(s)] \in Int /\ f[Pick(s)] <= g[Pick(s)]
    BY <2>6
  <2> HIDE DEF rest
  <2>11. Fine(s)
    BY <2>8, <2>9, <2>10
  <2>12. QED
    BY <2>4, <2>11
<1>2. QED
  BY <1>1

\* What the gate sums, as a total.
LEMMA GateSumIsTotal ==
  ASSUME NEW baseline, NEW candidate, NEW S, IsFiniteSet(S)
  PROVE  \E total :
           /\ IsTotal(total, [q \in S |-> Delta(baseline, candidate, q)], S)
           /\ DeltaSum(baseline, candidate, S) = total[S]
<1> DEFINE f == [q \in S |-> Delta(baseline, candidate, q)]
           IsIter(it) == it = [s \in SUBSET S |->
             IF s = {} THEN 0
             ELSE Delta(baseline, candidate, CHOOSE x \in s : TRUE) + it[s \ {CHOOSE x \in s : TRUE}]]
           iter == CHOOSE it : IsIter(it)
<1>1. DeltaSum(baseline, candidate, S) = iter[S]
  BY DEF DeltaSum, MapThenSumSet, MapThenFoldSet
<1>2. \A it : IsIter(it) <=> IsTotal(it, f, S)
  <2> SUFFICES ASSUME NEW it PROVE IsIter(it) <=> IsTotal(it, f, S)
    OBVIOUS
  <2>1. ASSUME NEW s \in SUBSET S
        PROVE  Summed(it, f, s) =
                 IF s = {} THEN 0
                 ELSE Delta(baseline, candidate, CHOOSE x \in s : TRUE) + it[s \ {CHOOSE x \in s : TRUE}]
    <3>1. s # {} => Pick(s) \in S
      BY PickLeavesLess
    <3>2. s # {} => f[Pick(s)] = Delta(baseline, candidate, Pick(s))
      BY <3>1
    <3> HIDE DEF f
    <3>3. QED
      BY <3>2 DEF Summed, Pick
  <2> HIDE DEF f
  <2>2. [s \in SUBSET S |-> Summed(it, f, s)] = [s \in SUBSET S |->
             IF s = {} THEN 0
             ELSE Delta(baseline, candidate, CHOOSE x \in s : TRUE) + it[s \ {CHOOSE x \in s : TRUE}]]
    BY <2>1
  <2>3. QED
    BY <2>2, Zenon DEF IsTotal
<1> HIDE DEF f, IsIter
<1>3. IsIter(iter)
  BY <1>2, TotalsExist
<1>4. IsTotal(iter, f, S)
  BY <1>2, <1>3
<1>5. QED
  BY <1>1, <1>4 DEF f

-----------------------------------------------------------------------------
(* The verdict of the gate as a function of its evidence.                  *)

\* The evidence of one query.
EngineOutcome == {Missing, Failed, Unjudged} \union {Measured(m) : m \in 0..Scale}

\* What the verdict "passed" says.
LEMMA PassedVerdict ==
  ASSUME NEW policy, NEW baseline, NEW candidate
  PROVE  GateVerdict(policy, baseline, candidate) = "passed" <=>
           /\ \A q \in DOMAIN baseline : Missing \notin {baseline[q], candidate[q]}
           /\ Paired(baseline, candidate) # {}
           /\ ReportIsValid(Report(policy, baseline, candidate), DOMAIN baseline)
           /\ ErrorRateCheck(policy, baseline, candidate).passed
           /\ CoverageCheck(policy, baseline, candidate).passed
           /\ AggregateCheck(policy, baseline, candidate).passed
           /\ PerQueryCheck(policy, baseline, candidate).passed
<1> DEFINE report == Report(policy, baseline, candidate)
<1>1. /\ report.checks.errorRate = ErrorRateCheck(policy, baseline, candidate)
      /\ report.checks.coverage = CoverageCheck(policy, baseline, candidate)
      /\ report.checks.aggregate = AggregateCheck(policy, baseline, candidate)
      /\ report.checks.perQuery = PerQueryCheck(policy, baseline, candidate)
      /\ DOMAIN report.checks = {"errorRate", "coverage", "aggregate", "perQuery"}
      /\ report.verdict = IF \A name \in DOMAIN report.checks : report.checks[name].passed
                          THEN "passed" ELSE "policy_failed"
  BY DEF Report
<1> HIDE DEF report
<1>2. report.verdict = "passed" <=>
        /\ ErrorRateCheck(policy, baseline, candidate).passed
        /\ CoverageCheck(policy, baseline, candidate).passed
        /\ AggregateCheck(policy, baseline, candidate).passed
        /\ PerQueryCheck(policy, baseline, candidate).passed
  BY <1>1
<1>3. GateVerdict(policy, baseline, candidate) =
        IF /\ \A q \in DOMAIN baseline : Missing \notin {baseline[q], candidate[q]}
           /\ Paired(baseline, candidate) # {}
           /\ ReportIsValid(report, DOMAIN baseline)
        THEN report.verdict ELSE "invalid"
  BY DEF GateVerdict, report
<1>4. QED
  BY <1>2, <1>3 DEF report

\* The validity of a report in terms of its four checks.
LEMMA ValidReport ==
  ASSUME NEW policy, NEW baseline, NEW candidate, NEW queries
  PROVE  LET rate == ErrorRateCheck(policy, baseline, candidate)
             coverage == CoverageCheck(policy, baseline, candidate)
             aggregate == AggregateCheck(policy, baseline, candidate)
             perQuery == PerQueryCheck(policy, baseline, candidate)
         IN  ReportIsValid(Report(policy, baseline, candidate), queries) <=>
               /\ coverage.paired \in 1..Cardinality(queries)
               /\ coverage.paired + coverage.excluded = Cardinality(queries)
               /\ coverage.excluded >= rate.failed
               /\ aggregate.paired = coverage.paired
               /\ perQuery.paired = coverage.paired
               /\ perQuery.violations <= perQuery.paired
               /\ perQuery.passed = (perQuery.violations = 0)
<1> DEFINE report == Report(policy, baseline, candidate)
<1>1. /\ report.checks.errorRate = ErrorRateCheck(policy, baseline, candidate)
      /\ report.checks.coverage = CoverageCheck(policy, baseline, candidate)
      /\ report.checks.aggregate = AggregateCheck(policy, baseline, candidate)
      /\ report.checks.perQuery = PerQueryCheck(policy, baseline, candidate)
  BY DEF Report
<1> HIDE DEF report
<1>2. QED
  BY <1>1 DEF ReportIsValid, report

\* The sum the aggregate check compares grows with the quality of the candidate.
LEMMA LowerQualityLowerSum ==
  ASSUME NEW S, IsFiniteSet(S), NEW baseline, NEW candidate, NEW worse,
         \A q \in S : /\ Delta(baseline, candidate, q) \in Int /\ Delta(baseline, worse, q) \in Int
                      /\ Delta(baseline, worse, q) <= Delta(baseline, candidate, q)
  PROVE  LET sum == DeltaSum(baseline, candidate, S)
             lower == DeltaSum(baseline, worse, S)
         IN  sum \in Int /\ lower \in Int /\ lower <= sum
<1> DEFINE f == [q \in S |-> Delta(baseline, worse, q)]
           g == [q \in S |-> Delta(baseline, candidate, q)]
<1>1. PICK high : /\ IsTotal(high, g, S)
                  /\ DeltaSum(baseline, candidate, S) = high[S]
  BY GateSumIsTotal
<1>2. PICK low : /\ IsTotal(low, f, S)
                 /\ DeltaSum(baseline, worse, S) = low[S]
  BY GateSumIsTotal
<1>3. f \in [S -> Int] /\ g \in [S -> Int] /\ \A q \in S : f[q] <= g[q]
  OBVIOUS
<1> HIDE DEF f, g
<1>4. low[S] \in Int /\ high[S] \in Int /\ low[S] <= high[S]
  BY <1>1, <1>2, <1>3, SumsAreMonotone
<1>5. QED
  BY <1>1, <1>2, <1>4

\* A policy within its bounds.
GatePolicy ==
  [ minDelta : -Scale..Scale, maxQueryDrop : 0..Scale, maxErrorRate : 0..Scale, minPaired : Nat \ {0} ]

\* A lower metric of one query never passes what a higher one fails.
LEMMA LowerMetricNeverHelps ==
  ASSUME Scale \in Nat \ {0}, NEW policy \in GatePolicy, NEW Q, IsFiniteSet(Q),
         NEW baseline \in [Q -> EngineOutcome], NEW candidate \in [Q -> EngineOutcome],
         NEW q \in Q, candidate[q].kind = "measured", NEW lower \in 0..candidate[q].metric,
         GateVerdict(policy, baseline, [candidate EXCEPT ![q] = Measured(lower)]) = "passed"
  PROVE  GateVerdict(policy, baseline, candidate) = "passed"
<1> DEFINE worse == [candidate EXCEPT ![q] = Measured(lower)]
           P == Paired(baseline, candidate)
<1>0. /\ \A o \in EngineOutcome : o.metric \in 0..Scale /\ o.kind \in {"missing", "failed", "unjudged", "measured"}
      /\ Missing.kind = "missing"
  BY DEF EngineOutcome, Missing, Failed, Unjudged, Measured
<1>1. /\ DOMAIN worse = Q /\ DOMAIN baseline = Q /\ DOMAIN candidate = Q
      /\ worse[q] = Measured(lower) /\ \A p \in Q \ {q} : worse[p] = candidate[p]
  OBVIOUS
<1>2. /\ \A p \in Q : worse[p].kind = candidate[p].kind
      /\ \A p \in Q : worse[p].metric <= candidate[p].metric /\ worse[p].metric \in Int
  <2>1. Measured(lower).kind = "measured" /\ Measured(lower).metric = lower
    BY DEF Measured
  <2>2. \A p \in Q : candidate[p].metric \in Int
    BY <1>0
  <2> HIDE DEF worse
  <2>3. ASSUME NEW p \in Q
        PROVE  /\ worse[p].kind = candidate[p].kind
               /\ worse[p].metric <= candidate[p].metric /\ worse[p].metric \in Int
    <3>1. CASE p = q
      BY <1>1, <2>1, <2>2, <3>1
    <3>2. CASE p # q
      BY <1>1, <2>2, <3>2
    <3>3. QED
      BY <3>1, <3>2
  <2>4. QED
    BY <2>3
<1> HIDE DEF worse
<1>3. Paired(baseline, worse) = P
  <2>1. \A p \in Q : PairStatus(baseline[p], worse[p]) = PairStatus(baseline[p], candidate[p])
    BY <1>2 DEF PairStatus, Completed
  <2>2. QED
    BY <1>1, <2>1 DEF Paired, WithPairStatus
<1>4. P \subseteq Q /\ IsFiniteSet(P) /\ Cardinality(P) \in Nat
  <2>1. P \subseteq Q
    BY <1>1 DEF Paired, WithPairStatus
  <2>2. QED
    BY <2>1, FS_Subset, FS_CardinalityType
<1>5. FailedCandidates(baseline, worse) = FailedCandidates(baseline, candidate)
  BY <1>1, <1>2 DEF FailedCandidates
<1>6. /\ ErrorRateCheck(policy, baseline, worse) = ErrorRateCheck(policy, baseline, candidate)
      /\ CoverageCheck(policy, baseline, worse) = CoverageCheck(policy, baseline, candidate)
  BY <1>1, <1>3, <1>5 DEF ErrorRateCheck, CoverageCheck
<1>7. \A p \in P : /\ Delta(baseline, candidate, p) \in Int /\ Delta(baseline, worse, p) \in Int
                   /\ Delta(baseline, worse, p) <= Delta(baseline, candidate, p)
  <2>1. \A p \in Q : baseline[p].metric \in Int /\ candidate[p].metric \in Int
    BY <1>0
  <2>2. QED
    BY <1>2, <1>4, <2>1 DEF Delta
<1> HIDE DEF P
<1>8. /\ AggregateCheck(policy, baseline, worse).paired = AggregateCheck(policy, baseline, candidate).paired
      /\ AggregateCheck(policy, baseline, worse).passed => AggregateCheck(policy, baseline, candidate).passed
  <2> DEFINE sum == DeltaSum(baseline, candidate, P)
             less == DeltaSum(baseline, worse, P)
  <2>1. sum \in Int /\ less \in Int /\ less <= sum
    BY <1>4, <1>7, LowerQualityLowerSum
  <2>2. /\ AggregateCheck(policy, baseline, worse).passed = (less >= policy.minDelta * Cardinality(P))
        /\ AggregateCheck(policy, baseline, worse).paired = Cardinality(P)
    BY <1>3 DEF AggregateCheck
  <2>3. /\ AggregateCheck(policy, baseline, candidate).passed = (sum >= policy.minDelta * Cardinality(P))
        /\ AggregateCheck(policy, baseline, candidate).paired = Cardinality(P)
    BY DEF AggregateCheck, P
  <2>4. policy.minDelta * Cardinality(P) \in Int
    BY <1>4 DEF GatePolicy
  <2> DEFINE least == policy.minDelta * Cardinality(P)
  <2> HIDE DEF sum, less, least
  <2>5. less >= least => sum >= least
    BY <2>1, <2>4 DEF least
  <2>6. QED
    BY <2>2, <2>3, <2>5 DEF least
<1>9. /\ PerQueryCheck(policy, baseline, worse).passed => PerQueryCheck(policy, baseline, candidate).passed
      /\ PerQueryCheck(policy, baseline, worse).paired = PerQueryCheck(policy, baseline, candidate).paired
      /\ PerQueryCheck(policy, baseline, candidate).passed =>
           PerQueryCheck(policy, baseline, candidate).violations = 0
  <2>1. Violations(policy, baseline, candidate) \subseteq Violations(policy, baseline, worse)
    <3>1. policy.maxQueryDrop \in Int
      BY DEF GatePolicy
    <3>2. Violations(policy, baseline, candidate) = {p \in P : Delta(baseline, candidate, p) < -policy.maxQueryDrop}
      BY DEF Violations, P
    <3>3. Violations(policy, baseline, worse) = {p \in P : Delta(baseline, worse, p) < -policy.maxQueryDrop}
      BY <1>3 DEF Violations
    <3>4. QED
      BY <1>7, <3>1, <3>2, <3>3
  <2>2. QED
    BY <1>3, <2>1, FS_EmptySet DEF PerQueryCheck, P
<1>10. GateVerdict(policy, baseline, worse) = "passed"
  BY DEF worse
<1>11. /\ \A p \in Q : Missing \notin {baseline[p], candidate[p]}
       /\ P # {}
  <2>1. /\ \A p \in Q : Missing \notin {baseline[p], worse[p]}
        /\ P # {}
    BY <1>1, <1>3, <1>10, PassedVerdict
  <2>2. candidate[q] # Missing
    BY <1>0
  <2>3. QED
    BY <1>1, <2>1, <2>2
<1>12. ReportIsValid(Report(policy, baseline, worse), Q)
  BY <1>1, <1>10, PassedVerdict
<1>13. /\ ErrorRateCheck(policy, baseline, candidate).passed
       /\ CoverageCheck(policy, baseline, candidate).passed
       /\ AggregateCheck(policy, baseline, candidate).passed
       /\ PerQueryCheck(policy, baseline, candidate).passed
  BY <1>6, <1>8, <1>9, <1>10, PassedVerdict
<1>14. ReportIsValid(Report(policy, baseline, candidate), Q)
  <2>1. /\ CoverageCheck(policy, baseline, candidate).paired \in 1..Cardinality(Q)
        /\ CoverageCheck(policy, baseline, candidate).paired
             + CoverageCheck(policy, baseline, candidate).excluded = Cardinality(Q)
        /\ CoverageCheck(policy, baseline, candidate).excluded >= ErrorRateCheck(policy, baseline, candidate).failed
        /\ AggregateCheck(policy, baseline, candidate).paired = CoverageCheck(policy, baseline, candidate).paired
        /\ PerQueryCheck(policy, baseline, candidate).paired = CoverageCheck(policy, baseline, candidate).paired
    BY <1>6, <1>8, <1>9, <1>12, ValidReport
  <2>2. PerQueryCheck(policy, baseline, candidate).violations = 0
    BY <1>9, <1>13
  <2>3. 0 <= PerQueryCheck(policy, baseline, candidate).paired
    BY <2>1
  <2>4. QED
    BY <1>13, <2>1, <2>2, <2>3, ValidReport
<1>15. QED
  BY <1>1, <1>11, <1>13, <1>14, PassedVerdict DEF P

\* Where no failure is tolerated, none passes.
LEMMA FailureNeverPasses ==
  ASSUME Scale \in Nat \ {0}, NEW policy, policy.maxErrorRate = 0,
         NEW Q, IsFiniteSet(Q), NEW baseline, NEW candidate, DOMAIN candidate = Q, NEW q \in Q
  PROVE  GateVerdict(policy, baseline, [candidate EXCEPT ![q] = Failed]) # "passed"
<1> DEFINE worse == [candidate EXCEPT ![q] = Failed]
           F == FailedCandidates(baseline, worse)
<1>1. DOMAIN worse = Q /\ worse[q] = Failed /\ Failed.kind = "failed"
  BY DEF Failed
<1>2. F \subseteq Q /\ q \in F
  BY <1>1 DEF FailedCandidates
<1> HIDE DEF worse, F
<1>3. IsFiniteSet(F) /\ Cardinality(F) \in Nat /\ Cardinality(F) # 0 /\ Cardinality(Q) \in Nat
  BY <1>2, FS_Subset, FS_CardinalityType, FS_EmptySet
<1>4. Cardinality(F) * Scale > 0
  <2>1. \A m, n \in Nat \ {0} : m * n > 0
    OBVIOUS
  <2>2. QED
    BY <1>3, <2>1
<1>5. ~ErrorRateCheck(policy, baseline, worse).passed
  <2>1. ErrorRateCheck(policy, baseline, worse).passed =
          (Cardinality(F) * Scale <= policy.maxErrorRate * Cardinality(Q))
    BY <1>1 DEF ErrorRateCheck, F
  <2>2. policy.maxErrorRate * Cardinality(Q) = 0
    BY <1>3
  <2>3. Cardinality(F) * Scale \in Int
    BY <1>3
  <2> DEFINE failures == Cardinality(F) * Scale
  <2>4. failures > 0 /\ failures \in Int
    BY <1>4, <2>3
  <2> HIDE DEF failures
  <2>5. ~(failures <= 0)
    BY <2>4
  <2>6. QED
    BY <2>1, <2>2, <2>5 DEF failures
<1>6. QED
  BY <1>5, PassedVerdict DEF worse

-----------------------------------------------------------------------------
(* What a failed policy was judged on.                                     *)

\* What a failed policy was judged on.
JudgedOn(policy, out, quality) ==
  /\ policy \in Policies
  /\ out \in OutcomeMaps /\ \A a \in Attempts : out[a] # "none"
  /\ quality \in Qualities(out)
  /\ VerdictOn(out, policy, quality) = "policy_failed"

JudgedGate(g) ==
  /\ "outcomes" \in g.read => g.copy.outcomes \in [Runs -> OutcomeMaps]
  /\ g.phase \in {"idle", "guarded", "open"} => g.result = "none"
  /\ g.result = "policy_failed" => JudgedOn(g.policy, g.copy.outcomes[g.run], g.quality)

GateJudged == JudgedGate(gate)

\* The fields that matter for what was judged.
LEMMA SameJudgement ==
  ASSUME NEW g, NEW h, JudgedGate(g),
         h.read = g.read, h.copy = g.copy, h.policy = g.policy, h.quality = g.quality,
         h.run = g.run, h.result = g.result,
         h.phase \in {"idle", "guarded", "open"} => g.phase \in {"idle", "guarded", "open"}
  PROVE  JudgedGate(h)
BY DEF JudgedGate

\* Every step keeps it.
LEMMA GateStaysJudged ==
  FilesSound /\ GateSound /\ GateJudged /\ [Next]_vars => GateJudged'
<1> SUFFICES ASSUME FilesSound, GateSound, GateJudged, [Next]_vars PROVE GateJudged'
  OBVIOUS
<1> USE DEF GateJudged
<1>0. GateShape(gate)
  BY DEF GateSound, SoundCopy
<1>1. CASE gate' = gate
  BY <1>1
<1>2. CASE gate' = [gate EXCEPT !.moved = TRUE]
  <2>1. /\ gate'.read = gate.read /\ gate'.copy = gate.copy /\ gate'.policy = gate.policy
        /\ gate'.quality = gate.quality /\ gate'.run = gate.run /\ gate'.result = gate.result
        /\ gate'.phase = gate.phase
    BY <1>0, <1>2 DEF GateShape
  <2>2. QED
    BY <2>1, SameJudgement
<1>3. CASE gate' \in {NoGate, Refused, [NoGate EXCEPT !.phase = "closed", !.result = "internal"]}
  <2>1. /\ gate'.read = {} /\ gate'.result # "policy_failed"
        /\ gate'.phase # "closed" => gate'.phase = "idle" /\ gate'.result = "none"
    <3>1. NoGate.read = {} /\ NoGate.result = "none" /\ NoGate.phase = "idle" /\ GateShape(NoGate)
      BY DEF NoGate, GateShape
    <3>2. CASE gate' = NoGate
      BY <3>1, <3>2
    <3>3. ASSUME NEW result \in Rejected, gate' = [NoGate EXCEPT !.phase = "closed", !.result = result]
          PROVE  gate'.read = {} /\ gate'.result = result /\ gate'.phase = "closed"
      BY <3>1, <3>3 DEF GateShape
    <3>4. QED
      BY <1>3, <3>2, <3>3 DEF Refused, Rejected
  <2>2. QED
    BY <2>1 DEF JudgedGate
<1>4. ASSUME NEW r \in Runs, gate' = [NoGate EXCEPT !.phase = "guarded", !.run = r]
      PROVE  GateJudged'
  BY <1>4 DEF JudgedGate, NoGate
<1>5. ASSUME NEW page \in Pages, Copy(page) PROVE GateJudged'
  <2>1. /\ gate.phase = "guarded"
        /\ gate' = [gate EXCEPT !.read = gate.read \union {page}, !.copy[page] = disk[page]]
    BY <1>5 DEF Copy, GateStep
  <2>2. /\ gate'.phase = "guarded" /\ gate'.result = gate.result
        /\ gate'.read = gate.read \union {page} /\ gate'.copy = [gate.copy EXCEPT ![page] = disk[page]]
    BY <1>0, <2>1 DEF GateShape
  <2>3. gate'.result = "none"
    BY <2>1, <2>2 DEF JudgedGate
  <2>4. ASSUME "outcomes" \in gate'.read PROVE gate'.copy.outcomes \in [Runs -> OutcomeMaps]
    <3>1. gate.copy = [rows |-> gate.copy.rows, outcomes |-> gate.copy.outcomes]
      BY DEF GateSound, SoundCopy
    <3>2. CASE page = "outcomes"
      <4>1. gate'.copy.outcomes = disk.outcomes
        BY <2>2, <3>1, <3>2
      <4>2. QED
        BY <4>1 DEF FilesSound, Database
    <3>3. CASE page # "outcomes"
      <4>1. gate'.copy.outcomes = gate.copy.outcomes /\ "outcomes" \in gate.read
        BY <2>2, <2>4, <3>1, <3>3
      <4>2. QED
        BY <4>1 DEF JudgedGate
    <3>4. QED
      BY <3>2, <3>3
  <2>5. QED
    BY <2>2, <2>3, <2>4 DEF JudgedGate
<1>6. ASSUME gate.phase = "guarded", gate' = [gate EXCEPT !.phase = "open"] PROVE GateJudged'
  <2>1. /\ gate'.read = gate.read /\ gate'.copy = gate.copy /\ gate'.policy = gate.policy
        /\ gate'.quality = gate.quality /\ gate'.run = gate.run /\ gate'.result = gate.result
    BY <1>0, <1>6 DEF GateShape
  <2>2. QED
    BY <1>6, <2>1, SameJudgement
<1>7. ASSUME gate' = [gate EXCEPT !.phase = "closed"] PROVE GateJudged'
  <2>1. /\ gate'.read = gate.read /\ gate'.copy = gate.copy /\ gate'.policy = gate.policy
        /\ gate'.quality = gate.quality /\ gate'.run = gate.run /\ gate'.result = gate.result
        /\ gate'.phase = "closed"
    BY <1>0, <1>7 DEF GateShape
  <2>2. QED
    BY <2>1, SameJudgement
<1>8. CASE Evaluate
  <2> DEFINE out == gate.copy.outcomes[gate.run]
  <2>1. gate.phase = "open"
    BY <1>8 DEF Evaluate, GateStep
  <2>2. gate.run \in Runs /\ "outcomes" \in gate.read /\ gate.copy.outcomes \in [Runs -> OutcomeMaps]
    BY <2>1 DEF GateSound, SoundCopy, GateJudged, JudgedGate, Pages
  <2>3. CASE gate' = [gate EXCEPT !.phase = "evaluated", !.result = "invalid"]
    <3>1. /\ gate'.copy = gate.copy /\ gate'.phase = "evaluated" /\ gate'.result = "invalid"
      BY <1>0, <2>3 DEF GateShape
    <3>2. QED
      BY <2>2, <3>1 DEF JudgedGate
  <2>4. ASSUME Evidence(gate.copy.rows[gate.run], out), NEW policy \in Policies, NEW quality \in Qualities(out),
               gate' = [gate EXCEPT !.phase = "evaluated", !.policy = policy, !.quality = quality,
                                    !.result = VerdictOn(out, policy, quality)]
        PROVE  GateJudged'
    <3>1. /\ gate'.copy = gate.copy /\ gate'.phase = "evaluated" /\ gate'.run = gate.run
          /\ gate'.policy = policy /\ gate'.quality = quality
          /\ gate'.result = VerdictOn(out, policy, quality)
      BY <1>0, <2>4 DEF GateShape
    <3>2. out \in OutcomeMaps /\ \A a \in Attempts : out[a] # "none"
      BY <2>2, <2>4 DEF Evidence
    <3>3. gate'.copy.outcomes[gate'.run] = out
      BY <3>1
    <3> HIDE DEF out
    <3>4. QED
      BY <2>2, <2>4, <3>1, <3>2, <3>3 DEF JudgedGate, JudgedOn
  <2>5. QED
    BY <1>8, <2>3, <2>4, Zenon DEF Evaluate
<1>9. CASE Writer
  BY <1>1, <1>2, <1>9 DEF Writer, BeginWrite, WritePage, Commit, Crash, RollBack, FileMoves
<1>10. CASE Viewer \/ UNCHANGED vars
  BY <1>1, <1>10 DEF Viewer, ReadRun, ReadOutcomes, EndView, vars
<1>11. CASE Gatekeeper
  BY <1>3, <1>4, <1>5, <1>6, <1>7, <1>8, <1>11
     DEF Gatekeeper, Acquire, Open, Close, Interrupt, EndGate, GateStep
<1>12. QED
  BY <1>9, <1>10, <1>11 DEF Next

\* The evidence of one config, as the gate reads it.
LEMMA EvidenceIsTyped ==
  ASSUME NEW out \in OutcomeMaps, \A a \in Attempts : out[a] # "none",
         NEW quality \in Qualities(out), NEW c \in Configs
  PROVE  EngineOutcomes(out, quality, c) \in [Queries -> EngineOutcome]
<1> DEFINE value(q) == CASE out[<<c, q>>] = "none"      -> Missing
                         [] out[<<c, q>>] = "failed"    -> Failed
                         [] out[<<c, q>>] = "succeeded" -> quality[<<c, q>>]
<1>1. ASSUME NEW q \in Queries PROVE value(q) \in EngineOutcome
  <2>1. <<c, q>> \in Attempts
    BY DEF Attempts
  <2>2. out[<<c, q>>] \in {"succeeded", "failed"}
    BY <2>1 DEF OutcomeMaps, Results
  <2>3. CASE out[<<c, q>>] = "failed"
    BY <2>3 DEF EngineOutcome
  <2>4. CASE out[<<c, q>>] = "succeeded"
    <3>1. quality[<<c, q>>] \in {Unjudged} \union {Measured(m) : m \in 0..Scale}
      BY <2>1, <2>4 DEF Qualities
    <3>2. value(q) = quality[<<c, q>>]
      BY <2>4
    <3>3. QED
      BY <3>1, <3>2 DEF EngineOutcome
  <2>5. QED
    BY <2>2, <2>3, <2>4
<1>2. EngineOutcomes(out, quality, c) = [q \in Queries |-> value(q)]
  BY DEF EngineOutcomes
<1> HIDE DEF value
<1>3. QED
  BY <1>1, <1>2

\* No loss is rewarded: a policy that failed fails still when a query of the
\* candidate is worse, or, where no failure is tolerated, when it fails.
THEOREM NoLossIsRewarded == Spec => []GateRewardsNoLoss
<1>1. Init => GateJudged
  BY DEF Init, NoGate, GateJudged, JudgedGate
<1>2. GateJudged => GateRewardsNoLoss
  <2> DEFINE out == gate.copy.outcomes[gate.run]
             baseline == EngineOutcomes(out, gate.quality, Baseline)
             candidate == EngineOutcomes(out, gate.quality, Candidate)
  <2> SUFFICES ASSUME GateJudged, gate.result = "policy_failed", NEW q \in Queries
               PROVE  /\ candidate[q].kind = "measured" =>
                           \A lower \in 0..candidate[q].metric :
                             GateVerdict(gate.policy, baseline, [candidate EXCEPT ![q] = Measured(lower)]) # "passed"
                      /\ gate.policy.maxErrorRate = 0 =>
                           GateVerdict(gate.policy, baseline, [candidate EXCEPT ![q] = Failed]) # "passed"
    BY DEF GateRewardsNoLoss
  <2>1. JudgedOn(gate.policy, out, gate.quality)
    BY DEF GateJudged, JudgedGate
  <2>2. baseline \in [Queries -> EngineOutcome] /\ candidate \in [Queries -> EngineOutcome]
    BY <2>1, ViewAssumption, EvidenceIsTyped DEF JudgedOn
  <2>3. gate.policy \in GatePolicy /\ Scale \in Nat \ {0} /\ IsFiniteSet(Queries)
    BY <2>1, GateAssumption, StoreAssumption DEF JudgedOn, GatePolicy
  <2>4. GateVerdict(gate.policy, baseline, candidate) # "passed"
    BY <2>1 DEF JudgedOn, VerdictOn
  <2> HIDE DEF baseline, candidate
  <2>5. ASSUME candidate[q].kind = "measured", NEW lower \in 0..candidate[q].metric
        PROVE  GateVerdict(gate.policy, baseline, [candidate EXCEPT ![q] = Measured(lower)]) # "passed"
    BY <2>2, <2>3, <2>4, <2>5, LowerMetricNeverHelps
  <2>6. ASSUME gate.policy.maxErrorRate = 0
        PROVE  GateVerdict(gate.policy, baseline, [candidate EXCEPT ![q] = Failed]) # "passed"
    <3>1. DOMAIN candidate = Queries
      BY <2>2
    <3>2. QED
      BY <2>3, <2>6, <3>1, FailureNeverPasses
  <2>7. QED
    BY <2>5, <2>6
<1>3. Init => GateSound
  BY NoGateIsSound DEF Init, GateSound
<1>4. QED
  BY <1>1, <1>2, <1>3, InitFilesAreSound, FilesStaySound, GateStaysSound, GateStaysJudged, PTL DEF Spec

=============================================================================
