-------------------------- MODULE SharedStoreProofs --------------------------
(***************************************************************************)
(* The store under any number of servers that exclude each other by the    *)
(* worker guard, with no command beside them: what a method has loaded is  *)
(* still stored when it writes, so its partial UPDATE writes a whole row,  *)
(* and recovery, which a server runs before it executes anything, meets    *)
(* only runs that nobody executes.                                         *)
(* Without that assumption the runs torn_row and recovery_beside_server    *)
(* show the opposite.                                                      *)
(***************************************************************************)
EXTENDS SharedStore, TLAPS

\* At most one process lives, and only it is inside a method, over rows that
\* nobody has changed since it loaded them.
Guarded ==
  /\ DOMAIN rows = Runs /\ rows = [r \in Runs |-> rows[r]]
  /\ column = [r \in Runs |-> Columns(rows[r])]
  /\ DOMAIN call = Procs /\ DOMAIN executes = Procs
  /\ \A p, s \in alive : p = s
  /\ alive \subseteq Procs
  /\ \A p \in Procs \ alive : call[p] = NoCall /\ executes[p] = {}
  /\ \A p \in Procs : \A r \in DOMAIN call[p].loaded : r \in Runs /\ call[p].loaded[r] = rows[r]

\* A method that is not entered has loaded nothing.
LEMMA NoCallLoadsNothing == NoCall.loaded = <<>> /\ DOMAIN NoCall.loaded = {}
BY DEF NoCall

\* The columns of a row, and the stored ones when the payload has not changed.
LEMMA FlushedAgrees ==
  ASSUME NEW old, NEW new
  PROVE  /\ FlushedPayload(old, old, new) = new
         /\ FlushedColumns(Columns(old), old, new) = Columns(new)
<1>1. FlushedPayload(old, old, new) = new
  BY DEF FlushedPayload
<1>2. FlushedColumns(Columns(old), old, new) = [f \in DOMAIN Columns(old) |-> Columns(new)[f]]
  BY DEF FlushedColumns
<1>3. DOMAIN Columns(old) = DOMAIN Columns(new)
  BY DEF Columns
<1>4. Columns(new) = [f \in DOMAIN Columns(new) |-> Columns(new)[f]]
  BY DEF Columns
<1>5. QED
  BY <1>1, <1>2, <1>3, <1>4

\* A process that enters a method reads only.
LEMMA EnteringIsGuarded ==
  ASSUME Guarded, NEW p \in Procs, NEW runs \in SUBSET Runs, NEW method, NEW attempt,
         alive' = alive \union {p}, \A s \in alive : s = p,
         call' = [call EXCEPT ![p] = Inside(method, runs, attempt)],
         UNCHANGED <<rows, column, executes>>
  PROVE  Guarded'
<1>1. /\ DOMAIN Inside(method, runs, attempt).loaded = runs
      /\ \A r \in runs : Inside(method, runs, attempt).loaded[r] = rows[r]
  BY DEF Inside
<1>2. \A s \in Procs : s # p => call'[s] = call[s]
  BY DEF Guarded
<1>3. call'[p] = Inside(method, runs, attempt)
  BY DEF Guarded
<1>4. QED
  BY <1>1, <1>2, <1>3 DEF Guarded

\* The write of the one process that lives stores whole rows.
LEMMA WritingIsGuarded ==
  ASSUME Guarded, NEW p \in Procs, call[p].method # "none", NEW new, Writes(p, new),
         alive' = alive, DOMAIN executes' = Procs,
         \A s \in Procs \ {p} : executes'[s] = executes[s]
  PROVE  Guarded'
<1> DEFINE loaded == call[p].loaded
<1>1. p \in alive
  BY DEF Guarded, NoCall
<1>2. /\ rows' = [r \in Runs |-> IF r \in DOMAIN loaded THEN new[r] ELSE rows[r]]
      /\ column' = [r \in Runs |-> IF r \in DOMAIN loaded THEN Columns(new[r])
                                                          ELSE Columns(rows[r])]
      /\ call' = [call EXCEPT ![p] = NoCall]
  <2>1. \A r \in DOMAIN loaded : loaded[r] = rows[r] /\ r \in Runs
    BY DEF Guarded
  <2>2. \A r \in Runs : column[r] = Columns(rows[r])
    BY DEF Guarded
  <2>3. \A r \in DOMAIN loaded :
          /\ FlushedPayload(rows[r], loaded[r], new[r]) = new[r]
          /\ FlushedColumns(column[r], loaded[r], new[r]) = Columns(new[r])
    BY <2>1, <2>2, FlushedAgrees
  <2>4. QED
    BY <2>2, <2>3 DEF Writes
<1>3. column' = [r \in Runs |-> Columns(rows'[r])]
  BY <1>2
<1>4. \A s \in Procs : call'[s] = IF s = p THEN NoCall ELSE call[s]
  BY <1>2 DEF Guarded
<1>5. \A s \in Procs \ {p} : s \notin alive /\ call[s] = NoCall
  BY <1>1 DEF Guarded
<1>6. \A s \in Procs : call'[s] = NoCall
  BY <1>4, <1>5
<1>7. DOMAIN call' = Procs
  BY <1>2 DEF Guarded
<1>8. QED
  BY <1>1, <1>2, <1>3, <1>6, <1>7, NoCallLoadsNothing DEF Guarded

\* Every step of a server under the guard.
LEMMA StaysGuarded ==
  ASSUME Commands = {}, Guarded, [SharedNext]_sharedVars
  PROVE  Guarded'
<1>1. CASE UNCHANGED sharedVars
  BY <1>1 DEF sharedVars, Guarded
<1>2. ASSUME NEW p \in Procs, StartProcess(p) PROVE Guarded'
  <2>1. \A s \in alive : s = p
    BY <1>2 DEF StartProcess, Procs, Guarded
  <2>2. QED
    BY <1>2, <2>1, EnteringIsGuarded DEF StartProcess
<1>3. ASSUME NEW p \in Procs, ExitProcess(p) PROVE Guarded'
  BY <1>3, NoCallLoadsNothing DEF ExitProcess, Guarded
<1>4. ASSUME NEW p \in Procs, NEW r \in Runs, InsertRun(p, r) PROVE Guarded'
  <2>1. /\ rows' = [rows EXCEPT ![r] = QueuedRow]
        /\ column' = [column EXCEPT ![r] = Columns(QueuedRow)]
        /\ UNCHANGED <<alive, executes, call>>
    BY <1>4 DEF InsertRun
  <2>2. \A s \in Procs : call[s] = NoCall
    BY <1>4 DEF InsertRun, Idle, Guarded
  <2>3. column' = [s \in Runs |-> Columns(rows'[s])]
    BY <2>1 DEF Guarded
  <2>4. DOMAIN rows' = Runs /\ rows' = [s \in Runs |-> rows'[s]]
    BY <2>1 DEF Guarded
  <2>5. \A s \in Procs : DOMAIN call'[s].loaded = {}
    BY <2>1, <2>2, NoCallLoadsNothing
  <2>6. QED
    BY <2>1, <2>3, <2>4, <2>5 DEF Guarded
<1>5. ASSUME NEW p \in Procs, NEW r \in Runs,
             \/ ClaimReads(p, r) \/ CompleteReads(p, r) \/ GiveUpReads(p, r)
             \/ \E a \in Attempts : RecordReads(p, r, a)
      PROVE  Guarded'
  <2>1. PICK method, attempt :
          /\ p \in alive /\ UNCHANGED <<rows, column, alive, executes>>
          /\ call' = [call EXCEPT ![p] = Inside(method, {r}, attempt)]
    BY <1>5 DEF ClaimReads, CompleteReads, GiveUpReads, RecordReads, Idle
  <2>2. alive' = alive \union {p} /\ \A s \in alive : s = p
    BY <2>1 DEF Guarded
  <2>3. QED
    BY <2>1, <2>2, EnteringIsGuarded
<1>6. ASSUME NEW p \in Procs,
             RecoverWrites(p) \/ ClaimWrites(p) \/ RecordWrites(p) \/ CompleteWrites(p)
               \/ GiveUpWrites(p)
      PROVE  Guarded'
  <2>1. /\ call[p].method # "none" /\ alive' = alive
        /\ \E new : Writes(p, new)
    BY <1>6 DEF RecoverWrites, ClaimWrites, RecordWrites, CompleteWrites, GiveUpWrites
  <2>2. DOMAIN executes' = Procs /\ \A s \in Procs \ {p} : executes'[s] = executes[s]
    BY <1>6 DEF RecoverWrites, ClaimWrites, RecordWrites, CompleteWrites, GiveUpWrites, Guarded
  <2>3. QED
    BY <2>1, <2>2, WritingIsGuarded
<1>7. QED
  BY <1>1, <1>2, <1>3, <1>4, <1>5, <1>6 DEF SharedNext, Lifetimes, Methods

\* Nothing lives and nothing is stored at first.
LEMMA SharedInitIsGuarded == SharedInit => Guarded
BY NoCallLoadsNothing DEF SharedInit, StoreInit, Guarded

\* With the worker guard, and no command beside the server, no sequence of
\* partial updates, exits and recoveries leaves a row that cannot be read.
THEOREM GuardedRowsDecode ==
  ASSUME Commands = {}
  PROVE  SharedSpec => []StoredRowsDecode
<1>1. Guarded => StoredRowsDecode
  BY DEF Guarded, StoredRowsDecode, Decodes
<1>2. Guarded /\ [SharedNext]_sharedVars => Guarded'
  BY StaysGuarded
<1>3. QED
  BY <1>1, <1>2, SharedInitIsGuarded, PTL DEF SharedSpec

-----------------------------------------------------------------------------
(* Recovery.                                                               *)

\* A process that recovers has claimed nothing yet, and rows keep their shape.
RecoversFirst ==
  /\ Guarded
  /\ \A r \in Runs : DOMAIN rows[r] = DOMAIN NoRow
  /\ \A p \in Procs : call[p].method = "recover" => executes[p] = {}

\* The write of the one process that lives replaces the columns of what it
\* loaded, and of nothing else.
LEMMA WholeRowsAreWritten ==
  ASSUME Guarded, NEW p \in Procs, NEW new, Writes(p, new)
  PROVE  \A r \in Runs :
           /\ r \notin DOMAIN call[p].loaded => rows'[r] = rows[r] /\ column'[r] = column[r]
           /\ r \in DOMAIN call[p].loaded => rows'[r] = new[r] /\ column'[r] = Columns(new[r])
<1> DEFINE loaded == call[p].loaded
<1> SUFFICES ASSUME NEW r \in Runs
             PROVE  /\ r \notin DOMAIN loaded => rows'[r] = rows[r] /\ column'[r] = column[r]
                    /\ r \in DOMAIN loaded => rows'[r] = new[r] /\ column'[r] = Columns(new[r])
  OBVIOUS
<1>1. r \in DOMAIN loaded => loaded[r] = rows[r]
  BY DEF Guarded
<1>2. column[r] = Columns(rows[r])
  BY DEF Guarded
<1>3. r \in DOMAIN loaded =>
        /\ FlushedPayload(rows[r], loaded[r], new[r]) = new[r]
        /\ FlushedColumns(column[r], loaded[r], new[r]) = Columns(new[r])
  BY <1>1, <1>2, FlushedAgrees
<1>4. QED
  BY <1>3 DEF Writes

\* What the update of a whole row does to its shape and its status.
LEMMA UpdatedRowStatus ==
  ASSUME NEW row, DOMAIN row = DOMAIN NoRow
  PROVE  /\ \A target, summaries :
              /\ DOMAIN Moved(row, target, summaries) = DOMAIN NoRow
              /\ Moved(row, target, summaries).status = target
         /\ \A target : /\ DOMAIN MovedTo(row, target) = DOMAIN NoRow
                        /\ MovedTo(row, target).status = target
         /\ \A out : /\ DOMAIN Progressed(row, out) = DOMAIN NoRow
                     /\ Progressed(row, out).status = row.status
<1>1. "status" \in DOMAIN NoRow
  BY DEF NoRow
<1>2. QED
  BY <1>1 DEF Moved, MovedTo, Progressed

\* Every write of a method but recovery leaves no row interrupted that was not.
LEMMA WritesKeepRecoversFirst ==
  ASSUME RecoversFirst, Guarded', NEW p \in Procs, NEW new, Writes(p, new),
         \A r \in DOMAIN call[p].loaded : DOMAIN new[r] = DOMAIN NoRow,
         \A s \in Procs \ {p} : executes'[s] = executes[s]
  PROVE  RecoversFirst'
<1>1. \A r \in Runs : DOMAIN rows'[r] = DOMAIN NoRow
  BY WholeRowsAreWritten DEF RecoversFirst
<1>2. \A s \in Procs : call'[s] = IF s = p THEN NoCall ELSE call[s]
  BY DEF Writes, RecoversFirst, Guarded
<1>3. NoCall.method # "recover"
  BY DEF NoCall
<1>4. \A s \in Procs : call'[s].method = "recover" => executes'[s] = {}
  BY <1>2, <1>3 DEF RecoversFirst
<1>5. QED
  BY <1>1, <1>4 DEF RecoversFirst

\* The rows that a method of p would write have the shape of rows.
LEMMA LoadedRows ==
  ASSUME RecoversFirst, NEW p \in Procs, NEW r \in DOMAIN call[p].loaded
  PROVE  r \in Runs /\ call[p].loaded[r] = rows[r] /\ DOMAIN call[p].loaded[r] = DOMAIN NoRow
BY DEF RecoversFirst, Guarded

\* A step of one process under the guard: its recovery meets no execution.
LEMMA StepRecoversFirst ==
  ASSUME Commands = {}, RecoversFirst, [SharedNext]_sharedVars
  PROVE  /\ RecoversFirst'
         /\ \A r \in Runs :
              column[r].status = "running" /\ column'[r].status = "interrupted"
              => \A p \in alive : r \notin executes[p]
<1> DEFINE Orphans == \A r \in Runs :
              column[r].status = "running" /\ column'[r].status = "interrupted"
              => \A p \in alive : r \notin executes[p]
<1>0. Guarded /\ Guarded'
  BY StaysGuarded DEF RecoversFirst
<1>1. CASE UNCHANGED sharedVars
  BY <1>0, <1>1 DEF sharedVars, RecoversFirst
<1>2. ASSUME NEW p \in Procs, StartProcess(p) PROVE RecoversFirst' /\ Orphans
  <2>1. p \notin alive /\ UNCHANGED <<rows, column, executes>>
        /\ \A s \in Procs : s # p => call'[s] = call[s]
    BY <1>0, <1>2 DEF StartProcess, Guarded
  <2>2. executes[p] = {}
    BY <1>0, <2>1 DEF Guarded
  <2>3. QED
    BY <1>0, <2>1, <2>2 DEF RecoversFirst
<1>3. ASSUME NEW p \in Procs, ExitProcess(p) PROVE RecoversFirst' /\ Orphans
  <2>1. /\ UNCHANGED <<rows, column>>
        /\ \A s \in Procs : s # p => call'[s] = call[s] /\ executes'[s] = executes[s]
        /\ executes'[p] = {}
    BY <1>0, <1>3 DEF ExitProcess, Guarded
  <2>2. QED
    BY <1>0, <2>1 DEF RecoversFirst
<1>4. ASSUME NEW p \in Procs, NEW r \in Runs, InsertRun(p, r) PROVE RecoversFirst' /\ Orphans
  <2>1. /\ \A s \in Runs : rows'[s] = IF s = r THEN QueuedRow ELSE rows[s]
        /\ \A s \in Runs : column'[s] = IF s = r THEN Columns(QueuedRow) ELSE column[s]
        /\ UNCHANGED <<executes, call>>
    BY <1>0, <1>4 DEF InsertRun, Guarded
  <2>2. DOMAIN QueuedRow = DOMAIN NoRow /\ Columns(QueuedRow).status = "queued"
    BY DEF QueuedRow, NoRow, Columns
  <2>3. QED
    BY <1>0, <2>1, <2>2 DEF RecoversFirst
<1>5. ASSUME NEW p \in Procs, NEW r \in Runs,
             \/ ClaimReads(p, r) \/ CompleteReads(p, r) \/ GiveUpReads(p, r)
             \/ \E a \in Attempts : RecordReads(p, r, a)
      PROVE  RecoversFirst' /\ Orphans
  <2>1. PICK method \in {"claim", "complete", "fail", "record"} : \E attempt :
          /\ UNCHANGED <<rows, column, executes>>
          /\ call' = [call EXCEPT ![p] = Inside(method, {r}, attempt)]
    BY <1>5 DEF ClaimReads, CompleteReads, GiveUpReads, RecordReads
  <2>2. call'[p].method # "recover"
    BY <1>0, <2>1 DEF Guarded, Inside
  <2>3. \A s \in Procs : s # p => call'[s] = call[s]
    BY <1>0, <2>1 DEF Guarded
  <2>4. \A s \in Procs : call'[s].method = "recover" => executes'[s] = {}
    BY <1>0, <2>1, <2>2, <2>3 DEF Guarded, RecoversFirst
  <2>5. QED
    BY <1>0, <2>1, <2>4 DEF RecoversFirst
<1>6. ASSUME NEW p \in Procs, RecoverWrites(p) PROVE RecoversFirst' /\ Orphans
  <2>1. /\ Writes(p, [r \in DOMAIN call[p].loaded |-> MovedTo(call[p].loaded[r], "interrupted")])
        /\ executes' = executes /\ executes[p] = {} /\ p \in alive
    BY <1>0, <1>6 DEF RecoverWrites, RecoversFirst, Guarded, NoCall
  <2>2. RecoversFirst'
    BY <1>0, <2>1, LoadedRows, UpdatedRowStatus, WritesKeepRecoversFirst
  <2>3. \A s \in alive : executes[s] = {}
    BY <1>0, <2>1 DEF Guarded
  <2>4. QED
    BY <2>2, <2>3
<1>7. ASSUME NEW p \in Procs,
             ClaimWrites(p) \/ RecordWrites(p) \/ CompleteWrites(p) \/ GiveUpWrites(p)
      PROVE  RecoversFirst' /\ Orphans
  <2>1. PICK new :
          /\ Writes(p, new)
          /\ \A r \in DOMAIN call[p].loaded :
               \/ \E target \in {"running", "completed", "failed"} : \E summaries :
                    new[r] = Moved(call[p].loaded[r], target, summaries)
               \/ \E out : new[r] = Progressed(call[p].loaded[r], out)
    <3> DEFINE loaded == call[p].loaded
    <3>1. CASE ClaimWrites(p)
      <4>1. Writes(p, [r \in DOMAIN loaded |-> MovedTo(loaded[r], "running")])
        BY <3>1 DEF ClaimWrites
      <4>2. QED
        BY <4>1 DEF MovedTo
    <3>2. CASE RecordWrites(p)
      <4>1. Writes(p, [r \in DOMAIN loaded |-> Progressed(loaded[r], outcomes'[r])])
        BY <3>2 DEF RecordWrites
      <4>2. QED
        BY <4>1
    <3>3. CASE CompleteWrites(p)
      <4>1. Writes(p, [r \in DOMAIN loaded |-> Moved(loaded[r], "completed", SummariesOf(outcomes[r]))])
        BY <3>3 DEF CompleteWrites
      <4>2. QED
        BY <4>1
    <3>4. CASE GiveUpWrites(p)
      <4>1. Writes(p, [r \in DOMAIN loaded |-> MovedTo(loaded[r], "failed")])
        BY <3>4 DEF GiveUpWrites
      <4>2. QED
        BY <4>1 DEF MovedTo
    <3>5. QED
      BY <1>7, <3>1, <3>2, <3>3, <3>4
  <2>2. ASSUME NEW r \in DOMAIN call[p].loaded
        PROVE  /\ DOMAIN new[r] = DOMAIN NoRow
               /\ new[r].status \in {"running", "completed", "failed", rows[r].status}
    <3>1. call[p].loaded[r] = rows[r] /\ DOMAIN rows[r] = DOMAIN NoRow
      BY LoadedRows
    <3>2. QED
      BY <2>1, <3>1, UpdatedRowStatus
  <2>3. \A s \in Procs \ {p} : executes'[s] = executes[s]
    BY <1>0, <1>7 DEF ClaimWrites, RecordWrites, CompleteWrites, GiveUpWrites, Guarded
  <2>4. RecoversFirst'
    BY <1>0, <2>1, <2>2, <2>3, WritesKeepRecoversFirst
  <2>5. ASSUME NEW r \in Runs, column[r].status = "running" PROVE column'[r].status # "interrupted"
    <3>1. column[r] = Columns(rows[r])
      BY <1>0 DEF Guarded
    <3>2. rows[r].status = "running"
      BY <2>5, <3>1 DEF Columns
    <3>3. CASE r \notin DOMAIN call[p].loaded
      BY <1>0, <2>1, <2>5, <3>3, WholeRowsAreWritten
    <3>4. CASE r \in DOMAIN call[p].loaded
      <4>1. column'[r] = Columns(new[r])
        BY <1>0, <2>1, <3>4, WholeRowsAreWritten
      <4>2. column'[r].status = new[r].status
        BY <4>1 DEF Columns
      <4>3. QED
        BY <2>2, <3>2, <3>4, <4>2
    <3>5. QED
      BY <3>3, <3>4
  <2>6. QED
    BY <2>4, <2>5
<1>8. QED
  BY <1>1, <1>2, <1>3, <1>4, <1>5, <1>6, <1>7 DEF SharedNext, Lifetimes, Methods

\* With the worker guard, and no command beside the server, recovery ends only
\* runs that nobody executes; the run recovery_beside_server shows that a
\* command, which recovers without taking the guard, breaks this.
THEOREM GuardedRecoveryMarksOrphans ==
  ASSUME Commands = {}
  PROVE  SharedSpec => RecoveryMarksOrphansOnly
<1> DEFINE Orphans == \A r \in Runs :
              column[r].status = "running" /\ column'[r].status = "interrupted"
              => \A p \in alive : r \notin executes[p]
<1>1. SharedInit => RecoversFirst
  <2>1. NoCall.method # "recover"
    BY DEF NoCall
  <2>2. QED
    BY <2>1, SharedInitIsGuarded DEF SharedInit, StoreInit, RecoversFirst
<1>2. RecoversFirst /\ [SharedNext]_sharedVars => RecoversFirst' /\ [Orphans]_sharedVars
  BY StepRecoversFirst
<1>3. QED
  BY <1>1, <1>2, PTL DEF SharedSpec, RecoveryMarksOrphansOnly

=============================================================================
