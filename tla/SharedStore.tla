----------------------------- MODULE SharedStore -----------------------------
(***************************************************************************)
(* The run store under several processes.  A repository method opens one   *)
(* session, but persistence/database.py leaves the transaction mode of     *)
(* pysqlite alone: a SELECT starts no transaction, the first INSERT or     *)
(* UPDATE does, and there is no version column.  So a method reads a row   *)
(* in one step and writes the columns it changed in a later one, and the   *)
(* steps of another process may come between.                              *)
(*                                                                         *)
(* rows[r] is here the payload_json of the row, the whole EvalRun, and     *)
(* column[r] its indexed columns; _decode_run_row refuses a row in which   *)
(* the two disagree.  A server holds the worker guard; a CLI command does  *)
(* not take it, though it runs the same recovery as it starts.             *)
(***************************************************************************)
EXTENDS RunStore, TLC

CONSTANTS Servers, Commands

Procs == Servers \union Commands

VARIABLES
  column,    \* the indexed columns of every run row
  alive,     \* the processes that run
  executes,  \* executes[p]: the runs p claimed and still works on
  creator,   \* creator[r]: the process that inserted r
  call       \* call[p]: the repository method p is inside of

sharedVars == <<rows, outcomes, column, alive, executes, creator, call>>

-----------------------------------------------------------------------------
Columns(row) ==
  [ status |-> row.status, completed |-> row.completed,
    started |-> row.started, ended |-> row.ended ]

Decodes(r) == column[r] = Columns(rows[r])

\* A method between its reads and its write: the rows it loaded, and for
\* record_outcome the attempt it is about to store.
NoCall == [method |-> "none", loaded |-> <<>>, attempt |-> <<>>]

Inside(method, runs, attempt) ==
  [method |-> method, loaded |-> [r \in runs |-> rows[r]], attempt |-> attempt]

Idle(p) == p \in alive /\ call[p] = NoCall

\* Only the attributes that differ from the loaded ones reach the UPDATE.
FlushedColumns(stored, old, new) ==
  [f \in DOMAIN stored |-> IF Columns(new)[f] # Columns(old)[f]
                           THEN Columns(new)[f] ELSE stored[f]]

FlushedPayload(stored, old, new) == IF new # old THEN new ELSE stored

\* The write of p: every loaded row r becomes new[r], one transaction.
Writes(p, new) ==
  LET loaded == call[p].loaded
  IN  /\ rows' = [r \in Runs |-> IF r \in DOMAIN loaded
                    THEN FlushedPayload(rows[r], loaded[r], new[r]) ELSE rows[r]]
      /\ column' = [r \in Runs |-> IF r \in DOMAIN loaded
                      THEN FlushedColumns(column[r], loaded[r], new[r]) ELSE column[r]]
      /\ call' = [call EXCEPT ![p] = NoCall]

-----------------------------------------------------------------------------
(* Processes.                                                              *)

\* The worker guard admits one server; then recovery selects running rows.
StartProcess(p) ==
  /\ p \notin alive
  /\ p \in Servers => Servers \intersect alive = {}
  /\ LET stale == {r \in Runs : column[r].status = "running"}
     IN  /\ \A r \in stale : Decodes(r)
         /\ call' = [call EXCEPT ![p] = Inside("recover", stale, <<>>)]
  /\ alive' = alive \union {p}
  /\ UNCHANGED <<rows, outcomes, column, executes, creator>>

RecoverWrites(p) ==
  /\ call[p].method = "recover"
  /\ Writes(p, [r \in DOMAIN call[p].loaded |-> MovedTo(call[p].loaded[r], "interrupted")])
  /\ UNCHANGED <<outcomes, alive, executes, creator>>

\* A process ends or dies; an open transaction is rolled back.
ExitProcess(p) ==
  /\ p \in alive
  /\ alive' = alive \ {p}
  /\ executes' = [executes EXCEPT ![p] = {}]
  /\ call' = [call EXCEPT ![p] = NoCall]
  /\ UNCHANGED <<rows, outcomes, column, creator>>

\* A server refuses a run while any row is active; a command does not look.
InsertRun(p, r) ==
  /\ Idle(p)
  /\ column[r].status = "absent"
  /\ p \in Servers => \A s \in Runs : column[s].status \notin {"queued", "running"}
  /\ rows' = [rows EXCEPT ![r] = QueuedRow]
  /\ column' = [column EXCEPT ![r] = Columns(QueuedRow)]
  /\ creator' = [creator EXCEPT ![r] = {p}]
  /\ UNCHANGED <<outcomes, alive, executes, call>>

\* A server pumps every queued row, a command claims the run it created.
ClaimReads(p, r) ==
  /\ Idle(p)
  /\ p \in Commands => p \in creator[r]
  /\ Decodes(r) /\ rows[r].status = "queued"
  /\ call' = [call EXCEPT ![p] = Inside("claim", {r}, <<>>)]
  /\ UNCHANGED <<rows, outcomes, column, alive, executes, creator>>

ClaimWrites(p) ==
  /\ call[p].method = "claim"
  /\ Writes(p, [r \in DOMAIN call[p].loaded |-> MovedTo(call[p].loaded[r], "running")])
  /\ executes' = [executes EXCEPT ![p] = @ \union DOMAIN call[p].loaded]
  /\ UNCHANGED <<outcomes, alive, creator>>

RecordReads(p, r, a) ==
  /\ Idle(p)
  /\ r \in executes[p]
  /\ outcomes[r][a] = "none"
  /\ Decodes(r) /\ rows[r].status = "running"
  /\ call' = [call EXCEPT ![p] = Inside("record", {r}, a)]
  /\ UNCHANGED <<rows, outcomes, column, alive, executes, creator>>

RecordWrites(p) ==
  /\ call[p].method = "record"
  /\ \E r \in DOMAIN call[p].loaded :
       outcomes' = [outcomes EXCEPT ![r] = Upserted(@, call[p].attempt, "succeeded")]
  /\ Writes(p, [r \in DOMAIN call[p].loaded |-> Progressed(call[p].loaded[r], outcomes'[r])])
  /\ UNCHANGED <<alive, executes, creator>>

CompleteReads(p, r) ==
  /\ Idle(p)
  /\ r \in executes[p]
  /\ Decodes(r) /\ MayMove(rows[r], "completed")
  /\ ValidSummaries(outcomes[r], SummariesOf(outcomes[r]))
  /\ call' = [call EXCEPT ![p] = Inside("complete", {r}, <<>>)]
  /\ UNCHANGED <<rows, outcomes, column, alive, executes, creator>>

CompleteWrites(p) ==
  /\ call[p].method = "complete"
  /\ Writes(p, [r \in DOMAIN call[p].loaded |-> Moved(call[p].loaded[r], "completed", SummariesOf(outcomes[r]))])
  /\ executes' = [executes EXCEPT ![p] = @ \ DOMAIN call[p].loaded]
  /\ UNCHANGED <<outcomes, alive, creator>>

\* A refused method makes the job give up; its handler fails the run if the
\* row it reads says running.
GiveUpReads(p, r) ==
  /\ Idle(p)
  /\ r \in executes[p]
  /\ Decodes(r) /\ rows[r].status = "running"
  /\ call' = [call EXCEPT ![p] = Inside("fail", {r}, <<>>)]
  /\ UNCHANGED <<rows, outcomes, column, alive, executes, creator>>

GiveUpWrites(p) ==
  /\ call[p].method = "fail"
  /\ Writes(p, [r \in DOMAIN call[p].loaded |-> MovedTo(call[p].loaded[r], "failed")])
  /\ executes' = [executes EXCEPT ![p] = @ \ DOMAIN call[p].loaded]
  /\ UNCHANGED <<outcomes, alive, creator>>

-----------------------------------------------------------------------------
SharedInit ==
  /\ StoreInit
  /\ column = [r \in Runs |-> Columns(NoRow)]
  /\ alive = {}
  /\ executes = [p \in Procs |-> {}]
  /\ creator = [r \in Runs |-> {}]
  /\ call = [p \in Procs |-> NoCall]

Lifetimes(p) == StartProcess(p) \/ RecoverWrites(p) \/ ExitProcess(p)

Methods(p) ==
  \/ \E r \in Runs : InsertRun(p, r) \/ ClaimReads(p, r)
  \/ \E r \in Runs : CompleteReads(p, r) \/ GiveUpReads(p, r)
  \/ \E r \in Runs, a \in Attempts : RecordReads(p, r, a)
  \/ ClaimWrites(p) \/ RecordWrites(p) \/ CompleteWrites(p) \/ GiveUpWrites(p)

SharedNext == \E p \in Procs : Lifetimes(p) \/ Methods(p)

SharedSpec == SharedInit /\ [][SharedNext]_sharedVars

-----------------------------------------------------------------------------
(* Properties.                                                             *)

\* Recovery marks orphaned runs interrupted: it never ends a run that a
\* living process is executing.
RecoveryMarksOrphansOnly ==
  [][\A r \in Runs :
       column[r].status = "running" /\ column'[r].status = "interrupted"
       => \A p \in alive : r \notin executes[p]]_sharedVars

\* A method is one transaction: no sequence of methods leaves a row whose
\* payload contradicts its columns, which every later read would refuse.
StoredRowsDecode == \A r \in Runs : Decodes(r)

=============================================================================
