------------------------------- MODULE OwnedTiny -------------------------------
(***************************************************************************)
(* The receipt of the generated tiny namespace (owned_tiny.py) and the two *)
(* commands that work under its lock: the ingestion of the tiny fixture    *)
(* (cli/ingest.py) and its cleanup (cli/namespace.py).  The receipt is the *)
(* only record of a randomly named remote namespace, so losing it loses    *)
(* the namespace.                                                          *)
(*                                                                         *)
(* A step is one file operation or one answer of the provider.  A command  *)
(* may stop between any two steps (an error, Ctrl-C, a kill) and the       *)
(* machine may lose power: what no fsync covered is then lost or kept.     *)
(* Every command authenticates the receipt; content that its own key       *)
(* signed reads back as the state written, anything else as invalid.       *)
(***************************************************************************)
EXTENDS Integers, FiniteSets

CONSTANTS
  Batch,                \* batches of the tiny corpus
  MaxConcurrency,       \* batches written at once
  NotFoundAttempts,     \* metadata reads before cleanup gives up
  None,
  MaxFaults,            \* bound: stops and power losses, altogether
  StopsWhileRestoring   \* whether a fault may strike inside _restore_exchange

OwnedTinyState == {"intent", "created", "ready", "cleanup_requested", "not_found_verified"}

ASSUME OwnedAssumption ==
  /\ MaxConcurrency \in Nat \ {0} /\ NotFoundAttempts \in Nat \ {0}
  /\ MaxFaults \in Nat /\ StopsWhileRestoring \in BOOLEAN
  /\ IsFiniteSet(Batch) /\ Batch # {}
  /\ None \notin OwnedTinyState \union {"ingest", "cleanup"}

VARIABLES
  dir,      \* the state directory as the running system sees it
  onDisk,   \* the directories a power loss may leave
  data,     \* data[i]: the content of file i
  mayRead,  \* mayRead[i]: the contents a power loss may leave in file i
  lock,     \* the command that holds the account's lock
  cmd,      \* cmd[c]: the local variables of command c
  remote,   \* the batches in the namespace; {} when there is no namespace
  wire,     \* writes sent and not yet applied
  deleting, \* the provider accepted a deletion it has not carried out
  faults

ownedVars == <<dir, onDisk, data, mayRead, lock, cmd, remote, wire, deleting, faults>>
files == <<dir, onDisk, data, mayRead>>
cloud == <<remote, wire, deleting>>

-----------------------------------------------------------------------------
(* Receipts.                                                               *)

\* A receipt file is written once, so the state it was written with names it.
Files == OwnedTinyState
Content == OwnedTinyState \union {"blank"}

Allowed ==
  [ intent             |-> {"created", "cleanup_requested"},
    created            |-> {"ready", "cleanup_requested"},
    ready              |-> {"cleanup_requested"},
    cleanup_requested  |-> {"not_found_verified"},
    not_found_verified |-> {} ]

Commands == {"ingest", "cleanup"}

Idle == [pc |-> "idle", prior |-> None, goal |-> "intent",
         sent |-> {}, confirmed |-> {}, polls |-> 0, credential |-> TRUE]

Directories ==
  [tree : BOOLEAN, key : BOOLEAN, receipt : Files \union {None}, temp : Files \union {None}]

At(c, pc) == cmd[c].pc = pc
Update(c, record) == cmd' = [cmd EXCEPT ![c] = record]
Goto(c, pc) == Update(c, [cmd[c] EXCEPT !.pc = pc])

\* The state that the fixed name reads back as.
Receipt == IF dir.receipt = None THEN "absent" ELSE data[dir.receipt]

\* authenticate_current: the receipt is still the file the command read.
Authentic(c) == dir.key /\ dir.receipt # None /\ dir.receipt = cmd[c].prior

-----------------------------------------------------------------------------
(* File operations.                                                        *)

\* A rename or an unlink: a later power loss may or may not remember it.
Rename(d) ==
  /\ dir' = d
  /\ onDisk' = onDisk \union {d}

\* fsync of the directory.  The file system journals its changes in order, so
\* this also makes the directories above durable.
SyncDirectory == onDisk' = {dir}

Write(i, content) ==
  /\ data' = [data EXCEPT ![i] = content]
  /\ mayRead' = [mayRead EXCEPT ![i] = @ \union {content}]

SyncFile(i) == mayRead' = [mayRead EXCEPT ![i] = {data[i]}]

-----------------------------------------------------------------------------
(* Opening an operation.                                                   *)

\* The lock is taken without waiting; a command that finds it held exits.
Lock(c, credential) ==
  /\ At(c, "idle")
  /\ lock = None
  /\ lock' = c
  /\ Update(c, [Idle EXCEPT !.pc = "tree", !.credential = credential])
  /\ UNCHANGED <<files, cloud, faults>>

\* A command ends: its lock is released, and the provider decides about the
\* writes it left behind before the lock can be taken again.
Ends(c) ==
  /\ Update(c, Idle)
  /\ lock' = IF lock = c THEN None ELSE lock
  /\ \E landed \in SUBSET wire : remote' = remote \union landed
  /\ wire' = {}
  /\ UNCHANGED deleting

Exit(c) == Ends(c) /\ UNCHANGED <<files, faults>>

\* Only ingestion creates what is missing.
OpenTree(c) ==
  /\ At(c, "tree")
  /\ \/ /\ dir.tree
        /\ Goto(c, "syncTree")
        /\ UNCHANGED <<files, lock, cloud, faults>>
     \/ /\ ~dir.tree /\ c = "ingest"
        /\ Rename([dir EXCEPT !.tree = TRUE])
        /\ Goto(c, "syncTree")
        /\ UNCHANGED <<data, mayRead, lock, cloud, faults>>
     \/ /\ ~dir.tree /\ c = "cleanup"
        /\ Exit(c)

\* Fault: a directory that is already there is not flushed.
SyncTreeNever(c) ==
  /\ At(c, "syncTree")
  /\ Goto(c, "key")
  /\ UNCHANGED <<files, lock, cloud, faults>>

\* The directory is flushed also when the command created nothing: an earlier
\* one may have stopped before its own fsync.
SyncTree(c) ==
  /\ At(c, "syncTree")
  /\ SyncDirectory
  /\ Goto(c, "key")
  /\ UNCHANGED <<dir, data, mayRead, lock, cloud, faults>>

\* The key file is written and flushed under a random name, then renamed.
OpenKey(c) ==
  /\ At(c, "key")
  /\ \/ /\ dir.key
        /\ Goto(c, "load")
        /\ UNCHANGED <<files, lock, cloud, faults>>
     \/ /\ ~dir.key /\ c = "ingest"
        /\ Rename([dir EXCEPT !.key = TRUE])
        /\ Goto(c, "syncKey")
        /\ UNCHANGED <<data, mayRead, lock, cloud, faults>>
     \/ /\ ~dir.key /\ c = "cleanup"
        /\ Exit(c)

SyncKey(c) ==
  /\ At(c, "syncKey")
  /\ SyncDirectory
  /\ Goto(c, "load")
  /\ UNCHANGED <<dir, data, mayRead, lock, cloud, faults>>

-----------------------------------------------------------------------------
(* What a command does with the receipt it finds.                          *)

Toward(c, goal) ==
  Update(c, [cmd[c] EXCEPT !.pc = "prepare", !.goal = goal, !.prior = dir.receipt])

With(c, pc) == Update(c, [cmd[c] EXCEPT !.pc = pc, !.prior = dir.receipt])

\* Fault: an interrupted cleanup does not stop ingestion.
LoadForIngestionUnchecked ==
  /\ At("ingest", "load")
  /\ \/ /\ Receipt = "absent"
        /\ Toward("ingest", "intent")
     \/ /\ Receipt # "absent"
        /\ With("ingest", "write")
  /\ UNCHANGED <<files, lock, cloud, faults>>

\* load, create_intent and the checks of _run_ingestion.
LoadForIngestion ==
  /\ At("ingest", "load")
  /\ \/ /\ Receipt = "absent"
        /\ Toward("ingest", "intent")
        /\ UNCHANGED <<files, lock, cloud, faults>>
     \/ /\ Receipt \in {"intent", "created", "ready"}
        /\ cmd["ingest"].credential
        /\ With("ingest", "write")
        /\ UNCHANGED <<files, lock, cloud, faults>>
     \/ /\ \/ Receipt \in {"cleanup_requested", "not_found_verified", "blank"}
           \/ Receipt \in {"intent", "created", "ready"} /\ ~cmd["ingest"].credential
        /\ Exit("ingest")

\* Fault: a cleanup that was requested before is not taken up again.
LoadForCleanupOnce ==
  /\ At("cleanup", "load")
  /\ \/ /\ Receipt = "not_found_verified"
        /\ With("cleanup", "quarantine")
        /\ UNCHANGED <<files, lock, cloud, faults>>
     \/ /\ Receipt \in {"intent", "created", "ready"}
        /\ cmd["cleanup"].credential
        /\ Toward("cleanup", "cleanup_requested")
        /\ UNCHANGED <<files, lock, cloud, faults>>
     \/ /\ \/ Receipt \in {"absent", "blank", "cleanup_requested"}
           \/ Receipt # "not_found_verified" /\ ~cmd["cleanup"].credential
        /\ Exit("cleanup")

\* A verified receipt needs no credential, every other one does.
LoadForCleanup ==
  /\ At("cleanup", "load")
  /\ \/ /\ Receipt = "not_found_verified"
        /\ With("cleanup", "quarantine")
        /\ UNCHANGED <<files, lock, cloud, faults>>
     \/ /\ Receipt \in {"intent", "created", "ready"}
        /\ cmd["cleanup"].credential
        /\ Toward("cleanup", "cleanup_requested")
        /\ UNCHANGED <<files, lock, cloud, faults>>
     \/ /\ Receipt = "cleanup_requested"
        /\ cmd["cleanup"].credential
        /\ With("cleanup", "delete")
        /\ UNCHANGED <<files, lock, cloud, faults>>
     \/ /\ \/ Receipt \in {"absent", "blank"}
           \/ Receipt # "not_found_verified" /\ ~cmd["cleanup"].credential
        /\ Exit("cleanup")

-----------------------------------------------------------------------------
(* transition and create_intent: a new file takes the place of the old.    *)

\* The staging file under a random name; an older one is never read again.
Prepare(c) ==
  /\ At(c, "prepare")
  /\ cmd[c].prior # None => cmd[c].goal \in Allowed[Receipt]
  /\ LET new == cmd[c].goal
     IN  /\ Rename([dir EXCEPT !.temp = new])
         /\ data' = [data EXCEPT ![new] = new]
         /\ mayRead' = [mayRead EXCEPT ![new] = {"blank", new}]
  /\ Goto(c, "syncTemp")
  /\ UNCHANGED <<lock, cloud, faults>>

SyncTemp(c) ==
  /\ At(c, "syncTemp")
  /\ SyncFile(dir.temp)
  /\ Goto(c, IF cmd[c].prior = None THEN "install" ELSE "exchange")
  /\ UNCHANGED <<dir, onDisk, data, lock, cloud, faults>>

\* _rename_noreplace onto the fixed name.
Install(c) ==
  /\ At(c, "install")
  /\ dir.receipt = None
  /\ Rename([dir EXCEPT !.receipt = dir.temp, !.temp = None])
  /\ Goto(c, "syncReceipt")
  /\ UNCHANGED <<data, mayRead, lock, cloud, faults>>

\* _exchange_paths: the two names swap their files.
Exchange(c) ==
  /\ At(c, "exchange")
  /\ Authentic(c)
  /\ Rename([dir EXCEPT !.receipt = dir.temp, !.temp = dir.receipt])
  /\ Goto(c, "displaced")
  /\ UNCHANGED <<data, mayRead, lock, cloud, faults>>

RemoveDisplaced(c) ==
  /\ At(c, "displaced")
  /\ Rename([dir EXCEPT !.temp = None])
  /\ Goto(c, "syncReceipt")
  /\ UNCHANGED <<data, mayRead, lock, cloud, faults>>

\* Where a command goes on once its new receipt is durable.
After(c) ==
  CASE c = "ingest" /\ cmd[c].goal = "ready" -> "done"
    [] c = "ingest" /\ cmd[c].goal # "ready" -> "write"
    [] c = "cleanup" /\ cmd[c].goal = "cleanup_requested" -> "delete"
    [] OTHER -> "quarantine"

SyncReceipt(c) ==
  /\ At(c, "syncReceipt")
  /\ SyncDirectory
  /\ With(c, After(c))
  /\ UNCHANGED <<dir, data, mayRead, lock, cloud, faults>>

Done == At("ingest", "done") /\ Exit("ingest")

-----------------------------------------------------------------------------
(* _restore_exchange: the old file could not be removed, swap back.        *)

Fault ==
  /\ faults < MaxFaults
  /\ faults' = faults + 1

\* The replacement moves to a third name, which leaves the fixed name empty.
RemovalFails(c) ==
  /\ At(c, "displaced")
  /\ Fault
  /\ Rename([dir EXCEPT !.receipt = None])
  /\ Goto(c, "restore")
  /\ UNCHANGED <<data, mayRead, lock, cloud>>

\* The old receipt moves back, and the command reports its failure.
Restore(c) ==
  /\ At(c, "restore")
  /\ LET d == [dir EXCEPT !.receipt = dir.temp, !.temp = None]
     IN  dir' = d /\ onDisk' = {d}
  /\ Ends(c)
  /\ UNCHANGED <<data, mayRead, faults>>

Restoring == \E c \in Commands : At(c, "restore")

-----------------------------------------------------------------------------
(* Writing the namespace.                                                  *)

Outstanding(c) == cmd[c].sent \ cmd[c].confirmed

\* upsert_batch behind _ContinuityCheckedWriter.
SendBatch(b) ==
  LET a == cmd["ingest"]
  IN  /\ a.pc = "write"
      /\ b \notin a.sent
      /\ Cardinality(Outstanding("ingest")) < MaxConcurrency
      /\ Authentic("ingest")
      /\ wire' = wire \union {b}
      /\ Update("ingest", [a EXCEPT !.sent = @ \union {b}])
      /\ UNCHANGED <<files, lock, remote, deleting, faults>>

BatchLands(b) ==
  /\ b \in wire
  /\ wire' = wire \ {b}
  /\ remote' = remote \union {b}
  /\ UNCHANGED <<files, lock, cmd, deleting, faults>>

\* record_confirmed_write: the first confirmed batch moves an intent.
BatchConfirmed(b) ==
  LET a == cmd["ingest"]
  IN  /\ a.pc = "write"
      /\ b \in Outstanding("ingest") \ wire
      /\ Update("ingest",
           [a EXCEPT !.confirmed = @ \union {b},
                     !.pc = IF Receipt = "intent" THEN "prepare" ELSE "write",
                     !.goal = IF Receipt = "intent" THEN "created" ELSE @])
      /\ UNCHANGED <<files, lock, cloud, faults>>

\* Fault: the receipt becomes ready with the first confirmed batch.
ReportedEarly ==
  LET a == cmd["ingest"]
  IN  /\ a.pc = "write" /\ a.confirmed # {}
      /\ IF Receipt = "created"
         THEN Toward("ingest", "ready")
         ELSE Goto("ingest", "done")
      /\ UNCHANGED <<files, lock, cloud, faults>>

\* The service verified the whole namespace and returned its report.
Reported ==
  LET a == cmd["ingest"]
  IN  /\ a.pc = "write" /\ a.confirmed = Batch
      /\ remote = Batch
      /\ IF Receipt = "created"
         THEN Toward("ingest", "ready")
         ELSE Goto("ingest", "done")
      /\ UNCHANGED <<files, lock, cloud, faults>>

-----------------------------------------------------------------------------
(* Deleting the namespace and verifying that it is gone.                   *)

\* delete_namespace: accepted, or answered NOT_FOUND.
DeleteNamespace ==
  /\ At("cleanup", "delete")
  /\ Authentic("cleanup")
  /\ deleting' = (deleting \/ remote # {})
  /\ Update("cleanup", [cmd["cleanup"] EXCEPT !.pc = "verify", !.polls = 0])
  /\ UNCHANGED <<files, lock, remote, wire, faults>>

ProviderDeletes ==
  /\ deleting
  /\ deleting' = FALSE
  /\ remote' = {}
  /\ UNCHANGED <<files, lock, cmd, wire, faults>>

\* _verify_not_found: one metadata read.
VerifyNotFound ==
  LET a == cmd["cleanup"]
  IN  /\ a.pc = "verify"
      /\ Authentic("cleanup")
      /\ \/ /\ remote = {}
            /\ Toward("cleanup", "not_found_verified")
            /\ UNCHANGED <<files, lock, cloud, faults>>
         \/ /\ remote # {} /\ a.polls + 1 < NotFoundAttempts
            /\ Update("cleanup", [a EXCEPT !.polls = @ + 1])
            /\ UNCHANGED <<files, lock, cloud, faults>>
         \/ /\ remote # {} /\ a.polls + 1 = NotFoundAttempts
            /\ Exit("cleanup")

-----------------------------------------------------------------------------
(* _remove_receipt_cas: quarantine, flush, wipe, remove.                   *)

Quarantine ==
  /\ At("cleanup", "quarantine")
  /\ Rename([dir EXCEPT !.receipt = None, !.temp = dir.receipt])
  /\ Goto("cleanup", "quarantined")
  /\ UNCHANGED <<data, mayRead, lock, cloud, faults>>

\* Fault: the file is wiped while a power loss may still bring its name back.
SyncQuarantineNever ==
  /\ At("cleanup", "quarantined")
  /\ Goto("cleanup", "wipe")
  /\ UNCHANGED <<files, lock, cloud, faults>>

\* The name is gone for good before the file loses its content.
SyncQuarantine ==
  /\ At("cleanup", "quarantined")
  /\ SyncDirectory
  /\ Goto("cleanup", "wipe")
  /\ UNCHANGED <<dir, data, mayRead, lock, cloud, faults>>

\* Before the name is durably gone, an error moves the file back.
QuarantineFails ==
  /\ At("cleanup", "quarantined")
  /\ Fault
  /\ LET d == [dir EXCEPT !.receipt = dir.temp, !.temp = None]
     IN  dir' = d /\ onDisk' = {d}
  /\ Ends("cleanup")
  /\ UNCHANGED <<data, mayRead>>

Wipe ==
  /\ At("cleanup", "wipe")
  /\ Write(dir.temp, "blank")
  /\ Goto("cleanup", "syncWipe")
  /\ UNCHANGED <<dir, onDisk, lock, cloud, faults>>

SyncWipe ==
  /\ At("cleanup", "syncWipe")
  /\ SyncFile(dir.temp)
  /\ SyncDirectory
  /\ Goto("cleanup", "unlink")
  /\ UNCHANGED <<dir, data, lock, cloud, faults>>

Unlink ==
  /\ At("cleanup", "unlink")
  /\ LET d == [dir EXCEPT !.temp = None]
     IN  dir' = d /\ onDisk' = {d}
  /\ Ends("cleanup")
  /\ UNCHANGED <<data, mayRead, faults>>

-----------------------------------------------------------------------------
(* Faults.                                                                 *)

Stop(c) ==
  /\ ~At(c, "idle")
  /\ At(c, "restore") => StopsWhileRestoring
  /\ Fault
  /\ Ends(c)
  /\ UNCHANGED files

PowerLoss ==
  /\ Restoring => StopsWhileRestoring
  /\ Fault
  /\ \E d \in onDisk : dir' = d /\ onDisk' = {d}
  /\ data' \in {f \in [Files -> Content] : \A i \in Files : f[i] \in mayRead[i]}
  /\ mayRead' = [i \in Files |-> {data'[i]}]
  /\ cmd' = [c \in Commands |-> Idle]
  /\ lock' = None
  /\ \E landed \in SUBSET wire : remote' = remote \union landed
  /\ wire' = {}
  /\ UNCHANGED deleting

-----------------------------------------------------------------------------

Init ==
  /\ dir = [tree |-> FALSE, key |-> FALSE, receipt |-> None, temp |-> None]
  /\ onDisk = {dir}
  /\ data = [i \in Files |-> "blank"]
  /\ mayRead = [i \in Files |-> {"blank"}]
  /\ lock = None
  /\ cmd = [c \in Commands |-> Idle]
  /\ remote = {} /\ wire = {} /\ deleting = FALSE
  /\ faults = 0

FileStep(c) ==
  \/ OpenTree(c) \/ SyncTree(c) \/ OpenKey(c) \/ SyncKey(c)
  \/ Prepare(c) \/ SyncTemp(c) \/ Install(c) \/ Exchange(c)
  \/ RemoveDisplaced(c) \/ SyncReceipt(c) \/ Restore(c)

IngestStep ==
  \/ FileStep("ingest") \/ LoadForIngestion \/ Reported \/ Done
  \/ \E b \in Batch : SendBatch(b) \/ BatchConfirmed(b)

CleanupStep ==
  \/ FileStep("cleanup") \/ LoadForCleanup
  \/ DeleteNamespace \/ VerifyNotFound
  \/ Quarantine \/ SyncQuarantine \/ Wipe \/ SyncWipe \/ Unlink

ProviderStep == ProviderDeletes \/ \E b \in Batch : BatchLands(b)

Failure ==
  \/ \E c \in Commands : RemovalFails(c) \/ Stop(c)
  \/ QuarantineFails
  \/ PowerLoss

Next ==
  \/ \E c \in Commands, credential \in BOOLEAN : Lock(c, credential)
  \/ IngestStep \/ CleanupStep \/ ProviderStep \/ Failure

\* A started command goes on, the provider carries out what it accepted, and
\* the user reruns cleanup with the creating credential until it succeeds.
OwnedSpec ==
  /\ Init /\ [][Next]_ownedVars
  /\ WF_ownedVars(IngestStep) /\ WF_ownedVars(CleanupStep) /\ WF_ownedVars(ProviderStep)
  /\ SF_ownedVars(Lock("cleanup", TRUE))

-----------------------------------------------------------------------------
(* Properties.                                                             *)

\* What _inspect_receipt_read_only may find in directory d.
Inspected(d) ==
  IF d.tree /\ d.key /\ d.receipt # None THEN mayRead[d.receipt] ELSE {"absent"}

\* The states a power loss at this moment may leave under the fixed name.
Recoverable == UNION {Inspected(d) : d \in onDisk}

\* A namespace that exists, or that a write on its way may create, is named
\* by an authentic receipt that survives a loss of power, and that receipt
\* does not claim its absence: owned_tiny.py never orphans a namespace.  While
\* a failed exchange is undone the fixed name is empty for one step.
NamespaceIsOwned ==
  (remote # {} \/ wire # {}) /\ ~Restoring =>
    Recoverable \subseteq {"intent", "created", "ready", "cleanup_requested"}

\* A receipt that may be found ready names a namespace that holds every batch,
\* also after the loss of power in the middle of a cleanup: what doctor and the
\* search runtime rely on when they resolve a ready target.
ReadyNamespaceIsWhole ==
  "ready" \in Recoverable => remote = Batch /\ ~deleting

\* The fixed name never comes back with a wiped or half-written file, at which
\* every command would refuse to work: a receipt is there whole or not at all.
FixedReceiptIsWhole == "blank" \notin Recoverable

\* Once a cleanup may have been recorded nothing is written until the receipt
\* is removed and a new name is drawn.
NoWriteAfterCleanup ==
  [][ wire' \subseteq wire
      \/ Recoverable \intersect {"cleanup_requested", "not_found_verified", "absent"} = {}
    ]_ownedVars

\* A requested cleanup that is rerun until it succeeds ends with the namespace
\* and its receipt gone, wherever earlier attempts stopped.
CleanupConverges == Receipt = "cleanup_requested" ~> Receipt = "absent" /\ remote = {}
=============================================================================
