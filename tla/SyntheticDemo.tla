--------------------------- MODULE SyntheticDemo ---------------------------
(***************************************************************************)
(* The seed-synthetic-demo command (synthetic_demo/seeder.py): it derives  *)
(* the whole demo from authored inputs and writes it through the           *)
(* repository, one method call after the other.  The command takes no      *)
(* lock.  It may die anywhere and is repeated, a second one may run beside *)
(* it, and so may other processes that call the repository (a server that  *)
(* starts, a worker, a client).                                            *)
(*                                                                         *)
(* A method that changes the run is no single step: it reads the row, then *)
(* perhaps outcomes, outside of any transaction, and only its last step, a *)
(* flush of the attributes it changed, is one (see SharedStore).  rows and *)
(* stamps are the payload_json of the run, column the columns beside it.   *)
(* The identifiers are hashes of the authored inputs, so all commands name *)
(* the same records and the one run.                                       *)
(***************************************************************************)
EXTENDS Catalog

CONSTANTS
  Seeders,     \* seed commands that may run at a time
  Others,      \* the other processes
  Passed,      \* the summaries they may pass
  MaxCrashes,  \* how often a process may die
  MaxForeign   \* how many calls the other processes make

ASSUME DemoAssumption ==
  /\ Cardinality(Runs) = 1
  /\ Seeders \intersect Others = {}
  /\ Passed \subseteq Summaries

VARIABLES
  stamps,      \* the identity fields and the two timestamps of the payload
  column,      \* the indexed columns of the run
  call,        \* call[p]: the method process p is inside of
  seeders,     \* the local state of every command
  crashes,
  foreign,     \* how many calls the other processes made
  overlapped,  \* history: a call began while another one was under way
  seeded       \* history: a command that was alone has reported success

runVars == <<storeVars, stamps, column>>
demoVars == <<runVars, catalog, call, seeders, crashes, foreign, overlapped, seeded>>

Procs == Seeders \union Others
Demo == CHOOSE r \in Runs : TRUE
Authored == "authored"

-----------------------------------------------------------------------------
(* materialize_synthetic_demo: what the store must hold in the end.  Every *)
(* authored outcome succeeded, and one that failed stands for any other.   *)

AuthoredOutcomes == [a \in Attempts |-> "succeeded"]

AuthoredRow ==
  [ status |-> "completed", completed |-> Total, started |-> TRUE, ended |-> TRUE,
    error |-> FALSE, summaries |-> SummariesOf(AuthoredOutcomes) ]

AuthoredStamps == [identity |-> Authored, started |-> Authored, ended |-> Authored]

Titles == [d \in Documents |-> Authored]

\* Whether the run, read together with its stamps, is the completed demo.
IsAuthoredRun(read) == read = [row |-> AuthoredRow, at |-> AuthoredStamps]

-----------------------------------------------------------------------------
(* The run as it is read, and as it is written.                            *)

NoRun == [row |-> NoRow, at |-> [identity |-> "none", started |-> "none", ended |-> "none"]]

QueuedRun(identity) ==
  [row |-> QueuedRow, at |-> [identity |-> identity, started |-> "none", ended |-> "none"]]

RunNow == [row |-> rows[Demo], at |-> stamps]

Columns(run) ==
  [ status |-> run.row.status, completed |-> run.row.completed,
    started |-> run.at.started, ended |-> run.at.ended ]

\* _decode_run_row refuses a row whose payload contradicts its columns.
Decodes == column = Columns(RunNow)

MovedAt(run, target, summaries, stamp) ==
  [ row |-> Moved(run.row, target, summaries),
    at |-> [run.at EXCEPT !.started = IF target = "running" THEN stamp ELSE @,
                          !.ended = IF target \in Terminal THEN stamp ELSE @] ]

ProgressedRun(run, out) == [run EXCEPT !.row = Progressed(@, out)]

\* An UPDATE sets the attributes that differ from the loaded ones.
Flush(old, new) ==
  LET stored == IF new # old THEN new ELSE RunNow
      is == Columns(new)
      was == Columns(old)
  IN  /\ rows' = [rows EXCEPT ![Demo] = stored.row]
      /\ stamps' = stored.at
      /\ column' = [f \in DOMAIN column |-> IF is[f] # was[f] THEN is[f] ELSE column[f]]

-----------------------------------------------------------------------------
(* The methods of the repository that change the run, taken apart.  old is *)
(* the run that was loaded, new what the method makes of it, and step what *)
(* it does next; a method that raises leaves the run alone.                *)

NoCall ==
  [step |-> "none", old |-> NoRun, new |-> NoRun, about |-> {}, result |-> "none"]

Calls(p) == call[p] # NoCall

NobodyCalls == \A p \in Procs : ~Calls(p)

\* Every method loads the row and decodes it first.
Enters(p, step, new, about, result) ==
  /\ ~Calls(p)
  /\ Decodes
  /\ call' = [call EXCEPT ![p] = [ step |-> step, old |-> RunNow, new |-> new,
                                   about |-> about, result |-> result ]]
  /\ overlapped' = (overlapped \/ ~NobodyCalls)
  /\ UNCHANGED <<runVars, catalog>>

\* transition_run, claim_queued_run and interrupt_stale_runs.
EntersMove(p, target, summaries, stamp) ==
  /\ target # "completed"
  /\ MayMove(rows[Demo], target)
  /\ Enters(p, "update", MovedAt(RunNow, target, summaries, stamp), {}, "none")

\* complete_run counts the outcomes after it has loaded the row.
EntersComplete(p, summaries, stamp) ==
  /\ MayMove(rows[Demo], "completed")
  /\ Enters(p, "count", MovedAt(RunNow, "completed", summaries, stamp), {}, "none")

\* record_outcome looks for the outcome after it has loaded the row.
EntersRecord(p, a, result) ==
  /\ rows[Demo].status = "running"
  /\ Enters(p, "look", RunNow, {a}, result)

GoesOn(p, new) == call' = [call EXCEPT ![p] = new] /\ UNCHANGED runVars

Counts(p) ==
  /\ call[p].step = "count"
  /\ ValidSummaries(outcomes[Demo], call[p].new.row.summaries)
  /\ GoesOn(p, [call[p] EXCEPT !.step = "update"])

\* The same outcome again needs no write, and nothing that is not durable is
\* counted; any other one is written before the count.
Looks(p) ==
  /\ call[p].step = "look"
  /\ \E a \in call[p].about :
       LET found == outcomes[Demo][a] IN
         GoesOn(p, CASE found = "none" -> [call[p] EXCEPT !.step = "insert"]
                     [] found = call[p].result ->
                          [call[p] EXCEPT !.step = "update",
                                          !.new = ProgressedRun(@, outcomes[Demo])]
                     [] OTHER -> [call[p] EXCEPT !.step = "overwrite"])

\* The one transaction of the call.
Writes(p) ==
  /\ \/ /\ call[p].step = "update"
        /\ UNCHANGED outcomes
        /\ Flush(call[p].old, call[p].new)
     \/ /\ call[p].step \in {"insert", "overwrite"}
        /\ \E a \in call[p].about :
             /\ call[p].step = "insert" => outcomes[Demo][a] = "none"
             /\ outcomes' = [outcomes EXCEPT ![Demo] = Upserted(@, a, call[p].result)]
        /\ Flush(call[p].old, ProgressedRun(call[p].old, outcomes'[Demo]))
  /\ call' = [call EXCEPT ![p] = NoCall]

\* The summaries do not count the outcomes, or the key of the outcome that was
\* missing is there now.
Raises(p) ==
  \/ /\ call[p].step = "count"
     /\ ~ValidSummaries(outcomes[Demo], call[p].new.row.summaries)
  \/ /\ call[p].step = "insert"
     /\ \E a \in call[p].about : outcomes[Demo][a] # "none"

-----------------------------------------------------------------------------
(* The command.  pc names what it does once it is inside of no method;     *)
(* left is what it still has to put or record, read the run as it last     *)
(* read it, and alone whether no call was under way when it verified.      *)

Idle == [pc |-> "idle", left |-> {}, summaries |-> NoSummaries, read |-> NoRun, alone |-> FALSE]

At(s, pc) == seeders[s].pc = pc /\ ~Calls(s)

Become(s, new) == seeders' = [seeders EXCEPT ![s] = new]

\* The command goes on without what it remembered so far.
Goes(s, pc) == Become(s, [Idle EXCEPT !.pc = pc])

NoWrite == UNCHANGED <<runVars, catalog, call, overlapped>>

\* Every refusal ends the command with exit code 1 and forgets what it read.
Refuses(s) == Become(s, Idle) /\ NoWrite

\* What a process that stops leaves of itself: an open transaction is undone.
Ends(p) ==
  /\ call' = [call EXCEPT ![p] = NoCall]
  /\ seeders' = [s \in Seeders |-> IF s = p THEN Idle ELSE seeders[s]]
  /\ UNCHANGED <<runVars, catalog, overlapped>>

\* The configs and the outcomes have one fixed order, the same in every command.
NextOf(left) == CHOOSE x \in left : TRUE

\* One put of the command: accepted, or refused by the store.
Puts(s, put, next) ==
  \/ /\ Accepts(put)
     /\ PutRecords(put)
     /\ Become(s, next)
     /\ UNCHANGED <<runVars, call, overlapped>>
  \/ /\ ~Accepts(put)
     /\ Refuses(s)

Start(s) ==
  /\ At(s, "idle")
  /\ Goes(s, "dataset")
  /\ NoWrite
  /\ UNCHANGED <<crashes, foreign, seeded>>

SeedDataset(s) ==
  /\ At(s, "dataset")
  /\ Puts(s, DatasetVersionPut(Authored), [Idle EXCEPT !.pc = "configs", !.left = Configs])

SeedConfig(s) ==
  /\ At(s, "configs")
  /\ LET c == NextOf(seeders[s].left) IN
       Puts(s, RetrievalConfigPut(c, Authored),
            IF seeders[s].left = {c} THEN [Idle EXCEPT !.pc = "query set"]
            ELSE [seeders[s] EXCEPT !.left = @ \ {c}])

SeedQuerySet(s) ==
  /\ At(s, "query set")
  /\ Puts(s, QuerySetPut(Authored), [Idle EXCEPT !.pc = "titles"])

SeedTitles(s) ==
  /\ At(s, "titles")
  /\ Puts(s, JudgedDocumentTitlesPut(Titles), [Idle EXCEPT !.pc = "find run"])

\* get_run, then create_run when there is none.
FindRun(s) ==
  /\ At(s, "find run")
  /\ \/ /\ Decodes
        /\ IF rows[Demo].status = "absent" THEN Goes(s, "create")
           ELSE Become(s, [Idle EXCEPT !.pc = "list", !.read = RunNow])
        /\ NoWrite
     \/ ~Decodes /\ Refuses(s)

\* The row of a new run; two that are inserted at once conflict.
Inserts(identity) ==
  /\ CreateRun(Demo)
  /\ stamps' = QueuedRun(identity).at
  /\ column' = Columns(QueuedRun(identity))
  /\ UNCHANGED <<catalog, call, overlapped>>

\* create_run meets no run, the very same run, or a run that has moved on.
SeedRun(s) ==
  /\ At(s, "create")
  /\ LET listed == [Idle EXCEPT !.pc = "list", !.read = QueuedRun(Authored)] IN
       \/ RunIsCatalogued(Authored) /\ Inserts(Authored) /\ Become(s, listed)
       \/ RunNow = QueuedRun(Authored) /\ Decodes /\ Become(s, listed) /\ NoWrite
       \/ /\ IF rows[Demo].status = "absent" THEN ~RunIsCatalogued(Authored)
             ELSE RunNow # QueuedRun(Authored) \/ ~Decodes
          /\ Refuses(s)

Recorded == {a \in Attempts : outcomes[Demo][a] # "none"}

\* Every outcome there is must be the authored one.
OutcomesAreAuthored == \A a \in Recorded : outcomes[Demo][a] = AuthoredOutcomes[a]

\* Fault: a run another command left behind is never continued.
ResumesNoRun(read) == FALSE

\* A run that is executing is continued only from the authored start.
Resumes(read) ==
  /\ read.row.status = "running"
  /\ read.at.started = Authored
  /\ read.at.ended = "none"

\* _validate_run_identity.
IdentityFits(read) == read.at.identity = Authored /\ ~read.row.error

\* list_outcomes, and the decision what to do with the run found before.
ListOutcomes(s) ==
  /\ At(s, "list")
  /\ LET read == seeders[s].read
         fits == Decodes /\ IdentityFits(read) /\ OutcomesAreAuthored IN
       /\ CASE fits /\ read.row.status = "completed" -> Goes(s, "verify run")
            [] fits /\ read.row.status = "queued" /\ Recorded = {} -> Goes(s, "claim")
            [] fits /\ Resumes(read) ->
                 Become(s, [Idle EXCEPT !.pc = "record", !.left = Attempts \ Recorded])
            [] OTHER -> Become(s, Idle)
       /\ NoWrite

\* transition_run to running, at the authored start.
ClaimDemo(s) ==
  /\ At(s, "claim")
  /\ \/ /\ EntersMove(s, "running", rows[Demo].summaries, Authored)
        /\ Become(s, [Idle EXCEPT !.pc = "record", !.left = Attempts])
     \/ ~(Decodes /\ MayMove(rows[Demo], "running")) /\ Refuses(s)

\* record_outcome of the authored outcomes that the listing did not hold.
RecordAuthored(s) ==
  /\ At(s, "record")
  /\ LET left == seeders[s].left
         a == NextOf(left) IN
       \/ /\ left # {}
          /\ EntersRecord(s, a, AuthoredOutcomes[a])
          /\ Become(s, [seeders[s] EXCEPT !.left = left \ {a}])
       \/ left # {} /\ ~(Decodes /\ rows[Demo].status = "running") /\ Refuses(s)
       \/ left = {} /\ Goes(s, "finalize") /\ NoWrite

\* finalize_durable_outcomes asks for every attempt and counts what it read.
Finalize(s) ==
  /\ At(s, "finalize")
  /\ \/ /\ Decodes /\ Recorded = Attempts
        /\ Become(s, [Idle EXCEPT !.pc = "complete", !.summaries = SummariesOf(outcomes[Demo])])
        /\ NoWrite
     \/ ~(Decodes /\ Recorded = Attempts) /\ Refuses(s)

\* complete_run, at the authored end.
CompleteDemo(s) ==
  /\ At(s, "complete")
  /\ \/ /\ EntersComplete(s, seeders[s].summaries, Authored)
        /\ Goes(s, "verify run")
     \/ ~(Decodes /\ MayMove(rows[Demo], "completed")) /\ Refuses(s)

\* _verified_result: the run and then its outcomes are read once more and
\* must be exactly the authored export.
VerifyRun(s) ==
  /\ At(s, "verify run")
  /\ \/ /\ Decodes
        /\ Become(s, [Idle EXCEPT
             !.pc = "verify outcomes", !.read = RunNow, !.alone = NobodyCalls])
        /\ NoWrite
     \/ ~Decodes /\ Refuses(s)

\* Fault: whatever completed run is there is reported as the demo.
VerifiedByStatus(read) == read.row.status = "completed"

Verified(read) ==
  /\ IsAuthoredRun(read)
  /\ outcomes[Demo] = AuthoredOutcomes

VerifyOutcomes(s) ==
  /\ At(s, "verify outcomes")
  /\ LET verified == Decodes /\ Verified(seeders[s].read) IN
       seeded' = (seeded \/ (verified /\ seeders[s].alone))
  /\ Become(s, Idle)
  /\ NoWrite
  /\ UNCHANGED <<crashes, foreign>>

\* A process dies; what it committed stays.
Crash(p) ==
  /\ Calls(p) \/ (p \in Seeders /\ seeders[p].pc # "idle")
  /\ crashes < MaxCrashes
  /\ crashes' = crashes + 1
  /\ Ends(p)
  /\ UNCHANGED <<foreign, seeded>>

-----------------------------------------------------------------------------
(* The other processes: any method of the repository at any time, with the *)
(* times of their own clock, and any put.                                  *)

OtherCall(o) ==
  \/ \E target \in Statuses, summaries \in Passed \union {rows[Demo].summaries} :
       EntersMove(o, target, summaries, "other")
  \/ \E summaries \in Passed : EntersComplete(o, summaries, "other")
  \/ \E a \in Attempts, result \in Results : EntersRecord(o, a, result)

\* A run under the identifier of the demo, which names a stored query set.
OtherInsert(identity) ==
  /\ Stored(QuerySet) /\ RunIsCatalogued(catalog[QuerySet])
  /\ identity = Authored => RunIsCatalogued(Authored)
  /\ Inserts(identity)

OtherPut(put) ==
  /\ Accepts(put)
  /\ PutRecords(put)
  /\ UNCHANGED <<runVars, call, overlapped>>

OtherPuts(payload) ==
  \/ OtherPut(DatasetVersionPut(payload))
  \/ \E c \in Configs : OtherPut(RetrievalConfigPut(c, payload))
  \/ OtherPut(QuerySetPut(payload))
  \/ \E d \in Documents : OtherPut(JudgedDocumentTitlesPut([record \in {d} |-> payload]))

Foreign(o) ==
  /\ foreign < MaxForeign
  /\ foreign' = foreign + 1
  /\ \/ OtherCall(o)
     \/ ~Calls(o) /\ \E payload \in Payloads : OtherInsert(payload) \/ OtherPuts(payload)
  /\ UNCHANGED <<seeders, crashes, seeded>>

-----------------------------------------------------------------------------
DemoInit ==
  /\ StoreInit /\ CatalogInit
  /\ stamps = NoRun.at
  /\ column = Columns(NoRun)
  /\ call = [p \in Procs |-> NoCall]
  /\ seeders = [s \in Seeders |-> Idle]
  /\ crashes = 0 /\ foreign = 0 /\ overlapped = FALSE /\ seeded = FALSE

\* The steps of a process inside of a method.
Proceeds(p) ==
  /\ \/ /\ Counts(p) \/ Looks(p) \/ Writes(p)
        /\ UNCHANGED <<catalog, seeders, overlapped>>
     \/ Raises(p) /\ Ends(p)
  /\ UNCHANGED <<crashes, foreign, seeded>>

\* The steps of a command between its method calls.
Commands(s) ==
  /\ \/ SeedDataset(s) \/ SeedConfig(s) \/ SeedQuerySet(s) \/ SeedTitles(s)
     \/ FindRun(s) \/ SeedRun(s) \/ ListOutcomes(s) \/ ClaimDemo(s)
     \/ RecordAuthored(s) \/ Finalize(s) \/ CompleteDemo(s) \/ VerifyRun(s)
  /\ UNCHANGED <<crashes, foreign, seeded>>

Continue(s) == Commands(s) \/ VerifyOutcomes(s) \/ Proceeds(s)

DemoNext ==
  \/ \E s \in Seeders : Start(s) \/ Continue(s)
  \/ \E o \in Others : Foreign(o) \/ Proceeds(o)
  \/ \E p \in Procs : Crash(p)

\* A command that has started goes on, and a command is repeated while none
\* has reported success.
DemoSpec ==
  /\ DemoInit /\ [][DemoNext]_demoVars
  /\ \A s \in Seeders : WF_demoVars(Continue(s)) /\ WF_demoVars(Start(s))

-----------------------------------------------------------------------------
(* Properties.                                                             *)

\* Once a seed command has reported success, and no other call on the run was
\* under way when it verified, the store holds exactly the authored demo and
\* every later read accepts it, for ever: whatever crashed before or overlapped
\* before, and whatever commands and callers come after (_verified_result).
SeededDemoIsWhole ==
  seeded =>
    /\ Decodes
    /\ IsAuthoredRun(RunNow)
    /\ outcomes[Demo] = AuthoredOutcomes
    /\ \A record \in Records : catalog[record] = Authored

\* However the calls of several processes overlap, neither the payload nor the
\* column ever counts a query that is not durable, and a run whose column says
\* completed holds every outcome: a stale flush of record_outcome can tear the
\* row or set the count back, but never run ahead of the outcomes.
ProgressIsNeverAhead ==
  /\ rows[Demo].completed <= CompletedCount(outcomes[Demo])
  /\ column.completed <= CompletedCount(outcomes[Demo])
  /\ column.status = "completed" => Recorded = Attempts

\* Commands that die and are repeated, also in turns with another one, reach
\* the demo, as long as nobody else touches what they write and no two calls
\* overlap.
SeedConverges == <>(seeded \/ foreign > 0 \/ overlapped)

=============================================================================
