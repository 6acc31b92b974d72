# PufferLab: TLA+ models, model checking and proofs

PufferLab measures retrieval configurations against a judged query set.  Its
core is an *evaluation run*: four configurations times fifty queries, each
(config, query) pair one search whose outcome is stored in SQLite, executed by
one process at a time, cancellable, and expected to survive crashes.  Around it
stand the commands that fill a namespace, the readers that show or gate a run,
and the diagnostics that explain why a document was not found.  This directory
models them, checks them with TLC and proves what matters most with TLAPS.
Paths are relative to the repository root unless they start with `backend/`,
which stands for `src/backend/pufferlab/`.

## 1. Inventory

| Component | State it keeps | Operations | Modules |
|---|---|---|---|
| Run repository (`backend/persistence/`) | `eval_runs` (indexed columns and `payload_json`), `query_outcomes`, immutable catalog tables | `create_run`, `claim_queued_run`, `transition_run`, `record_outcome`, `complete_run`, `interrupt_stale_runs`, puts, reads | `RunStore`, `SharedStore`, `Catalog` |
| Job manager (`backend/jobs/`) | one asyncio task per run with its cancel event; locals of the task | `start`, `start_claimed`, the scheduling loop, `cancel`, `close`, `recover_startup` | `JobManager` |
| Evaluation service (`backend/application/evaluations.py`) | its search backend | `start_claimed_run`, warm-up, `cancel`, `drain`, `close`, the work plan | `EvalServer`, `WorkPlan` |
| API runtime (`backend/application/evaluation_runtime.py`) | `_drivers`, `_services`, `_closing`, the control lock, the worker guard | start, create, cancel, pump, drive, shutdown, dispose; replay and diagnostic requests | `EvalServer`, `Diagnosis` |
| Command-line runtime (`backend/cli/`) | one application per command | recover, start a run, drain, interrupt | `SharedStore` |
| Ingestion (`backend/datasets/`) | checkpoint file, write specification of the namespace | batch, write, checkpoint, resume, readiness | `Ingestion` |
| Owned tiny receipt (`backend/owned_tiny.py`, `backend/cli/ingest.py`, `namespace.py`) | lock, key, receipt and temporary files of one account | reserve, exchange, restore, remove; the tiny ingestion, its cleanup | `OwnedTiny` |
| Replay and expected-document diagnostics (`backend/evals/diagnostic_analysis.py`, `backend/application/evaluation_forensics.py`, `evaluation_diagnostics.py`, `backend/contracts/forensics.py`) | an owned provider or backend per request | decode, analyse, derive again, close under repeated cancellation | `DiagnosticAnalysis`, `ProviderRows`, `Forensics`, `Replay`, `Diagnosis` |
| Search runtime (`backend/retrieval/`) | the lazily built service | search, fuse, rerank, close | `Replay`, `Diagnosis` in part |
| Gate (`backend/evals/pairing.py`, `gates.py`, `backend/contracts/gates.py`, `backend/application/evaluation_gates.py`) | a copy of the database | pair, check, report, exit | `Gate`, `ReadOnlyCatalog` |
| Views (`backend/application/evaluation_views.py`, `backend/persistence/read_only.py`) | none | project a run, list, regressions | `RunViews`, `ReadOnlyCatalog` |
| Synthetic seeder (`backend/synthetic_demo/`) | one run in the store | put, create, claim, record, complete, verify, continue | `SyntheticDemo`, `Catalog` |
| Serve watchdog (`backend/cli/serve.py`) | a timer thread | hard exit after ten seconds | a crash of `EvalServer` |
| Doctor, HTTP layer, dataset preparation, scripts | none durable | probes, translation | none |
| Web dashboard (`src/web/`) | request epochs | poll, diagnose | none |

`PROJECT.json` lists every component with its files and its status, and every
hazard at the line where it bites.

**How they interact.**  One SQLite file is shared by the server, every command
and every reader.  Within the server everything runs on one event loop: requests
call the runtime under its control lock, the runtime starts drivers, a driver
runs a service, which hands the claimed run to the job manager, which calls the
repository synchronously and the provider through executor tasks.  Commands that
write share the store, the checkpoint files, the receipt directory and the
remote namespaces with the server and with each other; readers copy or query the
store and write nothing.

**What is hard here.**  A method without an `await` is atomic; what interleaves
is whatever lies between two awaits: the scheduling loop with executor tasks,
drivers with requests, a shielded cancel task with the end of the run it
cancels, a shutdown with a warm-up, a close with a second cancellation.  Across
processes the repository's transactions are weaker than they look: pysqlite
opens no transaction before a SELECT, so a method's read and its write are two
steps (also of two seed commands, which take no lock), and a view reads a run and its outcomes in two sessions.  A process may
die anywhere, the machine may lose what no `fsync` covered, and a remote call
whose answer was lost may still take effect.

**What makes the components correct.**
Store: progress, completion, summaries and columns agree with durable outcomes;
terminal runs never change.  Seeder: a verified demo is whole for ever, and no
overlap of calls lets progress run ahead of the outcomes.  Job manager: bounded concurrency, no started item
lost, a cancel is honoured, the job ends.  API runtime: one run executes, every
running row has a service, no search after a cancel, every queued run is taken
up, shutdown ends.  Several processes: only orphans are interrupted, stored rows
can be read back.  Ingestion: checkpointed means written, ready means that the
namespace is the corpus.  Receipt: a namespace that exists is always named by
it.  Diagnostics: findings are causes, ties claim nothing, what the analysis
computes passes the checks of the contract.  Readers: an answer stood at one
moment, a verdict rests on final evidence, a loss is never rewarded.

## 2. Modules and the code they stand for

`RunLifecycle` — the abstract specification: each run is a phase and the set of
attempts with a durable outcome; a step lets every run stay, record or move
along an edge of `_ALLOWED_TRANSITIONS`.

`RunStore` — the repository as the callers of one process see it.  `rows[r]` is the `eval_runs` row,
`outcomes[r]` its `query_outcomes`.  One action per method that writes.  A
method the code refuses raises and changes nothing, so only accepted calls are
steps; an identical repeated `create_run` or `record_outcome` is a stutter.
Timestamps are kept as set or not set, summaries as two counts per config.  The
caller of `complete_run` may pass any summaries; the code's own validation
selects.  `transition_run` takes summaries for any other target as well, and
stores them unchecked (`TransitionRun`), so a row that is not completed may carry
any.  `StoreNext` has callers that do so; in `src/` nobody does
(`ApplicationNext`), and the modules that build on the store use `MoveRun`.

`WorkPlan` — the order of the attempts, `_interleaved_work_items`, as a
function.  The shuffled query order is its argument.

`JobManager` — extends `RunStore` with `job[r]`: the active flag, the cancel
event, the failure seen, the items and the batch that `asyncio.wait` returned.
`Schedule`, `Collect`, `RecordItem`, `DropItem` and `Finish` are the stretches
of `_run_claimed` between two awaits, `ExecutorReturns` the end of an item's task
(succeeded, failed, or raised).  Several items may be done when the job wakes
up; all of them form the batch.  An `on_progress` that raises, an executor that
raises and a store that refuses an outcome set the failure.  `Finish` is one
step because `finalize` never suspends.

`EvalServer` — extends `JobManager` with the process: the worker guard and the
life of the process (`up`), `_closing`, one driver per run with the point of
`_drive_run` where it stands, the warm-up counter, and the shielded cancel tasks
(`cancelling`).  The control lock is never held across a suspending `await`, so
a critical section is one action; `DriverGone` includes the trailing pump.
`Crash` may happen at any step, which covers the watchdog's hard exit.
`CliDies` stands for a command that ran while no server did.  `asked` is a
history variable: a cancel reached the run.

`SharedStore` — the methods of `RunStore` taken apart for several processes:
`...Reads` loads rows and checks, `...Writes` flushes only the attributes that
differ from the loaded ones.  `rows` is the payload here and `column` the
indexed columns; reading demands that they agree (`_decode_run_row`).  Servers
take the worker guard, commands do not; recovery at start-up runs in both.  It is
the stage of two disagreements, with a server and an evaluation command.

`Catalog` — the immutable records a run refers to.  A put is one transaction
with the records it needs and those it writes; it is refused when a record is
stored with another payload, which happens because an identifier does not
determine its payload.

`SyntheticDemo` — the seed command over the data of `RunStore` and the puts of
`Catalog`.  `cli/synthetic_demo.py` takes no lock, so two commands, and any other
process beside them, may be inside of repository methods at once.  `call[p]` is
the method process `p` is inside of: `Enters...` loads and decodes the row,
`Counts` and `Looks` read outcomes, and `Writes` is the one transaction at the
end, which flushes the attributes that changed since the load (`Flush`).  A
method that writes an outcome holds the write transaction from then on, so its
recount is part of that step.  `rows` and `stamps` are the payload, `column` the
indexed columns; `Decodes` says that they agree, and every read refuses when they
do not.  A put and `create_run` insert rows that exist once, so they are one step.
A seeder is the place between its calls (`pc`), the writes it still owes and the
run it has read.  Identifiers are hashes of the authored inputs, so all commands
name one run; `stamps` says whether its identity and its two life-cycle timestamps
are the authored ones, which is how a command recognises a run it may continue.
Processes die anywhere and commands are repeated; other processes move, fill or
insert the run with times and summaries of their own and put records under its
identifiers.  Two history variables state the properties: `seeded`, that a
command has verified the demo and reported success while no other call was under
way, and `overlapped`, that a call began inside of another one.

`Ingestion` — the ingestion of the Unix corpus.  `attempt[p]` holds the locals of
`IngestionService.ingest` in command `p`: the pending documents, the set it will
checkpoint (`done`), the task of each batch of the current wave, and whether its
writer knows a write specification.  `saved` is the checkpoint file, `remote`
and `indexed` the namespace, `sent` the writes whose answer nobody awaits any
more and that may still be applied.  Two histories are kept: `confirmed` in an
attempt, the documents whose write the provider has answered, and `overwritten`,
the commands whose checkpoint file another one has replaced with its own, for no
lock guards it.  `gather` ends a wave only when each of its
batches has ended (`SettleWave`); the outcomes are then visited in batch order,
one checkpoint each.  An inspection is three requests, metadata, identifiers,
count, with everybody else in between; the pages of one listing are one step.
Documents are positions in the sorted corpus, which is what an upsert by stable
identifier makes of them.  The corpus, its hashes and the schema are fixed, so
the comparisons of a checkpoint with another corpus revision and of the
namespace's schema with the manifest, and the parsing of the checkpoint file,
are left out: they succeed or refuse the command before it changes anything.

`OwnedTiny` — the receipt of the tiny namespace, its ingestion and its cleanup.
`dir` is the directory as the processes see it: whether it and the key are there,
and which file is at the fixed and at the temporary name.  `onDisk` is the set of
directories a power loss may leave; `data` and `mayRead` are the same for the
contents of a file.  A change widens the set, an `fsync` narrows it to one.
`cmd` is the place of each command, `remote` the batches in the namespace,
`wire` those on the way, `deleting` a deletion the provider has not carried out.
A step is one file operation or one answer of the provider; `Stop` and
`PowerLoss` come between any two.  Assumed of the environment: directory
changes reach the disk in order (a journaled file system); only the two
commands touch the directory; the provider has decided what a dead command
sent before the lock is taken again; content that the key does not authenticate
is invalid.

`DiagnosticAnalysis`, `ProviderRows`, `Forensics`, `Replay` — what a request for
an explanation computes, as operators.  `ProviderRows` says what the decoding
refuses and what is checked across lists.  `DiagnosticAnalysis` evaluates the
stored filter in Kleene's logic over the target's attributes, places the target
before, at or behind the cutoff of each list, with ties undecided, and fuses
two lists.  `Forensics` is the contract of the response, which derives all of it
again from what the response states and shares nothing with the analysis.
`Replay` holds reciprocal rank fusion, the reranked hits, the probe and the
warnings that compare the two.

`Diagnosis` — the request: the await at which its coroutine stands (`phase`),
the shielded task it waits for, the provider or backend it owns, the failure and
the cancellation it remembers.  Each step may fail; a provider whose
construction fails when its HTTP client is open is drained and closed before the
failure is raised.  A cancellation may come at each await, and again while the
first is being honoured.  Its answer is computed
with the operators above and checked by `Contract == INSTANCE Forensics`.
Requests share nothing, so one at a time is enough.

`Gate` — pairing of two configs, the checks of a policy, the verdict, and what
makes a report valid, as operators over outcomes.  A quality is a multiple of
`1/Scale`, so sums and means are exact.

`RunViews` — the checks `_load_run_context` repeats for each view, and the
projections of one run, a list and a comparison.

`ReadOnlyCatalog` — readers beside the writer.  A transaction of the writer
keeps a rollback journal, turns page after page of the file, and removes the
journal; a writer that dies leaves it hot.  `view` reads a run and its outcomes
in two sessions; `beside` is a ghost: the outcomes that were durable last beside
the very row it has read.  `gate` copies the file page by page without a lock
(`Acquire`, `Copy`, `Open`, `Evaluate`, `Close`, `Interrupt`), and `moved` says
whether the file's identity has changed since.  Two writes are assumed to
differ in modification time; the catalog is immutable; metric values are drawn
when the evidence is evaluated, for nothing before depends on them.

`RunStoreProofs`, `EvalServerProofs` (the work plan, the jobs and the server),
`SharedStoreProofs`, `SyntheticDemoProofs`, `IngestionProofs`, `OwnedTinyProofs`,
`DiagnosisProofs` and `ReadOnlyCatalogProofs` hold the proofs.  The `MC*` modules
and `.cfg` files hold instances.  A definition introduced by `Fault:` is a seeded
mistake: the body a plausible bug would give the definition that follows it.
No specification uses them; replacing the definition by its fault must make TLC
find the property that guards it violated (`mutants` in `PROJECT.json`).

## 3. Runs

| Run | Instance | Question |
|---|---|---|
| `store` | 1 run, 2 configs, 2 queries | Whatever methods callers call and whatever summaries they pass: do progress, completion and columns agree with the outcomes, and do rows follow the life cycle? |
| `demo` | 2 seed commands and 1 other process, 2 configs, 1 query, 1 document, 1 death, 1 foreign call | With reads and writes of their calls interleaved, and deaths: does progress never run ahead of the outcomes, is a demo that was verified undisturbed whole for ever, and does repeating the command seed it when no calls overlap and nobody interferes? |
| `job` | 1 run, 4 items, 2 slots | Does the loop stay within its slots, settle every started item, honour a cancel, and end? |
| `server` | 2 runs, 1 item, 1 slot, 1 warm-up search, 1 outage | With requests, crash, restart and shutdown: does one run execute, is it served, is a cancel final, is no search started after it; is every queued run served, does every running run end, does every shutdown finish? |
| `ingest` | 2 commands, 3 documents, batches of 1, waves of 2, 2 polls, a namespace that is empty or holds another document, 1 fault | With failing calls, stops, late writes and another command about: does the checkpoint stay behind the namespace, is every confirmed batch in the file when its attempt goes on or fails, does nothing fall between batches, is readiness exact, does every attempt end? |
| `owned` | 2 batches, 2 at once, 2 reads for "not found", 3 faults | Wherever a command stops or power fails: does the receipt name an existing namespace, is a ready one whole, is nothing written after a cleanup, does a repeated cleanup converge? |
| `diagnose` | four families of requests (filter, list, fusion, replay), 4 documents, 2 results of 3 candidates, 2 cancellations | Is every sound answer of the provider reported, are the findings the causes, is membership claimed only where no tie can undo it, does a warning mean a difference, does a cancelled request end as cancelled, does each request end? |
| `evidence` | 1 run, 2 configs, 2 queries, 3 policies, metrics and thresholds in halves, symmetric queries | Beside a writer that may die inside a transaction: did what a view shows stand at one moment, does a verdict rest on durable and final outcomes, is a candidate never rewarded for losing more? |
| `recovery_beside_server`, `torn_row` | 1 server, 1 command | The disagreements 1 and 2 of section 5. |
| `resume` | 1 command, the same corpus, 1 fault | The disagreement 3 of section 5. |
| `restore` | as `owned`, 2 faults, also within `_restore_exchange` | The disagreement 4 of section 5. |

*Why the bounds suffice.*  Two configs and two queries are the least that
separate "every config of one query" from "one config of every query", the
distinction progress rests on; methods of one run do not look at another.  In
`demo` one query of two configs still has a first outcome and one that completes
it, so a record of one command can enclose another's completion.  Two seeders
with one death give a command that continues another's work; one foreign call
reaches a conflicting record, a run moved by somebody else and a stale flush over
a seeded demo, and the theorems hold for any number of commands, processes and
calls.  Four
items over two slots make the window refill, let two items end before the loop
wakes up, and leave items unstarted at a cancel.  Two runs are the least for a
queue behind an executing run and for a cancelled driver that overlaps the next
one; a third queued run would only repeat the pump.  `server` needs one item
because `job` has the others: what it adds is the interleaving of drivers,
requests and outages.  One warm-up search separates before, during and after
the warm-up; one outage (`MaxOutages`) yields a crash or shutdown in every state
and a restart after it.  Three documents in waves of two make a full wave and a
partial one; a batch of the first can fail beside one that succeeds, and a
resume can cut the batches anew.  In `ingest` one fault (`MaxFaults`), with two
commands that may each run again at any time, reaches a stop between a write
and its checkpoint, and a late write within another command's inspection.  In
`owned` three faults let an ingestion, its cleanup and the repeated cleanup each
be stopped once, or a failed removal be followed by a power loss.  Lists of two
rows can be short, full, or tied at the cutoff, and three candidates make a
fused list longer than its result; two cancellations (`MaxCancels`) are one and
another while it is honoured.  Steps of a half make sums that reach, pass and
miss each threshold.  Where a theorem covers a property, its bounds are only
those of the run.

Type invariants are proved instead of run.  `CHECK_DEADLOCK FALSE` is set where
the system may really stop, with all runs terminal and nobody creating one;
`owned` and `diagnose` check deadlock.

*Fairness.*  A driver, a job and a cancel task advance because the event loop
runs every ready task; searches and backend closes end because provider calls
have deadlines.  These are weak: once enabled, each stays enabled until taken.
`StartServer` is fair because an operator restarts a server that is down, and
runs interrupted by an outage are promised to end only by that start;
`FinishShutdown` is the tail of the shutdown task.  In ingestion calls are
answered and indexes catch up, and the operator runs a command that has ended
again; `AttemptEnds` would hold without the latter two, and disagreement 3 is a
disagreement only with them.  A seed command is continued, or repeated once it
has died; its operations suspend for nobody, and a method it is inside of goes
on.  `store` states none.  `owned` is weakly fair to the two
commands and the provider, and strongly fair to a cleanup taking the lock:
documents tell the operator to rerun it, and in between an ingestion may hold
the lock again and again.  A request of `diagnose` advances with its phase: a
call of the provider ends by its deadline whether or not a cancellation comes
in between.  `evidence` states none.  Nothing obliges anybody to create or
cancel a run, to shut down, to crash, or a late write to land.

One assumption about the provider is a premise of a property and not of the
model: `SoundAnswerIsReported` owes a response to `Honest` answers, those of a
provider whose lists obey the filter and its own scores.  Others are explored
too, and every other property speaks of them as well.

## 4. Proofs

TLC shows the invariants on the instances above; TLAPS proves these for every
value of the constants that the named assumptions admit.  They say that configs
and queries are finite and not empty (`StoreAssumption`), that the items of a
job are distinct attempts and it has at least one slot (`JobAssumption`), that
bounds are numbers (`ServerAssumption`, `IngestionAssumption`,
`OwnedAssumption`, the last also that batches are finitely many and not none),
that a demo is one run, no seeder another process, and summaries are pairs of
counts (`DemoAssumption`), that a compared config belongs to the run (`ViewAssumption`), that a
policy keeps the bounds of `GatePolicy` (`GateAssumption`), that cutoffs, weights
and the rank constant are positive and every share of the fusion is exact
(`AnalysisAssumption`), and that a request is a diagnostic or a replay and a
provider answers with what the types allow: scores that are not negative, rows
in a sequence, a filter that is a tree over the operators of the contract,
replayed lists without duplicates (`AnswersAssumption`; `OutcomeAssumption`
keeps a marker apart from outcomes).
What else a theorem assumes, its statement says.

*The store.*  None of the four invariants of `RunStore` is inductive alone.
The completion guard compares `completed` with the number of queries, so
`CompletionIsDurable` needs `ProgressMatchesOutcomes`; creating a row needs "an
absent row holds no outcome", a part of `LifecycleColumnsAgree`; all need the
types.  Their conjunction is inductive, and it speaks of each run alone:
`SoundRow(row, out)`.  The lemmas show that every *row update* (created, moved,
completed, recorded) keeps a row sound; each action then applies one update to
one run, recovery to several (`StoreStepIsSound`).  The arithmetic is confined
to counting lemmas: full progress is full coverage because a subset with the
cardinality of a finite set is that set.  `StoreRefinesLifecycle` adds that each
method makes each run stay, record or move.

*The job manager.*  `JobsUpdate` says what a step does to a job: start it anew,
start more items, or put no further item in flight.  From it follows the bound
on concurrency, with `NextItems` counted as an interval of positions.
`JobStepIsAStoreStep` shows every step of the manager to be an accepted call of
the repository or none, hence `JobSpec => StoreSpec`, and all theorems of the
store hold of the manager.  `JobOwnsItsRow` and `AcceptedCancelNeverCompletes`
are proved together: `close` sets the cancel flag of active jobs, whose rows are
not completed only because an active job owns a running row.
`JobsSettleTheirItems` needs more about a job at work: which items may be in
which state while a batch is collected, and that an item settled as recorded has
its outcome (`Settling`).  Its premise `PlanCovers`, that the items are all
attempts, is what makes a job without failure or cancel end in a completed row.
`PlanVisitsEachAttemptOnce` shows that of the plan: positions are pairs of a row
and a column by division with remainder, and within a row the rotation by the
number of the query is a permutation of the configs.  `PlannedJobsSettle` puts
the two together, with no premise left but the plan.

*The server.*  `ServerSound` says of each run which row, driver, job and
request fit together (`Fits`), and that one run at most holds the slot
(`Alone`).  The steps that change one run keep it fitting; only the pump gives
the slot away, and only when nobody holds it.  Exclusion, service and cancel
follow from the invariant, the refinement of `RunLifecycle` from every step of
the server being steps of the store, and `NoSearchAfterCancel` from counting
the searches a step starts.

*Several processes.*  Two theorems are proved under `Commands = {}`: then at
most one process lives, and what it has loaded is what is stored (`Guarded`).  So
a partial update never meets another and rows can be read (`GuardedRowsDecode`),
and what recovery read when it chose its runs still holds when it writes: nobody
executes them (`GuardedRecoveryMarksOrphans`).  `torn_row` and
`recovery_beside_server` show that the premise is needed.

*The seeder.*  No premise excludes anybody here: the theorems are about any number
of commands and other processes inside of calls at once.
`OverlappingProgressIsNeverAhead` needs what a call carries: the count of what it
has loaded, and of what it will flush, was true when it was taken, and durable
outcomes are never removed; a move to completed starts from a full count.
A torn row mixes two such values, so neither part runs ahead.
`ReportedDemoIsWhole` needs that no call begun before the verification is still
under way (`alone`): from then on a call that enters loads the completed run, which
no method moves and into which none records.  A record with its authored
payload keeps it, because a put refuses another; and what a command knows at its
place stays true while others act: the records it has passed are stored.

*Readers.*  `FilesSound` relates the three databases of `ReadOnlyCatalog`: they
differ only while a transaction is open, and then by one store operation.  A
gate's copy is the committed file as long as the file has not moved and no
journal lies beside it, and completed runs are final; that is
`VerdictsAreOfCommittedEvidence`.  `ViewsAreOfOneMoment` compares what the first
session read with what the second found (`ReadBefore`): more covered queries, or
the end of the run with the same outcomes, or a queued row with outcomes under
way.  The checks of the view refuse each case in which the two do not fit, and
in the others the pair stood in the database at some moment.

`NoLossIsRewarded` is about what the gate computes.  Its sum of deltas is a
recursion over a finite set of queries; that it has a solution, and is monotone,
is shown by the least number principle on the sizes of subsets, which takes a
set where the induction theorems of the library take an operator.  A lower
metric then never raises the mean, shrinks no drop and touches no count, and one
more failed attempt exceeds an error rate of zero.  The invariant `GateJudged` adds
that a verdict was computed from outcomes and metrics of the right types.

*Ingestion.*  Everything rests on what the namespace already holds.
`SoundAttempt(a, R)` says of one attempt over a namespace `R` that its recorded
documents, its confirmed batches and its listing are in `R`, and which states
its tasks may have in each phase.  An upsert only enlarges `R`, so it keeps
every attempt sound, whoever sent it (`UpsertKeepsSound`): attempts do not
disturb each other, and each step needs a proof for the one attempt that moves
(`OneAttemptMoves`).  That two numbers prove two sets equal (`CorpusIsAll`)
needs the namespace to be finite, part of `IngestionAssumption`.
`VerifiedRecordsAreComplete` adds what an attempt has on its record between
waves and within one (`CompleteAttempt`).  The point is the end of the loop,
which stops at the first wave without a batch: no later wave has one either
(`EmptyWaveIsLast`), because consecutive documents lie in the same batch or in
neighbouring ones, and consecutive batches likewise in waves; a least document
of a later wave would have a predecessor between the two.
`ConfirmedBatchesReachTheRecord` joins three facts: a confirmed document is on the
attempt's own record or its batch still waits to be visited (`CompleteAttempt`);
when a wave is over, none waits (`SoundAttempt`); and the record is in the file
unless another command has replaced it or a save failed (`FileKeepsUp`).

*The receipt.*  The argument is about the receipts that a power loss may bring
back under the fixed name (`Names`): a rename adds one, an `fsync` of the
directory leaves one.  Each is complete and authentic (`FilesSound`) and fits
what the provider has, or may yet do (`CloudSound`); `Phase` says what the holder
of the lock has made sure of where it stands.  Every step keeps the three
(`OwnedIsSound`), the stop and the power loss because they only choose among
what was kept possible.  The theorems assume `~StopsWhileRestoring`; the run
`restore` shows that they must.

*Diagnosis.*  `CancellationIsHonoured` needs what each phase implies for the
provider, the shielded task and the two memories (`Control`).  The fusion is the
larger part: which orders falling scores allow.  The number of members above one
and level with it bounds its place, and each bound is reached by some order; so
membership that the analysis claims holds in all of them
(`FusionClaimsAreCertain`), and a decided list has the same boundary in all.
Without equal scores there is one order, the shares the hits carry give the
fusion back although reranking moved them, and a probe of the same lists finds
nothing to warn of (`WarningsMeanDifferences`).  Two invariants carry the
results to the end of a request: what it holds are answers of the provider
(`HoldsItsAnswer`), and hits computed from them (`HoldsItsResults`).

`FindingsAreTheCauses` is an induction over a finite tree, done by hand: a set
to which every node belongs whose children do is the set of all nodes, for a last
node outside it would have none of its children there (the least number
principle; a child comes after its parent).  So the recursion of `Values` has a
solution, and its values are those of the gates.  A leaf which the search for
witnesses does not visit hangs under a gate that is decided elsewhere; a change
that touches it can leave it out.  For one that it visits, the way from the root
decides what every node beside the way must be, and turning just what stands
against that is a change which no smaller one replaces.

`SoundAnswersAreReported` compares three derivations of one result.  An honest
answer has ordered lists whose scores are those of the lookup, so it is decoded
and the analysis refuses none of it.  For each list the place, the boundary and
the relation that the analysis finds are those that the contract derives from the
response; for each fusion the same holds of the scores, of the counts above and
level with the target, and of a boundary that is the same in every falling order.
Each observation is about one item of evidence, so no two are the same and each
fits its source.  In a replay every item of a finding repeats what its source
holds: hits are about different documents, and a probe's ranks are those of its
lists.  The invariant `EndsAsItShould` takes this through the steps of a request:
one that ends without an answer, although nothing failed and nobody cancelled it,
was given an answer that is not honest.

*Only model-checked.*  The liveness properties (`JobTerminates`,
`QueuedRunIsServed`, `RunningRunEnds`, `ShutdownEnds`, `SeedConverges`,
`AttemptEnds`, `CleanupConverges`, `RequestEnds`): the provers cannot reason
about fairness or ENABLED.  And the four runs that state a disagreement.  Every
invariant and every action property of a passing run is proved.  Induction over
data has no rule that the provers can instantiate; where a proof needs one, over
the sizes of subsets, over the nodes of a tree, it is carried out from the least
number principle.

## 5. Where code and documents disagree

1. **Recovery interrupts runs that are no orphans** (`recovery_beside_server`).
   Each evaluation command recovers the store as it starts, without the worker
   guard, and interrupts the run a live server executes.
2. **A repository method is not one transaction** (`torn_row`).  Its reads come
   before the transaction; with the recovery of another process in between, the
   payload of one and a column of the other survive, and the row is refused by
   every later read.
3. **A complete checkpoint can make every rerun fail** (`resume`).  The writer
   learns the write specification of a namespace from its first upsert, and a
   readiness inspection raises without one.  A command that gave up while the
   indexes lagged, or was stopped after its last checkpoint, leaves nothing to
   upsert to the next one, whose inspection then raises, as in every later run.
4. **A cleanup stopped while it restores loses the receipt** (`restore`).
   `_restore_exchange` renames the replacement away from the fixed name before
   it moves the old receipt back.  Stopped in between, it leaves a namespace
   whose name no rerun finds, although the documents promise that a rerun
   suffices until the terminal move.

The first two need a command beside a server; under the guard the same
properties are proved (`GuardedRowsDecode`, `GuardedRecoveryMarksOrphans`).  The
second also happens to two seed commands that overlap: the record of one, begun
before the other's last outcome, may set the count back or tear the row after the
other has completed it, and every later read refuses.  That is why
`SeededDemoIsWhole` asks that nobody was inside of a call when success was
reported, and why `SeedConverges` promises nothing once calls have overlapped.
For the same reason `claim_queued_run` does not "Atomically claim exactly one
queued revision" (`backend/persistence/repository.py:575`) across processes: two
may both read the queued row, and both succeed.  The fourth is excluded from `owned` by
`StopsWhileRestoring = FALSE`.

Met while modelling, and in no contradiction with a document: a shutdown during
a warm-up asks only the jobs the manager knows to stop, so the run goes on to
start its measurement (it still ends, `ShutdownEnds`).  While a run executes, a
view may answer 503 for a torn read, and one torn run makes a whole list
unavailable.  Under a nonzero error tolerance a query the candidate loses badly
leaves the pairs when it fails instead, which can turn a failed gate into a
passed one; `GateRewardsNoLoss` is about the policies that tolerate none.

## 6. Not modelled

- The two-stage interrupt of the command line: it ends in the drain or the
  death that `SharedStore` has.  A server's `_fail_reconstruction` against a
  command that claims: only beside disagreement 1.
- A store that refuses the *terminal* write of a job's error handler leaves the
  row running without a service until a restart.  `DropItem` covers refused
  outcome writes.
- The lazily built search service against its close: no caller overlaps them.
  The adapters that build provider requests translate data and keep no state.
- Progress observers of an ingestion that raise before the first wave or while
  verifying: they end an attempt without changing anything.
- Schema migrations, and the validation inside `create_run` and the seed's
  authored inputs: they refuse before anything is changed.
- Logarithms of NDCG and percentile interpolation: real arithmetic.
- The HTTP layer and doctor change no state; dataset preparation and the scripts
  are offline and sequential, their results checked by hashes.
- The web dashboard: what it supersedes it aborts and drops, in the browser.

## 7. Plan

Built: `RunLifecycle`, `RunStore` → `JobManager` (+ `WorkPlan`) → `EvalServer`,
with `SharedStore`, `SyntheticDemo` and `ReadOnlyCatalog` beside them over the
same data; `Ingestion` and `OwnedTiny`, which fill and remove namespaces; and
`Diagnosis` over the operators of the analysis, its contract and the replay.

Left, in this order:

1. `CommandRuntime`: the two-stage interrupt, cancels and failed reconstruction
   added to `SharedStore`, a fault budget for terminal writes.
2. `SearchRuntime`: the fan-out of a comparison and the lazy service.
3. `Dashboard`: request epochs against late answers.

No safety property waits for a proof.
