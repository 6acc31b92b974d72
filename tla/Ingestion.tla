------------------------------ MODULE Ingestion ------------------------------
(***************************************************************************)
(* The ingestion of the Unix corpus: IngestionService of                   *)
(* datasets/ingestion.py over the namespace writer, with the checkpoint    *)
(* file of datasets/checkpoints.py.  An ingester is one command; it may be *)
(* stopped at any step, run again, and run beside another one, for no lock *)
(* guards a namespace or its checkpoint.  A step of the model is a stretch *)
(* of the code between two awaits or between two file operations.          *)
(*                                                                         *)
(* Documents are their positions in the order of external identifiers, so  *)
(* an upsert by stable identifier is a union of sets.                      *)
(***************************************************************************)
EXTENDS Integers, FiniteSets

CONSTANTS
  Size,               \* number of documents of the corpus
  BatchSize,
  MaxConcurrency,     \* batches of one wave
  ReadinessAttempts,  \* inspections before an attempt gives up
  Ingesters,
  Preexisting,        \* what else may be in the namespace
  MaxFaults           \* bound: failures of calls and stops, altogether

Corpus == 1..Size

ASSUME IngestionAssumption ==
  /\ Size \in Nat \ {0} /\ BatchSize \in Nat \ {0}
  /\ MaxConcurrency \in Nat \ {0} /\ ReadinessAttempts \in Nat \ {0}
  /\ MaxFaults \in Nat
  /\ IsFiniteSet(Preexisting) /\ Preexisting \intersect Corpus = {}

VARIABLES
  remote,       \* the documents in the namespace
  indexed,      \* whether its indexes cover them
  sent,         \* batches written to it whose answer nobody awaits any more
  saved,        \* the completed documents in the checkpoint file
  overwritten,  \* history: commands whose file another one has replaced
  attempt,      \* attempt[p]: the local variables of ingest in command p
  faults

world == <<remote, indexed, sent>>
file == <<saved, overwritten>>
ingestVars == <<world, file, attempt, faults>>

-----------------------------------------------------------------------------
(* Batches.                                                                *)

Rank(S, d) == Cardinality({e \in S : e < d})

\* _make_batches: consecutive pending documents, BatchSize at a time.
BatchOf(S, d) == Rank(S, d) \div BatchSize
Batches(S) == {BatchOf(S, d) : d \in S}
DocumentsOf(a, b) == {d \in a.pending : BatchOf(a.pending, d) = b}

\* The batches gathered together.
Wave(a) == {b \in Batches(a.pending) : b \div MaxConcurrency = a.wave}

Slots == 0..(Size - 1)
Ended == {"idle", "ready", "failed", "unsaved"}
Inspecting == {"polling", "listing", "counting"}
Phases == Ended \union Inspecting \union {"starting", "waiting", "settling"}
TaskStates == {"waiting", "embedding", "writing", "written", "refused", "settled"}

\* Nobody runs: the command was never started, or was stopped.  confirmed is
\* history: the documents of the batches whose write the provider has answered.
NoAttempt ==
  [ phase |-> "idle", pending |-> {}, done |-> {}, confirmed |-> {}, wave |-> 0,
    task |-> [b \in Slots |-> "waiting"], failure |-> FALSE,
    specified |-> FALSE, polls |-> 0, covered |-> FALSE, listed |-> {} ]

InState(a, states) == {b \in Slots : a.task[b] \in states}

Update(p, a) == attempt' = [attempt EXCEPT ![p] = a]

Fault ==
  /\ faults < MaxFaults
  /\ faults' = faults + 1

-----------------------------------------------------------------------------
(* One attempt.                                                            *)

\* Fault: the checkpoint is started afresh instead of from the resumed set.
ResumedForgetfully ==
  [NoAttempt EXCEPT !.phase = "starting", !.pending = Corpus \ saved]

\* A new service and a new writer, which knows no write specification yet.
Resumed ==
  [NoAttempt EXCEPT !.phase = "starting", !.pending = Corpus \ saved, !.done = saved]

\* Load the checkpoint and skip what it names.
Start(p) ==
  /\ attempt[p].phase \in Ended
  /\ Update(p, Resumed)
  /\ overwritten' = overwritten \ {p}
  /\ UNCHANGED <<world, saved, faults>>

StartWave(p) ==
  LET a == attempt[p]
  IN  /\ a.phase = "starting"
      /\ IF Wave(a) = {}
         THEN Update(p, [a EXCEPT !.phase = "polling"])
         ELSE Update(p, [a EXCEPT !.phase = "waiting",
                !.task = [b \in Slots |-> IF b \in Wave(a) THEN "embedding" ELSE @[b]]])
      /\ UNCHANGED <<world, file, faults>>

\* upsert_batch remembers the specification before it sends the request.
BatchEmbedded(p, b) ==
  /\ attempt[p].phase = "waiting" /\ attempt[p].task[b] = "embedding"
  /\ Update(p, [attempt[p] EXCEPT !.task[b] = "writing", !.specified = TRUE])
  /\ UNCHANGED <<world, file, faults>>

\* Wrong count, wrong dimensions or a component that is no finite number.
EmbeddingFails(p, b) ==
  /\ attempt[p].phase = "waiting" /\ attempt[p].task[b] = "embedding"
  /\ Fault
  /\ Update(p, [attempt[p] EXCEPT !.task[b] = "refused"])
  /\ UNCHANGED <<world, file>>

Lands(batch) ==
  /\ remote' = remote \union batch
  /\ indexed' = (indexed /\ batch \subseteq remote)

BatchWritten(p, b) ==
  /\ attempt[p].phase = "waiting" /\ attempt[p].task[b] = "writing"
  /\ Lands(DocumentsOf(attempt[p], b))
  /\ Update(p, [attempt[p] EXCEPT !.task[b] = "written",
                                  !.confirmed = @ \union DocumentsOf(attempt[p], b)])
  /\ UNCHANGED <<sent, file, faults>>

\* The request was applied, never is, or still will be.
WriteFails(p, b) ==
  /\ attempt[p].phase = "waiting" /\ attempt[p].task[b] = "writing"
  /\ Fault
  /\ sent' = sent \union {DocumentsOf(attempt[p], b)}
  /\ Update(p, [attempt[p] EXCEPT !.task[b] = "refused"])
  /\ UNCHANGED <<remote, indexed, file>>

\* Fault: the first failure of a wave is raised without awaiting its siblings.
SettleAtFirstFailure(p) ==
  /\ attempt[p].phase = "waiting"
  /\ \/ InState(attempt[p], {"embedding", "writing"}) = {}
     \/ InState(attempt[p], {"refused"}) # {}
  /\ Update(p, [attempt[p] EXCEPT !.phase =
       IF InState(attempt[p], {"refused"}) # {} THEN "failed" ELSE "settling"])
  /\ UNCHANGED <<world, file, faults>>

\* gather(return_exceptions=True) waits for the whole wave.
SettleWave(p) ==
  /\ attempt[p].phase = "waiting"
  /\ InState(attempt[p], {"embedding", "writing"}) = {}
  /\ Update(p, [attempt[p] EXCEPT !.phase = "settling"])
  /\ UNCHANGED <<world, file, faults>>

\* The outcomes are visited in batch order, without an await.
NextOutcome(p, b) ==
  /\ attempt[p].phase = "settling"
  /\ attempt[p].task[b] \in {"written", "refused"}
  /\ \A k \in InState(attempt[p], {"written", "refused"}) : b <= k

OutcomeFailed(p, b) ==
  /\ NextOutcome(p, b) /\ attempt[p].task[b] = "refused"
  /\ Update(p, [attempt[p] EXCEPT !.task[b] = "settled", !.failure = TRUE])
  /\ UNCHANGED <<world, file, faults>>

\* Fault: the whole wave is put on record with its first outcome.
ConfirmedWave(a, b) ==
  [a EXCEPT !.task[b] = "settled",
            !.done = @ \union UNION {DocumentsOf(a, k) : k \in Wave(a)}]

Confirmed(a, b) ==
  [a EXCEPT !.task[b] = "settled", !.done = @ \union DocumentsOf(a, b)]

\* The file is replaced from the attempt's own set, whoever saved it last.
Saves(p) ==
  /\ saved' = attempt'[p].done
  /\ overwritten' = Ingesters \ {p}

\* on_checkpoint, after every batch that was written.
OutcomeSaved(p, b) ==
  /\ NextOutcome(p, b) /\ attempt[p].task[b] = "written"
  /\ Update(p, Confirmed(attempt[p], b))
  /\ Saves(p)
  /\ UNCHANGED <<world, faults>>

\* on_checkpoint raises, before or after the file was replaced, or the
\* progress observer does, after it was.
SaveFails(p, b) ==
  /\ NextOutcome(p, b) /\ attempt[p].task[b] = "written"
  /\ Fault
  /\ Update(p, [Confirmed(attempt[p], b) EXCEPT !.phase = "unsaved"])
  /\ Saves(p) \/ UNCHANGED file
  /\ UNCHANGED world

EndWave(p) ==
  LET a == attempt[p]
  IN  /\ a.phase = "settling"
      /\ InState(a, {"written", "refused"}) = {}
      /\ Update(p, [a EXCEPT !.phase = IF a.failure THEN "failed" ELSE "starting",
                             !.wave = IF a.failure THEN @ ELSE @ + 1])
      /\ UNCHANGED <<world, file, faults>>

-----------------------------------------------------------------------------
(* Readiness.                                                              *)

\* inspect_readiness: without a specification it raises; then the metadata,
\* then the identifiers, then their number.  Others may write in between.
Inspect(p) ==
  LET a == attempt[p]
  IN  /\ a.phase = "polling"
      /\ IF a.specified
         THEN Update(p, [a EXCEPT !.phase = "listing", !.covered = indexed])
         ELSE Update(p, [a EXCEPT !.phase = "failed"])
      /\ UNCHANGED <<world, file, faults>>

InspectionFails(p) ==
  /\ attempt[p].phase \in Inspecting
  /\ Fault
  /\ Update(p, [attempt[p] EXCEPT !.phase = "failed"])
  /\ UNCHANGED <<world, file>>

\* No more are asked for than one beyond the expected number.
AtMostOneMore(n) == IF n <= Size THEN n ELSE Size + 1

ListDocuments(p) ==
  /\ attempt[p].phase = "listing"
  /\ \E listed \in SUBSET remote :
       /\ Cardinality(listed) = AtMostOneMore(Cardinality(remote))
       /\ Update(p, [attempt[p] EXCEPT !.phase = "counting", !.listed = listed])
  /\ UNCHANGED <<world, file, faults>>

\* Fault: the expected identifiers are looked up, and no others noticed.
IsReadyIfContained(a, count) == a.covered /\ Corpus \subseteq a.listed

IsReady(a, count) == a.covered /\ count = Size /\ a.listed = Corpus

\* Fault: the attempts are not counted.
PolledAgain(a) == [a EXCEPT !.phase = "polling", !.covered = FALSE, !.listed = {}]

Polled(a) ==
  [a EXCEPT !.phase = IF a.polls + 1 < ReadinessAttempts THEN "polling" ELSE "failed",
            !.polls = @ + 1, !.covered = FALSE, !.listed = {}]

\* A count that contradicts the list raises; otherwise there is a verdict.
CountDocuments(p) ==
  LET a == attempt[p]
      count == Cardinality(remote)
  IN  /\ a.phase = "counting"
      /\ \/ /\ Cardinality(a.listed) # AtMostOneMore(count)
            /\ Update(p, [a EXCEPT !.phase = "failed"])
         \/ /\ Cardinality(a.listed) = AtMostOneMore(count)
            /\ IsReady(a, count)
            /\ Update(p, [a EXCEPT !.phase = "ready"])
         \/ /\ Cardinality(a.listed) = AtMostOneMore(count)
            /\ ~IsReady(a, count)
            /\ Update(p, Polled(a))
      /\ UNCHANGED <<world, file, faults>>

-----------------------------------------------------------------------------
(* Stopping, and the world outside.                                        *)

\* The command is interrupted or dies; its requests are on their way.
Stop(p) ==
  LET a == attempt[p]
  IN  /\ a.phase \notin Ended
      /\ Fault
      /\ sent' = sent \union {DocumentsOf(a, b) : b \in InState(a, {"writing"})}
      /\ Update(p, NoAttempt)
      /\ UNCHANGED <<remote, indexed, file>>

LateWrite ==
  /\ \E batch \in sent : Lands(batch) /\ sent' = sent \ {batch}
  /\ UNCHANGED <<file, attempt, faults>>

IndexCatchesUp ==
  /\ ~indexed
  /\ indexed' = TRUE
  /\ UNCHANGED <<remote, sent, file, attempt, faults>>

-----------------------------------------------------------------------------
IngestInit ==
  /\ remote \in {{}, Preexisting}
  /\ indexed = TRUE
  /\ sent = {}
  /\ saved = {}
  /\ overwritten = {}
  /\ attempt = [p \in Ingesters |-> NoAttempt]
  /\ faults = 0

BatchStep(p, b) ==
  \/ BatchEmbedded(p, b) \/ EmbeddingFails(p, b)
  \/ BatchWritten(p, b) \/ WriteFails(p, b)

LoopStep(p) ==
  \/ StartWave(p) \/ SettleWave(p) \/ EndWave(p)
  \/ \E b \in Slots : OutcomeFailed(p, b) \/ OutcomeSaved(p, b) \/ SaveFails(p, b)
  \/ Inspect(p) \/ ListDocuments(p) \/ CountDocuments(p)
  \/ InspectionFails(p)

IngestNext ==
  \/ \E p \in Ingesters : Start(p) \/ LoopStep(p) \/ Stop(p)
  \/ \E p \in Ingesters, b \in Slots : BatchStep(p, b)
  \/ LateWrite
  \/ IndexCatchesUp

\* A running command goes on, calls are answered, indexes catch up, and the
\* operator runs the command again until it succeeds.
IngestFairness ==
  /\ \A p \in Ingesters :
       /\ WF_ingestVars(LoopStep(p))
       /\ WF_ingestVars(Start(p))
       /\ \A b \in Slots : WF_ingestVars(BatchStep(p, b))
  /\ WF_ingestVars(IndexCatchesUp)

IngestSpec == IngestInit /\ [][IngestNext]_ingestVars /\ IngestFairness

-----------------------------------------------------------------------------
(* Properties.                                                             *)

Attempt ==
  [ phase : Phases, pending : SUBSET Corpus, done : SUBSET Corpus,
    confirmed : SUBSET Corpus, wave : Nat, task : [Slots -> TaskStates],
    failure : BOOLEAN, specified : BOOLEAN, polls : 0..ReadinessAttempts,
    covered : BOOLEAN, listed : SUBSET (Corpus \union Preexisting) ]

\* Namespace, checkpoint and attempts have the shape the model declares.
IngestTypeOK ==
  /\ remote \in SUBSET (Corpus \union Preexisting)
  /\ indexed \in BOOLEAN
  /\ sent \in SUBSET SUBSET Corpus
  /\ saved \in SUBSET Corpus
  /\ overwritten \in SUBSET Ingesters
  /\ attempt \in [Ingesters -> Attempt]
  /\ faults \in 0..MaxFaults

\* The checkpoint names only documents that are in the namespace: skipping
\* them on a resume loses nothing, whoever wrote the file last and wherever
\* the one before was stopped.
CheckpointedIsWritten == saved \subseteq remote

\* An attempt that reports readiness has proved it: the namespace holds the
\* corpus and nothing else, with late requests and other commands about.
ReadyIsExact ==
  \A p \in Ingesters : attempt[p].phase = "ready" => remote = Corpus

\* A wave in which some batch failed still puts its confirmed batches on
\* record: an attempt that goes on to the next wave, verifies, or ends for any
\* reason but a stop or a failed save, leaves a checkpoint file that names every
\* document whose write was confirmed to it, unless another command has replaced
\* that file with its own since (no lock guards it).
ConfirmedBatchesAreRecorded ==
  \A p \in Ingesters \ overwritten :
    attempt[p].phase \in Inspecting \union {"starting", "ready", "failed"} =>
      attempt[p].confirmed \subseteq saved

\* Nothing falls between the resumed documents and the batches: an attempt
\* that starts to verify has every document of the corpus on its record.
VerifiedRecordIsComplete ==
  \A p \in Ingesters :
    attempt[p].phase \in Inspecting \union {"ready"} => attempt[p].done = Corpus

\* Every attempt ends, whatever the namespace contains.
AttemptEnds ==
  \A p \in Ingesters : attempt[p].phase \notin Ended ~> attempt[p].phase \in Ended

\* Run again often enough, the command reports readiness: failures are finite,
\* indexes catch up and a second run over a complete checkpoint is ready too.
RerunsReachReady == <>(\E p \in Ingesters : attempt[p].phase = "ready")

=============================================================================
