--------------------------- MODULE IngestionProofs ---------------------------
(***************************************************************************)
(* The safety of ingestion for every corpus, batch size, wave width,       *)
(* number of commands and number of faults.                                *)
(*                                                                         *)
(* Everything rests on what is in the namespace already: the recorded      *)
(* documents of an attempt and its confirmed batches are, and the          *)
(* namespace only grows.  SoundAttempt says so of one attempt; it survives *)
(* every upsert, whoever sent it, so attempts do not disturb each other.   *)
(***************************************************************************)
EXTENDS Ingestion, FiniteSetTheorems, WellFoundedInduction, TLAPS

SoundAttempt(a, R) ==
  /\ a \in Attempt
  /\ a.phase # "failed" => a.polls < ReadinessAttempts
  /\ a.done \subseteq R
  /\ a.listed \subseteq R
  /\ \A b \in Slots : a.task[b] = "written" => DocumentsOf(a, b) \subseteq R
  /\ a.phase = "ready" => R = Corpus
  /\ a.phase \in Inspecting \union {"starting", "ready", "failed"} =>
       \A b \in Slots : a.task[b] \notin {"embedding", "writing", "written"}
  /\ a.phase = "settling" => \A b \in Slots : a.task[b] \notin {"embedding", "writing"}

SoundWorld ==
  /\ remote \in SUBSET (Corpus \union Preexisting)
  /\ indexed \in BOOLEAN
  /\ sent \in SUBSET SUBSET Corpus
  /\ saved \in SUBSET Corpus
  /\ overwritten \in SUBSET Ingesters
  /\ saved \subseteq remote
  /\ faults \in 0..MaxFaults

SoundIngestion ==
  /\ SoundWorld
  /\ attempt \in [Ingesters -> Attempt]
  /\ \A p \in Ingesters : SoundAttempt(attempt[p], remote)

-----------------------------------------------------------------------------
(* Attempts and the namespace.                                             *)

\* A batch consists of documents of the corpus.
LEMMA BatchesAreDocuments ==
  ASSUME NEW a \in Attempt, NEW b
  PROVE  DocumentsOf(a, b) \subseteq Corpus
BY DEF DocumentsOf, Attempt

\* An upsert, by whomever, disturbs no attempt.
LEMMA UpsertKeepsSound ==
  ASSUME NEW a, NEW R, NEW batch \in SUBSET Corpus, SoundAttempt(a, R)
  PROVE  SoundAttempt(a, R \union batch)
BY DEF SoundAttempt, Inspecting

\* What a command that does not run looks like.
LEMMA NoAttemptIsTyped ==
  /\ NoAttempt \in Attempt
  /\ NoAttempt.phase = "idle" /\ NoAttempt.polls = 0 /\ NoAttempt.done = {}
  /\ NoAttempt.listed = {} /\ NoAttempt.confirmed = {}
  /\ \A b \in Slots : NoAttempt.task[b] = "waiting"
BY IngestionAssumption DEF NoAttempt, Attempt, Phases, Inspecting, Ended, TaskStates

\* It is sound over any namespace.
LEMMA NoAttemptIsSound == ASSUME NEW R PROVE SoundAttempt(NoAttempt, R)
BY NoAttemptIsTyped, IngestionAssumption DEF SoundAttempt, Inspecting

\* So is one that resumes from documents which are there.
LEMMA ResumedIsSound ==
  ASSUME NEW R, saved \in SUBSET Corpus, saved \subseteq R
  PROVE  SoundAttempt(Resumed, R)
<1>1. /\ Resumed \in Attempt
      /\ Resumed.phase = "starting" /\ Resumed.polls = 0 /\ Resumed.done = saved
      /\ Resumed.listed = {}
      /\ \A b \in Slots : Resumed.task[b] = "waiting"
  BY NoAttemptIsTyped DEF Resumed, Attempt, Phases, Inspecting
<1>2. QED
  BY <1>1, IngestionAssumption DEF SoundAttempt, Inspecting

\* One attempt moves to a sound one, over a namespace that grew by a batch of
\* documents or stayed as it is.
LEMMA OneAttemptMoves ==
  ASSUME SoundIngestion, SoundWorld', NEW p \in Ingesters, NEW a, Update(p, a),
         NEW batch \in SUBSET Corpus, remote' = remote \union batch,
         SoundAttempt(a, remote')
  PROVE  SoundIngestion'
<1>1. a \in Attempt
  BY DEF SoundAttempt, Inspecting
<1>2. attempt' \in [Ingesters -> Attempt]
  BY <1>1 DEF SoundIngestion, Update
<1>3. ASSUME NEW q \in Ingesters PROVE SoundAttempt(attempt'[q], remote')
  <2>1. CASE q = p
    BY <2>1 DEF SoundIngestion, Update
  <2>2. CASE q # p
    <3>1. attempt'[q] = attempt[q] /\ SoundAttempt(attempt[q], remote)
      BY <2>2 DEF SoundIngestion, Update
    <3>2. QED
      BY <3>1, UpsertKeepsSound
  <2>3. QED
    BY <2>1, <2>2
<1>4. QED
  BY <1>2, <1>3 DEF SoundIngestion

\* The same when the namespace does not change.
LEMMA OneAttemptMovesAlone ==
  ASSUME SoundIngestion, SoundWorld', NEW p \in Ingesters, NEW a, Update(p, a),
         remote' = remote, SoundAttempt(a, remote)
  PROVE  SoundIngestion'
<1>1. {} \in SUBSET Corpus /\ remote' = remote \union {}
  OBVIOUS
<1>2. QED
  BY <1>1, OneAttemptMoves

-----------------------------------------------------------------------------
(* The steps of the batches.                                               *)

TaskMoved(a, b, state, specified, confirmed) ==
  [a EXCEPT !.task[b] = state, !.specified = specified, !.confirmed = confirmed]

\* A batch whose task moves on changes nothing else of its attempt.
LEMMA TaskMovedFields ==
  ASSUME NEW a \in Attempt, NEW b \in Slots, NEW state \in TaskStates,
         NEW specified \in BOOLEAN, NEW confirmed \in SUBSET Corpus
  PROVE  LET moved == TaskMoved(a, b, state, specified, confirmed)
         IN  /\ moved \in Attempt
             /\ moved.phase = a.phase /\ moved.polls = a.polls /\ moved.wave = a.wave
             /\ moved.done = a.done /\ moved.listed = a.listed
             /\ moved.pending = a.pending /\ moved.failure = a.failure
             /\ moved.confirmed = confirmed
             /\ \A k \in Slots : moved.task[k] = IF k = b THEN state ELSE a.task[k]
BY DEF TaskMoved, Attempt

\* In a wave that is waiting it leaves its attempt sound, provided a written
\* batch is in the namespace.
LEMMA MovedTaskIsSound ==
  ASSUME NEW a, NEW R, SoundAttempt(a, R), a.phase = "waiting",
         NEW b \in Slots, NEW state \in TaskStates,
         state = "written" => DocumentsOf(a, b) \subseteq R,
         NEW specified \in BOOLEAN, NEW confirmed \in SUBSET Corpus
  PROVE  SoundAttempt(TaskMoved(a, b, state, specified, confirmed), R)
<1> DEFINE moved == TaskMoved(a, b, state, specified, confirmed)
<1>1. /\ moved \in Attempt
      /\ moved.phase = "waiting" /\ moved.polls = a.polls
      /\ moved.done = a.done /\ moved.listed = a.listed /\ moved.pending = a.pending
      /\ \A k \in Slots : moved.task[k] = IF k = b THEN state ELSE a.task[k]
  BY TaskMovedFields DEF SoundAttempt
<1> HIDE DEF moved
<1>2. \A k \in Slots : DocumentsOf(moved, k) = DocumentsOf(a, k)
  BY <1>1 DEF DocumentsOf
<1>3. SoundAttempt(moved, R)
  BY <1>1, <1>2 DEF SoundAttempt, Inspecting
<1>4. QED
  BY <1>3 DEF moved

\* What a step of a batch makes of its attempt: only an answered write adds to
\* what is confirmed.
LEMMA BatchMoves ==
  ASSUME NEW p \in Ingesters, NEW b \in Slots, BatchStep(p, b), attempt[p] \in Attempt
  PROVE  LET a == attempt[p]
             grown == a.confirmed \union DocumentsOf(a, b)
         IN  /\ a.phase = "waiting" /\ a.task[b] # "written" /\ file' = file
             /\ \/ /\ Update(p, TaskMoved(a, b, "written", a.specified, grown))
                   /\ remote' = remote \union DocumentsOf(a, b)
                \/ /\ \E state \in {"writing", "refused"}, specified \in BOOLEAN :
                        Update(p, TaskMoved(a, b, state, specified, a.confirmed))
                   /\ remote' = remote
<1> DEFINE a == attempt[p]
           Kept == \E state \in {"writing", "refused"}, specified \in BOOLEAN :
                     Update(p, TaskMoved(a, b, state, specified, a.confirmed))
<1>0. a.specified \in BOOLEAN
  BY DEF Attempt
<1>1. CASE BatchEmbedded(p, b)
  <2>1. [a EXCEPT !.task[b] = "writing", !.specified = TRUE]
          = TaskMoved(a, b, "writing", TRUE, a.confirmed)
    BY DEF TaskMoved, Attempt
  <2>2. Update(p, TaskMoved(a, b, "writing", TRUE, a.confirmed))
    BY <1>1, <2>1 DEF BatchEmbedded
  <2>3. Kept
    BY <2>2
  <2>4. QED
    BY <1>1, <2>3 DEF BatchEmbedded, world, file
<1>2. CASE EmbeddingFails(p, b) \/ WriteFails(p, b)
  <2>1. [a EXCEPT !.task[b] = "refused"] = TaskMoved(a, b, "refused", a.specified, a.confirmed)
    BY DEF TaskMoved, Attempt
  <2>2. Update(p, TaskMoved(a, b, "refused", a.specified, a.confirmed))
    BY <1>2, <2>1 DEF EmbeddingFails, WriteFails
  <2>3. Kept
    BY <1>0, <2>2
  <2>4. QED
    BY <1>2, <2>3 DEF EmbeddingFails, WriteFails, world, file
<1>3. CASE BatchWritten(p, b)
  <2> DEFINE grown == a.confirmed \union DocumentsOf(a, b)
  <2>1. [a EXCEPT !.task[b] = "written", !.confirmed = @ \union DocumentsOf(a, b)]
          = TaskMoved(a, b, "written", a.specified, grown)
    BY DEF TaskMoved, Attempt
  <2>2. Update(p, TaskMoved(a, b, "written", a.specified, grown))
    BY <1>3, <2>1 DEF BatchWritten
  <2>3. QED
    BY <1>3, <2>2 DEF BatchWritten, Lands, file
<1>4. QED
  BY <1>1, <1>2, <1>3 DEF BatchStep

\* Every step of a batch keeps ingestion sound.
LEMMA BatchStepIsSound ==
  ASSUME SoundIngestion, NEW p \in Ingesters, NEW b \in Slots, BatchStep(p, b)
  PROVE  SoundIngestion'
<1> DEFINE a == attempt[p]
           batch == DocumentsOf(a, b)
           grown == a.confirmed \union batch
<1>0. /\ SoundWorld /\ SoundAttempt(a, remote) /\ a \in Attempt
      /\ batch \in SUBSET Corpus /\ a.specified \in BOOLEAN
      /\ a.confirmed \in SUBSET Corpus /\ grown \in SUBSET Corpus
  BY BatchesAreDocuments DEF SoundIngestion, Attempt
<1>1. SoundWorld'
  <2>1. CASE BatchEmbedded(p, b)
    BY <1>0, <2>1 DEF BatchEmbedded, SoundWorld, world, file
  <2>2. CASE EmbeddingFails(p, b) \/ WriteFails(p, b)
    BY <1>0, <2>2, IngestionAssumption
       DEF EmbeddingFails, WriteFails, SoundWorld, world, file, Fault
  <2>3. CASE BatchWritten(p, b)
    BY <1>0, <2>3 DEF BatchWritten, Lands, SoundWorld, file
  <2>4. QED
    BY <2>1, <2>2, <2>3 DEF BatchStep
<1>2. a.phase = "waiting"
  BY <1>0, BatchMoves
<1>3. CASE /\ Update(p, TaskMoved(a, b, "written", a.specified, grown))
           /\ remote' = remote \union batch
  <2>1. SoundAttempt(a, remote')
    BY <1>0, <1>3, UpsertKeepsSound
  <2>2. batch \subseteq remote'
    BY <1>3
  <2> HIDE DEF a
  <2>3. SoundAttempt(TaskMoved(a, b, "written", a.specified, grown), remote')
    BY <1>0, <1>2, <2>1, <2>2, MovedTaskIsSound DEF TaskStates
  <2>4. QED
    BY <1>0, <1>1, <1>3, <2>3, OneAttemptMoves
<1>4. ASSUME NEW state \in {"writing", "refused"}, NEW specified \in BOOLEAN,
             Update(p, TaskMoved(a, b, state, specified, a.confirmed)), remote' = remote
      PROVE  SoundIngestion'
  <2>1. SoundAttempt(TaskMoved(a, b, state, specified, a.confirmed), remote)
    BY <1>0, <1>2, MovedTaskIsSound DEF TaskStates
  <2>2. QED
    BY <1>1, <1>4, <2>1, OneAttemptMovesAlone
<1>5. QED
  BY <1>0, <1>3, <1>4, BatchMoves

-----------------------------------------------------------------------------
(* The steps of the loop over the waves.                                   *)

\* A wave starts, or there is none left.
LEMMA StartWaveIsSound ==
  ASSUME SoundIngestion, NEW p \in Ingesters, StartWave(p)
  PROVE  SoundIngestion'
<1> DEFINE a == attempt[p]
           started == [a EXCEPT !.phase = "waiting",
             !.task = [b \in Slots |-> IF b \in Wave(a) THEN "embedding" ELSE @[b]]]
           over == [a EXCEPT !.phase = "polling"]
<1>0. SoundAttempt(a, remote) /\ SoundWorld' /\ remote' = remote
  BY DEF SoundIngestion, SoundWorld, StartWave, world, file
<1>1. /\ over \in Attempt /\ over.phase = "polling" /\ over.polls = a.polls
      /\ over.done = a.done /\ over.listed = a.listed
      /\ over.task = a.task
  BY <1>0 DEF SoundAttempt, Attempt, Phases, Inspecting
<1>2. /\ started \in Attempt /\ started.phase = "waiting" /\ started.polls = a.polls
      /\ started.done = a.done /\ started.listed = a.listed
      /\ \A b \in Slots : started.task[b] = IF b \in Wave(a) THEN "embedding" ELSE a.task[b]
  BY <1>0 DEF SoundAttempt, Attempt, Phases, Inspecting, TaskStates
<1>3. a.phase = "starting" /\ (Update(p, over) \/ Update(p, started))
  BY DEF StartWave
<1> HIDE DEF a, over, started
<1>4. SoundAttempt(over, remote)
  BY <1>0, <1>1, <1>3 DEF SoundAttempt, Inspecting
<1>5. SoundAttempt(started, remote)
  BY <1>0, <1>2, <1>3 DEF SoundAttempt, Inspecting
<1>6. QED
  BY <1>0, <1>3, <1>4, <1>5, OneAttemptMovesAlone

\* The outcomes of a wave are visited once none of it is on its way, and the
\* next wave starts once each is settled.
LEMMA TurnOfWaveIsSound ==
  ASSUME SoundIngestion, NEW p \in Ingesters, SettleWave(p) \/ EndWave(p)
  PROVE  SoundIngestion'
<1> DEFINE a == attempt[p]
           settling == [a EXCEPT !.phase = "settling"]
           over == [a EXCEPT !.phase = IF a.failure THEN "failed" ELSE "starting",
                             !.wave = IF a.failure THEN @ ELSE @ + 1]
<1>0. SoundAttempt(a, remote) /\ SoundWorld' /\ remote' = remote
  BY DEF SoundIngestion, SoundWorld, SettleWave, EndWave, world, file
<1>1. /\ settling \in Attempt /\ settling.phase = "settling"
      /\ settling.polls = a.polls /\ settling.done = a.done /\ settling.listed = a.listed
      /\ settling.task = a.task
      /\ settling.pending = a.pending
  BY <1>0 DEF SoundAttempt, Attempt, Phases, Inspecting
<1>2. /\ over \in Attempt /\ over.phase \in {"failed", "starting"}
      /\ over.polls = a.polls /\ over.done = a.done /\ over.listed = a.listed
      /\ over.task = a.task
      /\ over.pending = a.pending
  <2>1. a \in Attempt /\ a.failure \in BOOLEAN /\ a.wave \in Nat
    BY <1>0 DEF SoundAttempt, Attempt
  <2>2. CASE a.failure
    BY <2>1, <2>2 DEF Attempt, Phases, Inspecting, Ended
  <2>3. CASE ~a.failure
    <3>1. over = [a EXCEPT !.phase = "starting", !.wave = a.wave + 1]
      BY <2>3, Zenon
    <3> HIDE DEF a, over
    <3>2. a.wave + 1 \in Nat
      BY <2>1
    <3>3. QED
      BY <2>1, <3>1, <3>2 DEF Attempt, Phases, Inspecting
  <2>4. QED
    BY <2>1, <2>2, <2>3
<1>3. \/ /\ a.phase = "waiting" /\ InState(a, {"embedding", "writing"}) = {}
         /\ Update(p, settling)
      \/ /\ a.phase = "settling" /\ InState(a, {"written", "refused"}) = {}
         /\ Update(p, over)
  BY DEF SettleWave, EndWave
<1> HIDE DEF a, over, settling
<1>4. CASE a.phase = "waiting" /\ InState(a, {"embedding", "writing"}) = {}
           /\ Update(p, settling)
  <2>1. \A b \in Slots : a.task[b] \notin {"embedding", "writing"}
    BY <1>4 DEF InState
  <2>2. SoundAttempt(settling, remote)
    BY <1>0, <1>1, <1>4, <2>1 DEF SoundAttempt, DocumentsOf, Inspecting
  <2>3. QED
    BY <1>0, <1>4, <2>2, OneAttemptMovesAlone
<1>5. CASE a.phase = "settling" /\ InState(a, {"written", "refused"}) = {}
           /\ Update(p, over)
  <2>1. \A b \in Slots : a.task[b] \notin {"embedding", "writing", "written"}
    BY <1>0, <1>5 DEF InState, SoundAttempt
  <2>2. SoundAttempt(over, remote)
    BY <1>0, <1>2, <1>5, <2>1 DEF SoundAttempt, DocumentsOf, Inspecting
  <2>3. QED
    BY <1>0, <1>5, <2>2, OneAttemptMovesAlone
<1>6. QED
  BY <1>3, <1>4, <1>5

\* A failed batch is settled; nothing is recorded.
LEMMA OutcomeFailedIsSound ==
  ASSUME SoundIngestion, NEW p \in Ingesters, NEW b \in Slots, OutcomeFailed(p, b)
  PROVE  SoundIngestion'
<1> DEFINE a == attempt[p]
           next == [a EXCEPT !.task[b] = "settled", !.failure = TRUE]
<1>0. SoundAttempt(a, remote) /\ SoundWorld' /\ remote' = remote
  BY DEF SoundIngestion, SoundWorld, OutcomeFailed, world, file
<1>1. /\ next \in Attempt /\ next.phase = a.phase
      /\ next.polls = a.polls /\ next.done = a.done /\ next.listed = a.listed /\ next.pending = a.pending
      /\ \A k \in Slots : next.task[k] = IF k = b THEN "settled" ELSE a.task[k]
  BY <1>0 DEF SoundAttempt, Attempt, TaskStates
<1>2. a.phase = "settling" /\ Update(p, next)
  BY DEF OutcomeFailed, NextOutcome
<1> HIDE DEF a, next
<1>3. \A k \in Slots : DocumentsOf(next, k) = DocumentsOf(a, k)
  BY <1>1 DEF DocumentsOf
<1>4. SoundAttempt(next, remote)
  BY <1>0, <1>1, <1>2, <1>3 DEF SoundAttempt, Inspecting
<1>5. QED
  BY <1>0, <1>2, <1>4, OneAttemptMovesAlone

\* A confirmed batch is in the namespace, and so is the record that names it,
\* whether the attempt goes on after saving the record or ends there.
LEMMA ConfirmedIsSound ==
  ASSUME NEW a, NEW R, SoundAttempt(a, R), a.phase = "settling",
         NEW b \in Slots, a.task[b] = "written"
  PROVE  /\ SoundAttempt(Confirmed(a, b), R)
         /\ SoundAttempt([Confirmed(a, b) EXCEPT !.phase = "unsaved"], R)
         /\ Confirmed(a, b).done \in SUBSET Corpus /\ Confirmed(a, b).done \subseteq R
         /\ [Confirmed(a, b) EXCEPT !.phase = "unsaved"].done = Confirmed(a, b).done
<1> DEFINE next == Confirmed(a, b)
           last == [next EXCEPT !.phase = "unsaved"]
<1>0. a \in Attempt /\ DocumentsOf(a, b) \subseteq Corpus /\ DocumentsOf(a, b) \subseteq R
  BY BatchesAreDocuments DEF SoundAttempt, Inspecting
<1>1. /\ next \in Attempt /\ next.phase = "settling"
      /\ next.polls = a.polls /\ next.pending = a.pending
      /\ next.done = a.done \union DocumentsOf(a, b) /\ next.listed = a.listed
      /\ \A k \in Slots : next.task[k] = IF k = b THEN "settled" ELSE a.task[k]
  BY <1>0 DEF Confirmed, Attempt, TaskStates
<1> HIDE DEF next
<1>2. /\ last \in Attempt /\ last.phase = "unsaved" /\ last.polls = next.polls
      /\ last.pending = next.pending /\ last.task = next.task
      /\ last.done = next.done /\ last.listed = next.listed
  BY <1>1 DEF Attempt, Phases, Inspecting, Ended
<1> HIDE DEF last
<1>3. \A k \in Slots : /\ DocumentsOf(next, k) = DocumentsOf(a, k)
                       /\ DocumentsOf(last, k) = DocumentsOf(a, k)
  BY <1>1, <1>2 DEF DocumentsOf
<1>4. SoundAttempt(next, R)
  BY <1>0, <1>1, <1>3 DEF SoundAttempt, Inspecting
<1>5. SoundAttempt(last, R)
  BY <1>1, <1>2, <1>3, <1>4 DEF SoundAttempt, Inspecting
<1>6. next.done \in SUBSET Corpus /\ next.done \subseteq R
  BY <1>1, <1>4 DEF SoundAttempt, Attempt
<1>7. QED
  BY <1>2, <1>4, <1>5, <1>6 DEF next, last

\* So saving it, successfully or not, keeps ingestion sound.
LEMMA OutcomeSavedIsSound ==
  ASSUME SoundIngestion, NEW p \in Ingesters, NEW b \in Slots,
         OutcomeSaved(p, b) \/ SaveFails(p, b)
  PROVE  SoundIngestion'
<1> DEFINE next == Confirmed(attempt[p], b)
           last == [Confirmed(attempt[p], b) EXCEPT !.phase = "unsaved"]
<1>0. /\ SoundWorld /\ SoundAttempt(attempt[p], remote)
      /\ attempt[p].phase = "settling" /\ attempt[p].task[b] = "written"
  BY DEF SoundIngestion, OutcomeSaved, SaveFails, NextOutcome
<1>1. /\ SoundAttempt(next, remote) /\ SoundAttempt(last, remote)
      /\ next.done \in SUBSET Corpus /\ next.done \subseteq remote
      /\ last.done = next.done
  BY <1>0, ConfirmedIsSound
<1>2. /\ remote' = remote
      /\ \/ Update(p, next) /\ faults' = faults
         \/ Update(p, last) /\ Fault
      /\ saved' \in {saved, attempt'[p].done}
      /\ overwritten' \in {overwritten, Ingesters \ {p}}
      /\ UNCHANGED world
  BY DEF OutcomeSaved, SaveFails, Saves, world, file
<1> HIDE DEF next, last
<1>3. attempt'[p].done = next.done
  BY <1>1, <1>2 DEF Update, SoundIngestion
<1>4. faults' \in 0..MaxFaults
  BY <1>0, <1>2, IngestionAssumption DEF SoundWorld, Fault
<1>5. SoundWorld'
  BY <1>0, <1>1, <1>2, <1>3, <1>4 DEF SoundWorld, world, file
<1>6. QED
  BY <1>1, <1>2, <1>5, OneAttemptMovesAlone

-----------------------------------------------------------------------------
(* Readiness.                                                              *)

\* The corpus is finite, and a part of a finite namespace that is as large as
\* the namespace is all of it: two counts decide whether two sets are equal.
LEMMA CorpusIsAll ==
  ASSUME remote \in SUBSET (Corpus \union Preexisting), Corpus \subseteq remote,
         Cardinality(remote) = Size
  PROVE  remote = Corpus
<1>1. IsFiniteSet(Corpus) /\ Cardinality(Corpus) = Size
  BY FS_Interval, IngestionAssumption DEF Corpus
<1>2. IsFiniteSet(remote)
  BY <1>1, FS_Union, FS_Subset, IngestionAssumption
<1>3. QED
  BY <1>1, <1>2, FS_Subset

\* Looking at the metadata, or failing to.
LEMMA InspectIsSound ==
  ASSUME SoundIngestion, NEW p \in Ingesters, Inspect(p) \/ InspectionFails(p)
  PROVE  SoundIngestion'
<1> DEFINE a == attempt[p]
           seen == [a EXCEPT !.phase = "listing", !.covered = indexed]
           failed == [a EXCEPT !.phase = "failed"]
<1>0. SoundAttempt(a, remote) /\ SoundWorld' /\ remote' = remote /\ indexed \in BOOLEAN
  BY IngestionAssumption
     DEF SoundIngestion, SoundWorld, Inspect, InspectionFails, world, file, Fault
<1>1. /\ seen \in Attempt /\ seen.phase = "listing" /\ seen.polls = a.polls
      /\ seen.done = a.done /\ seen.listed = a.listed
      /\ seen.task = a.task /\ seen.pending = a.pending
  BY <1>0 DEF SoundAttempt, Attempt, Phases, Inspecting
<1>2. /\ failed \in Attempt /\ failed.phase = "failed" /\ failed.polls = a.polls
      /\ failed.done = a.done /\ failed.listed = a.listed
      /\ failed.task = a.task /\ failed.pending = a.pending
  BY <1>0 DEF SoundAttempt, Attempt, Phases, Ended
<1>3. /\ a.phase \in Inspecting
      /\ Update(p, seen) \/ Update(p, failed)
  BY DEF Inspect, InspectionFails, Inspecting
<1> HIDE DEF a, seen, failed
<1>4. SoundAttempt(seen, remote) /\ SoundAttempt(failed, remote)
  BY <1>0, <1>1, <1>2, <1>3 DEF SoundAttempt, DocumentsOf, Inspecting
<1>5. QED
  BY <1>0, <1>3, <1>4, OneAttemptMovesAlone

\* Listing the identifiers: what is listed is there, and stays there.
LEMMA ListDocumentsIsSound ==
  ASSUME SoundIngestion, NEW p \in Ingesters, ListDocuments(p)
  PROVE  SoundIngestion'
<1>1. PICK listed \in SUBSET remote :
        Update(p, [attempt[p] EXCEPT !.phase = "counting", !.listed = listed])
  BY DEF ListDocuments
<1> DEFINE a == attempt[p]
           next == [a EXCEPT !.phase = "counting", !.listed = listed]
<1>0. SoundAttempt(a, remote) /\ SoundWorld /\ SoundWorld' /\ remote' = remote
      /\ a.phase = "listing"
  BY DEF SoundIngestion, SoundWorld, ListDocuments, world, file
<1>2. /\ next \in Attempt /\ next.phase = "counting" /\ next.polls = a.polls
      /\ next.done = a.done /\ next.listed = listed
      /\ next.task = a.task /\ next.pending = a.pending
  BY <1>0 DEF SoundAttempt, SoundWorld, Attempt, Phases, Inspecting
<1>3. Update(p, next)
  BY <1>1
<1> HIDE DEF a, next
<1>4. SoundAttempt(next, remote)
  BY <1>0, <1>2 DEF SoundAttempt, DocumentsOf, Inspecting
<1>5. QED
  BY <1>0, <1>3, <1>4, OneAttemptMovesAlone

\* The verdict is ready only when the namespace is the corpus, and otherwise
\* counts one poll more; a contradictory count ends the attempt.
LEMMA CountDocumentsIsSound ==
  ASSUME SoundIngestion, NEW p \in Ingesters, CountDocuments(p)
  PROVE  SoundIngestion'
<1> DEFINE a == attempt[p]
           failed == [a EXCEPT !.phase = "failed"]
           ready == [a EXCEPT !.phase = "ready"]
           next == Polled(a)
<1>0. SoundAttempt(a, remote) /\ SoundWorld /\ SoundWorld' /\ remote' = remote
      /\ a.phase = "counting"
  BY DEF SoundIngestion, SoundWorld, CountDocuments, world, file
<1>1. /\ ready \in Attempt /\ ready.phase = "ready" /\ ready.polls = a.polls
      /\ ready.done = a.done /\ ready.listed = a.listed
      /\ ready.task = a.task /\ ready.pending = a.pending
  BY <1>0 DEF SoundAttempt, Attempt, Phases, Ended
<1>2. /\ failed \in Attempt /\ failed.phase = "failed" /\ failed.polls = a.polls
      /\ failed.done = a.done /\ failed.listed = a.listed
      /\ failed.task = a.task /\ failed.pending = a.pending
  BY <1>0 DEF SoundAttempt, Attempt, Phases, Ended
<1>3. a.polls < ReadinessAttempts /\ a.polls \in 0..ReadinessAttempts
      /\ ReadinessAttempts \in Nat
  BY <1>0, IngestionAssumption DEF SoundAttempt, Attempt
<1>4. /\ next \in Attempt /\ next.polls = a.polls + 1
      /\ next.phase = IF a.polls + 1 < ReadinessAttempts THEN "polling" ELSE "failed"
      /\ next.done = a.done /\ next.listed = {}
      /\ next.task = a.task /\ next.pending = a.pending
  <2>1. a \in Attempt /\ a.polls + 1 \in 0..ReadinessAttempts
    BY <1>0, <1>3 DEF SoundAttempt
  <2>2. CASE a.polls + 1 < ReadinessAttempts
    BY <2>1, <2>2 DEF Attempt, Phases, Inspecting, Polled
  <2>3. CASE ~(a.polls + 1 < ReadinessAttempts)
    BY <2>1, <2>3 DEF Attempt, Phases, Ended, Polled
  <2>4. QED
    BY <2>1, <2>2, <2>3
<1>5. \/ /\ Cardinality(remote) = Size /\ a.listed = Corpus
         /\ Update(p, ready)
      \/ Update(p, failed)
      \/ Update(p, next)
  BY DEF CountDocuments, IsReady
<1> HIDE DEF a, failed, ready, next
<1>6. ASSUME Cardinality(remote) = Size, a.listed = Corpus
      PROVE  SoundAttempt(ready, remote)
  <2>1. remote = Corpus
    BY <1>0, <1>6, CorpusIsAll DEF SoundAttempt, SoundWorld
  <2>2. QED
    BY <1>0, <1>1, <2>1 DEF SoundAttempt, DocumentsOf, Inspecting
<1>7. SoundAttempt(failed, remote)
  BY <1>0, <1>2 DEF SoundAttempt, DocumentsOf, Inspecting
<1>8. SoundAttempt(next, remote)
  BY <1>0, <1>3, <1>4 DEF SoundAttempt, DocumentsOf, Inspecting
<1>9. QED
  BY <1>0, <1>5, <1>6, <1>7, <1>8, OneAttemptMovesAlone

-----------------------------------------------------------------------------
(* Starting and stopping, and the world outside.                           *)

\* A command resumes from the checkpoint, or stops with requests on the way.
LEMMA StartAndStopAreSound ==
  ASSUME SoundIngestion, NEW p \in Ingesters, Start(p) \/ Stop(p)
  PROVE  SoundIngestion'
<1>0. SoundWorld
  BY DEF SoundIngestion
<1>1. CASE Start(p)
  <2>1. SoundWorld' /\ remote' = remote
    BY <1>0, <1>1 DEF SoundWorld, Start, world, file
  <2>2. SoundAttempt(Resumed, remote)
    BY <1>0, ResumedIsSound DEF SoundWorld
  <2>3. QED
    BY <1>1, <2>1, <2>2, OneAttemptMovesAlone DEF Start
<1>2. CASE Stop(p)
  <2>1. attempt[p] \in Attempt
    BY DEF SoundIngestion
  <2>2. {DocumentsOf(attempt[p], b) : b \in InState(attempt[p], {"writing"})}
          \in SUBSET SUBSET Corpus
    BY <2>1, BatchesAreDocuments
  <2>3. faults' \in 0..MaxFaults
    BY <1>0, <1>2, IngestionAssumption DEF SoundWorld, Stop, Fault
  <2>4. SoundWorld' /\ remote' = remote
    BY <1>0, <1>2, <2>2, <2>3 DEF SoundWorld, Stop, file
  <2>5. QED
    BY <1>2, <2>4, NoAttemptIsSound, OneAttemptMovesAlone DEF Stop
<1>3. QED
  BY <1>1, <1>2

\* A request that lands late, and an index that catches up.
LEMMA WorldStepIsSound ==
  ASSUME SoundIngestion, LateWrite \/ IndexCatchesUp
  PROVE  SoundIngestion'
<1>0. SoundWorld /\ attempt' = attempt
  BY DEF SoundIngestion, LateWrite, IndexCatchesUp
<1>1. CASE LateWrite
  <2>1. PICK batch \in sent : Lands(batch) /\ sent' = sent \ {batch}
    BY <1>1 DEF LateWrite
  <2>2. batch \in SUBSET Corpus
    BY <1>0 DEF SoundWorld
  <2>3. remote' = remote \union batch /\ SoundWorld'
    BY <1>0, <1>1, <2>1, <2>2 DEF SoundWorld, LateWrite, Lands, file
  <2>4. \A p \in Ingesters : SoundAttempt(attempt[p], remote')
    BY <2>2, <2>3, UpsertKeepsSound DEF SoundIngestion
  <2>5. QED
    BY <1>0, <2>3, <2>4 DEF SoundIngestion
<1>2. CASE IndexCatchesUp
  BY <1>0, <1>2 DEF IndexCatchesUp, SoundIngestion, SoundWorld, file
<1>3. QED
  BY <1>1, <1>2

-----------------------------------------------------------------------------
(* The theorems.                                                           *)

\* The first state is sound: nothing is recorded and nobody runs.
LEMMA SoundFirst == IngestInit => SoundIngestion
<1> SUFFICES ASSUME IngestInit PROVE SoundIngestion
  OBVIOUS
<1>1. SoundWorld
  BY IngestionAssumption DEF IngestInit, SoundWorld
<1>2. attempt \in [Ingesters -> Attempt]
  BY NoAttemptIsTyped DEF IngestInit
<1>3. \A p \in Ingesters : SoundAttempt(attempt[p], remote)
  BY NoAttemptIsSound DEF IngestInit
<1>4. QED
  BY <1>1, <1>2, <1>3 DEF SoundIngestion

\* Every step keeps ingestion sound.
LEMMA SoundNext == SoundIngestion /\ [IngestNext]_ingestVars => SoundIngestion'
<1> SUFFICES ASSUME SoundIngestion, [IngestNext]_ingestVars PROVE SoundIngestion'
  OBVIOUS
<1>1. ASSUME NEW p \in Ingesters, Start(p) \/ Stop(p) PROVE SoundIngestion'
  BY <1>1, StartAndStopAreSound
<1>2. ASSUME NEW p \in Ingesters, LoopStep(p) PROVE SoundIngestion'
  <2>1. CASE StartWave(p)
    BY <2>1, StartWaveIsSound
  <2>2. CASE SettleWave(p) \/ EndWave(p)
    BY <2>2, TurnOfWaveIsSound
  <2>3. ASSUME NEW b \in Slots, OutcomeFailed(p, b) \/ OutcomeSaved(p, b) \/ SaveFails(p, b)
        PROVE  SoundIngestion'
    BY <2>3, OutcomeFailedIsSound, OutcomeSavedIsSound
  <2>4. CASE Inspect(p) \/ InspectionFails(p)
    BY <2>4, InspectIsSound
  <2>5. CASE ListDocuments(p) \/ CountDocuments(p)
    BY <2>5, ListDocumentsIsSound, CountDocumentsIsSound
  <2>6. QED
    BY <1>2, <2>1, <2>2, <2>3, <2>4, <2>5 DEF LoopStep
<1>3. ASSUME NEW p \in Ingesters, NEW b \in Slots, BatchStep(p, b) PROVE SoundIngestion'
  BY <1>3, BatchStepIsSound
<1>4. CASE LateWrite \/ IndexCatchesUp
  BY <1>4, WorldStepIsSound
<1>5. CASE UNCHANGED ingestVars
  BY <1>5 DEF ingestVars, world, file, SoundIngestion, SoundWorld
<1>6. QED
  BY <1>1, <1>2, <1>3, <1>4, <1>5 DEF IngestNext

\* Ingestion is sound throughout: the inductive invariant.
THEOREM IngestionIsSound == IngestSpec => []SoundIngestion
BY SoundFirst, SoundNext, PTL DEF IngestSpec

\* Namespace, checkpoint and attempts keep their types.
THEOREM IngestionIsTyped == IngestSpec => []IngestTypeOK
<1>1. SoundIngestion => IngestTypeOK
  BY DEF SoundIngestion, SoundWorld, IngestTypeOK
<1>2. QED
  BY <1>1, IngestionIsSound, PTL

\* The checkpoint file never names a document the namespace does not hold,
\* with any number of commands overwriting it and stopped anywhere.
THEOREM CheckpointNamesWritten == IngestSpec => []CheckpointedIsWritten
<1>1. SoundIngestion => CheckpointedIsWritten
  BY DEF SoundIngestion, SoundWorld, CheckpointedIsWritten
<1>2. QED
  BY <1>1, IngestionIsSound, PTL

\* An attempt that reported readiness stays right: the namespace is the corpus.
THEOREM ReadinessIsExact == IngestSpec => []ReadyIsExact
<1>1. SoundIngestion => ReadyIsExact
  BY DEF SoundIngestion, SoundAttempt, ReadyIsExact
<1>2. QED
  BY <1>1, IngestionIsSound, PTL

-----------------------------------------------------------------------------
(* No wave is skipped.                                                     *)

\* A set of numbers has a least one.
LEMMA LeastNumber ==
  ASSUME NEW T, T \subseteq Nat, T # {}
  PROVE  \E m \in T : \A k \in T : m <= k
<1>1. PICK m \in T : \A k \in T : ~(<<k, m>> \in OpToRel(<, Nat))
  BY NatLessThanWellFounded, WFMin
<1>2. \A k \in T : ~(k < m)
  BY <1>1 DEF OpToRel
<1>3. QED
  BY <1>2

\* And a greatest one when they are documents of the corpus.
LEMMA LastDocument ==
  ASSUME NEW T, T \subseteq Corpus, T # {}
  PROVE  \E f \in T : \A k \in T : k <= f
<1> DEFINE U == {Size - k : k \in T}
<1>0. Size \in Nat /\ \A k \in T : k \in Nat /\ Size - k \in Nat
  BY IngestionAssumption DEF Corpus
<1>1. U \subseteq Nat /\ U # {}
  BY <1>0
<1>2. PICK m \in U : \A u \in U : m <= u
  BY <1>1, LeastNumber
<1>3. PICK f \in T : m = Size - f
  BY <1>2
<1>4. ASSUME NEW k \in T PROVE k <= f
  <2>1. Size - f <= Size - k
    BY <1>2, <1>3
  <2>2. QED
    BY <1>0, <2>1
<1>5. QED
  BY <1>3, <1>4

WaveOf(S, d) == BatchOf(S, d) \div MaxConcurrency

\* A document has a batch among the slots, and a wave.
LEMMA DocumentsHaveSlots ==
  ASSUME NEW S, S \subseteq Corpus, NEW d \in S
  PROVE  /\ IsFiniteSet({e \in S : e < d}) /\ Rank(S, d) \in Nat
         /\ BatchOf(S, d) \in Slots /\ WaveOf(S, d) \in Nat
<1> DEFINE below == {e \in S : e < d}
<1>1. IsFiniteSet(Corpus) /\ Cardinality(Corpus) = Size
  BY FS_Interval, IngestionAssumption DEF Corpus
<1>2. below \subseteq Corpus /\ d \in Corpus /\ d \notin below
  <2>1. d \in Int /\ ~(d < d)
    BY DEF Corpus
  <2>2. QED
    BY <2>1
<1>3. IsFiniteSet(below) /\ Cardinality(below) \in Nat /\ Cardinality(below) < Size
  BY <1>1, <1>2, FS_Subset, FS_CardinalityType
<1>4. \A r, n \in Nat : n # 0 => r \div n \in Nat /\ r \div n <= r
  OBVIOUS
<1>5. Rank(S, d) \in Nat /\ Rank(S, d) < Size
  BY <1>3 DEF Rank
<1>6. BatchOf(S, d) \in Nat /\ BatchOf(S, d) <= Rank(S, d)
  BY <1>4, <1>5, IngestionAssumption DEF BatchOf
<1>7. BatchOf(S, d) \in Slots
  BY <1>5, <1>6, IngestionAssumption DEF Slots
<1>8. WaveOf(S, d) \in Nat
  BY <1>4, <1>6, IngestionAssumption DEF WaveOf
<1>9. QED
  BY <1>3, <1>5, <1>7, <1>8

\* The next number is in the same batch or in the next one, and likewise for
\* batches and waves.
LEMMA NextQuotient ==
  ASSUME NEW r \in Nat, NEW q \in Nat, q <= r + 1, NEW n \in Nat \ {0}
  PROVE  q \div n <= (r \div n) + 1
<1>1. (r + 1) \div n <= (r \div n) + 1
  OBVIOUS
<1>2. q \div n <= (r + 1) \div n
  OBVIOUS
<1>3. q \div n \in Int /\ (r + 1) \div n \in Int /\ r \div n \in Int
  OBVIOUS
<1>4. QED
  BY <1>1, <1>2, <1>3

\* When no document is in a wave, none is in a later one: the loop that stops
\* at the first empty wave has seen every pending document.
LEMMA EmptyWaveIsLast ==
  ASSUME NEW S, S \subseteq Corpus, NEW w \in Nat, \A d \in S : WaveOf(S, d) # w
  PROVE  \A d \in S : WaveOf(S, d) < w
<1>0. \A e \in S : /\ e \in Nat /\ Rank(S, e) \in Nat
                   /\ BatchOf(S, e) \in Nat /\ WaveOf(S, e) \in Nat
  <2>1. TAKE e \in S
  <2>2. e \in Nat
    BY DEF Corpus
  <2>3. Rank(S, e) \in Nat /\ BatchOf(S, e) \in Slots /\ WaveOf(S, e) \in Nat
    BY DocumentsHaveSlots
  <2>4. \A k \in Slots : k \in Nat
    BY DEF Slots
  <2>5. QED
    BY <2>2, <2>3, <2>4
<1> SUFFICES ASSUME NEW d \in S, ~(WaveOf(S, d) < w) PROVE FALSE
  OBVIOUS
<1> DEFINE T == {e \in S : w <= WaveOf(S, e)}
<1>1. T # {} /\ T \subseteq Nat
  <2>1. d \in T
    BY <1>0
  <2>2. QED
    BY <1>0, <2>1
<1>2. PICK m \in T : \A k \in T : m <= k
  BY <1>1, LeastNumber
<1>3. m \in S /\ w <= WaveOf(S, m) /\ WaveOf(S, m) # w
  BY <1>2
<1> DEFINE below == {e \in S : e < m}
<1>4. below # {}
  <2>1. SUFFICES ASSUME below = {} PROVE FALSE
    OBVIOUS
  <2>2. Rank(S, m) = 0
    BY <2>1, FS_EmptySet DEF Rank
  <2>3. 0 \div BatchSize = 0 /\ 0 \div MaxConcurrency = 0
    BY IngestionAssumption
  <2>4. WaveOf(S, m) = 0
    BY <2>2, <2>3 DEF WaveOf, BatchOf
  <2>5. QED
    BY <1>3, <2>4
<1>5. PICK f \in below : \A k \in below : k <= f
  BY <1>4, LastDocument
<1>6. f \in S /\ f < m
  BY <1>5
<1>7. below = {e \in S : e < f} \union {f} /\ f \notin {e \in S : e < f}
  <2>1. ASSUME NEW e \in S PROVE e < m <=> e < f \/ e = f
    BY <1>0, <1>3, <1>5, <1>6
  <2>2. QED
    BY <1>0, <1>6, <2>1
<1>8. Rank(S, m) = Rank(S, f) + 1
  <2>1. IsFiniteSet({e \in S : e < f})
    BY <1>6, DocumentsHaveSlots
  <2>2. QED
    BY <1>7, <2>1, FS_AddElement DEF Rank
<1>9. BatchOf(S, m) <= BatchOf(S, f) + 1
  <2>1. Rank(S, m) <= Rank(S, f) + 1
    BY <1>0, <1>6, <1>8
  <2>2. QED
    BY <1>0, <1>3, <1>6, <2>1, NextQuotient, IngestionAssumption DEF BatchOf
<1>10. WaveOf(S, m) <= WaveOf(S, f) + 1
  BY <1>0, <1>3, <1>6, <1>9, NextQuotient, IngestionAssumption DEF WaveOf
<1>11. WaveOf(S, f) < w
  <2>1. ~(w <= WaveOf(S, f))
    <3>1. SUFFICES ASSUME w <= WaveOf(S, f) PROVE FALSE
      OBVIOUS
    <3>2. f \in T
      BY <1>6, <3>1
    <3>3. m <= f
      BY <1>2, <3>2
    <3>4. QED
      BY <1>0, <1>3, <1>6, <3>3
  <2>2. QED
    BY <1>0, <1>6, <2>1
<1>12. QED
  BY <1>0, <1>3, <1>6, <1>10, <1>11

-----------------------------------------------------------------------------
(* Every pending document is on the record once the loop ends.             *)

\* What an attempt has on its record before it verifies: every document of an
\* earlier wave, and those of the present wave as their batches are settled.
\* A confirmed document is on the record, or its outcome still has to be visited.
CompleteAttempt(a) ==
  /\ a.phase \in {"starting", "waiting", "settling"} =>
       /\ Corpus \subseteq a.pending \union a.done
       /\ \A d \in a.pending : WaveOf(a.pending, d) < a.wave => d \in a.done
  /\ a.phase \in {"waiting", "settling"} =>
       \A d \in a.pending : WaveOf(a.pending, d) = a.wave =>
         /\ a.task[BatchOf(a.pending, d)] # "waiting"
         /\ a.task[BatchOf(a.pending, d)] = "settled" =>
              a.phase = "settling" /\ (a.failure \/ d \in a.done)
  /\ a.phase \in Inspecting \union {"ready"} => a.done = Corpus
  /\ \A d \in a.confirmed :
       d \in a.done \/ (d \in a.pending /\ a.task[BatchOf(a.pending, d)] = "written")

CompleteIngestion == SoundIngestion /\ \A p \in Ingesters : CompleteAttempt(attempt[p])

\* An attempt depends on nobody else for its record.
LEMMA OneAttemptStaysComplete ==
  ASSUME CompleteIngestion, NEW p \in Ingesters, NEW a, Update(p, a), CompleteAttempt(a)
  PROVE  \A q \in Ingesters : CompleteAttempt(attempt'[q])
<1>1. ASSUME NEW q \in Ingesters PROVE attempt'[q] = IF q = p THEN a ELSE attempt[q]
  BY DEF CompleteIngestion, SoundIngestion, Update
<1>2. QED
  BY <1>1 DEF CompleteIngestion

\* An attempt that has ended owes nothing, and one that resumes has every
\* document either on its record or pending.
LEMMA FreshAttemptIsComplete ==
  /\ CompleteAttempt(NoAttempt)
  /\ saved \in SUBSET Corpus => CompleteAttempt(Resumed)
<1>1. CompleteAttempt(NoAttempt)
  BY NoAttemptIsTyped DEF CompleteAttempt, Inspecting
<1>2. /\ Resumed.phase = "starting" /\ Resumed.pending = Corpus \ saved
      /\ Resumed.done = saved /\ Resumed.wave = 0 /\ Resumed.confirmed = {}
  BY NoAttemptIsTyped DEF Resumed, NoAttempt
<1>3. \A d \in Corpus \ saved : ~(WaveOf(Corpus \ saved, d) < 0)
  <2>1. Corpus \ saved \subseteq Corpus
    OBVIOUS
  <2>2. \A d \in Corpus \ saved : WaveOf(Corpus \ saved, d) \in Nat
    BY <2>1, DocumentsHaveSlots
  <2>3. QED
    BY <2>2
<1>4. QED
  BY <1>1, <1>2, <1>3 DEF CompleteAttempt, Inspecting

\* What holds of every attempt.
LEMMA AttemptHolds ==
  ASSUME CompleteIngestion, NEW p \in Ingesters
  PROVE  /\ attempt[p] \in Attempt /\ SoundAttempt(attempt[p], remote) /\ CompleteAttempt(attempt[p])
         /\ attempt[p].pending \subseteq Corpus /\ attempt[p].done \subseteq Corpus
         /\ attempt[p].wave \in Nat
BY DEF CompleteIngestion, SoundIngestion, Attempt

LEMMA BatchStepKeepsComplete ==
  ASSUME CompleteIngestion, NEW p \in Ingesters, NEW b \in Slots, BatchStep(p, b)
  PROVE  \A q \in Ingesters : CompleteAttempt(attempt'[q])
<1> DEFINE a == attempt[p]
           grown == a.confirmed \union DocumentsOf(a, b)
<1>1. /\ a \in Attempt /\ CompleteAttempt(a) /\ a.specified \in BOOLEAN
      /\ a.confirmed \in SUBSET Corpus /\ grown \in SUBSET Corpus
  BY AttemptHolds, BatchesAreDocuments DEF Attempt
<1>2. a.phase = "waiting" /\ a.task[b] # "written"
  BY <1>1, BatchMoves
<1>3. ASSUME NEW state \in {"writing", "refused", "written"}, NEW specified \in BOOLEAN,
             NEW confirmed \in SUBSET Corpus,
             Update(p, TaskMoved(a, b, state, specified, confirmed)),
             \/ state = "written" /\ confirmed = grown
             \/ state # "written" /\ confirmed = a.confirmed
      PROVE  \A q \in Ingesters : CompleteAttempt(attempt'[q])
  <2> DEFINE next == TaskMoved(a, b, state, specified, confirmed)
  <2>1. /\ next.phase = "waiting" /\ next.pending = a.pending /\ next.done = a.done
        /\ next.wave = a.wave /\ next.failure = a.failure /\ next.confirmed = confirmed
        /\ \A k \in Slots : next.task[k] = IF k = b THEN state ELSE a.task[k]
    BY <1>1, <1>2, TaskMovedFields DEF TaskStates
  <2>2. Update(p, next)
    BY <1>3
  <2> HIDE DEF next
  <2>3. \A d \in a.pending : BatchOf(a.pending, d) \in Slots
    BY <1>1, DocumentsHaveSlots DEF Attempt
  <2>4. ASSUME NEW d \in next.confirmed
        PROVE  d \in next.done
               \/ (d \in next.pending /\ next.task[BatchOf(next.pending, d)] = "written")
    <3>1. CASE d \in a.confirmed
      <4>1. d \in a.done \/ (d \in a.pending /\ a.task[BatchOf(a.pending, d)] = "written")
        BY <1>1, <3>1 DEF CompleteAttempt
      <4>2. QED
        BY <1>2, <2>1, <2>3, <4>1
    <3>2. CASE d \in DocumentsOf(a, b) /\ state = "written"
      BY <2>1, <3>2 DEF DocumentsOf
    <3>3. QED
      BY <1>3, <2>1, <3>1, <3>2
  <2>5. CompleteAttempt(next)
    BY <1>1, <1>2, <1>3, <2>1, <2>3, <2>4 DEF CompleteAttempt, Inspecting
  <2>6. QED
    BY <2>2, <2>5, OneAttemptStaysComplete
<1>4. QED
  BY <1>1, <1>3, BatchMoves

LEMMA StartWaveKeepsComplete ==
  ASSUME CompleteIngestion, NEW p \in Ingesters, StartWave(p)
  PROVE  \A q \in Ingesters : CompleteAttempt(attempt'[q])
<1> DEFINE a == attempt[p]
           started == [a EXCEPT !.phase = "waiting",
             !.task = [b \in Slots |-> IF b \in Wave(a) THEN "embedding" ELSE @[b]]]
           over == [a EXCEPT !.phase = "polling"]
<1>1. /\ a \in Attempt /\ CompleteAttempt(a) /\ a.pending \subseteq Corpus
      /\ a.done \subseteq Corpus /\ a.wave \in Nat /\ SoundAttempt(a, remote)
  BY AttemptHolds
<1>2. /\ a.phase = "starting"
      /\ IF Wave(a) = {} THEN Update(p, over) ELSE Update(p, started)
  BY DEF StartWave
<1>3. /\ over.phase = "polling" /\ over.done = a.done
      /\ over.confirmed = a.confirmed
  BY <1>1 DEF Attempt
<1>4. /\ started.phase = "waiting" /\ started.pending = a.pending /\ started.done = a.done
      /\ started.wave = a.wave /\ started.confirmed = a.confirmed
      /\ \A b \in Slots : b \in Wave(a) => started.task[b] = "embedding"
  BY <1>1 DEF Attempt
<1> HIDE DEF a, started, over
<1>5. ASSUME NEW d \in a.pending
      PROVE  WaveOf(a.pending, d) = a.wave <=> BatchOf(a.pending, d) \in Wave(a)
  BY DEF WaveOf, Wave, Batches
<1>6. \A d \in a.pending : BatchOf(a.pending, d) \in Slots
  BY <1>1, DocumentsHaveSlots
<1>7. a.confirmed \subseteq a.done
  BY <1>1, <1>2, <1>6 DEF SoundAttempt, CompleteAttempt
<1>8. CASE Wave(a) = {}
  <2>1. \A d \in a.pending : WaveOf(a.pending, d) < a.wave
    BY <1>1, <1>5, <1>8, EmptyWaveIsLast
  <2>2. a.done = Corpus
    BY <1>1, <1>2, <2>1 DEF CompleteAttempt
  <2>3. CompleteAttempt(over)
    BY <1>3, <1>7, <2>2 DEF CompleteAttempt, Inspecting
  <2>4. QED
    BY <1>2, <1>8, <2>3, OneAttemptStaysComplete
<1>9. CASE Wave(a) # {}
  <2>1. CompleteAttempt(started)
    BY <1>1, <1>2, <1>4, <1>5, <1>6, <1>7 DEF CompleteAttempt, Inspecting
  <2>2. QED
    BY <1>2, <1>9, <2>1, OneAttemptStaysComplete
<1>10. QED
  BY <1>8, <1>9

LEMMA SettleWaveKeepsComplete ==
  ASSUME CompleteIngestion, NEW p \in Ingesters, SettleWave(p)
  PROVE  \A q \in Ingesters : CompleteAttempt(attempt'[q])
<1> DEFINE a == attempt[p]
           next == [a EXCEPT !.phase = "settling"]
<1>1. a \in Attempt /\ CompleteAttempt(a)
  BY AttemptHolds
<1>2. a.phase = "waiting" /\ Update(p, next)
  BY DEF SettleWave
<1>3. /\ next.phase = "settling" /\ next.pending = a.pending /\ next.done = a.done
      /\ next.wave = a.wave /\ next.failure = a.failure /\ next.task = a.task
      /\ next.confirmed = a.confirmed
  BY <1>1 DEF Attempt
<1> HIDE DEF a, next
<1>4. CompleteAttempt(next)
  BY <1>1, <1>2, <1>3 DEF CompleteAttempt, Inspecting
<1>5. QED
  BY <1>2, <1>4, OneAttemptStaysComplete

LEMMA OutcomeKeepsComplete ==
  ASSUME CompleteIngestion, NEW p \in Ingesters, NEW b \in Slots,
         OutcomeFailed(p, b) \/ OutcomeSaved(p, b) \/ SaveFails(p, b)
  PROVE  \A q \in Ingesters : CompleteAttempt(attempt'[q])
<1> DEFINE a == attempt[p]
           failed == [a EXCEPT !.task[b] = "settled", !.failure = TRUE]
           saving == Confirmed(a, b)
           last == [Confirmed(a, b) EXCEPT !.phase = "unsaved"]
<1>1. a \in Attempt /\ CompleteAttempt(a) /\ a.pending \subseteq Corpus
  BY AttemptHolds
<1>2. /\ a.phase = "settling"
      /\ \/ a.task[b] = "refused" /\ Update(p, failed)
         \/ Update(p, saving) \/ Update(p, last)
  BY DEF OutcomeFailed, OutcomeSaved, SaveFails, NextOutcome
<1>3. /\ failed.phase = "settling" /\ failed.pending = a.pending /\ failed.done = a.done
      /\ failed.wave = a.wave /\ failed.failure /\ failed.confirmed = a.confirmed
      /\ \A k \in Slots : failed.task[k] = IF k = b THEN "settled" ELSE a.task[k]
  BY <1>1, <1>2 DEF Attempt
<1>4. /\ saving.phase = "settling" /\ saving.pending = a.pending
      /\ saving.done = a.done \union DocumentsOf(a, b)
      /\ saving.wave = a.wave /\ saving.failure = a.failure /\ saving.confirmed = a.confirmed
      /\ \A k \in Slots : saving.task[k] = IF k = b THEN "settled" ELSE a.task[k]
  BY <1>1, <1>2 DEF Attempt, Confirmed
<1>5. /\ last.phase = "unsaved" /\ last.pending = saving.pending /\ last.done = saving.done
      /\ last.task = saving.task /\ last.confirmed = saving.confirmed
  BY <1>1 DEF Attempt, Confirmed
<1> HIDE DEF a, failed, saving, last
<1>6. \A d \in a.pending : BatchOf(a.pending, d) \in Slots
  BY <1>1, DocumentsHaveSlots
<1>7. a.task[b] = "refused" => CompleteAttempt(failed)
  BY <1>1, <1>2, <1>3, <1>6 DEF CompleteAttempt, Inspecting
<1>8. CompleteAttempt(saving)
  BY <1>1, <1>2, <1>4, <1>6 DEF CompleteAttempt, Inspecting, DocumentsOf
<1>9. CompleteAttempt(last)
  BY <1>5, <1>8 DEF CompleteAttempt, Inspecting
<1>10. QED
  BY <1>2, <1>7, <1>8, <1>9, OneAttemptStaysComplete

LEMMA EndWaveKeepsComplete ==
  ASSUME CompleteIngestion, NEW p \in Ingesters, EndWave(p)
  PROVE  \A q \in Ingesters : CompleteAttempt(attempt'[q])
<1> DEFINE a == attempt[p]
           next == [a EXCEPT !.phase = IF a.failure THEN "failed" ELSE "starting",
                             !.wave = IF a.failure THEN @ ELSE @ + 1]
<1>1. /\ a \in Attempt /\ CompleteAttempt(a) /\ a.pending \subseteq Corpus
      /\ a.wave \in Nat /\ SoundAttempt(a, remote)
  BY AttemptHolds
<1>2. a.phase = "settling" /\ InState(a, {"written", "refused"}) = {} /\ Update(p, next)
  BY DEF EndWave
<1>3. /\ next.phase = IF a.failure THEN "failed" ELSE "starting"
      /\ next.pending = a.pending /\ next.done = a.done /\ next.confirmed = a.confirmed
      /\ ~a.failure => next.wave = a.wave + 1
  BY <1>1 DEF Attempt
<1>4. \A d \in a.pending : BatchOf(a.pending, d) \in Slots /\ WaveOf(a.pending, d) \in Nat
  BY <1>1, DocumentsHaveSlots
<1> HIDE DEF a, next
<1>5. a.confirmed \subseteq a.done
  BY <1>1, <1>2, <1>4 DEF InState, CompleteAttempt
<1>6. CASE a.failure
  <2>1. CompleteAttempt(next)
    BY <1>3, <1>6, <1>5 DEF CompleteAttempt, Inspecting
  <2>2. QED
    BY <1>2, <2>1, OneAttemptStaysComplete
<1>7. CASE ~a.failure
  <2>1. ASSUME NEW d \in a.pending, WaveOf(a.pending, d) < a.wave + 1 PROVE d \in a.done
    <3>1. CASE WaveOf(a.pending, d) < a.wave
      BY <1>1, <1>2, <3>1 DEF CompleteAttempt
    <3>2. CASE WaveOf(a.pending, d) = a.wave
      <4>1. a.task[BatchOf(a.pending, d)] \in TaskStates
        BY <1>1, <1>4 DEF Attempt
      <4>2. a.task[BatchOf(a.pending, d)] \notin {"waiting", "embedding", "writing", "written", "refused"}
        BY <1>1, <1>2, <1>4, <3>2 DEF CompleteAttempt, SoundAttempt, InState
      <4>3. a.task[BatchOf(a.pending, d)] = "settled"
        BY <4>1, <4>2 DEF TaskStates
      <4>4. QED
        BY <1>1, <1>2, <1>7, <3>2, <4>3 DEF CompleteAttempt
    <3>3. QED
      BY <1>1, <1>4, <2>1, <3>1, <3>2
  <2>2. CompleteAttempt(next)
    BY <1>1, <1>2, <1>3, <1>7, <1>5, <2>1 DEF CompleteAttempt, Inspecting
  <2>3. QED
    BY <1>2, <2>2, OneAttemptStaysComplete
<1>8. QED
  BY <1>6, <1>7

RecordKept(a, next) ==
  /\ next.done = a.done /\ next.confirmed = a.confirmed
  /\ next.pending = a.pending /\ next.task = a.task

\* Verifying takes nothing off the record.
LEMMA InspectionKeepsComplete ==
  ASSUME CompleteIngestion, NEW p \in Ingesters,
         Inspect(p) \/ ListDocuments(p) \/ CountDocuments(p) \/ InspectionFails(p)
  PROVE  \A q \in Ingesters : CompleteAttempt(attempt'[q])
<1> DEFINE a == attempt[p]
<1>1. a \in Attempt /\ CompleteAttempt(a)
  BY AttemptHolds
<1>2. PICK next : /\ Update(p, next) /\ a.phase \in Inspecting
                  /\ next.phase \in Inspecting \union {"ready", "failed"}
                  /\ RecordKept(a, next)
  <2> DEFINE seen == [a EXCEPT !.phase = "listing", !.covered = indexed]
             failed == [a EXCEPT !.phase = "failed"]
             ready == [a EXCEPT !.phase = "ready"]
  <2>1. /\ seen.phase = "listing" /\ RecordKept(a, seen)
        /\ failed.phase = "failed" /\ RecordKept(a, failed)
        /\ ready.phase = "ready" /\ RecordKept(a, ready)
        /\ Polled(a).phase \in {"polling", "failed"} /\ RecordKept(a, Polled(a))
    BY <1>1 DEF Attempt, Polled, RecordKept
  <2>2. ASSUME NEW listed
        PROVE  LET l == [a EXCEPT !.phase = "counting", !.listed = listed]
               IN  l.phase = "counting" /\ RecordKept(a, l)
    BY <1>1 DEF Attempt, RecordKept
  <2>3. a.phase \in Inspecting
    BY DEF Inspect, ListDocuments, CountDocuments, InspectionFails, Inspecting
  <2>4. CASE ListDocuments(p)
    <3>1. PICK listed : Update(p, [a EXCEPT !.phase = "counting", !.listed = listed])
      BY <2>4 DEF ListDocuments
    <3> DEFINE l == [a EXCEPT !.phase = "counting", !.listed = listed]
    <3>2. Update(p, l) /\ l.phase = "counting" /\ RecordKept(a, l)
      BY <2>2, <3>1
    <3> HIDE DEF a, l
    <3>3. QED
      BY <2>3, <3>2 DEF Inspecting
  <2>5. CASE Inspect(p) \/ CountDocuments(p) \/ InspectionFails(p)
    <3>1. Update(p, seen) \/ Update(p, failed) \/ Update(p, ready) \/ Update(p, Polled(a))
      BY <2>5 DEF Inspect, CountDocuments, InspectionFails
    <3> HIDE DEF a, seen, failed, ready
    <3>2. QED
      BY <2>1, <2>3, <3>1 DEF Inspecting
  <2>6. QED
    BY <2>4, <2>5
<1> HIDE DEF a
<1>3. CompleteAttempt(next)
  BY <1>1, <1>2 DEF CompleteAttempt, Inspecting, RecordKept
<1>4. QED
  BY <1>2, <1>3, OneAttemptStaysComplete

LEMMA CompleteNext == CompleteIngestion /\ [IngestNext]_ingestVars => CompleteIngestion'
<1> SUFFICES ASSUME CompleteIngestion, [IngestNext]_ingestVars PROVE CompleteIngestion'
  OBVIOUS
<1>0. SoundIngestion'
  BY SoundNext DEF CompleteIngestion
<1> SUFFICES \A q \in Ingesters : CompleteAttempt(attempt'[q])
  BY <1>0 DEF CompleteIngestion
<1>1. ASSUME NEW p \in Ingesters, Start(p) \/ Stop(p)
      PROVE  \A q \in Ingesters : CompleteAttempt(attempt'[q])
  <2>1. saved \in SUBSET Corpus
    BY DEF CompleteIngestion, SoundIngestion, SoundWorld
  <2>2. Update(p, Resumed) \/ Update(p, NoAttempt)
    BY <1>1 DEF Start, Stop
  <2>3. QED
    BY <2>1, <2>2, FreshAttemptIsComplete, OneAttemptStaysComplete
<1>2. ASSUME NEW p \in Ingesters, LoopStep(p)
      PROVE  \A q \in Ingesters : CompleteAttempt(attempt'[q])
  BY <1>2, StartWaveKeepsComplete, SettleWaveKeepsComplete, EndWaveKeepsComplete,
     OutcomeKeepsComplete, InspectionKeepsComplete DEF LoopStep
<1>3. ASSUME NEW p \in Ingesters, NEW b \in Slots, BatchStep(p, b)
      PROVE  \A q \in Ingesters : CompleteAttempt(attempt'[q])
  BY <1>3, BatchStepKeepsComplete
<1>4. CASE LateWrite \/ IndexCatchesUp \/ UNCHANGED ingestVars
  BY <1>4 DEF LateWrite, IndexCatchesUp, ingestVars, CompleteIngestion
<1>5. QED
  BY <1>1, <1>2, <1>3, <1>4 DEF IngestNext

\* An attempt that starts to verify has every document of the corpus on its
\* record, however the corpus divides into batches and waves.
THEOREM VerifiedRecordsAreComplete == IngestSpec => []VerifiedRecordIsComplete
<1>1. IngestInit => CompleteIngestion
  BY SoundFirst, FreshAttemptIsComplete DEF IngestInit, CompleteIngestion
<1>2. CompleteIngestion => VerifiedRecordIsComplete
  BY DEF CompleteIngestion, CompleteAttempt, VerifiedRecordIsComplete
<1>3. QED
  BY <1>1, <1>2, CompleteNext, PTL DEF IngestSpec

-----------------------------------------------------------------------------
(* The checkpoint file keeps up with the record of the command it is from. *)

\* The file was loaded or saved last by this command, and every change of its
\* record since has been saved; after a failed save that is open.
FileHolds(p) ==
  p \notin overwritten /\ attempt[p].phase \notin {"idle", "unsaved"} =>
    attempt[p].done \subseteq saved

FileKeepsUp == CompleteIngestion /\ \A p \in Ingesters : FileHolds(p)

\* What a command does without touching the file keeps it, as long as its
\* record does not grow.
LEMMA RecordStands ==
  ASSUME FileKeepsUp, NEW p \in Ingesters, NEW a, Update(p, a), file' = file,
         \/ a.phase \in {"idle", "unsaved"}
         \/ a.done = attempt[p].done /\ attempt[p].phase \notin {"idle", "unsaved"}
  PROVE  \A q \in Ingesters : FileHolds(q)'
<1>1. ASSUME NEW q \in Ingesters PROVE attempt'[q] = IF q = p THEN a ELSE attempt[q]
  BY DEF FileKeepsUp, CompleteIngestion, SoundIngestion, Update
<1>2. saved' = saved /\ overwritten' = overwritten
  BY DEF file
<1>3. QED
  BY <1>1, <1>2 DEF FileKeepsUp, FileHolds

\* A command that saves has its record in the file and takes every other
\* command's out of it.
LEMMA SavingHolds ==
  ASSUME FileKeepsUp, NEW p \in Ingesters, Saves(p)
  PROVE  \A q \in Ingesters : FileHolds(q)'
BY DEF Saves, FileHolds

\* The steps of a command that leave its record alone.
LEMMA LoopKeepsFile ==
  ASSUME FileKeepsUp, NEW p \in Ingesters,
         \/ StartWave(p) \/ SettleWave(p) \/ EndWave(p) \/ InspectionFails(p)
         \/ Inspect(p) \/ ListDocuments(p) \/ CountDocuments(p)
         \/ \E b \in Slots : OutcomeFailed(p, b)
  PROVE  \A q \in Ingesters : FileHolds(q)'
<1> DEFINE a == attempt[p]
<1>0. a \in Attempt
  BY DEF FileKeepsUp, CompleteIngestion, SoundIngestion
<1>1. file' = file /\ a.phase \notin {"idle", "unsaved"}
  BY DEF StartWave, SettleWave, EndWave, InspectionFails, Inspect, ListDocuments,
         CountDocuments, OutcomeFailed, NextOutcome, Inspecting
<1>2. attempt'[p].done = a.done
  <2> USE DEF Attempt, Update
  <2>0. attempt \in [Ingesters -> Attempt]
    BY DEF FileKeepsUp, CompleteIngestion, SoundIngestion
  <2>1. CASE StartWave(p)
    BY <1>0, <2>0, <2>1 DEF StartWave
  <2>2. CASE SettleWave(p)
    BY <1>0, <2>0, <2>2 DEF SettleWave
  <2>3. CASE EndWave(p)
    BY <1>0, <2>0, <2>3 DEF EndWave
  <2>4. CASE InspectionFails(p)
    BY <1>0, <2>0, <2>4 DEF InspectionFails
  <2>5. CASE Inspect(p)
    BY <1>0, <2>0, <2>5 DEF Inspect
  <2>6. CASE ListDocuments(p)
    BY <1>0, <2>0, <2>6 DEF ListDocuments
  <2>7. CASE CountDocuments(p)
    <3>1. \/ attempt' = [attempt EXCEPT ![p] = [a EXCEPT !.phase = "failed"]]
          \/ attempt' = [attempt EXCEPT ![p] = [a EXCEPT !.phase = "ready"]]
          \/ attempt' = [attempt EXCEPT ![p] = Polled(a)]
      BY <2>7 DEF CountDocuments
    <3>2. Polled(a).done = a.done
      BY <1>0 DEF Polled
    <3>3. QED
      BY <1>0, <2>0, <3>1, <3>2
  <2>8. ASSUME NEW b \in Slots, OutcomeFailed(p, b) PROVE attempt'[p].done = a.done
    BY <1>0, <2>0, <2>8 DEF OutcomeFailed
  <2>9. QED
    BY <2>1, <2>2, <2>3, <2>4, <2>5, <2>6, <2>7, <2>8
<1>3. \A q \in Ingesters \ {p} : attempt'[q] = attempt[q]
  BY DEF StartWave, SettleWave, EndWave, InspectionFails, Inspect, ListDocuments,
         CountDocuments, OutcomeFailed, Update, FileKeepsUp, CompleteIngestion, SoundIngestion
<1>4. saved' = saved /\ overwritten' = overwritten
  BY <1>1 DEF file
<1>5. QED
  BY <1>1, <1>2, <1>3, <1>4 DEF FileKeepsUp, FileHolds

\* The steps that change the record or the file.
LEMMA SaveKeepsFile ==
  ASSUME FileKeepsUp, NEW p \in Ingesters, NEW b \in Slots,
         OutcomeSaved(p, b) \/ SaveFails(p, b)
  PROVE  \A q \in Ingesters : FileHolds(q)'
<1>1. CASE Saves(p)
  BY <1>1, SavingHolds
<1>2. CASE SaveFails(p, b) /\ file' = file
  <2> DEFINE next == [Confirmed(attempt[p], b) EXCEPT !.phase = "unsaved"]
  <2>1. attempt[p] \in Attempt
    BY DEF FileKeepsUp, CompleteIngestion, SoundIngestion
  <2>2. next.phase = "unsaved" /\ Update(p, next)
    BY <1>2, <2>1 DEF SaveFails, Confirmed, Attempt
  <2>3. QED
    BY <1>2, <2>2, RecordStands
<1>3. QED
  BY <1>1, <1>2 DEF OutcomeSaved, SaveFails

LEMMA FileNext == FileKeepsUp /\ [IngestNext]_ingestVars => FileKeepsUp'
<1> SUFFICES ASSUME FileKeepsUp, [IngestNext]_ingestVars PROVE FileKeepsUp'
  OBVIOUS
<1>0. CompleteIngestion'
  BY CompleteNext DEF FileKeepsUp
<1> SUFFICES \A q \in Ingesters : FileHolds(q)'
  BY <1>0 DEF FileKeepsUp
<1>1. ASSUME NEW p \in Ingesters, Start(p) PROVE \A q \in Ingesters : FileHolds(q)'
  <2>1. ASSUME NEW q \in Ingesters
        PROVE  attempt'[q] = IF q = p THEN Resumed ELSE attempt[q]
    BY <1>1 DEF Start, Update, FileKeepsUp, CompleteIngestion, SoundIngestion
  <2>2. Resumed.done = saved
    BY DEF Resumed, NoAttempt
  <2>3. saved' = saved /\ overwritten' = overwritten \ {p}
    BY <1>1 DEF Start
  <2>4. QED
    BY <2>1, <2>2, <2>3 DEF FileKeepsUp, FileHolds
<1>2. ASSUME NEW p \in Ingesters, LoopStep(p) PROVE \A q \in Ingesters : FileHolds(q)'
  BY <1>2, LoopKeepsFile, SaveKeepsFile DEF LoopStep
<1>3. ASSUME NEW p \in Ingesters, Stop(p) PROVE \A q \in Ingesters : FileHolds(q)'
  BY <1>3, NoAttemptIsTyped, RecordStands DEF Stop
<1>4. ASSUME NEW p \in Ingesters, NEW b \in Slots, BatchStep(p, b)
      PROVE  \A q \in Ingesters : FileHolds(q)'
  <2> DEFINE a == attempt[p]
             grown == a.confirmed \union DocumentsOf(a, b)
  <2>1. /\ a \in Attempt /\ a.specified \in BOOLEAN
        /\ a.confirmed \in SUBSET Corpus /\ grown \in SUBSET Corpus
    BY BatchesAreDocuments DEF FileKeepsUp, CompleteIngestion, SoundIngestion, Attempt
  <2>2. a.phase = "waiting" /\ file' = file
    BY <1>4, <2>1, BatchMoves
  <2>3. PICK state \in {"writing", "refused", "written"}, specified \in BOOLEAN,
             confirmed \in SUBSET Corpus : Update(p, TaskMoved(a, b, state, specified, confirmed))
    BY <1>4, <2>1, BatchMoves
  <2>4. TaskMoved(a, b, state, specified, confirmed).done = a.done
    BY <2>1, TaskMovedFields DEF TaskStates
  <2>5. QED
    BY <2>2, <2>3, <2>4, RecordStands
<1>5. CASE LateWrite \/ IndexCatchesUp \/ UNCHANGED ingestVars
  BY <1>5 DEF LateWrite, IndexCatchesUp, ingestVars, file, FileKeepsUp, FileHolds
<1>6. QED
  BY <1>1, <1>2, <1>3, <1>4, <1>5 DEF IngestNext

\* Every document whose write was confirmed to a command is in the checkpoint
\* file when that command goes on to the next wave, verifies or fails: the loop
\* over the outcomes of a wave records the confirmed batches before it raises
\* the failure of a sibling.  Only another command's save can take them out.
THEOREM ConfirmedBatchesReachTheRecord == IngestSpec => []ConfirmedBatchesAreRecorded
<1>1. IngestInit => FileKeepsUp
  <2>1. IngestInit => CompleteIngestion
    BY SoundFirst, FreshAttemptIsComplete DEF IngestInit, CompleteIngestion
  <2>2. QED
    BY <2>1, NoAttemptIsTyped DEF IngestInit, FileKeepsUp, FileHolds
<1>2. FileKeepsUp => ConfirmedBatchesAreRecorded
  <2> SUFFICES ASSUME FileKeepsUp, NEW p \in Ingesters \ overwritten,
                      attempt[p].phase \in Inspecting \union {"starting", "ready", "failed"}
               PROVE  attempt[p].confirmed \subseteq saved
    BY DEF ConfirmedBatchesAreRecorded
  <2>1. SoundAttempt(attempt[p], remote) /\ CompleteAttempt(attempt[p]) /\ attempt[p] \in Attempt
    BY AttemptHolds DEF FileKeepsUp
  <2>2. \A d \in attempt[p].pending : BatchOf(attempt[p].pending, d) \in Slots
    BY <2>1, DocumentsHaveSlots DEF Attempt
  <2>3. attempt[p].confirmed \subseteq attempt[p].done
    BY <2>1, <2>2 DEF SoundAttempt, CompleteAttempt
  <2>4. attempt[p].done \subseteq saved
    BY DEF FileKeepsUp, FileHolds, Inspecting
  <2>5. QED
    BY <2>3, <2>4
<1>3. QED
  BY <1>1, <1>2, FileNext, PTL DEF IngestSpec

=============================================================================
