-------------------------- MODULE ReadOnlyCatalog --------------------------
(***************************************************************************)
(* Readers of the evaluation database beside its writer: a view of the API *)
(* (application/evaluation_views.py), which reads a run and its outcomes   *)
(* in two sessions, and the gate (application/evaluation_gates.py over     *)
(* persistence/read_only.py), which copies the file without a lock and     *)
(* trusts the copy only while the file's identity stays and no journal     *)
(* lies beside it.                                                         *)
(*                                                                         *)
(* rows and outcomes are the database as the writing connection sees it,   *)
(* committed what a transaction made durable, disk the pages of the file.  *)
(* A transaction keeps a rollback journal beside the file while it writes  *)
(* pages; a journal that outlives its writer is hot until a connection     *)
(* rolls it back.  Readers never write, so one at a time is enough.        *)
(***************************************************************************)
EXTENDS RunViews

CONSTANT Policies  \* the gate policies that may be asked for

\* The bounds of the fields of a GatePolicy.
ASSUME GateAssumption ==
  /\ Scale \in Nat \ {0}
  /\ Policies \subseteq [ minDelta : -Scale..Scale, maxQueryDrop : 0..Scale,
                          maxErrorRate : 0..Scale, minPaired : Nat \ {0} ]

VARIABLES
  committed,  \* the durable database
  disk,       \* what the pages of the file hold
  journal,    \* "none", "live" (its writer runs) or "hot" (its writer died)
  view,       \* the request of the API that is being answered
  gate        \* the gate command that is being run

vars == <<rows, outcomes, committed, disk, journal, view, gate>>

-----------------------------------------------------------------------------
Current == [rows |-> rows, outcomes |-> outcomes]
Pages == {"rows", "outcomes"}

EmptyDatabase ==
  [rows |-> [r \in Runs |-> NoRow], outcomes |-> [r \in Runs |-> NoOutcomes]]

NoView == [phase |-> "idle", run |-> {}, row |-> NoRow, out |-> NoOutcomes, beside |-> NoOutcomes]

NoGate ==
  [ phase |-> "idle", run |-> {}, moved |-> FALSE, read |-> {}, copy |-> EmptyDatabase,
    policy |-> {}, quality |-> {}, result |-> "none" ]

Init ==
  /\ StoreInit
  /\ committed = Current
  /\ disk = Current
  /\ journal = "none"
  /\ view = NoView
  /\ gate = NoGate

-----------------------------------------------------------------------------
(* The writer.  A write to the file moves its modification time, which the *)
(* gate compares.                                                          *)

FileMoves ==
  gate' = IF gate.phase \in {"idle", "closed"} THEN gate ELSE [gate EXCEPT !.moved = TRUE]

BeginWrite ==
  /\ journal = "none"
  /\ ApplicationNext
  /\ journal' = "live"
  /\ UNCHANGED <<committed, disk, view, gate>>

WritePage(page) ==
  /\ journal = "live"
  /\ disk[page] # Current[page]
  /\ disk' = [disk EXCEPT ![page] = Current[page]]
  /\ FileMoves
  /\ UNCHANGED <<rows, outcomes, committed, journal, view>>

\* The request of a view also remembers the outcomes that were durable last
\* beside the very row it has read.
Commit ==
  /\ journal = "live"
  /\ disk = Current
  /\ committed' = Current
  /\ journal' = "none"
  /\ view' = IF view.phase = "row read" /\ rows[view.run] = view.row
             THEN [view EXCEPT !.beside = outcomes[view.run]]
             ELSE view
  /\ UNCHANGED <<rows, outcomes, disk, gate>>

\* The writing process dies inside its transaction.
Crash ==
  /\ journal = "live"
  /\ journal' = "hot"
  /\ rows' = committed.rows
  /\ outcomes' = committed.outcomes
  /\ UNCHANGED <<committed, disk, view, gate>>

\* The writer gives its transaction up, or the next connection finds a hot
\* journal: the pages are restored from it.
RollBack ==
  /\ journal # "none"
  /\ journal' = "none"
  /\ disk' = committed
  /\ rows' = committed.rows
  /\ outcomes' = committed.outcomes
  /\ FileMoves
  /\ UNCHANGED <<committed, view>>

Writer ==
  /\ \/ BeginWrite
     \/ \E page \in Pages : WritePage(page)
     \/ Commit
     \/ Crash
     \/ RollBack

-----------------------------------------------------------------------------
(* A view.  Each of its two sessions reads what is committed, and waits    *)
(* while a transaction is writing pages or a hot journal is there.         *)

Readable == journal = "none" \/ (journal = "live" /\ disk = committed)

NoReader == view.phase = "idle" /\ gate.phase = "idle"

ReadRun(r) ==
  /\ NoReader
  /\ Readable
  /\ committed.rows[r].status # "absent"
  /\ view' = [ phase |-> "row read", run |-> r, row |-> committed.rows[r],
               out |-> NoOutcomes, beside |-> committed.outcomes[r] ]
  /\ UNCHANGED <<rows, outcomes, committed, disk, journal, gate>>

\* A projection that fails a check is answered as unavailable.
ReadOutcomes ==
  /\ view.phase = "row read"
  /\ Readable
  /\ LET out == committed.outcomes[view.run] IN
       view' = [view EXCEPT !.out = out,
                            !.phase = IF AcceptsView(view.row, out) /\ RegressionsAddUp(out)
                                      THEN "answered" ELSE "unavailable"]
  /\ UNCHANGED <<rows, outcomes, committed, disk, journal, gate>>

EndView ==
  /\ view.phase \in {"answered", "unavailable"}
  /\ view' = NoView
  /\ UNCHANGED <<rows, outcomes, committed, disk, journal, gate>>

Viewer ==
  \/ \E r \in Runs : ReadRun(r)
  \/ ReadOutcomes
  \/ EndView

-----------------------------------------------------------------------------
(* The gate.                                                               *)

\* Fault: only the identity of the file is compared, not its sidecars.
IdentityOnly == ~gate.moved

\* _GuardedDatabaseFile.verify.
Verified == ~gate.moved /\ journal = "none"

Verdicts == {"passed", "policy_failed"}

GateStep(phase) ==
  /\ gate.phase = phase
  /\ UNCHANGED <<rows, outcomes, committed, disk, journal, view>>

Refused == [NoGate EXCEPT !.phase = "closed", !.result = "invalid"]

\* acquire: open the file, take its identity and verify once.
Acquire(r) ==
  /\ NoReader
  /\ GateStep("idle")
  /\ gate' = IF Verified THEN [NoGate EXCEPT !.phase = "guarded", !.run = r] ELSE Refused

\* snapshot: the pages are read in the order they lie in the file.
Copy(page) ==
  /\ GateStep("guarded")
  /\ page \notin gate.read
  /\ gate' = [gate EXCEPT !.read = @ \union {page}, !.copy[page] = disk[page]]

\* The verification at the end of the snapshot and after the schema checks.
Open ==
  /\ GateStep("guarded")
  /\ gate.read = Pages
  /\ gate' = IF Verified THEN [gate EXCEPT !.phase = "open"] ELSE Refused

\* _validate_recomputed_summaries: the stored summaries are computed again.
SummariesRecompute(row, out) == row.summaries = SummariesOf(out)

\* _evaluate_catalog on the copy: only a completed run that every check of a
\* view accepts and that has the whole outcome matrix is evidence.
Evidence(row, out) ==
  /\ AcceptsView(row, out)
  /\ row.status = "completed"
  /\ \A a \in Attempts : out[a] # "none"
  /\ SummariesRecompute(row, out)

VerdictOn(out, policy, quality) ==
  GateVerdict(policy, EngineOutcomes(out, quality, Baseline),
                      EngineOutcomes(out, quality, Candidate))

Evaluate ==
  LET row == gate.copy.rows[gate.run]
      out == gate.copy.outcomes[gate.run] IN
    /\ GateStep("open")
    /\ \/ /\ ~Evidence(row, out)
          /\ gate' = [gate EXCEPT !.phase = "evaluated", !.result = "invalid"]
       \/ /\ Evidence(row, out)
          /\ \E policy \in Policies, quality \in Qualities(out) :
               gate' = [gate EXCEPT !.phase = "evaluated",
                                    !.policy = policy,
                                    !.quality = quality,
                                    !.result = VerdictOn(out, policy, quality)]

\* The catalog is closed last, and closing verifies once more.
Close ==
  /\ GateStep("evaluated")
  /\ gate' = IF Verified THEN [gate EXCEPT !.phase = "closed"] ELSE Refused

\* An interrupt anywhere before the end is an internal failure.
Interrupt ==
  /\ \E phase \in {"guarded", "open", "evaluated"} : GateStep(phase)
  /\ gate' = [NoGate EXCEPT !.phase = "closed", !.result = "internal"]

EndGate ==
  /\ GateStep("closed")
  /\ gate' = NoGate

Gatekeeper ==
  \/ \E r \in Runs : Acquire(r)
  \/ \E page \in Pages : Copy(page)
  \/ Open
  \/ Evaluate
  \/ Close
  \/ Interrupt
  \/ EndGate

\* run_gate_cli: what the process exits with.
ExitCode(result) ==
  CASE result = "passed"        -> 0
    [] result = "internal"      -> 1
    [] result = "invalid"       -> 2
    [] result = "policy_failed" -> 4

Next == Writer \/ Viewer \/ Gatekeeper

Spec == Init /\ [][Next]_vars

-----------------------------------------------------------------------------
(* Properties.                                                             *)

\* A view that is answered (not refused as unavailable) shows a run as it
\* stood at one moment: its outcomes were durable beside the very row it
\* shows, although the two were read in different sessions
\* (_load_run_context reads list_outcomes after get_run has returned).
AnsweredViewsWereTrue ==
  view.phase = "answered" => view.out = view.beside

\* A verdict the gate exits with rests on evidence that is durable and final:
\* the run is completed in the database, with the very outcomes that were
\* copied, although the copy was taken beside a writer that may have died in
\* the middle of a transaction (evaluate_durable_gate).
VerdictIsOfCommittedEvidence ==
  gate.phase = "closed" /\ ExitCode(gate.result) \in {0, 4} =>
    /\ gate.copy.rows[gate.run] = committed.rows[gate.run]
    /\ gate.copy.outcomes[gate.run] = committed.outcomes[gate.run]
    /\ committed.rows[gate.run].status = "completed"

\* A candidate that lost quality never passes a policy it failed before: not
\* by a lower metric of one query, and, when no error is allowed (the default),
\* not by a query that fails and so leaves the pairs the mean and the drops are
\* taken over (evaluate_gate counts failures apart from the pairs).
GateRewardsNoLoss ==
  gate.result = "policy_failed" =>
    LET out == gate.copy.outcomes[gate.run]
        baseline == EngineOutcomes(out, gate.quality, Baseline)
        candidate == EngineOutcomes(out, gate.quality, Candidate)
        Passes(outcome, q) ==
          GateVerdict(gate.policy, baseline, [candidate EXCEPT ![q] = outcome]) = "passed"
    IN \A q \in Queries :
         /\ candidate[q].kind = "measured" =>
              \A lower \in 0..candidate[q].metric : ~Passes(Measured(lower), q)
         /\ gate.policy.maxErrorRate = 0 => ~Passes(Failed, q)

=============================================================================
