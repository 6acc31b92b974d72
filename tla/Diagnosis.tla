----------------------------- MODULE Diagnosis ------------------------------
(***************************************************************************)
(* One live request of the evaluation API at a time: a replay of a stored  *)
(* query (kind "replay") or the diagnostic of an expected document (kind   *)
(* "diagnose"), with its resources, the failure of every step, and         *)
(* cancellations that arrive at every await, also while an earlier one is  *)
(* being honoured.                                                         *)
(*                                                                         *)
(* The request is bound under the control lock without an await; after     *)
(* that no lock is held and nothing is shared, so that requests beside it  *)
(* change nothing here.  What the provider answers is the constant Answers:*)
(* snapshots for a diagnostic, pairs of candidate lists for a replay.      *)
(***************************************************************************)
EXTENDS Replay, ProviderRows

CONSTANTS
  Requests,      \* the requests considered
  Answers,       \* for each request, the answers that the provider may give
  MaxCancels     \* bound: cancellations of one request

\* The lists of a replay come in sequences; one with the same document twice is
\* refused where it is read (retrieval/rrf.py), like any answer that cannot be.
ASSUME AnswersAssumption ==
  \A r \in Requests :
    /\ r # None /\ r.kind \in {"diagnose", "replay"}
    /\ r.kind = "diagnose" => \A s \in Answers[r] : IsSnapshot(s)
    /\ r.kind = "replay" =>
         \A lists \in Answers[r] : \A x \in {"bm25", "ann"} :
           lists[x] \in Seq(ToSet(lists[x])) /\ IsInjective(lists[x])

ASSUME OutcomeAssumption == None \notin {"refused", "unavailable", "cancelled", "answered"}

Contract == INSTANCE Forensics

VARIABLES
  request,       \* the request being served, or None
  phase,         \* the await at which its coroutine stands
  task,          \* the shielded task it drains: none, running, done or broken
  resource,      \* the provider, its client or backend it owns: none, open or closed
  answer,        \* what the provider returned, or None
  failed,        \* a step failed
  cancelled,     \* a cancellation was remembered
  cancels,       \* cancellations delivered
  outcome,       \* how the request ended: refused, unavailable, cancelled, answered
  response       \* the response of an answered request

vars ==
  <<request, phase, task, resource, answer, failed, cancelled, cancels, outcome, response>>

Idle ==
  /\ request = None /\ phase = "idle" /\ task = "none" /\ resource = "none"
  /\ answer = None /\ failed = FALSE /\ cancelled = FALSE /\ cancels = 0
  /\ outcome = None /\ response = None

Init == Idle

IsDiagnosis == request # None /\ request.kind = "diagnose"

-----------------------------------------------------------------------------
(* Composition of the result.                                              *)

Response(s) ==
  LET a == Analysis(s)
  IN  [ root |-> a.root, summaries |-> a.summaries, available |-> a.available,
        bm25 |-> a.bm25, distance |-> a.distance, filterEvidence |-> a.filterEvidence,
        candidateEvidence |-> a.candidateEvidence, rrfEvidence |-> a.rrfEvidence,
        observations |-> a.observations,
        mode |-> s.mode, noFilter |-> s.noFilter, embedded |-> s.mode # "bm25" ]

\* Analysed, compared with the rows, and validated by the contract of the
\* response.
Composed == IF IsDiagnosis THEN Response(answer) ELSE ReplayAnswer(answer)

Acceptable ==
  IF IsDiagnosis
  THEN /\ Decoded(answer) /\ ~Refuses(answer)
       /\ Crosschecked(answer, Composed) /\ Contract!ValidResponse(Composed)
  ELSE Contract!ValidReplayResponse(Composed)

-----------------------------------------------------------------------------
(* Binding, and the embedding of the query.                                *)

NeedsEmbedding(r) == r.mode # "bm25"

\* Two configurations of the suite, or a filter that can be evaluated, and one
\* at all where a list without it is asked for.
Bindable(r) ==
  IF r.kind = "replay" THEN r.modes[1] # r.modes[2]
  ELSE /\ r.noFilter => r.filter # None
       /\ r.filter # None => ValidDefinition(r.filter, r.schema)

\* Also a request that could be bound, when the store or a factory fails.
Refuse ==
  /\ phase = "idle"
  /\ \E r \in Requests : request' = r
  /\ phase' = "ended"
  /\ outcome' = "refused"
  /\ UNCHANGED <<task, resource, answer, failed, cancelled, cancels, response>>

\* A diagnostic waits for its embedding before it owns a provider; a replay
\* owns its search backend from the start.
Begin ==
  /\ phase = "idle"
  /\ \E r \in {q \in Requests : Bindable(q)} :
       /\ request' = r
       /\ IF r.kind = "replay"
          THEN phase' = "comparing" /\ resource' = "open" /\ task' = "none"
          ELSE /\ phase' = IF NeedsEmbedding(r) THEN "embedding" ELSE "connecting"
               /\ task' = IF NeedsEmbedding(r) THEN "running" ELSE "none"
               /\ resource' = "none"
  /\ UNCHANGED <<answer, failed, cancelled, cancels, outcome, response>>

TaskEnds ==
  /\ task = "running"
  /\ task' \in {"done", "broken"}
  /\ UNCHANGED <<request, phase, resource, answer, failed, cancelled, cancels, outcome, response>>

End(result) == phase' = "ended" /\ outcome' = result

\* Fault: after a cancellation the task is awaited again although it has ended.
EmbeddingAwaitsAgain ==
  /\ phase = "embedding" /\ task # "running" /\ ~cancelled
  /\ task' = "none"
  /\ IF task = "broken" THEN End("unavailable") ELSE phase' = "connecting" /\ UNCHANGED outcome
  /\ UNCHANGED <<request, resource, answer, failed, cancelled, cancels, response>>

\* The coroutine goes on only when the embedding task has ended.
EmbeddingResumes ==
  /\ phase = "embedding" /\ task # "running"
  /\ task' = "none"
  /\ IF cancelled THEN End("cancelled")
     ELSE IF task = "broken" THEN End("unavailable")
     ELSE phase' = "connecting" /\ UNCHANGED outcome
  /\ UNCHANGED <<request, resource, answer, failed, cancelled, cancels, response>>

-----------------------------------------------------------------------------
(* The provider.                                                           *)

StartClose == phase' = "closing" /\ task' = "running"

\* Without a provider there is nothing to close, unless its factory fails when a
\* client is open already: it drains the close of that one before it raises.
Connect ==
  /\ phase = "connecting"
  /\ \/ /\ phase' = "querying" /\ resource' = "open"
        /\ UNCHANGED <<task, failed, outcome>>
     \/ /\ End("unavailable")
        /\ UNCHANGED <<task, resource, failed>>
     \/ /\ resource' = "open" /\ failed' = TRUE
        /\ StartClose
        /\ UNCHANGED outcome
  /\ UNCHANGED <<request, answer, cancelled, cancels, response>>

QueryAnswers ==
  /\ phase = "querying"
  /\ answer' \in Answers[request]
  /\ StartClose
  /\ UNCHANGED <<request, resource, failed, cancelled, cancels, outcome, response>>

\* An await on the provider that fails, in a diagnostic or a replay's compare.
CallFails ==
  /\ phase \in {"querying", "comparing"}
  /\ failed' = TRUE
  /\ StartClose
  /\ UNCHANGED <<request, resource, answer, cancelled, cancels, outcome, response>>

-----------------------------------------------------------------------------
(* Replay: the primary comparison, then one probe per hybrid configuration.*)

\* The results of one comparison; source is what the provider fused.
PrimaryResults(mode, source) ==
  IF Hybrid(mode)
  THEN { [mode |-> mode, source |-> source, hits |-> hits, probe |-> NoProbe] :
         hits \in UNION {HybridHits(mode, fused) : fused \in ServerFusions(source)} }
  ELSE { [mode |-> mode, source |-> source, probe |-> NoProbe,
          hits |-> PlainHits(source[IF mode = "bm25" THEN "bm25" ELSE "ann"])] }

Unprobed(results) ==
  IF ~request.probe THEN {}
  ELSE {i \in DOMAIN results : Hybrid(results[i].mode) /\ results[i].probe = NoProbe}

\* After the last probe the response is built, and the backend closed.
Probed(results) ==
  /\ answer' = results
  /\ IF Unprobed(results) = {} THEN StartClose ELSE phase' = "probing" /\ UNCHANGED task

CompareAnswers ==
  /\ phase = "comparing"
  /\ \E one, two \in Answers[request] :
       \E first \in PrimaryResults(request.modes[1], one),
          second \in PrimaryResults(request.modes[2], two) : Probed(<<first, second>>)
  /\ UNCHANGED <<request, resource, failed, cancelled, cancels, outcome, response>>

WithProbe(i, probe) == [answer EXCEPT ![i].probe = probe]

ProbeAnswers ==
  /\ phase = "probing"
  /\ LET i == Min(Unprobed(answer))
     IN  \E lists \in Answers[request] : Probed(WithProbe(i, AnalysedProbe(lists, answer[i].hits)))
  /\ UNCHANGED <<request, resource, failed, cancelled, cancels, outcome, response>>

\* A probe that fails is reported and leaves the primary result as it is.
ProbeFails ==
  /\ phase = "probing"
  /\ Probed(WithProbe(Min(Unprobed(answer)), FailedProbe))
  /\ UNCHANGED <<request, resource, failed, cancelled, cancels, outcome, response>>

-----------------------------------------------------------------------------
(* Cancellation, and the end of a request.                                 *)

\* Ends the await on the provider; the close begins at once.
CancelCall ==
  /\ phase \in {"querying", "comparing", "probing"}
  /\ cancels < MaxCancels
  /\ cancels' = cancels + 1
  /\ cancelled' = TRUE
  /\ StartClose
  /\ UNCHANGED <<request, resource, answer, failed, outcome, response>>

\* Fault: a second cancellation ends the drain.
CancelEndsDrain ==
  /\ phase \in {"embedding", "closing"}
  /\ cancels < MaxCancels
  /\ cancels' = cancels + 1
  /\ cancelled' = TRUE
  /\ IF cancelled THEN End("cancelled") ELSE UNCHANGED <<phase, outcome>>
  /\ UNCHANGED <<request, task, resource, answer, failed, response>>

\* A shielded task goes on: the cancellation is remembered, and it is awaited
\* again.
CancelDrain ==
  /\ phase \in {"embedding", "closing"}
  /\ cancels < MaxCancels
  /\ cancels' = cancels + 1
  /\ cancelled' = TRUE
  /\ UNCHANGED <<request, phase, task, resource, answer, failed, outcome, response>>

\* A cancellation takes precedence over a failure, a failure over the result.
CloseResumes ==
  /\ phase = "closing" /\ task # "running"
  /\ task' = "none"
  /\ resource' = "closed"
  /\ failed' = (failed \/ task = "broken")
  /\ End(IF cancelled THEN "cancelled"
         ELSE IF ~failed' /\ Acceptable THEN "answered" ELSE "unavailable")
  /\ response' = IF outcome' = "answered" THEN Composed ELSE None
  /\ UNCHANGED <<request, answer, cancelled, cancels>>

Reply ==
  /\ phase = "ended"
  /\ request' = None /\ phase' = "idle" /\ task' = "none" /\ resource' = "none"
  /\ answer' = None /\ failed' = FALSE /\ cancelled' = FALSE /\ cancels' = 0
  /\ outcome' = None /\ response' = None

Next ==
  \/ Refuse \/ Begin \/ TaskEnds \/ EmbeddingResumes
  \/ Connect \/ QueryAnswers \/ CallFails
  \/ CompareAnswers \/ ProbeAnswers \/ ProbeFails
  \/ CancelCall \/ CancelDrain \/ CloseResumes \/ Reply

\* A call of the provider ends, in an answer or in its timeout, and so does the
\* close; the coroutine runs on when they have.  Both are stated by the phases,
\* which CallFails and CloseResumes leave whatever the answer is.
CallEnds ==
  phase \in {"connecting", "querying", "comparing", "probing"} /\ phase' \in {"querying", "closing", "ended"}

CloseEnds == phase = "closing" /\ task # "running" /\ phase' = "ended"

\* A new request need never come.
Fairness ==
  /\ WF_vars(TaskEnds) /\ WF_vars(EmbeddingResumes)
  /\ WF_phase(CallEnds) /\ WF_phase(CloseEnds)
  /\ WF_vars(Reply)

Spec == Init /\ [][Next]_vars /\ Fairness

-----------------------------------------------------------------------------
(* What a correct provider returns: the assumption under which a diagnostic*)
(* owes an answer.                                                         *)

\* The target may be in a list: the filter holds for it, or was not decided.
MayHold(s, role) == role.scope = "no_filter" \/ Root(s) # "false"
MustHold(s, role) == role.scope = "no_filter" \/ Root(s) \in {None, "true"}

\* The lexical index is exact, the vector index approximate.
HonestList(s, role) ==
  LET rows == s.lists[role]
      direct == Direct(s, role.signal)
      placed == RankOf(rows, Target) # None
      full == Len(rows) = Limit(s.mode)
  IN  /\ ValidList(s, role)
      /\ placed => /\ s.available /\ MayHold(s, role)
                   /\ rows[RankOf(rows, Target)].score = direct
      /\ s.available /\ role.signal = "bm25" /\ ~placed /\ MustHold(s, role) /\ direct > 0 =>
           full /\ rows[Limit(s.mode)].score >= direct

Honest(s) ==
  /\ DecodesTarget(s) /\ ValidSnapshot(s)
  /\ \A role \in DOMAIN s.lists : HonestList(s, role)

-----------------------------------------------------------------------------
(* Properties.                                                             *)

Answered == outcome = "answered"

\* When nothing failed and nobody cancelled, the findings computed from an
\* honest answer satisfy the contract that derives them a second time, and the
\* request ends in a response: the analysis and the contract never disagree.
SoundAnswerIsReported ==
  phase = "ended" /\ resource = "closed" /\ ~failed /\ ~cancelled
    /\ (IsDiagnosis => Honest(answer)) => Answered

\* Another value for these leaves gives the whole filter another value.
Moves(s, leaves) ==
  \E changed \in [leaves -> {"true", "false", "unknown"}] :
    Values(s.filter, [i \in Predicates(s.filter) |->
      IF i \in leaves THEN changed[i] ELSE Results(s)[i]])[1] # Root(s)

\* The leaves whose value alone accounts for that of the filter: those with the
\* same value that some smallest change of the outcome has to touch.  Nothing
\* can be undone about an unknown filter but by deciding an unknown leaf.
Causes(s) ==
  LET same == {i \in Predicates(s.filter) : Results(s)[i] = Root(s)}
      open == IF Root(s) = "unknown" THEN same ELSE Predicates(s.filter)
      moving == {leaves \in SUBSET open : Moves(s, leaves)}
      smallest == {leaves \in moving : \A other \in moving : other \subseteq leaves => other = leaves}
  IN  same \intersect UNION smallest

ReportedLeaves(r) ==
  UNION { {item.node : item \in {x \in o.items : x.kind = "filter"}} : o \in r.observations }

\* The findings about a filter that excluded the target, or could not be
\* decided, name its causes: no failing leaf whose change is irrelevant, and
\* none left out of those that matter.
FilterFindingsAreTheCauses ==
  IsDiagnosis /\ Answered /\ response.root \in {"false", "unknown"} =>
    ReportedLeaves(response) = Causes(answer)

\* The places of the target in the orders that are consistent with the scores.
PossibleRanks(s, scope) ==
  LET lists == [x \in {"bm25", "ann"} |->
                  [i \in DOMAIN s.lists[[scope |-> scope, signal |-> x]] |->
                     s.lists[[scope |-> scope, signal |-> x]][i].doc]]
      orders == {o \in SetToSeqs(Fusible(lists)) :
                   \A i, j \in DOMAIN o : i < j => Fused(lists, o[i]) >= Fused(lists, o[j])}
  IN  {Place(o, Target) : o \in orders} \ {None}

\* The provider documents no order among equal scores, so what the analysis says
\* about the fusion holds for each: a target reported within the cutoff is within
\* it in every order, one reported outside in none, and where the orders disagree
\* nothing is claimed.  It holds before any later check refuses the result.
FusionMembershipIsCertain ==
  IsDiagnosis /\ phase = "closing" /\ answer # None /\ Decoded(answer) /\ ~Refuses(answer) =>
    \A e \in Composed.rrfEvidence :
      LET ranks == PossibleRanks(answer, e.scope)
      IN  CASE e.relation = "target_present" -> ranks # {} /\ ranks \subseteq 1..ResultK /\ e.rank \in ranks
            [] e.relation = "outside_candidates" -> ranks \intersect 1..ResultK = {}
            [] OTHER -> ~(ranks # {} /\ ranks \subseteq 1..ResultK)

Ties(lists) == \E d, e \in Fusible(lists) : d # e /\ Fused(lists, d) = Fused(lists, e)

\* A probe that saw the lists of the primary query, with no equal scores among
\* them, neither warns of another snapshot nor excuses a finding with one.
WarningMeansDifference ==
  request # None /\ request.kind = "replay" /\ Answered =>
    \A i \in DOMAIN response.results :
      LET result == response.results[i]
          excused == \E o \in response.observations :
                       o.config = i /\ o.code = "not_observable" /\ o.origin = "client_computed"
      IN  result.probe.state = "analysed" /\ (result.probe.warned \/ excused) =>
            result.probe.lists # result.source \/ Ties(result.source)

\* A request that was cancelled, however often and at whichever await, ends as
\* cancelled and never with a result; and no request ends while it owns an open
\* provider or a task that still runs.
CancelledRequestEndsCancelled ==
  phase = "ended" /\ outcome # "refused" =>
    /\ outcome = "cancelled" <=> cancels > 0
    /\ resource # "open" /\ task = "none"

\* Every request ends, however often it is cancelled.
RequestEnds == phase # "idle" ~> phase = "idle"
=============================================================================
