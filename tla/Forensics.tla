------------------------------ MODULE Forensics ------------------------------
(***************************************************************************)
(* The contract of a diagnostic response (contracts/forensics.py): what a  *)
(* response must satisfy on its own, derived a second time from the facts  *)
(* that it states and never from the snapshot it was computed from.        *)
(*                                                                         *)
(* A response is the record of DiagnosticAnalysis with the mode, the       *)
(* option and whether an embedding was timed.  Identifiers, times, texts   *)
(* and number formats are the same by construction and are left out.       *)
(***************************************************************************)
EXTENDS Integers, Sequences, FiniteSets

CONSTANTS
  ResultK, CandidateK,
  RankConstant, Bm25Weight, AnnWeight, ShareScale,
  None

CandidateSignals == {"bm25", "ann"}

RoleSequences(mode, noFilter) ==
  LET signals == CASE mode = "bm25" -> {"bm25"} [] mode = "vector" -> {"ann"}
                   [] OTHER -> CandidateSignals
  IN  [scope : IF noFilter THEN {"stored", "no_filter"} ELSE {"stored"}, signal : signals]

IsHybrid(mode) == mode \in {"hybrid_rrf", "hybrid_rerank"}

CandidateLimit(mode) == IF IsHybrid(mode) THEN CandidateK ELSE ResultK

-----------------------------------------------------------------------------
(* One candidate list.                                                     *)

\* The facts about the target and the boundary fit the counts.
ValidSummary(c) ==
  /\ c.returned <= c.limit
  /\ IF c.present THEN c.rank # None /\ c.score # None /\ c.rank <= c.returned
                  ELSE c.rank = None /\ c.score = None
  /\ c.boundary # None <=> c.returned = c.limit

\* On which side of the boundary a score lies.
Above(signal, score, boundary) == IF signal = "bm25" THEN score > boundary ELSE score < boundary

AccountedFor(e) ==
  e.role.scope = "stored" /\ e.filterResult \in {"false", "unknown"}

\* No filter result explains an absent lexical target above the boundary.
Underivable(e) ==
  /\ ~e.summary.present /\ e.role.signal = "bm25" /\ ~AccountedFor(e)
  /\ e.summary.boundary # None /\ e.direct > e.summary.boundary

\* Fault: a target above the boundary is always a miss of the index.
DerivedRelationBlind(e) ==
  LET boundary == e.summary.boundary
  IN  IF e.summary.present THEN "target_present"
      ELSE IF e.role.signal = "bm25" /\ e.direct = 0 THEN "no_lexical_score"
      ELSE IF boundary \in {None, e.direct} THEN "not_observable"
      ELSE IF ~Above(e.role.signal, e.direct, boundary) THEN "outside_candidates"
      ELSE "ann_candidate_miss"

DerivedRelation(e) ==
  LET boundary == e.summary.boundary
  IN  IF e.summary.present THEN "target_present"
      ELSE IF e.role.signal = "bm25" /\ e.direct = 0 THEN "no_lexical_score"
      ELSE IF boundary \in {None, e.direct} THEN "not_observable"
      ELSE IF ~Above(e.role.signal, e.direct, boundary) THEN "outside_candidates"
      ELSE IF AccountedFor(e) THEN "not_observable"
      ELSE "ann_candidate_miss"

DerivedCertainty(scope, relation) ==
  IF relation = "not_observable" THEN "insufficient"
  ELSE IF scope = "no_filter" THEN "counterfactual" ELSE "observed"

ValidCandidateEvidence(e) ==
  LET c == e.summary
  IN  /\ e.role.scope = "no_filter" => e.filterResult = None
      /\ ValidSummary(c)
      /\ c.present =>
           /\ e.filterResult # "false"
           /\ c.score = e.direct
           /\ ~(e.role.signal = "bm25" /\ e.direct = 0)
           /\ c.boundary # None => ~Above(e.role.signal, c.boundary, c.score)
      /\ ~Underivable(e)
      /\ e.relation = DerivedRelation(e)
      /\ e.certainty = DerivedCertainty(e.role.scope, e.relation)

-----------------------------------------------------------------------------
(* One fusion.                                                             *)

Ranked(e) == e.ranks["bm25"] # None \/ e.ranks["ann"] # None

RankShare(weight, rank) == IF rank = None THEN 0 ELSE weight * (ShareScale \div (RankConstant + rank))

RankInputs(e) == RankShare(Bm25Weight, e.ranks["bm25"]) + RankShare(AnnWeight, e.ranks["ann"])

DerivedRrfRelation(e) ==
  IF e.present THEN "target_present"
  ELSE IF e.boundary \in {None, e.score} THEN "not_observable"
  ELSE "outside_candidates"

ValidRrfEvidence(e) ==
  /\ e.scope = "no_filter" => e.filterResult = None
  /\ e.filterResult = "false" => ~Ranked(e)
  /\ e.boundary # 0
  /\ IF e.present
     THEN e.filterResult # "false" /\ e.rank # None /\ e.rank <= e.returned /\ Ranked(e)
     ELSE e.rank = None
  /\ ~e.present /\ e.returned < ResultK => ~Ranked(e)
  /\ e.score = RankInputs(e)
  /\ e.boundary # None <=> e.returned = ResultK
  /\ e.boundary # None => IF e.present THEN e.score >= e.boundary ELSE e.score <= e.boundary
  /\ e.relation = DerivedRrfRelation(e)
  /\ e.certainty = DerivedCertainty(e.scope, e.relation)

-----------------------------------------------------------------------------
(* The response as a whole.                                                *)

ValidResponseTarget(r) ==
  LET signals == {role.signal : role \in RoleSequences(r.mode, FALSE)}
  IN  /\ r.available => (r.bm25 # None <=> "bm25" \in signals) /\ (r.distance # None <=> "ann" \in signals)
      /\ ~r.available =>
           /\ r.bm25 = None /\ r.distance = None
           /\ r.filterEvidence = {} /\ r.candidateEvidence = {} /\ r.rrfEvidence = {}
           /\ \A c \in r.summaries : ~c.present

ValidFilterEvidence(r) ==
  /\ r.root = None <=> r.filterEvidence = {}
  /\ \A e, f \in r.filterEvidence : e.node = f.node => e = f
  /\ \A e \in r.filterEvidence : e.certainty = IF e.result = "unknown" THEN "insufficient" ELSE "observed"

BoundFilterResult(r, scope) == IF scope = "stored" THEN r.root ELSE None

ResponseDirect(r, signal) == IF signal = "bm25" THEN r.bm25 ELSE r.distance

\* The evidence covers every list once and repeats its facts.
ValidCandidateCover(r) ==
  r.available =>
    /\ {e.summary : e \in r.candidateEvidence} = r.summaries
    /\ Cardinality(r.candidateEvidence) = Cardinality(r.summaries)
    /\ \A e \in r.candidateEvidence :
         /\ e.role = e.summary.role
         /\ e.filterResult = BoundFilterResult(r, e.role.scope)
         /\ e.direct = ResponseDirect(r, e.role.signal)

SourceOf(r, scope, signal) ==
  CHOOSE e \in r.candidateEvidence : e.role = [scope |-> scope, signal |-> signal]

\* What the union of two lists that may share documents can count.
UnionBounds(one, other) ==
  LET larger == IF one.returned > other.returned THEN one.returned ELSE other.returned
      shared == IF one.present /\ other.present THEN 1 ELSE 0
      capped(n) == IF n < ResultK THEN n ELSE ResultK
  IN  capped(larger) .. capped(one.returned + other.returned - shared)

ValidRrfCover(r) ==
  /\ {e.scope : e \in r.rrfEvidence} =
       IF r.available /\ IsHybrid(r.mode)
       THEN {role.scope : role \in RoleSequences(r.mode, r.noFilter)} ELSE {}
  /\ \A e, f \in r.rrfEvidence : e.scope = f.scope => e = f
  /\ \A e \in r.rrfEvidence :
       LET bm25 == SourceOf(r, e.scope, "bm25").summary
           ann == SourceOf(r, e.scope, "ann").summary
       IN  /\ e.filterResult = BoundFilterResult(r, e.scope)
           /\ e.ranks["bm25"] = bm25.rank /\ e.ranks["ann"] = ann.rank
           /\ e.returned \in UnionBounds(bm25, ann)

-----------------------------------------------------------------------------
(* Observations.                                                           *)

OfKind(o, kind) == {item \in o.items : item.kind = kind}

\* The signal and the relation that a code stands for.
CutoffOf ==
  [ no_lexical_score           |-> <<"bm25", "no_lexical_score">>,
    outside_lexical_candidates |-> <<"bm25", "outside_candidates">>,
    outside_vector_candidates  |-> <<"ann", "outside_candidates">>,
    ann_candidate_miss         |-> <<"ann", "ann_candidate_miss">>,
    outside_fusion_top_k       |-> <<"rrf", "outside_candidates">> ]

\* Every item refers to one exact result of the response.
ItemRefers(r, o, item) ==
  LET fusions == {c \in OfKind(o, "cutoff") : c.signal = "rrf"}
      source == CHOOSE e \in r.rrfEvidence : \E c \in fusions : e.scope = c.scope
  IN  CASE item.kind = "direct" -> item.score = ResponseDirect(r, item.signal)
        [] item.kind = "filter" ->
             \E e \in r.filterEvidence : e.node = item.node /\ e.result = item.result
        [] item.kind = "cutoff" ->
             IF item.signal = "rrf"
             THEN \E e \in r.rrfEvidence : e.scope = item.scope /\ e.relation = item.relation
             ELSE \E e \in r.candidateEvidence :
                    /\ e.role = [scope |-> item.scope, signal |-> item.signal]
                    /\ e.relation = item.relation
        [] item.kind = "score" ->
             fusions # {} /\ item.score = source.score /\ item.scope = source.scope
        [] item.kind = "share" ->
             /\ fusions # {} /\ item.scope = source.scope
             /\ item.rank = SourceOf(r, source.scope, item.signal).summary.rank

\* The code states what its evidence shows.
CodeShown(o) ==
  CASE o.code = "filter_predicate_failed" -> \E f \in OfKind(o, "filter") : f.result = "false"
    [] o.code = "not_observable" ->
         \/ \E f \in OfKind(o, "filter") : f.result = "unknown"
         \/ \E c \in OfKind(o, "cutoff") : c.relation = "not_observable"
    [] OTHER -> \E c \in OfKind(o, "cutoff") : <<c.signal, c.relation>> = CutoffOf[o.code]

ObservationCertainty(o) ==
  IF o.code = "not_observable" THEN "insufficient"
  ELSE IF \E c \in OfKind(o, "cutoff") : c.scope = "no_filter" THEN "counterfactual" ELSE "observed"

ValidObservation(r, o) ==
  LET filters == OfKind(o, "filter")  cutoffs == OfKind(o, "cutoff")
      scopes == {c.scope : c \in cutoffs}
  IN  /\ Cardinality({c \in cutoffs : c.signal = "rrf"}) <= 1
      /\ \A item \in o.items : ItemRefers(r, o, item)
      /\ Cardinality(scopes) <= 1 /\ (filters # {} => "no_filter" \notin scopes)
      /\ r.root = "false" =>
           \A c \in cutoffs : ~(c.scope = "stored" /\ c.relation = "not_observable")
      /\ filters # {} =>
           /\ r.root \in {"false", "unknown"}
           /\ o.code = IF r.root = "false" THEN "filter_predicate_failed" ELSE "not_observable"
           /\ \A f \in filters : f.result = r.root
      /\ CodeShown(o)
      /\ o.certainty = ObservationCertainty(o)
      /\ o.origin = "live_diagnostic" => o.code = "not_observable" /\ o.items = {}

\* What an observation is about; two of them must not be about the same.
Fingerprint(o) ==
  <<o.code, {item \in o.items :
      \/ item.kind = "filter" /\ item.result = (IF o.code = "not_observable" THEN "unknown" ELSE "false")
      \/ item.kind = "cutoff" /\ IF o.code = "not_observable" THEN item.relation = "not_observable"
                                 ELSE o.code # "filter_predicate_failed"
                                      /\ <<item.signal, item.relation>> = CutoffOf[o.code]}>>

ValidObservations(r) ==
  IF ~r.available
  THEN /\ Cardinality(r.observations) = 1
       /\ \A o \in r.observations :
            /\ o.code = "not_observable" /\ o.origin = "live_diagnostic"
            /\ o.certainty = "insufficient" /\ o.items = {}
  ELSE /\ \A o \in r.observations : ValidObservation(r, o)
       /\ \A o, p \in r.observations : Fingerprint(o) = Fingerprint(p) => o = p

\* An embedding is timed exactly when the mode needs one.
ValidTiming(r) == r.embedded <=> r.mode # "bm25"

\* ExpectedDocumentDiagnosticResponse.
ValidResponse(r) ==
  /\ ValidTiming(r)
  /\ {c.role : c \in r.summaries} = RoleSequences(r.mode, r.noFilter)
  /\ \A c \in r.summaries : c.limit = CandidateLimit(r.mode) /\ ValidSummary(c)
  /\ \A e \in r.candidateEvidence : ValidCandidateEvidence(e)
  /\ \A e \in r.rrfEvidence : ValidRrfEvidence(e)
  /\ ValidResponseTarget(r)
  /\ ValidFilterEvidence(r)
  /\ ValidCandidateCover(r)
  /\ ValidRrfCover(r)
  /\ ValidObservations(r)

-----------------------------------------------------------------------------
(* The contract of a replay response: every observation names one returned *)
(* source, and each of its items repeats what that source holds about the  *)
(* document.  The sources of a configuration are its primary result (hits) *)
(* and at most one probe: two candidate lists, or a failure.               *)

PlaceIn(list, doc) ==
  IF \E i \in DOMAIN list : list[i] = doc THEN CHOOSE i \in DOMAIN list : list[i] = doc ELSE None

HitOf(hits, doc) == CHOOSE h \in {hits[i] : i \in DOMAIN hits} : h.doc = doc

InPrimary(hits, doc) == \E i \in DOMAIN hits : hits[i].doc = doc

PrimaryItemHolds(item, hits, doc) ==
  CASE item.kind = "presence" -> item.stage = "final" /\ item.value = InPrimary(hits, doc)
    [] item.kind = "rank" ->
         /\ item.stage \in {"rrf", "reranker"} /\ InPrimary(hits, doc)
         /\ item.value # None /\ item.value = HitOf(hits, doc)[item.stage]
    [] OTHER -> FALSE

ProbeItemHolds(item, lists, doc) ==
  /\ item.kind \in {"count", "presence", "rank", "contribution"}
  /\ item.stage \in CandidateSignals
  /\ LET list == lists[item.stage]  place == PlaceIn(list, doc)
     IN  CASE item.kind = "count" -> item.value = Len(list)
           [] item.kind = "presence" -> item.value = (place # None)
           [] OTHER -> place # None /\ item.value = place /\ item.value <= Len(list)

\* One item, or the observation itself when item is None.
SourceHolds(origin, item, o, result) ==
  CASE origin = "primary" -> item # None => PrimaryItemHolds(item, result.hits, o.doc)
    [] origin = "probe" /\ result.probe.state = "analysed" ->
         item # None => ProbeItemHolds(item, result.probe.lists, o.doc)
    [] origin = "probe" /\ result.probe.state = "failed" ->
         /\ o.code = "not_observable" /\ o.certainty = "insufficient"
         /\ item # None => item.kind = "warning"
    [] origin = "client_computed" /\ result.probe.state = "analysed" ->
         /\ o.certainty # "observed"
         /\ item # None => ProbeItemHolds(item, result.probe.lists, o.doc)
    [] OTHER -> FALSE

\* ForensicObservation, what it asks of every observation.
ValidReplayObservation(o) ==
  /\ o.origin # "client_computed" => \A item \in o.items : item.origin = o.origin
  /\ o.code = "not_observable" <=> o.certainty = "insufficient"
  /\ (o.origin = "probe" \/ \E item \in o.items : item.origin = "probe") => o.certainty # "observed"

ValidProbe(probe) ==
  probe.state = "analysed" =>
    \A signal \in CandidateSignals :
      \A i, j \in DOMAIN probe.lists[signal] : probe.lists[signal][i] = probe.lists[signal][j] => i = j

\* EvalRunQueryReplayResponse.
ValidReplayResponse(r) ==
  /\ \A i \in DOMAIN r.results : ValidProbe(r.results[i].probe)
  /\ \A o \in r.observations :
       /\ o.config \in DOMAIN r.results
       /\ o.code # "ann_candidate_miss"
       /\ ValidReplayObservation(o)
       /\ SourceHolds(o.origin, None, o, r.results[o.config])
       /\ \A item \in o.items : SourceHolds(item.origin, item, o, r.results[o.config])
=============================================================================
