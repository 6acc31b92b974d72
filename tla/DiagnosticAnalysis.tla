------------------------- MODULE DiagnosticAnalysis -------------------------
(***************************************************************************)
(* What one expected-document diagnostic concludes from the snapshot that  *)
(* the provider returned (evals/diagnostic_analysis.py): the stored filter *)
(* in Kleene's three values, the place of the target relative to the cutoff*)
(* of each candidate list, its place in the fusion of two lists, and the   *)
(* observations shown to the user.                                         *)
(*                                                                         *)
(* A snapshot is a record with the fields mode, noFilter (the              *)
(* counterfactual was asked for), filter and schema, available (the target *)
(* was found), bm25 and distance (its direct scores), attributes (what it  *)
(* holds in the fields of the filter) and lists (the rows of each role).   *)
(* Scores are naturals, equal or clearly different: the tolerance of the   *)
(* comparisons is below every difference the model makes.                  *)
(***************************************************************************)
EXTENDS Integers, Sequences, FiniteSets, FiniteSetsExt

CONSTANTS
  Target,        \* the expected document
  ResultK,       \* rows a configuration returns; also the cutoff of fusion
  CandidateK,    \* rows of each list that is fused
  RankConstant,
  Bm25Weight,
  AnnWeight,
  ShareScale,    \* a common multiple of every RankConstant + rank
  None

ASSUME AnalysisAssumption ==
  /\ ResultK \in Nat \ {0} /\ CandidateK \in Nat /\ CandidateK >= ResultK
  /\ RankConstant \in Nat \ {0} /\ Bm25Weight \in Nat \ {0} /\ AnnWeight \in Nat \ {0}
  /\ ShareScale \in Nat \ {0}
  /\ \A rank \in 1..CandidateK : ShareScale % (RankConstant + rank) = 0
  /\ None \notin Nat \union {"true", "false", "unknown"}

-----------------------------------------------------------------------------
(* Subqueries.                                                             *)

Modes == {"bm25", "vector", "hybrid_rrf", "hybrid_rerank"}
Hybrid(mode) == mode \in {"hybrid_rrf", "hybrid_rerank"}

Signals(mode) ==
  CASE mode = "bm25" -> {"bm25"} [] mode = "vector" -> {"ann"} [] OTHER -> {"bm25", "ann"}

Scopes(noFilter) == IF noFilter THEN {"stored", "no_filter"} ELSE {"stored"}

Roles(mode, noFilter) == [scope : Scopes(noFilter), signal : Signals(mode)]

Limit(mode) == IF Hybrid(mode) THEN CandidateK ELSE ResultK

\* The lookup of the target carries exactly the scores of the signals in use.
ValidTarget(s) ==
  LET required(signal) == s.available /\ signal \in Signals(s.mode)
  IN  (s.bm25 # None <=> required("bm25")) /\ (s.distance # None <=> required("ann"))

Direct(s, signal) == IF signal = "bm25" THEN s.bm25 ELSE s.distance

-----------------------------------------------------------------------------
(* The stored filter: a sequence of nodes in the order of the walk, so that *)
(* children have larger numbers than their parent; node 1 is the root.     *)
(* Values are what normalisation makes of them; an operand or a value is a *)
(* set: {} for null, a singleton for a scalar, any set for a collection.   *)

Ranges == {"Lt", "Lte", "Gt", "Gte"}

Predicates(filter) == {i \in DOMAIN filter : filter[i].kind = "predicate"}

Comparisons == {"In", "ContainsAny", "Eq", "NotEq"} \union Ranges

\* The walk starts at the root and comes to every other node from its parent.
IsFilter(filter) ==
  /\ Len(filter) \in Nat \ {0} /\ DOMAIN filter = 1..Len(filter)
  /\ \A i \in DOMAIN filter :
       /\ filter[i].kind \in {"predicate", "not", "and", "or"}
       /\ filter[i].children \subseteq (i + 1)..Len(filter)
       /\ filter[i].kind = "predicate" => filter[i].children = {} /\ filter[i].op \in Comparisons
  /\ \A i \in 2..Len(filter) : \E p \in DOMAIN filter :
       \A j \in DOMAIN filter : i \in filter[j].children <=> j = p

OperandFits(p, type) ==
  CASE p.op = "In"              -> type # "array" /\ p.form = "many"
    [] p.op = "ContainsAny"     -> type = "array" /\ p.form = "many"
    [] p.op \in {"Eq", "NotEq"} -> type # "array" /\ p.form \in {"null", "one"}
    [] p.op \in Ranges          -> type = "orderable" /\ p.form = "one"

\* The schema names the fields of the predicates and no other.
ValidDefinition(filter, schema) ==
  /\ \A i \in DOMAIN filter :
       IF filter[i].kind = "predicate"
       THEN filter[i].field \in DOMAIN schema /\ OperandFits(filter[i], schema[filter[i].field])
       ELSE filter[i].children # {} /\ (filter[i].kind = "not" => Cardinality(filter[i].children) = 1)
  /\ DOMAIN schema = {filter[i].field : i \in Predicates(filter)}

ValidAttributes(s) ==
  DOMAIN s.attributes = IF s.available THEN DOMAIN s.schema ELSE {}

Truth(holds) == IF holds THEN "true" ELSE "false"

\* _evaluate_predicate: a missing attribute and one that is present and null
\* are judged differently, and ranges of neither can always be decided.
PredicateResult(p, attribute) ==
  LET left == attribute.values
      right == p.operand
      x == CHOOSE v \in left : TRUE
      y == CHOOSE v \in right : TRUE
  IN  CASE attribute.presence = "missing" ->
             CASE p.op = "Eq" -> Truth(right = {})
               [] p.op = "NotEq" -> Truth(right # {})
               [] p.op \in Ranges -> "unknown"
               [] OTHER -> "false"
        [] attribute.presence = "null" ->
             CASE p.op = "Eq" -> IF right = {} THEN "unknown" ELSE "false"
               [] p.op \in {"NotEq", "Lt", "Lte"} -> "true"
               [] p.op \in {"Gt", "Gte"} -> "unknown"
               [] OTHER -> "false"
        [] OTHER ->
             CASE p.op = "Eq" -> Truth(left = right)
               [] p.op = "NotEq" -> Truth(left # right)
               [] p.op = "Lt" -> Truth(x < y)
               [] p.op = "Lte" -> Truth(x <= y)
               [] p.op = "Gt" -> Truth(x > y)
               [] p.op = "Gte" -> Truth(x >= y)
               [] p.op = "In" -> Truth(left \subseteq right)
               [] p.op = "ContainsAny" -> Truth(left \intersect right # {})

KleeneNot(value) ==
  CASE value = "true" -> "false" [] value = "false" -> "true" [] OTHER -> "unknown"

KleeneAnd(values) ==
  IF "false" \in values THEN "false" ELSE IF values = {"true"} THEN "true" ELSE "unknown"

KleeneOr(values) ==
  IF "true" \in values THEN "true" ELSE IF values = {"false"} THEN "false" ELSE "unknown"

\* The value of every node, from those of the predicates.
Values(filter, results) ==
  LET value[i \in DOMAIN filter] ==
        LET below == {value[j] : j \in filter[i].children}
        IN  CASE filter[i].kind = "predicate" -> results[i]
              [] filter[i].kind = "not" -> KleeneNot(CHOOSE v \in below : TRUE)
              [] filter[i].kind = "and" -> KleeneAnd(below)
              [] filter[i].kind = "or"  -> KleeneOr(below)
  IN  value

Results(s) ==
  [i \in Predicates(s.filter) |-> PredicateResult(s.filter[i], s.attributes[s.filter[i].field])]

Root(s) == IF s.filter = None THEN None ELSE Values(s.filter, Results(s))[1]

\* The nodes that the search for witnesses visits, with the value it wants:
\* from a node that has it, on to the children that bring it about.
Wanted(filter, value) ==
  LET wanted[i \in DOMAIN filter] ==
        IF i = 1 THEN value[1]
        ELSE LET p == CHOOSE j \in DOMAIN filter : i \in filter[j].children
                 w == IF filter[p].kind = "not" THEN KleeneNot(wanted[p]) ELSE wanted[p]
             IN  IF wanted[p] # "unvisited" /\ value[i] = w THEN w ELSE "unvisited"
  IN  wanted

\* Fault: the search goes on below children that have another value.
WitnessesEverywhere(filter, results) ==
  {i \in Predicates(filter) : results[i] = Values(filter, results)[1]} \ {i \in Predicates(filter) : results[i] = "true"}

Witnesses(filter, results) ==
  LET wanted == Wanted(filter, Values(filter, results))
  IN  {i \in Predicates(filter) : wanted[i] \in {"false", "unknown"}}

-----------------------------------------------------------------------------
(* Candidate lists.                                                        *)

ValidList(s, role) ==
  LET rows == s.lists[role]
  IN  /\ Len(rows) <= Limit(s.mode)
      /\ \A i, j \in DOMAIN rows : rows[i].doc = rows[j].doc => i = j
      /\ role.signal = "bm25" => \A i \in DOMAIN rows : rows[i].score > 0
      /\ \A i, j \in DOMAIN rows : i < j =>
           IF role.signal = "bm25" THEN rows[i].score >= rows[j].score
                                   ELSE rows[i].score <= rows[j].score
      /\ ~s.available => \A i \in DOMAIN rows : rows[i].doc # Target

RankOf(rows, doc) ==
  IF \E i \in DOMAIN rows : rows[i].doc = doc
  THEN CHOOSE i \in DOMAIN rows : rows[i].doc = doc ELSE None

Boundary(rows, limit) == IF Len(rows) = limit THEN rows[limit].score ELSE None

Summary(s, role) ==
  LET rows == s.lists[role]  rank == RankOf(rows, Target)
  IN  [role |-> role, limit |-> Limit(s.mode), returned |-> Len(rows),
       present |-> rank # None, rank |-> rank,
       score |-> IF rank = None THEN None ELSE rows[rank].score,
       boundary |-> Boundary(rows, Limit(s.mode))]

Better(signal, one, other) == IF signal = "bm25" THEN one > other ELSE one < other

BeatsBoundary(signal, direct, boundary) == boundary # None /\ Better(signal, direct, boundary)

\* The filter accounts for the absence of the target.
Ineligible(role, root, present) == role.scope = "stored" /\ root \in {"false", "unknown"} /\ ~present

CandidateContradicts(s, role, root) ==
  LET c == Summary(s, role)  direct == Direct(s, role.signal)
  IN  \/ c.present /\ c.score # direct
      \/ c.present /\ role.scope = "stored" /\ root = "false"
      \/ /\ role.signal = "bm25" /\ ~c.present /\ ~Ineligible(role, root, c.present)
         /\ BeatsBoundary("bm25", direct, c.boundary)

Relation(signal, direct, present, boundary) ==
  CASE present -> "target_present"
    [] ~present /\ signal = "bm25" /\ direct = 0 -> "no_lexical_score"
    [] ~present /\ ~(signal = "bm25" /\ direct = 0) /\ boundary \in {None, direct} -> "not_observable"
    [] OTHER -> IF BeatsBoundary(signal, direct, boundary) THEN "ann_candidate_miss"
                                                           ELSE "outside_candidates"

Certainty(scope, relation) ==
  CASE relation = "not_observable" -> "insufficient"
    [] relation # "not_observable" /\ scope = "no_filter" -> "counterfactual"
    [] OTHER -> "observed"

FilterResult(scope, root) == IF scope = "no_filter" THEN None ELSE root

CandidateEvidence(s, role, root) ==
  LET c == Summary(s, role)
      direct == Direct(s, role.signal)
      relation == IF Ineligible(role, root, c.present)
                     /\ BeatsBoundary(role.signal, direct, c.boundary)
                  THEN "not_observable"
                  ELSE Relation(role.signal, direct, c.present, c.boundary)
  IN  [role |-> role, summary |-> c, direct |-> direct,
       filterResult |-> FilterResult(role.scope, root),
       relation |-> relation, certainty |-> Certainty(role.scope, relation)]

-----------------------------------------------------------------------------
(* Fusion of the two lists of a scope, computed once more from their rows. *)

Share(weight, rank) == IF rank = None THEN 0 ELSE weight * (ShareScale \div (RankConstant + rank))

FusedDocuments(s, scope) ==
  UNION { {s.lists[r][i].doc : i \in DOMAIN s.lists[r]} : r \in [scope : {scope}, signal : {"bm25", "ann"}] }

Ranks(s, scope, doc) ==
  [signal \in {"bm25", "ann"} |-> RankOf(s.lists[[scope |-> scope, signal |-> signal]], doc)]

FusedScore(ranks) == Share(Bm25Weight, ranks["bm25"]) + Share(AnnWeight, ranks["ann"])

Totals(s, scope) == [doc \in FusedDocuments(s, scope) |-> FusedScore(Ranks(s, scope, doc))]

\* The score at the cutoff, when that many documents were fused.
FusionBoundary(totals) ==
  IF Cardinality(DOMAIN totals) < ResultK THEN None
  ELSE CHOOSE score \in {totals[d] : d \in DOMAIN totals} :
         /\ Cardinality({d \in DOMAIN totals : totals[d] > score}) < ResultK
         /\ Cardinality({d \in DOMAIN totals : totals[d] >= score}) >= ResultK

Higher(totals) == Cardinality({d \in DOMAIN totals : totals[d] > totals[Target]})
Tied(totals) == Cardinality({d \in DOMAIN totals : totals[d] = totals[Target]})

\* Fault: a tie at the cutoff counts as membership.
MembershipIfNotOutranked(totals) == Target \in DOMAIN totals /\ Higher(totals) < ResultK

\* No order is invented inside a group of equal scores.
MembershipCertain(totals) ==
  /\ Target \in DOMAIN totals
  /\ \/ Cardinality(DOMAIN totals) <= ResultK
     \/ Higher(totals) + Tied(totals) <= ResultK

FusionContradicts(s, scope, root) ==
  scope = "stored" /\ root = "false" /\ Target \in FusedDocuments(s, scope)

QualifiedRrf(s, scope, root) ==
  LET totals == Totals(s, scope)
      boundary == FusionBoundary(totals)
      present == MembershipCertain(totals)
      score == FusedScore(Ranks(s, scope, Target))
      relation == CASE present -> "target_present"
                    [] ~present /\ boundary \in {None, score} -> "not_observable"
                    [] OTHER -> "outside_candidates"
  IN  [scope |-> scope, filterResult |-> FilterResult(scope, root),
       ranks |-> Ranks(s, scope, Target),
       returned |-> IF Cardinality(DOMAIN totals) < ResultK THEN Cardinality(DOMAIN totals) ELSE ResultK,
       present |-> present, rank |-> IF present THEN Higher(totals) + 1 ELSE None,
       score |-> score, boundary |-> boundary,
       relation |-> relation, certainty |-> Certainty(scope, relation)]

-----------------------------------------------------------------------------
(* Observations: the findings that the user reads, each with its evidence. *)

Observation(code, items, certainty) ==
  [code |-> code, origin |-> "client_computed", items |-> items, certainty |-> certainty]

FilterObservations(s) ==
  LET results == Results(s)  root == Root(s)
  IN  IF root \notin {"false", "unknown"} THEN {}
      ELSE { Observation(IF root = "false" THEN "filter_predicate_failed" ELSE "not_observable",
                         {[kind |-> "filter", node |-> i, result |-> root]},
                         IF root = "false" THEN "observed" ELSE "insufficient")
             : i \in {j \in Witnesses(s.filter, results) : results[j] = root} }

\* A known filter failure makes an uncertain cutoff of the stored query moot.
Suppressed(scope, relation, root) ==
  \/ relation = "target_present"
  \/ scope = "stored" /\ root = "false" /\ relation = "not_observable"

CutoffItem(scope, signal, relation) ==
  [kind |-> "cutoff", scope |-> scope, signal |-> signal, relation |-> relation]

CandidateCode(signal, relation) ==
  CASE relation = "outside_candidates" /\ signal = "bm25" -> "outside_lexical_candidates"
    [] relation = "outside_candidates" /\ signal = "ann" -> "outside_vector_candidates"
    [] OTHER -> relation

CandidateObservation(e) ==
  Observation(CandidateCode(e.role.signal, e.relation),
    { CutoffItem(e.role.scope, e.role.signal, e.relation),
      [kind |-> "direct", signal |-> e.role.signal, score |-> e.direct] },
    e.certainty)

RrfObservation(e) ==
  Observation(IF e.relation = "outside_candidates" THEN "outside_fusion_top_k" ELSE "not_observable",
    { CutoffItem(e.scope, "rrf", e.relation),
      [kind |-> "score", scope |-> e.scope, score |-> e.score] }
    \union { [kind |-> "share", scope |-> e.scope, signal |-> signal, rank |-> e.ranks[signal]]
             : signal \in {x \in {"bm25", "ann"} : e.ranks[x] # None} },
    e.certainty)

UnavailableObservation ==
  [code |-> "not_observable", origin |-> "live_diagnostic", items |-> {},
   certainty |-> "insufficient"]

-----------------------------------------------------------------------------
(* analyze_diagnostic.                                                     *)

ValidSnapshot(s) ==
  /\ ValidTarget(s)
  /\ s.noFilter => s.filter # None
  /\ s.filter # None => ValidDefinition(s.filter, s.schema) /\ ValidAttributes(s)
  /\ DOMAIN s.lists = Roles(s.mode, s.noFilter)
  /\ \A role \in Roles(s.mode, s.noFilter) : ValidList(s, role)

\* The snapshot is refused: it is malformed, or it contradicts itself.
Refuses(s) ==
  \/ ~ValidSnapshot(s)
  \/ /\ s.available
     /\ \/ \E role \in Roles(s.mode, s.noFilter) : CandidateContradicts(s, role, Root(s))
        \/ Hybrid(s.mode) /\ \E scope \in Scopes(s.noFilter) : FusionContradicts(s, scope, Root(s))

FilterEvidence(s) ==
  IF s.filter = None THEN {}
  ELSE { [node |-> i, result |-> Results(s)[i],
          certainty |-> IF Results(s)[i] = "unknown" THEN "insufficient" ELSE "observed"]
         : i \in Predicates(s.filter) }

Analysis(s) ==
  LET root == IF s.available THEN Root(s) ELSE None
      roles == Roles(s.mode, s.noFilter)
      candidates == IF s.available THEN {CandidateEvidence(s, role, root) : role \in roles} ELSE {}
      fusions == IF s.available /\ Hybrid(s.mode)
                 THEN {QualifiedRrf(s, scope, root) : scope \in Scopes(s.noFilter)} ELSE {}
      shown(e, scope) == ~Suppressed(scope, e.relation, root)
  IN  [ root |-> root,
        summaries |-> {Summary(s, role) : role \in roles},
        available |-> s.available, bm25 |-> s.bm25, distance |-> s.distance,
        filterEvidence |-> IF s.available THEN FilterEvidence(s) ELSE {},
        candidateEvidence |-> candidates,
        rrfEvidence |-> fusions,
        observations |->
          IF ~s.available THEN {UnavailableObservation}
          ELSE FilterObservations(s)
               \union {CandidateObservation(e) : e \in {c \in candidates : shown(c, c.role.scope)}}
               \union {RrfObservation(e) : e \in {f \in fusions : shown(f, f.scope)}} ]
=============================================================================
