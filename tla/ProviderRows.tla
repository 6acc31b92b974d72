---------------------------- MODULE ProviderRows ----------------------------
(***************************************************************************)
(* The rows of one multi-query, before and after the analysis: what their  *)
(* decoding refuses (providers/turbopuffer_diagnostic.py and the types and *)
(* checks of retrieval/), and the facts of a response that the application *)
(* derives from them once more (application/evaluation_diagnostics.py).    *)
(* A snapshot is the record of DiagnosticAnalysis; its lists hold the rows.*)
(***************************************************************************)
EXTENDS DiagnosticAnalysis, SequencesExt

\* What every snapshot is by its types: scores are not negative, the rows of a
\* list come in a sequence, and a filter is a tree.
IsSnapshot(s) ==
  /\ s.mode \in Modes /\ {s.noFilter, s.available} \subseteq BOOLEAN
  /\ {s.bm25, s.distance} \subseteq Nat \union {None}
  /\ s.filter # None => IsFilter(s.filter)
  /\ \A role \in DOMAIN s.lists :
       /\ s.lists[role] \in Seq(ToSet(s.lists[role]))
       /\ \A row \in ToSet(s.lists[role]) : row.score \in Nat

-----------------------------------------------------------------------------
(* Decoding.                                                               *)

\* A found target carries the scores and the attributes asked for, one that
\* was not found carries nothing.
DecodesTarget(s) ==
  /\ s.bm25 # None <=> s.available /\ "bm25" \in Signals(s.mode)
  /\ s.distance # None <=> s.available /\ "ann" \in Signals(s.mode)
  /\ DOMAIN s.attributes = IF s.available /\ s.filter # None THEN DOMAIN s.schema ELSE {}

\* Scores run one way, those of the lexical index are positive, and no document
\* is returned twice.
DecodesRows(rows, signal, limit) ==
  /\ Len(rows) <= limit
  /\ \A i \in 2..Len(rows) : ~Better(signal, rows[i].score, rows[i - 1].score)
  /\ signal = "bm25" => \A i \in DOMAIN rows : rows[i].score > 0
  /\ Cardinality({row.doc : row \in ToSet(rows)}) = Len(rows)

\* A list that holds the target agrees with the lookup, which saw the same
\* snapshot.
AgreesWithLookup(s, role) ==
  \A row \in ToSet(s.lists[role]) :
    row.doc = Target => s.available /\ row.score = Direct(s, role.signal)

\* The result answers the request.
FitsRequest(s) ==
  /\ DOMAIN s.lists = Roles(s.mode, s.noFilter)
  /\ \A role \in DOMAIN s.lists : AgreesWithLookup(s, role)

Decoded(s) ==
  /\ DecodesTarget(s)
  /\ \A role \in DOMAIN s.lists : DecodesRows(s.lists[role], role.signal, Limit(s.mode))
  /\ FitsRequest(s)

-----------------------------------------------------------------------------
(* The crosscheck of an analysis r with the rows.                          *)

ExpectedSummary(s, role) ==
  LET rows == s.lists[role]
      held == {i \in DOMAIN rows : rows[i].doc = Target}
      last == IF Len(rows) = Limit(s.mode) THEN {Last(rows).score} ELSE {}
      only(values) == IF values = {} THEN None ELSE CHOOSE v \in values : TRUE
  IN  [role |-> role, limit |-> Limit(s.mode), returned |-> Len(rows),
       present |-> held # {}, rank |-> only(held),
       score |-> only({rows[i].score : i \in held}), boundary |-> only(last)]

\* What the row of a document adds to its sum, if a list has one.
RowShare(rows, weight, doc) ==
  LET held == {i \in DOMAIN rows : rows[i].doc = doc}
      rank == CHOOSE i \in held : TRUE
  IN  IF held = {} THEN 0 ELSE weight * (ShareScale \div (RankConstant + rank))

\* The fusion of two lists, row by row.
RowShares(s, scope, doc) ==
  LET rows(signal) == s.lists[[scope |-> scope, signal |-> signal]]
  IN  RowShare(rows("bm25"), Bm25Weight, doc) + RowShare(rows("ann"), AnnWeight, doc)

RowsOf(s, scope) ==
  UNION {ToSet(s.lists[role]) : role \in {r \in DOMAIN s.lists : r.scope = scope}}

CrosschecksRrf(s, e) ==
  LET fused == {row.doc : row \in RowsOf(s, e.scope)}
      score == [doc \in fused |-> RowShares(s, e.scope, doc)]
      target == IF Target \in fused THEN score[Target] ELSE 0
      ordered == CHOOSE o \in SetToSeqs(fused) :
                   \A i, j \in DOMAIN o : i < j => score[o[i]] >= score[o[j]]
      higher == Cardinality({d \in fused : score[d] > target})
      tied == Cardinality({d \in fused : score[d] = target})
      present == Target \in fused /\ (Len(ordered) <= ResultK \/ higher + tied <= ResultK)
      rank(signal) == ExpectedSummary(s, [scope |-> e.scope, signal |-> signal]).rank
  IN  /\ e.ranks = [signal \in {"bm25", "ann"} |-> rank(signal)]
      /\ e.returned = Min({Len(ordered), ResultK})
      /\ e.present = present
      /\ e.rank = IF present THEN higher + 1 ELSE None
      /\ e.score = target
      /\ e.boundary = IF Len(ordered) >= ResultK THEN score[ordered[ResultK]] ELSE None

Crosschecked(s, r) ==
  /\ r.available = s.available /\ r.bm25 = s.bm25 /\ r.distance = s.distance
  /\ r.summaries = {ExpectedSummary(s, role) : role \in DOMAIN s.lists}
  /\ {e.summary : e \in r.candidateEvidence} = IF s.available THEN r.summaries ELSE {}
  /\ \A e \in r.candidateEvidence : e.role = e.summary.role /\ e.direct = Direct(s, e.role.signal)
  /\ {e.scope : e \in r.rrfEvidence} =
       IF s.available /\ Hybrid(s.mode) THEN Scopes(s.noFilter) ELSE {}
  /\ \A e \in r.rrfEvidence : CrosschecksRrf(s, e)
=============================================================================
