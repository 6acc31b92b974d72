------------------------------- MODULE Replay -------------------------------
(***************************************************************************)
(* What a replay of one stored query concludes for each judged document    *)
(* (application/evaluation_forensics.py): from the primary result of each  *)
(* configuration, and from a separate probe of its two candidate lists when*)
(* one was asked for.                                                      *)
(*                                                                         *)
(* A hit is [doc, rrf, reranker]: its places in the fusion and after the   *)
(* local reranking, or None.  Two candidate lists are a function from the  *)
(* signals to sequences of documents.  A result is [mode, hits, probe], the*)
(* state of its probe being none, failed or analysed.  Scores that only    *)
(* accompany a rank are left out.                                          *)
(***************************************************************************)
EXTENDS DiagnosticAnalysis, SequencesExt

CONSTANTS
  Judged,        \* the documents that the query has grades for
  IdOrder        \* the order of document identifiers, which breaks local ties

-----------------------------------------------------------------------------
(* Fusion.                                                                 *)

Place(list, doc) == IF Contains(list, doc) THEN CHOOSE i \in DOMAIN list : list[i] = doc ELSE None

Places(lists, doc) == [signal \in {"bm25", "ann"} |-> Place(lists[signal], doc)]

Fusible(lists) == ToSet(lists["bm25"]) \union ToSet(lists["ann"])

Fused(lists, doc) == FusedScore(Places(lists, doc))

FirstPlace(lists, doc) == Min({Places(lists, doc)[x] : x \in {"bm25", "ann"}} \ {None})

\* reconstruct_rrf: equal scores are ordered by the best source rank, then by
\* identifier; the provider documents no order for them.
Reconstruction(lists) ==
  LET ahead(d, e) ==
        \/ Fused(lists, d) > Fused(lists, e)
        \/ Fused(lists, d) = Fused(lists, e)
           /\ \/ FirstPlace(lists, d) < FirstPlace(lists, e)
              \/ FirstPlace(lists, d) = FirstPlace(lists, e) /\ IdOrder[d] < IdOrder[e]
  IN  CHOOSE o \in SetToSeqs(Fusible(lists)) :
        \A i, j \in DOMAIN o : i < j => ahead(o[i], o[j])

\* What the provider may return for the same lists: any order of equal scores.
ServerFusions(lists) ==
  { SubSeq(order, 1, Min({ResultK, Len(order)})) :
    order \in {o \in SetToSeqs(Fusible(lists)) :
                 \A i, j \in DOMAIN o : i < j => Fused(lists, o[i]) >= Fused(lists, o[j])} }

\* The local reranker may put the fused rows in any order.
Reranked(mode, fused) ==
  IF mode = "hybrid_rerank" THEN SetToSeqs(ToSet(fused)) ELSE {fused}

HybridHits(mode, fused) ==
  { [i \in DOMAIN fused |->
       [doc |-> order[i], rrf |-> Place(fused, order[i]),
        reranker |-> IF mode = "hybrid_rerank" THEN i ELSE None]] :
    order \in Reranked(mode, fused) }

PlainHits(list) == [i \in DOMAIN list |-> [doc |-> list[i], rrf |-> None, reranker |-> None]]

\* Fault: the prefix is read in the order of the hits.
PrefixAsReturned(hits) == [i \in DOMAIN hits |-> hits[i].doc]

\* The primary result in the order of its fusion.
PrimaryPrefix(hits) ==
  LET byRank == CHOOSE o \in SetToSeqs(ToSet(hits)) :
                  \A i, j \in DOMAIN o : i < j => o[i].rrf < o[j].rrf
  IN  [i \in DOMAIN byRank |-> byRank[i].doc]

NoProbe == [state |-> "none"]
FailedProbe == [state |-> "failed"]

\* The probe warns when it does not lead to the prefix that was returned.
AnalysedProbe(lists, hits) ==
  LET order == Reconstruction(lists)  prefix == PrimaryPrefix(hits)
  IN  [state |-> "analysed", lists |-> lists, order |-> order,
       warned |-> SubSeq(order, 1, Min({Len(prefix), Len(order)})) # prefix]

-----------------------------------------------------------------------------
(* Observations.                                                           *)

Item(origin, kind, stage, value) ==
  [origin |-> origin, kind |-> kind, stage |-> stage, value |-> value]

Finding(doc, code, origin, items, certainty) ==
  [doc |-> doc, code |-> code, origin |-> origin, items |-> items, certainty |-> certainty]

HitFor(hits, doc) == {h \in ToSet(hits) : h.doc = doc}

RerankedDown(result, doc) ==
  { Finding(doc, "reranked_down", "primary",
      {Item("primary", "rank", "rrf", h.rrf), Item("primary", "rank", "reranker", h.reranker)},
      "observed")
    : h \in {g \in HitFor(result.hits, doc) :
               result.mode = "hybrid_rerank" /\ g.rrf # None /\ g.reranker # None /\ g.reranker > g.rrf} }

Counts(lists) == {Item("probe", "count", x, Len(lists[x])) : x \in {"bm25", "ann"}}

Membership(lists, signal, doc) ==
  LET place == Place(lists[signal], doc)
  IN  {Item("probe", "presence", signal, place # None)}
      \union (IF place = None THEN {} ELSE {Item("probe", "rank", signal, place)})

Contribution(lists, signal, doc) ==
  Item("client_computed", "contribution", signal, Place(lists[signal], doc))

\* The lists of the probe that hold the document decide what is said.
ProbeFinding(result, doc) ==
  LET lists == result.probe.lists
      held == {x \in {"bm25", "ann"} : Contains(lists[x], doc)}
      items == Counts(lists) \union UNION {Membership(lists, x, doc) : x \in {"bm25", "ann"}}
      inPrefix == Place(result.probe.order, doc) <= Len(PrimaryPrefix(result.hits))
  IN  CASE held = {} -> Finding(doc, "not_observable", "probe", items, "insufficient")
        [] held = {"ann"} -> Finding(doc, "outside_lexical_candidates", "probe", items, "counterfactual")
        [] held = {"bm25"} -> Finding(doc, "outside_vector_candidates", "probe", items, "counterfactual")
        [] OTHER ->
             Finding(doc, IF inPrefix THEN "not_observable" ELSE "outside_fusion_top_k",
                     "client_computed",
                     items \union {Contribution(lists, x, doc) : x \in held},
                     IF inPrefix THEN "insufficient" ELSE "counterfactual")

MissFinding(result, doc) ==
  CASE result.probe.state = "failed" ->
         Finding(doc, "not_observable", "probe",
                 {Item("probe", "warning", "none", "provenance_probe_failed")}, "insufficient")
    [] result.probe.state = "analysed" -> ProbeFinding(result, doc)
    [] OTHER ->
         Finding(doc, "not_observable", "primary",
                 {Item("primary", "presence", "final", FALSE)}, "insufficient")

\* build_forensic_observations, for one configuration.
Findings(result) ==
  UNION { IF HitFor(result.hits, doc) # {} THEN RerankedDown(result, doc)
          ELSE {MissFinding(result, doc)} : doc \in Judged }

Bound(finding, config) ==
  [config |-> config, doc |-> finding.doc, code |-> finding.code, origin |-> finding.origin,
   items |-> finding.items, certainty |-> finding.certainty]

ReplayAnswer(results) ==
  [results |-> results,
   observations |-> UNION { {Bound(f, i) : f \in Findings(results[i])} : i \in DOMAIN results }]
=============================================================================
