---------------------------- MODULE MCDiagnosis -----------------------------
(***************************************************************************)
(* Model values for Diagnosis: a namespace of four documents, lists of at  *)
(* most two rows (three where they are fused), so that every cutoff can be *)
(* full, short or tied.  The requests and answers are the union of four    *)
(* families, each of which varies one thing in full: the filter and the    *)
(* attributes, the list of one signal with its scores, the fusion of two   *)
(* lists, and the lists of a replay and of its probe.                      *)
(***************************************************************************)
EXTENDS Diagnosis

CONSTANTS dt, da, db, dc

MCDocs == {dt, da, db}
MCIdOrder == dt :> 2 @@ da :> 1 @@ db :> 3 @@ dc :> 4

\* Lists of documents, without scores.
DocLists(docs, n) == {l \in UNION {[1..m -> docs] : m \in 0..n} : IsInjective(l)}

\* The same with scores in order.
Scored(signal, scores) ==
  { [i \in DOMAIN l |-> [doc |-> l[i], score |-> f[i]]] :
    l \in DocLists(MCDocs, ResultK), f \in {g \in [1..2 -> scores] :
                             IF signal = "bm25" THEN g[1] >= g[2] ELSE g[1] <= g[2]} }

-----------------------------------------------------------------------------
(* Filters.                                                                *)

Leaf(field, op, form, operand) ==
  [kind |-> "predicate", children |-> {}, field |-> field, op |-> op, form |-> form, operand |-> operand]

Node(kind, children) ==
  [kind |-> kind, children |-> children, field |-> None, op |-> None, form |-> None, operand |-> None]

\* A field decides it alone: 1 holds, 0 fails, a missing one is unknown.
L(field) == Leaf(field, "Gte", "one", {1})

Trees ==
  { <<Node("and", {2, 3}), L("f"), Node("or", {4, 5}), L("g"), L("h")>>,
    <<Node("or", {2, 3}), L("f"), Node("and", {4, 5}), L("g"), L("h")>>,
    <<Node("and", {2, 3}), L("f"), Node("not", {4}), L("g")>>,
    <<Node("not", {2}), Node("and", {3, 4}), L("f"), Node("or", {5, 6}), L("g"), L("h")>>,
    <<Node("or", {2, 3, 4}), L("f"), Node("not", {5}), L("g"), L("h")>> }

Singles ==
  { Leaf("f", op, "one", {1}) : op \in {"Eq", "NotEq"} \union Ranges }
  \union { Leaf("f", op, "null", {}) : op \in {"Eq", "NotEq"} }
  \union { Leaf("f", op, "many", {0, 1}) : op \in {"In", "ContainsAny"} }

SchemaOf(filter) ==
  [field \in {filter[i].field : i \in Predicates(filter)} |->
     IF \E i \in Predicates(filter) : filter[i].op = "ContainsAny" THEN "array" ELSE "orderable"]

Held(value) == [presence |-> "value", values |-> {value}]
Missing == [presence |-> "missing", values |-> {}]
Null == [presence |-> "null", values |-> {}]

-----------------------------------------------------------------------------
(* Requests and answers.                                                   *)

Diagnose(mode, noFilter, filter) ==
  [kind |-> "diagnose", mode |-> mode, noFilter |-> noFilter, filter |-> filter,
   schema |-> IF filter = None THEN <<>> ELSE SchemaOf(filter)]

Snapshot(r, available, direct, attributes, lists) ==
  [ mode |-> r.mode, noFilter |-> r.noFilter, filter |-> r.filter, schema |-> r.schema,
    available |-> available,
    bm25 |-> IF available /\ "bm25" \in Signals(r.mode) THEN direct["bm25"] ELSE None,
    distance |-> IF available /\ "ann" \in Signals(r.mode) THEN direct["ann"] ELSE None,
    attributes |-> IF r.filter = None \/ ~available THEN <<>> ELSE attributes,
    lists |-> lists ]

Directs == [bm25 : {0, 1, 2}, ann : {1, 2}]
NoDirect == [bm25 |-> 0, ann |-> 2]

Short(r) == [role \in Roles(r.mode, r.noFilter) |-> <<>>]

\* The filter family: the target is in no list, whose rows do not matter.
FilterRequests ==
  {Diagnose("bm25", FALSE, filter) : filter \in Trees}
  \union {Diagnose("bm25", FALSE, <<leaf>>) : leaf \in Singles}

FilterAnswers(r) ==
  { Snapshot(r, TRUE, NoDirect, attributes, Short(r)) :
    attributes \in [DOMAIN r.schema -> {Held(0), Held(1), Held(2), Missing, Null}] }

\* The single signal families: every pair of lists under each filter result.
One == <<L("f")>>

ListRequests ==
  {Diagnose(mode, FALSE, None) : mode \in {"bm25", "vector"}}
  \union {Diagnose(mode, noFilter, One) : mode \in {"bm25", "vector"}, noFilter \in BOOLEAN}

ListAnswers(r) ==
  LET signal == CHOOSE x \in Signals(r.mode) : TRUE
      rows == Scored(signal, {1, 2})
      stored == [scope |-> "stored", signal |-> signal]
      \* Beside a counterfactual list, the stored one is one of these.
      some == { l \in rows : Len(l) = 2 /\ l[1].doc # dt }
  IN  { Snapshot(r, available, direct, [f |-> value],
                 [role \in Roles(r.mode, r.noFilter) |-> IF role = stored THEN one ELSE other]) :
        available \in BOOLEAN, direct \in Directs, value \in {Held(0), Held(1), Missing},
        one \in IF r.noFilter THEN some ELSE rows,
        other \in IF r.noFilter THEN rows ELSE {<<>>} }

\* The fusion family: every pair of rankings; their scores are their places.
ByPlace(list, signal) ==
  [i \in DOMAIN list |-> [doc |-> list[i], score |-> IF signal = "bm25" THEN 4 - i ELSE i]]

FusionRequests ==
  {Diagnose("hybrid_rrf", FALSE, None), Diagnose("hybrid_rerank", TRUE, One)}

FusionAnswers(r) ==
  LET without == {<<>>, <<db, da>>}
      all == DocLists(IF r.noFilter THEN MCDocs ELSE MCDocs \union {dc}, CandidateK)
      stored(signal, lists, fixed) == ByPlace(IF r.noFilter THEN fixed ELSE lists[signal], signal)
      direct(lists) ==
        [bm25 |-> IF Place(lists["bm25"], dt) = None THEN 0 ELSE 4 - Place(lists["bm25"], dt),
         ann |-> IF Place(lists["ann"], dt) = None THEN 3 ELSE Place(lists["ann"], dt)]
  IN  { Snapshot(r, TRUE, direct(lists), [f |-> value],
          [role \in Roles(r.mode, r.noFilter) |->
             IF role.scope = "stored" THEN stored(role.signal, lists, fixed)
                                      ELSE ByPlace(lists[role.signal], role.signal)]) :
        lists \in [{"bm25", "ann"} -> all], value \in {Held(0), Missing},
        fixed \in IF r.noFilter THEN without ELSE {<<>>} }

\* The replay family: pairs of candidate lists, the probes drawn from them too.
ReplayOf(modes, probe) == [kind |-> "replay", modes |-> modes, probe |-> probe]

ReplayRequests ==
  {ReplayOf(<<"hybrid_rerank", "bm25">>, TRUE), ReplayOf(<<"hybrid_rrf", "hybrid_rerank">>, TRUE),
   ReplayOf(<<"vector", "hybrid_rrf">>, FALSE)}

Pairs(bm25, ann) == {[bm25 |-> l, ann |-> m] : l \in bm25, m \in ann}

ReplayAnswers(r) ==
  IF r.modes[1] = "hybrid_rrf"
  THEN Pairs({<<da, dt, db>>}, {<<da, db>>, <<db, dt>>})
  ELSE Pairs({<<da, dt, db>>, <<db>>}, {<<da, db, dc>>, <<dt, db>>, <<>>})

\* Requests that cannot be bound: no filter to leave out, an operand that does
\* not fit its field, one configuration twice.
Unbindable ==
  {Diagnose("vector", TRUE, None), Diagnose("bm25", FALSE, <<Leaf("f", "Gt", "null", {})>>),
   ReplayOf(<<"hybrid_rrf", "hybrid_rrf">>, TRUE)}

AllRequests ==
  FilterRequests \union ListRequests \union FusionRequests \union ReplayRequests \union Unbindable

AllAnswers ==
  [r \in FilterRequests |-> FilterAnswers(r)] @@ [r \in ListRequests |-> ListAnswers(r)]
    @@ [r \in FusionRequests |-> FusionAnswers(r)] @@ [r \in ReplayRequests |-> ReplayAnswers(r)]
    @@ [r \in Unbindable |-> {}]

\* TLC evaluates what a constant is replaced by whenever the constant is read,
\* and a definition such as these once.
MCRequests == AllRequests
MCAnswers == AllAnswers
=============================================================================
