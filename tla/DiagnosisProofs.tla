-------------------------- MODULE DiagnosisProofs --------------------------
(***************************************************************************)
(* One live request, for every set of requests, answers, cancellations,    *)
(* cutoffs and weights.  First the orders of a finite set by falling       *)
(* scores: between which places a member can stand, and that it can stand  *)
(* at either end of its group of equals.  From them follows that what the  *)
(* analysis says about the fusion holds whatever order the provider gives  *)
(* to equal scores.  Then the control of a request and its cancellation.   *)
(* Then the replay: without equal scores there is one order, the fusion is *)
(* what the hits give back however they were reranked, and so a probe of   *)
(* the same lists finds nothing to warn of.  Then the filter: a finite     *)
(* tree, in which the leaves that the search for witnesses comes to are    *)
(* those that some smallest change of the leaves has to touch.  Last the   *)
(* answers that nothing is wrong with: what the analysis derives from      *)
(* them, what is checked again from the rows and what the contract of the  *)
(* response derives on its own are the same, so none is refused.           *)
(***************************************************************************)
EXTENDS Diagnosis, FiniteSetTheorems, FunctionTheorems, WellFoundedInduction, TLAPS

-----------------------------------------------------------------------------
(* Orders of a finite set by falling scores.                               *)

OrdersBy(S, score) ==
  {o \in SetToSeqs(S) : \A i, j \in DOMAIN o : i < j => score[o[i]] >= score[o[j]]}

Above(S, score, t) == {d \in S : score[d] > score[t]}
Level(S, score, t) == {d \in S : score[d] = score[t]}

\* An order holds every member of the set at exactly one place.
LEMMA OrdersArePermutations ==
  ASSUME NEW S, IsFiniteSet(S), NEW o \in SetToSeqs(S)
  PROVE  /\ DOMAIN o = 1..Cardinality(S)
         /\ \A i \in DOMAIN o : o[i] \in S
         /\ \A i, j \in DOMAIN o : o[i] = o[j] => i = j
         /\ \A d \in S : \E i \in DOMAIN o : o[i] = d
<1> DEFINE n == Cardinality(S)
<1>1. n \in Nat
  BY FS_CardinalityType
<1>2. o \in [1..n -> S] /\ \A i, j \in 1..n : i # j => o[i] # o[j]
  BY DEF SetToSeqs
<1>3. o \in Injection(1..n, S)
  BY <1>2 DEF Injection, IsInjective
<1>4. Cardinality(1..n) = n
  BY <1>1, FS_Interval
<1>5. o \in Surjection(1..n, S)
  BY <1>3, <1>4, FS_Injection
<1>6. \A d \in S : \E i \in 1..n : o[i] = d
  BY <1>5 DEF Surjection
<1>7. QED
  BY <1>2, <1>6

\* The group of equals of a member is apart from the members above it.
LEMMA AboveAndLevel ==
  ASSUME NEW S, IsFiniteSet(S), NEW score \in [S -> Int], NEW t \in S
  PROVE  /\ Cardinality(Above(S, score, t)) \in Nat
         /\ Cardinality(Level(S, score, t)) \in Nat
         /\ Cardinality(Above(S, score, t) \union Level(S, score, t))
              = Cardinality(Above(S, score, t)) + Cardinality(Level(S, score, t))
         /\ IsFiniteSet(Above(S, score, t) \union (Level(S, score, t) \ {t}))
         /\ Cardinality(Above(S, score, t) \union (Level(S, score, t) \ {t}))
              = Cardinality(Above(S, score, t)) + Cardinality(Level(S, score, t)) - 1
<1> DEFINE up == Above(S, score, t)
           even == Level(S, score, t)
           rest == even \ {t}
<1>1. t \in even /\ up \intersect even = {} /\ up \intersect rest = {}
  BY DEF Above, Level
<1>2. /\ IsFiniteSet(up) /\ IsFiniteSet(even)
      /\ Cardinality(up) \in Nat /\ Cardinality(even) \in Nat
  BY FS_Subset, FS_CardinalityType DEF Above, Level
<1>3. IsFiniteSet(rest) /\ Cardinality(rest) = Cardinality(even) - 1
  BY <1>1, <1>2, FS_RemoveElement
<1>4. Cardinality(up \intersect even) = 0 /\ Cardinality(up \intersect rest) = 0
  <2> HIDE DEF up, even, rest
  <2>1. Cardinality({}) = 0
    BY FS_EmptySet
  <2>2. QED
    BY <1>1, <2>1
<1> HIDE DEF up, even, rest
<1>5. /\ IsFiniteSet(up \union even)
      /\ Cardinality(up \union even)
           = Cardinality(up) + Cardinality(even) - Cardinality(up \intersect even)
  BY <1>2, FS_Union
<1>6. /\ IsFiniteSet(up \union rest)
      /\ Cardinality(up \union rest)
           = Cardinality(up) + Cardinality(rest) - Cardinality(up \intersect rest)
  BY <1>2, <1>3, FS_Union
<1>7. /\ Cardinality(up \union even) = Cardinality(up) + Cardinality(even)
      /\ Cardinality(up \union rest) = Cardinality(up) + Cardinality(even) - 1
  BY <1>2, <1>3, <1>4, <1>5, <1>6
<1>8. QED
  BY <1>2, <1>6, <1>7 DEF up, even, rest

\* Whoever scores higher stands before a member, whoever scores lower behind.
LEMMA PlaceInOrder ==
  ASSUME NEW S, IsFiniteSet(S), NEW score \in [S -> Int], NEW t \in S,
         NEW o \in OrdersBy(S, score), NEW p \in DOMAIN o, o[p] = t
  PROVE  /\ p \in 1..Cardinality(S)
         /\ Cardinality(Above(S, score, t)) + 1 <= p
         /\ p <= Cardinality(Above(S, score, t)) + Cardinality(Level(S, score, t))
<1> DEFINE n == Cardinality(S)
           up == Above(S, score, t)
           even == Level(S, score, t)
           before == {o[i] : i \in 1..(p - 1)}
<1>1. /\ n \in Nat /\ DOMAIN o = 1..n /\ \A i \in 1..n : o[i] \in S
      /\ \A i, j \in 1..n : o[i] = o[j] => i = j
      /\ \A d \in S : \E i \in 1..n : o[i] = d
      /\ \A i, j \in 1..n : i < j => score[o[i]] >= score[o[j]]
  BY OrdersArePermutations, FS_CardinalityType DEF OrdersBy
<1>2. /\ IsFiniteSet(before) /\ Cardinality(before) = p - 1
  <2> DEFINE f == [i \in 1..(p - 1) |-> o[i]]
  <2>1. f \in Surjection(1..(p - 1), before)
    BY DEF Surjection
  <2>2. f \in Injection(1..(p - 1), before)
    BY <1>1 DEF Injection, IsInjective
  <2>3. IsFiniteSet(1..(p - 1)) /\ Cardinality(1..(p - 1)) = p - 1
    <3>1. p \in Int /\ p >= 1
      BY <1>1
    <3>2. QED
      BY <3>1, FS_Interval
  <2> HIDE DEF f, before
  <2>4. QED
    BY <2>1, <2>2, <2>3, FS_Surjection
<1>3. up \subseteq before
  <2> SUFFICES ASSUME NEW d \in S, score[d] > score[t] PROVE d \in before
    BY DEF Above
  <2>1. PICK i \in 1..n : o[i] = d
    BY <1>1
  <2>2. i < p
    <3>1. score[o[i]] \in Int /\ score[o[p]] \in Int
      BY <1>1
    <3>2. ~(p < i) /\ i # p
      BY <1>1, <2>1, <3>1
    <3>3. QED
      BY <1>1, <3>2
  <2>3. QED
    BY <1>1, <2>1, <2>2
<1>4. before \subseteq up \union (even \ {t})
  <2> SUFFICES ASSUME NEW i \in 1..(p - 1) PROVE o[i] \in up \union (even \ {t})
    OBVIOUS
  <2>1. i \in 1..n /\ i < p
    BY <1>1
  <2>2. o[i] \in S /\ o[i] # t /\ score[o[i]] >= score[t]
    BY <1>1, <2>1
  <2>3. score[o[i]] \in Int /\ score[t] \in Int
    BY <2>2
  <2>4. QED
    BY <2>2, <2>3 DEF Above, Level
<1>5. /\ Cardinality(up) \in Nat /\ Cardinality(even) \in Nat
      /\ IsFiniteSet(up \union (even \ {t}))
      /\ Cardinality(up \union (even \ {t})) = Cardinality(up) + Cardinality(even) - 1
  BY AboveAndLevel
<1> HIDE DEF before, up, even
<1>6. Cardinality(up) <= p - 1
  BY <1>2, <1>3, FS_Subset
<1>7. p - 1 <= Cardinality(up) + Cardinality(even) - 1
  BY <1>2, <1>4, <1>5, FS_Subset
<1>8. QED
  BY <1>1, <1>5, <1>6, <1>7 DEF up, even

\* A ranking that puts higher scores first and equal ones in any order of theirs
\* is one of the orders; the place of a member is one more than it has before it.
Before(S, score, tie, t) ==
  {d \in S : score[d] > score[t] \/ (score[d] = score[t] /\ tie[d] < tie[t])}

LEMMA RankingIsAnOrder ==
  ASSUME NEW S, IsFiniteSet(S), NEW score \in [S -> Int], NEW tie \in [S -> Int],
         \A d, e \in S : tie[d] = tie[e] => d = e
  PROVE  \E o \in OrdersBy(S, score) :
           \A t \in S : /\ Cardinality(Before(S, score, tie, t)) + 1 \in DOMAIN o
                        /\ o[Cardinality(Before(S, score, tie, t)) + 1] = t
<1> DEFINE n == Cardinality(S)
           place == [t \in S |-> Cardinality(Before(S, score, tie, t)) + 1]
<1>1. n \in Nat
  BY FS_CardinalityType
<1>2. ASSUME NEW t \in S
      PROVE  /\ IsFiniteSet(Before(S, score, tie, t))
             /\ Cardinality(Before(S, score, tie, t)) \in 0..(n - 1)
  <2> DEFINE B == Before(S, score, tie, t)
  <2>1. score[t] \in Int /\ tie[t] \in Int
    OBVIOUS
  <2>2. B \subseteq S \ {t}
    BY <2>1 DEF Before
  <2>3. IsFiniteSet(S \ {t}) /\ Cardinality(S \ {t}) = n - 1
    BY FS_RemoveElement
  <2> HIDE DEF B
  <2>4. IsFiniteSet(B) /\ Cardinality(B) <= n - 1
    BY <2>2, <2>3, FS_Subset
  <2>5. Cardinality(B) \in Nat
    BY <2>4, FS_CardinalityType
  <2>6. QED
    BY <1>1, <2>4, <2>5 DEF B
<1>3. place \in [S -> 1..n]
  <2>1. ASSUME NEW t \in S PROVE Cardinality(Before(S, score, tie, t)) + 1 \in 1..n
    BY <1>1, <1>2
  <2>2. QED
    BY <2>1
<1>4. ASSUME NEW d \in S, NEW e \in S, d \in Before(S, score, tie, e)
      PROVE  place[d] < place[e]
  <2> DEFINE D == Before(S, score, tie, d)
             E == Before(S, score, tie, e)
  <2>1. \A x \in S : score[x] \in Int /\ tie[x] \in Int
    OBVIOUS
  <2>2. d \notin D
    BY <2>1 DEF Before
  <2>3. D \union {d} \subseteq E
    BY <1>4, <2>1 DEF Before
  <2>4. IsFiniteSet(D) /\ IsFiniteSet(E) /\ Cardinality(D) \in Nat /\ Cardinality(E) \in Nat
    BY <1>2, FS_CardinalityType
  <2>5. place[d] = Cardinality(D) + 1 /\ place[e] = Cardinality(E) + 1
    OBVIOUS
  <2> HIDE DEF D, E, place
  <2>6. Cardinality(D \union {d}) = Cardinality(D) + 1
    BY <2>2, <2>4, FS_AddElement
  <2>7. Cardinality(D \union {d}) <= Cardinality(E)
    BY <2>3, <2>4, FS_Subset
  <2>8. QED
    BY <2>4, <2>5, <2>6, <2>7
<1>5. ASSUME NEW d \in S, NEW e \in S, d # e
      PROVE  d \in Before(S, score, tie, e) \/ e \in Before(S, score, tie, d)
  <2>1. \A x \in S : score[x] \in Int /\ tie[x] \in Int
    OBVIOUS
  <2>2. tie[d] # tie[e]
    BY <1>5
  <2>3. QED
    BY <2>1, <2>2 DEF Before
<1> HIDE DEF place
<1>6. \A d, e \in S : place[d] = place[e] => d = e
  <2> SUFFICES ASSUME NEW d \in S, NEW e \in S, d # e PROVE place[d] # place[e]
    OBVIOUS
  <2>1. place[d] \in Int /\ place[e] \in Int
    BY <1>1, <1>3
  <2>2. QED
    BY <1>4, <1>5, <2>1
<1>7. \A i \in 1..n : \E d \in S : place[d] = i
  <2>1. place \in Injection(S, 1..n)
    BY <1>3, <1>6 DEF Injection, IsInjective
  <2>2. IsFiniteSet(1..n) /\ Cardinality(1..n) = n
    BY <1>1, FS_Interval
  <2>3. place \in Surjection(S, 1..n)
    BY <2>1, <2>2, FS_Injection
  <2>4. QED
    BY <2>3 DEF Surjection
<1> DEFINE o == [i \in 1..n |-> CHOOSE d \in S : place[d] = i]
<1>8. \A i \in 1..n : o[i] \in S /\ place[o[i]] = i
  BY <1>7
<1>9. o \in SetToSeqs(S)
  <2>1. o \in [1..n -> S]
    BY <1>8
  <2> HIDE DEF o
  <2>2. \A i, j \in 1..n : i # j => o[i] # o[j]
    BY <1>8
  <2>3. QED
    BY <2>1, <2>2 DEF SetToSeqs
<1>10. DOMAIN o = 1..n
  OBVIOUS
<1> HIDE DEF o
<1>11. ASSUME NEW i \in 1..n, NEW j \in 1..n, i < j
       PROVE  score[o[i]] >= score[o[j]]
  <2>1. /\ o[i] \in S /\ o[j] \in S /\ place[o[i]] = i /\ place[o[j]] = j
    BY <1>8
  <2>2. score[o[i]] \in Int /\ score[o[j]] \in Int
    BY <2>1
  <2>3. i \in Int /\ j \in Int
    BY <1>1
  <2>4. o[j] \notin Before(S, score, tie, o[i])
    BY <1>4, <1>11, <2>1, <2>3
  <2>5. ~(score[o[j]] > score[o[i]])
    BY <2>1, <2>4 DEF Before
  <2>6. QED
    BY <2>2, <2>5
<1>12. o \in OrdersBy(S, score)
  BY <1>9, <1>10, <1>11 DEF OrdersBy
<1>13. ASSUME NEW t \in S PROVE place[t] \in 1..n /\ o[place[t]] = t
  BY <1>3, <1>6, <1>8
<1>14. QED
  BY <1>10, <1>12, <1>13 DEF place

\* A member can stand at either end of its group of equal scores.
LEMMA EitherEndIsPossible ==
  ASSUME NEW S, IsFiniteSet(S), NEW score \in [S -> Int], NEW t \in S
  PROVE  /\ \E o \in OrdersBy(S, score) :
              LET p == Cardinality(Above(S, score, t)) + 1 IN p \in DOMAIN o /\ o[p] = t
         /\ \E o \in OrdersBy(S, score) :
              LET p == Cardinality(Above(S, score, t)) + Cardinality(Level(S, score, t))
              IN  p \in DOMAIN o /\ o[p] = t
<1> DEFINE n == Cardinality(S)
           up == Above(S, score, t)
           even == Level(S, score, t)
<1>1. n \in Nat
  BY FS_CardinalityType
<1>2. PICK number \in [S -> 1..n] : \A d, e \in S : number[d] = number[e] => d = e
  <2>1. ExistsBijection(1..n, S)
    BY FS_CardinalityType
  <2>2. ExistsBijection(S, 1..n)
    BY <2>1, Fun_ExistsBijSymmetric
  <2>3. QED
    BY <2>2 DEF ExistsBijection, Bijection, Injection, IsInjective
<1> DEFINE first == [number EXCEPT ![t] = 0]
           last == [number EXCEPT ![t] = n + 1]
<1>3. \A d \in S : number[d] \in Int /\ number[d] > 0 /\ number[d] < n + 1
  BY <1>1, <1>2
<1>4. /\ first \in [S -> Int]
      /\ first[t] = 0 /\ \A d \in S \ {t} : first[d] = number[d]
  BY <1>1, <1>2
<1>5. /\ last \in [S -> Int]
      /\ last[t] = n + 1 /\ \A d \in S \ {t} : last[d] = number[d]
  BY <1>1, <1>2
<1> HIDE DEF first, last
<1>6. \A d, e \in S : first[d] = first[e] => d = e
  BY <1>2, <1>3, <1>4
<1>7. \A d, e \in S : last[d] = last[e] => d = e
  BY <1>1, <1>2, <1>3, <1>5
<1>8. Before(S, score, first, t) = up
  <2>1. \A d \in S : ~(first[d] < first[t])
    BY <1>3, <1>4
  <2>2. QED
    BY <2>1 DEF Before, Above
<1>9. Before(S, score, last, t) = up \union (even \ {t})
  <2>1. \A d \in S \ {t} : last[d] < last[t]
    BY <1>1, <1>3, <1>5
  <2>2. ~(last[t] < last[t]) /\ ~(score[t] > score[t])
    <3>1. score[t] \in Int /\ last[t] \in Int
      BY <1>5
    <3>2. QED
      BY <3>1
  <2>3. QED
    BY <2>1, <2>2 DEF Before, Above, Level
<1>10. Cardinality(up \union (even \ {t})) + 1 = Cardinality(up) + Cardinality(even)
  <2>1. /\ Cardinality(up) \in Nat /\ Cardinality(even) \in Nat
        /\ Cardinality(up \union (even \ {t})) = Cardinality(up) + Cardinality(even) - 1
    BY AboveAndLevel
  <2> HIDE DEF up, even
  <2>2. QED
    BY <2>1
<1>11. \E o \in OrdersBy(S, score) : Cardinality(up) + 1 \in DOMAIN o /\ o[Cardinality(up) + 1] = t
  BY <1>4, <1>6, <1>8, RankingIsAnOrder
<1>12. \E o \in OrdersBy(S, score) :
         /\ Cardinality(up) + Cardinality(even) \in DOMAIN o
         /\ o[Cardinality(up) + Cardinality(even)] = t
  <2> DEFINE B == Before(S, score, last, t)
  <2>1. \E o \in OrdersBy(S, score) : Cardinality(B) + 1 \in DOMAIN o /\ o[Cardinality(B) + 1] = t
    BY <1>5, <1>7, RankingIsAnOrder
  <2>2. Cardinality(B) + 1 = Cardinality(up) + Cardinality(even)
    BY <1>9, <1>10
  <2> HIDE DEF B, up, even
  <2>3. QED
    BY <2>1, <2>2
<1>13. QED
  BY <1>11, <1>12

\* The score at the k-th place.
ScoreAt(S, score, k) ==
  CHOOSE x \in {score[d] : d \in S} :
    /\ Cardinality({d \in S : score[d] > x}) < k
    /\ Cardinality({d \in S : score[d] >= x}) >= k

\* A score with fewer than k members above it and at least k at or above it is
\* the only such score.
LEMMA BoundaryIsTheOnlyOne ==
  ASSUME NEW S, IsFiniteSet(S), NEW score \in [S -> Int], NEW t \in S, NEW k \in Nat,
         Cardinality(Above(S, score, t)) < k,
         Cardinality(Above(S, score, t)) + Cardinality(Level(S, score, t)) >= k
  PROVE  ScoreAt(S, score, k) = score[t]
<1> DEFINE higher(x) == {d \in S : score[d] > x}
           reaching(x) == {d \in S : score[d] >= x}
           IsBoundary(x) == Cardinality(higher(x)) < k /\ Cardinality(reaching(x)) >= k
<1>1. \A x : IsFiniteSet(higher(x)) /\ IsFiniteSet(reaching(x))
  BY FS_Subset
<1>2. IsBoundary(score[t])
  <2>1. higher(score[t]) = Above(S, score, t)
    BY DEF Above
  <2>2. reaching(score[t]) = Above(S, score, t) \union Level(S, score, t)
    <3>1. \A d \in S : score[d] \in Int
      OBVIOUS
    <3>2. QED
      BY <3>1 DEF Above, Level
  <2>3. Cardinality(reaching(score[t])) = Cardinality(Above(S, score, t)) + Cardinality(Level(S, score, t))
    BY <2>2, AboveAndLevel
  <2>4. QED
    BY <2>1, <2>3
<1>3. ASSUME NEW x \in {score[d] : d \in S}, NEW y \in {score[d] : d \in S}, x < y,
             IsBoundary(x), IsBoundary(y)
      PROVE  FALSE
  <2>1. x \in Int /\ y \in Int /\ \A d \in S : score[d] \in Int
    OBVIOUS
  <2>2. reaching(y) \subseteq higher(x)
    BY <1>3, <2>1
  <2>3. Cardinality(reaching(y)) <= Cardinality(higher(x))
    BY <1>1, <2>2, FS_Subset
  <2>4. Cardinality(reaching(y)) \in Nat /\ Cardinality(higher(x)) \in Nat
    BY <1>1, FS_CardinalityType
  <2> HIDE DEF higher, reaching
  <2>5. QED
    BY <1>3, <2>3, <2>4
<1>4. \A x, y \in {score[d] : d \in S} : IsBoundary(x) /\ IsBoundary(y) => x = y
  <2>1. \A x \in {score[d] : d \in S} : x \in Int
    OBVIOUS
  <2> HIDE DEF IsBoundary
  <2>2. QED
    BY <1>3, <2>1
<1> DEFINE scores == {score[d] : d \in S}
<1>5. score[t] \in scores
  OBVIOUS
<1> HIDE DEF IsBoundary, scores
<1>6. (CHOOSE x \in scores : IsBoundary(x)) = score[t]
  BY <1>2, <1>4, <1>5 DEF scores
<1>7. QED
  BY <1>6 DEF ScoreAt, IsBoundary, scores

-----------------------------------------------------------------------------
(* The fusion of two lists.                                                *)

\* The place of a document in a list without repetitions.
LEMMA PlaceIsTheIndex ==
  ASSUME NEW n \in Nat, NEW list, DOMAIN list = 1..n, Len(list) = n,
         \A i, j \in 1..n : list[i] = list[j] => i = j, NEW doc
  PROVE  /\ \A i \in 1..n : list[i] = doc => Place(list, doc) = i
         /\ (\A i \in 1..n : list[i] # doc) => Place(list, doc) = None
BY DEF Place, Contains

\* The lists of a scope, with the documents only.
ListOf(s, scope, signal) == s.lists[[scope |-> scope, signal |-> signal]]

DocumentsOf(s, scope) ==
  [x \in {"bm25", "ann"} |-> [i \in DOMAIN ListOf(s, scope, x) |-> ListOf(s, scope, x)[i].doc]]

\* What a snapshot that is not refused says of the two lists of a scope.
FusedLists(s, scope) ==
  \A x \in {"bm25", "ann"} :
    LET rows == ListOf(s, scope, x) IN
      /\ Len(rows) \in Nat /\ DOMAIN rows = 1..Len(rows)
      /\ Len(rows) <= CandidateK
      /\ \A i, j \in 1..Len(rows) : rows[i].doc = rows[j].doc => i = j

LEMMA SnapshotHasFusedLists ==
  ASSUME NEW s, ValidSnapshot(s), Hybrid(s.mode), NEW scope \in Scopes(s.noFilter),
         \A role \in DOMAIN s.lists : s.lists[role] \in Seq(ToSet(s.lists[role]))
  PROVE  FusedLists(s, scope)
<1> SUFFICES ASSUME NEW x \in {"bm25", "ann"}
             PROVE  LET rows == ListOf(s, scope, x) IN
                      /\ Len(rows) \in Nat /\ DOMAIN rows = 1..Len(rows)
                      /\ Len(rows) <= CandidateK
                      /\ \A i, j \in 1..Len(rows) : rows[i].doc = rows[j].doc => i = j
  BY DEF FusedLists
<1> DEFINE role == [scope |-> scope, signal |-> x]
           rows == s.lists[role]
<1>1. Signals(s.mode) = {"bm25", "ann"}
  BY DEF Hybrid, Signals
<1>2. role \in Roles(s.mode, s.noFilter)
  BY <1>1 DEF Roles
<1>3. ValidList(s, role) /\ role \in DOMAIN s.lists
  BY <1>2 DEF ValidSnapshot
<1> HIDE DEF role
<1>4. rows \in Seq(ToSet(rows))
  BY <1>3
<1>5. Limit(s.mode) = CandidateK
  BY DEF Limit
<1>6. Len(rows) <= CandidateK /\ \A i, j \in DOMAIN rows : rows[i].doc = rows[j].doc => i = j
  BY <1>3, <1>5 DEF ValidList
<1> HIDE DEF rows
<1>7. Len(rows) \in Nat /\ DOMAIN rows = 1..Len(rows)
  BY <1>4
<1>8. QED
  BY <1>6, <1>7 DEF ListOf, rows, role

\* The two roles of a scope.
LEMMA RolesOfScope ==
  ASSUME NEW scope
  PROVE  [scope : {scope}, signal : {"bm25", "ann"}]
           = {[scope |-> scope, signal |-> "bm25"], [scope |-> scope, signal |-> "ann"]}
<1>1. ASSUME NEW r \in [scope : {scope}, signal : {"bm25", "ann"}]
      PROVE  r \in {[scope |-> scope, signal |-> "bm25"], [scope |-> scope, signal |-> "ann"]}
  <2>1. r = [scope |-> r.scope, signal |-> r.signal]
    OBVIOUS
  <2>2. r.scope = scope /\ (r.signal = "bm25" \/ r.signal = "ann")
    OBVIOUS
  <2>3. QED
    BY <2>1, <2>2
<1>2. /\ [scope |-> scope, signal |-> "bm25"] \in [scope : {scope}, signal : {"bm25", "ann"}]
      /\ [scope |-> scope, signal |-> "ann"] \in [scope : {scope}, signal : {"bm25", "ann"}]
  OBVIOUS
<1>3. QED
  BY <1>1, <1>2

\* The analysis and the fusion see the same documents at the same places.
LEMMA SameFusion ==
  ASSUME NEW s, NEW scope, FusedLists(s, scope)
  PROVE  /\ Fusible(DocumentsOf(s, scope)) = FusedDocuments(s, scope)
         /\ \A doc : Places(DocumentsOf(s, scope), doc) = Ranks(s, scope, doc)
         /\ \A doc : \A x \in {"bm25", "ann"} :
              Ranks(s, scope, doc)[x] \in 1..CandidateK \union {None}
<1> DEFINE docs == DocumentsOf(s, scope)
<1>1. Fusible(docs) = FusedDocuments(s, scope)
  <2>1. \A x \in {"bm25", "ann"} :
          ToSet(docs[x]) = {ListOf(s, scope, x)[i].doc : i \in DOMAIN ListOf(s, scope, x)}
    BY DEF DocumentsOf, ToSet
  <2>2. FusedDocuments(s, scope)
          = {ListOf(s, scope, "bm25")[i].doc : i \in DOMAIN ListOf(s, scope, "bm25")}
            \union {ListOf(s, scope, "ann")[i].doc : i \in DOMAIN ListOf(s, scope, "ann")}
    BY RolesOfScope DEF FusedDocuments, ListOf
  <2>3. QED
    BY <2>1, <2>2 DEF Fusible
<1>2. ASSUME NEW doc, NEW x \in {"bm25", "ann"}
      PROVE  /\ Place(docs[x], doc) = RankOf(ListOf(s, scope, x), doc)
             /\ RankOf(ListOf(s, scope, x), doc) \in 1..CandidateK \union {None}
  <2> DEFINE rows == ListOf(s, scope, x)
             n == Len(rows)
             list == docs[x]
  <2>1. /\ n \in Nat /\ DOMAIN rows = 1..n /\ n <= CandidateK /\ CandidateK \in Nat
        /\ \A i, j \in 1..n : rows[i].doc = rows[j].doc => i = j
    BY AnalysisAssumption DEF FusedLists
  <2>2. list = [i \in 1..n |-> rows[i].doc]
    BY <2>1 DEF DocumentsOf
  <2> HIDE DEF list, rows, n, docs
  <2>3. DOMAIN list = 1..n /\ Len(list) = n
    BY <2>1, <2>2
  <2>4. \A i, j \in 1..n : list[i] = list[j] => i = j
    BY <2>1, <2>2
  <2>5. CASE \E i \in 1..n : rows[i].doc = doc
    <3>1. PICK i \in 1..n : rows[i].doc = doc
      BY <2>5
    <3>2. RankOf(rows, doc) = i
      BY <2>1, <3>1 DEF RankOf
    <3>3. Place(list, doc) = i
      BY <2>1, <2>2, <2>3, <2>4, <3>1, PlaceIsTheIndex
    <3>4. i \in 1..CandidateK
      BY <2>1
    <3>5. QED
      BY <3>2, <3>3, <3>4 DEF list, rows
  <2>6. CASE ~ \E i \in 1..n : rows[i].doc = doc
    <3>1. RankOf(rows, doc) = None
      BY <2>1, <2>6 DEF RankOf
    <3>2. Place(list, doc) = None
      BY <2>1, <2>2, <2>3, <2>4, <2>6, PlaceIsTheIndex
    <3>3. QED
      BY <3>1, <3>2 DEF list, rows
  <2>7. QED
    BY <2>5, <2>6
<1>3. ASSUME NEW doc
      PROVE  Ranks(s, scope, doc) = [x \in {"bm25", "ann"} |-> RankOf(ListOf(s, scope, x), doc)]
  BY DEF Ranks, ListOf
<1>4. ASSUME NEW doc PROVE Places(docs, doc) = Ranks(s, scope, doc)
  BY <1>2, <1>3 DEF Places
<1>5. QED
  BY <1>1, <1>2, <1>3, <1>4

\* Documents are finitely many, and their scores are integers.
LEMMA TotalsAreIntegers ==
  ASSUME NEW s, NEW scope, FusedLists(s, scope)
  PROVE  /\ IsFiniteSet(FusedDocuments(s, scope))
         /\ Totals(s, scope) \in [FusedDocuments(s, scope) -> Int]
<1> DEFINE images(x) == {ListOf(s, scope, x)[i].doc : i \in 1..Len(ListOf(s, scope, x))}
<1>1. ASSUME NEW x \in {"bm25", "ann"} PROVE IsFiniteSet(images(x))
  <2> DEFINE n == Len(ListOf(s, scope, x))
             f == [i \in 1..n |-> ListOf(s, scope, x)[i].doc]
  <2>1. n \in Nat
    BY DEF FusedLists
  <2>2. IsFiniteSet(1..n)
    BY <2>1, FS_Interval
  <2>3. f \in Surjection(1..n, images(x))
    BY DEF Surjection
  <2> HIDE DEF f, n, images
  <2>4. QED
    BY <2>2, <2>3, FS_Surjection
<1>2. FusedDocuments(s, scope) = images("bm25") \union images("ann")
  <2>1. \A x \in {"bm25", "ann"} :
          DOMAIN ListOf(s, scope, x) = 1..Len(ListOf(s, scope, x))
    BY DEF FusedLists
  <2>2. QED
    BY <2>1, RolesOfScope DEF FusedDocuments, ListOf
<1>3. IsFiniteSet(FusedDocuments(s, scope))
  <2>1. IsFiniteSet(images("bm25")) /\ IsFiniteSet(images("ann"))
    BY <1>1
  <2> HIDE DEF images
  <2>2. QED
    BY <1>2, <2>1, FS_Union
<1>4. ASSUME NEW weight \in Nat, NEW rank \in 1..CandidateK \union {None}
      PROVE  Share(weight, rank) \in Int
  <2>1. CASE rank = None
    BY <2>1 DEF Share
  <2>2. CASE rank # None
    <3>1. rank \in Nat /\ RankConstant \in Nat \ {0} /\ ShareScale \in Nat
      BY <2>2, AnalysisAssumption
    <3>2. RankConstant + rank \in Nat \ {0}
      BY <3>1
    <3>3. ShareScale \div (RankConstant + rank) \in Int
      BY <3>1, <3>2
    <3>4. QED
      BY <2>2, <3>3 DEF Share
  <2>3. QED
    BY <2>1, <2>2
<1>5. ASSUME NEW doc PROVE FusedScore(Ranks(s, scope, doc)) \in Int
  <2>1. Bm25Weight \in Nat /\ AnnWeight \in Nat
    BY AnalysisAssumption
  <2>2. /\ Share(Bm25Weight, Ranks(s, scope, doc)["bm25"]) \in Int
        /\ Share(AnnWeight, Ranks(s, scope, doc)["ann"]) \in Int
    BY <1>4, <2>1, SameFusion
  <2>3. QED
    BY <2>2 DEF FusedScore
<1>6. QED
  BY <1>3, <1>5 DEF Totals

\* The ranks that equal scores leave open are the places of the target in the
\* orders by falling totals.
LEMMA RanksAreThePlaces ==
  ASSUME NEW s, NEW scope, FusedLists(s, scope)
  PROVE  LET S == FusedDocuments(s, scope)
             orders == OrdersBy(S, Totals(s, scope))
         IN  /\ Target \notin S => PossibleRanks(s, scope) = {}
             /\ \A o \in orders : \A p \in DOMAIN o :
                  o[p] = Target => p \in PossibleRanks(s, scope)
             /\ \A p \in PossibleRanks(s, scope) :
                  \E o \in orders : p \in DOMAIN o /\ o[p] = Target
<1> DEFINE S == FusedDocuments(s, scope)
           totals == Totals(s, scope)
           docs == DocumentsOf(s, scope)
           n == Cardinality(S)
           orders == OrdersBy(S, totals)
<1>1. IsFiniteSet(S) /\ n \in Nat
  BY TotalsAreIntegers, FS_CardinalityType
<1>2. \A d \in S : Fused(docs, d) = totals[d]
  BY SameFusion DEF Fused, Totals
<1>3. PossibleRanks(s, scope) = {Place(o, Target) : o \in orders} \ {None}
  <2>1. PossibleRanks(s, scope)
          = {Place(o, Target) : o \in {o \in SetToSeqs(Fusible(docs)) :
               \A i, j \in DOMAIN o : i < j => Fused(docs, o[i]) >= Fused(docs, o[j])}} \ {None}
    BY DEF PossibleRanks, DocumentsOf, ListOf
  <2>2. Fusible(docs) = S
    BY SameFusion
  <2> HIDE DEF S, docs, totals
  <2>3. ASSUME NEW o \in SetToSeqs(S)
        PROVE  \A i \in DOMAIN o : Fused(docs, o[i]) = totals[o[i]]
    BY <1>1, <1>2, OrdersArePermutations
  <2>4. {o \in SetToSeqs(S) :
           \A i, j \in DOMAIN o : i < j => Fused(docs, o[i]) >= Fused(docs, o[j])} = orders
    BY <2>3 DEF OrdersBy
  <2>5. QED
    BY <2>1, <2>2, <2>4
<1>4. ASSUME NEW o \in orders
      PROVE  /\ \A p \in DOMAIN o : o[p] = Target => Place(o, Target) = p /\ p # None
             /\ Place(o, Target) # None => \E p \in DOMAIN o : o[p] = Target /\ p = Place(o, Target)
             /\ \A p \in DOMAIN o : o[p] \in S
  <2>1. o \in SetToSeqs(S)
    BY DEF OrdersBy
  <2>2. /\ DOMAIN o = 1..n
        /\ \A i \in 1..n : o[i] \in S
        /\ \A i, j \in 1..n : o[i] = o[j] => i = j
    BY <1>1, <2>1, OrdersArePermutations
  <2>3. Len(o) = n
    <3>1. o \in [1..n -> S]
      BY <2>1 DEF SetToSeqs
    <3> HIDE DEF S, n, orders
    <3>2. QED
      BY <1>1, <3>1
  <2>4. \A p \in 1..n : p # None
    BY <1>1, AnalysisAssumption
  <2> HIDE DEF S, n, orders
  <2>5. /\ \A p \in 1..n : o[p] = Target => Place(o, Target) = p
        /\ (\A p \in 1..n : o[p] # Target) => Place(o, Target) = None
    BY <1>1, <2>2, <2>3, PlaceIsTheIndex
  <2>6. QED
    BY <2>2, <2>4, <2>5
<1> HIDE DEF S, totals, orders
<1>5. QED
  BY <1>3, <1>4 DEF S, totals, orders

\* What the analysis says of the target in a fusion, for each order that the
\* provider may give to equal scores.
HoldsInEveryOrder(s, e) ==
  LET ranks == PossibleRanks(s, e.scope)
  IN  CASE e.relation = "target_present" -> ranks # {} /\ ranks \subseteq 1..ResultK /\ e.rank \in ranks
        [] e.relation = "outside_candidates" -> ranks \intersect 1..ResultK = {}
        [] OTHER -> ~(ranks # {} /\ ranks \subseteq 1..ResultK)

\* The bounds of the possible ranks, both of them attained.
LEMMA RanksOfTheTarget ==
  ASSUME NEW s, NEW scope, FusedLists(s, scope), Target \in FusedDocuments(s, scope)
  PROVE  LET totals == Totals(s, scope)
             ranks == PossibleRanks(s, scope)
         IN  /\ Higher(totals) \in Nat /\ Tied(totals) \in Nat
             /\ Cardinality(DOMAIN totals) \in Nat
             /\ Higher(totals) + 1 \in ranks
             /\ Higher(totals) + Tied(totals) \in ranks
             /\ \A p \in ranks :
                  /\ p \in 1..Cardinality(DOMAIN totals)
                  /\ Higher(totals) + 1 <= p /\ p <= Higher(totals) + Tied(totals)
<1> DEFINE S == FusedDocuments(s, scope)
           totals == Totals(s, scope)
<1>1. IsFiniteSet(S) /\ totals \in [S -> Int] /\ DOMAIN totals = S /\ Target \in S
  BY TotalsAreIntegers
<1>2. Higher(totals) = Cardinality(Above(S, totals, Target))
  BY <1>1 DEF Higher, Above
<1>3. Tied(totals) = Cardinality(Level(S, totals, Target))
  BY <1>1 DEF Tied, Level
<1>4. /\ Target \notin S => PossibleRanks(s, scope) = {}
      /\ \A o \in OrdersBy(S, totals) : \A p \in DOMAIN o :
           o[p] = Target => p \in PossibleRanks(s, scope)
      /\ \A p \in PossibleRanks(s, scope) :
           \E o \in OrdersBy(S, totals) : p \in DOMAIN o /\ o[p] = Target
  BY RanksAreThePlaces
<1> HIDE DEF S, totals
<1>5. /\ Higher(totals) \in Nat /\ Tied(totals) \in Nat /\ Cardinality(S) \in Nat
  <2>1. Cardinality(Above(S, totals, Target)) \in Nat /\ Cardinality(Level(S, totals, Target)) \in Nat
    BY <1>1, AboveAndLevel
  <2>2. QED
    BY <1>1, <1>2, <1>3, <2>1, FS_CardinalityType
<1>6. /\ Higher(totals) + 1 \in PossibleRanks(s, scope)
      /\ Higher(totals) + Tied(totals) \in PossibleRanks(s, scope)
  BY <1>1, <1>2, <1>3, <1>4, EitherEndIsPossible
<1>7. ASSUME NEW p \in PossibleRanks(s, scope)
      PROVE  /\ p \in 1..Cardinality(S)
             /\ Higher(totals) + 1 <= p /\ p <= Higher(totals) + Tied(totals)
  <2>1. PICK o \in OrdersBy(S, totals) : p \in DOMAIN o /\ o[p] = Target
    BY <1>4
  <2>2. QED
    BY <1>1, <1>2, <1>3, <2>1, PlaceInOrder
<1>8. QED
  BY <1>1, <1>5, <1>6, <1>7 DEF totals

\* The claim of the analysis about a scope holds in every order: a certain
\* member stands within the cutoff wherever equals put it, one whose score is
\* not the one at the cutoff stands behind it, and in the other cases some
\* order puts the target outside.
LEMMA FusionClaimHolds ==
  ASSUME NEW s, NEW scope, FusedLists(s, scope), NEW root
  PROVE  HoldsInEveryOrder(s, QualifiedRrf(s, scope, root))
<1> DEFINE S == FusedDocuments(s, scope)
           totals == Totals(s, scope)
           ranks == PossibleRanks(s, scope)
           e == QualifiedRrf(s, scope, root)
           n == Cardinality(S)
           boundary == FusionBoundary(totals)
           present == MembershipCertain(totals)
           score == FusedScore(Ranks(s, scope, Target))
<1>1. /\ e.scope = scope
      /\ present => e.relation = "target_present" /\ e.rank = Higher(totals) + 1
      /\ ~present /\ boundary \in {None, score} => e.relation = "not_observable"
      /\ ~present /\ boundary \notin {None, score} => e.relation = "outside_candidates"
  BY DEF QualifiedRrf
<1>2. IsFiniteSet(S) /\ totals \in [S -> Int] /\ DOMAIN totals = S /\ n \in Nat
  BY TotalsAreIntegers, FS_CardinalityType
<1>3. ResultK \in Nat /\ ResultK > 0
  BY AnalysisAssumption
<1>4. Target \notin S => ranks = {}
  BY RanksAreThePlaces
<1>5. Target \in S => score = totals[Target]
  BY DEF Totals
<1> DEFINE h == Higher(totals)
           t == Tied(totals)
<1>6. ASSUME Target \in S
      PROVE  /\ h \in Nat /\ t \in Nat
             /\ h + 1 \in ranks /\ h + t \in ranks
             /\ \A p \in ranks : p \in 1..n /\ h + 1 <= p /\ p <= h + t
  BY <1>2, <1>6, RanksOfTheTarget
<1>7. /\ present => Target \in S
      /\ Target \in S => (present <=> n <= ResultK \/ h + t <= ResultK)
  BY <1>2 DEF MembershipCertain
<1>8. ASSUME Target \in S, ~present, boundary # score
      PROVE  h >= ResultK
  <2>1. n > ResultK /\ h + t > ResultK /\ h \in Nat /\ t \in Nat
    BY <1>2, <1>3, <1>6, <1>7, <1>8
  <2> SUFFICES ASSUME h < ResultK PROVE FALSE
    BY <1>3, <2>1
  <2>2. h = Cardinality(Above(S, totals, Target)) /\ t = Cardinality(Level(S, totals, Target))
    BY <1>2 DEF Higher, Tied, Above, Level
  <2>3. boundary = ScoreAt(S, totals, ResultK)
    <3>1. ~(n < ResultK)
      BY <1>2, <1>3, <2>1
    <3>2. QED
      BY <1>2, <3>1 DEF FusionBoundary, ScoreAt
  <2> HIDE DEF S, totals, h, t, boundary, score
  <2>4. boundary = totals[Target]
    <3>1. /\ Cardinality(Above(S, totals, Target)) < ResultK
          /\ Cardinality(Above(S, totals, Target)) + Cardinality(Level(S, totals, Target)) >= ResultK
      BY <1>3, <2>1, <2>2
    <3>2. ScoreAt(S, totals, ResultK) = totals[Target]
      BY <1>2, <1>3, <1>8, <3>1, BoundaryIsTheOnlyOne
    <3>3. QED
      BY <2>3, <3>2
  <2>5. QED
    BY <1>5, <1>8, <2>4
<1> HIDE DEF S, totals, ranks, e, n, boundary, present, score, h, t
<1>9. CASE present
  <2>1. ranks # {} /\ h + 1 \in ranks
    BY <1>6, <1>7, <1>9
  <2>2. ranks \subseteq 1..ResultK
    BY <1>2, <1>3, <1>6, <1>7, <1>9
  <2>3. e.rank = h + 1
    BY <1>1, <1>9 DEF h
  <2>4. QED
    BY <1>1, <1>9, <2>1, <2>2, <2>3 DEF HoldsInEveryOrder, ranks, e
<1>10. CASE ~present /\ boundary \notin {None, score}
  <2>1. ranks \intersect 1..ResultK = {}
    BY <1>3, <1>4, <1>6, <1>8, <1>10
  <2>2. QED
    BY <1>1, <1>10, <2>1 DEF HoldsInEveryOrder, ranks, e
<1>11. CASE ~present /\ boundary \in {None, score}
  <2>1. ~(ranks # {} /\ ranks \subseteq 1..ResultK)
    BY <1>2, <1>3, <1>4, <1>6, <1>7, <1>11
  <2>2. QED
    BY <1>1, <1>11, <2>1 DEF HoldsInEveryOrder, ranks, e
<1>12. QED
  BY <1>9, <1>10, <1>11 DEF e

-----------------------------------------------------------------------------
(* The control of a request.                                               *)

\* What is owned, what runs and what was delivered at each await.  A request
\* that was cancelled never goes on to an await at which it works.
Control ==
  /\ phase \in {"idle", "embedding", "connecting", "querying", "comparing", "probing",
                "closing", "ended"}
  /\ cancels \in Nat /\ (cancelled <=> cancels > 0)
  /\ phase = "idle" => cancels = 0 /\ task = "none" /\ resource = "none" /\ answer = None
  /\ phase = "embedding" => resource = "none"
  /\ phase = "connecting" => cancels = 0 /\ task = "none" /\ resource = "none"
  /\ phase \in {"querying", "comparing", "probing"} => cancels = 0 /\ task = "none"
  /\ phase = "ended" =>
       /\ task = "none" /\ resource # "open"
       /\ outcome # "refused" => (outcome = "cancelled" <=> cancels > 0)

\* A diagnostic makes no comparison, and what it holds is an answer to it.
HoldsItsAnswer ==
  IsDiagnosis =>
    /\ request \in Requests
    /\ phase \notin {"comparing", "probing"}
    /\ answer # None => answer \in Answers[request]

\* After a comparison or a probe the next await is a probe or the close.
LEMMA ProbingGoesOnOrCloses ==
  ASSUME NEW results, Probed(results)
  PROVE  phase' = "closing" \/ (phase' = "probing" /\ task' = task)
BY DEF Probed, StartClose

LEMMA ControlIsKept == Control /\ [Next]_vars => Control'
<1> SUFFICES ASSUME Control, [Next]_vars PROVE Control'
  OBVIOUS
<1> USE DEF Control
<1>1. CASE Refuse
  BY <1>1 DEF Refuse
<1>2. CASE Begin
  BY <1>2 DEF Begin
<1>3. CASE TaskEnds
  BY <1>3 DEF TaskEnds
<1>4. CASE EmbeddingResumes
  BY <1>4 DEF EmbeddingResumes, End
<1>5. CASE Connect
  BY <1>5 DEF Connect, End, StartClose
<1>6. CASE QueryAnswers
  BY <1>6 DEF QueryAnswers, StartClose
<1>7. CASE CallFails
  BY <1>7 DEF CallFails, StartClose
<1>8. CASE CompareAnswers \/ ProbeAnswers \/ ProbeFails
  <2>1. phase \in {"comparing", "probing"} /\ UNCHANGED <<cancels, cancelled>>
    BY <1>8 DEF CompareAnswers, ProbeAnswers, ProbeFails
  <2>2. \E results : Probed(results)
    BY <1>8, Zenon DEF CompareAnswers, ProbeAnswers, ProbeFails
  <2>3. phase' = "closing" \/ (phase' = "probing" /\ task' = task)
    BY <2>2, ProbingGoesOnOrCloses
  <2>4. QED
    BY <2>1, <2>3
<1>9. CASE CancelCall
  BY <1>9 DEF CancelCall, StartClose
<1>10. CASE CancelDrain
  BY <1>10 DEF CancelDrain
<1>11. CASE CloseResumes
  BY <1>11 DEF CloseResumes, End
<1>12. CASE Reply
  BY <1>12 DEF Reply
<1>13. CASE UNCHANGED vars
  BY <1>13 DEF vars
<1>14. QED
  BY <1>1, <1>2, <1>3, <1>4, <1>5, <1>6, <1>7, <1>8, <1>9, <1>10, <1>11, <1>12, <1>13 DEF Next

LEMMA AnswerIsKept == Control /\ HoldsItsAnswer /\ [Next]_vars => HoldsItsAnswer'
<1> SUFFICES ASSUME Control, HoldsItsAnswer, [Next]_vars PROVE HoldsItsAnswer'
  OBVIOUS
<1> USE DEF HoldsItsAnswer, IsDiagnosis
<1>1. CASE Refuse
  BY <1>1 DEF Refuse, Control
<1>2. CASE Begin
  BY <1>2 DEF Begin, Control
<1>3. CASE QueryAnswers
  BY <1>3 DEF QueryAnswers, StartClose
<1>4. CASE CompareAnswers \/ ProbeAnswers \/ ProbeFails
  <2>1. phase \in {"comparing", "probing"} /\ request' = request
    BY <1>4 DEF CompareAnswers, ProbeAnswers, ProbeFails
  <2>2. QED
    BY <2>1
<1>5. CASE Reply
  BY <1>5 DEF Reply
<1>6. CASE \/ TaskEnds \/ EmbeddingResumes \/ Connect \/ CallFails \/ CancelCall
           \/ CancelDrain \/ CloseResumes
  <2>1. /\ UNCHANGED <<request, answer>>
        /\ phase' \in {phase, "connecting", "querying", "closing", "ended"}
    BY <1>6 DEF TaskEnds, EmbeddingResumes, Connect, CallFails, CancelCall, CancelDrain,
                CloseResumes, End, StartClose
  <2>2. QED
    BY <2>1
<1>7. CASE UNCHANGED vars
  BY <1>7 DEF vars
<1>8. QED
  BY <1>1, <1>2, <1>3, <1>4, <1>5, <1>6, <1>7 DEF Next

\* In every reachable state a request is where its control says, with an answer
\* that is one to it.
THEOREM RequestsAreControlled == Spec => [](Control /\ HoldsItsAnswer)
<1>1. Init => Control /\ HoldsItsAnswer
  BY DEF Init, Idle, Control, HoldsItsAnswer, IsDiagnosis
<1>2. QED
  BY <1>1, ControlIsKept, AnswerIsKept, PTL DEF Spec

-----------------------------------------------------------------------------
(* A replay: one fusion, and what its hits say of it.                      *)

\* Without equal scores there is one order.
LEMMA OrderWithoutTies ==
  ASSUME NEW S, IsFiniteSet(S), NEW score \in [S -> Int],
         \A d, e \in S : score[d] = score[e] => d = e,
         NEW o \in OrdersBy(S, score), NEW p \in OrdersBy(S, score)
  PROVE  o = p
<1> DEFINE n == Cardinality(S)
<1>1. o \in SetToSeqs(S) /\ p \in SetToSeqs(S)
  BY DEF OrdersBy
<1>2. o \in [1..n -> S] /\ p \in [1..n -> S]
  BY <1>1 DEF SetToSeqs
<1>3. ASSUME NEW i \in 1..n PROVE o[i] = p[i]
  <2>1. PICK t : t = o[i] /\ t \in S
    BY <1>2
  <2>2. PICK j \in DOMAIN p : p[j] = t
    BY <1>1, <2>1, OrdersArePermutations
  <2>3. Level(S, score, t) = {t}
    BY <2>1 DEF Level
  <2>4. Cardinality(Level(S, score, t)) = 1
    BY <2>3, FS_Singleton
  <2>5. Cardinality(Above(S, score, t)) \in Nat
    BY <2>1, AboveAndLevel
  <2>6. i \in DOMAIN o
    BY <1>2
  <2>7. Cardinality(Above(S, score, t)) + 1 <= i /\ i <= Cardinality(Above(S, score, t)) + 1
    BY <2>1, <2>4, <2>6, PlaceInOrder
  <2>8. Cardinality(Above(S, score, t)) + 1 <= j /\ j <= Cardinality(Above(S, score, t)) + 1
    BY <2>1, <2>2, <2>4, PlaceInOrder
  <2>9. i = j
    BY <1>2, <2>2, <2>5, <2>7, <2>8
  <2>10. QED
    BY <2>1, <2>2, <2>9
<1> HIDE DEF n
<1>4. o = [i \in 1..n |-> o[i]] /\ p = [i \in 1..n |-> p[i]]
  BY <1>2
<1>5. [i \in 1..n |-> o[i]] = [i \in 1..n |-> p[i]]
  BY <1>3
<1>6. QED
  BY <1>4, <1>5, Zenon

\* Two candidate lists of a replay.
ListPair(lists) == \A x \in {"bm25", "ann"} : lists[x] \in Seq(ToSet(lists[x]))

\* The scores of the documents that a server may return.
Score(lists) == [d \in Fusible(lists) |-> Fused(lists, d)]

\* The share of a place is an integer.
LEMMA ShareIsAnInteger ==
  ASSUME NEW weight \in Nat, NEW rank \in (Nat \ {0}) \union {None}
  PROVE  Share(weight, rank) \in Int
<1>1. CASE rank = None
  BY <1>1 DEF Share
<1>2. CASE rank # None
  <2>1. rank \in Nat \ {0} /\ RankConstant \in Nat \ {0} /\ ShareScale \in Nat
    BY <1>2, AnalysisAssumption
  <2>2. RankConstant + rank \in Nat \ {0}
    BY <2>1
  <2>3. ShareScale \div (RankConstant + rank) \in Int
    BY <2>1, <2>2
  <2>4. QED
    BY <1>2, <2>3 DEF Share
<1>3. QED
  BY <1>1, <1>2

\* The fused documents are finitely many, and their scores are integers.
LEMMA ScoresAreIntegers ==
  ASSUME NEW lists, ListPair(lists)
  PROVE  IsFiniteSet(Fusible(lists)) /\ Score(lists) \in [Fusible(lists) -> Int]
<1>1. ASSUME NEW x \in {"bm25", "ann"} PROVE IsFiniteSet(ToSet(lists[x]))
  <2> DEFINE list == lists[x]
             n == Len(list)
  <2>1. n \in Nat /\ DOMAIN list = 1..n /\ list \in [1..n -> ToSet(list)]
    BY DEF ListPair
  <2>2. IsFiniteSet(1..n)
    BY <2>1, FS_Interval
  <2>3. list \in Surjection(1..n, ToSet(list))
    BY <2>1 DEF Surjection, ToSet
  <2> HIDE DEF list, n
  <2>4. IsFiniteSet(ToSet(list))
    BY <2>2, <2>3, FS_Surjection
  <2>5. QED
    BY <2>4 DEF list
<1>2. IsFiniteSet(Fusible(lists))
  <2>1. IsFiniteSet(ToSet(lists["bm25"])) /\ IsFiniteSet(ToSet(lists["ann"]))
    BY <1>1
  <2>2. QED
    BY <2>1, FS_Union DEF Fusible
<1>3. ASSUME NEW x \in {"bm25", "ann"}, NEW doc PROVE Place(lists[x], doc) \in (Nat \ {0}) \union {None}
  <2> DEFINE list == lists[x]
  <2>1. Len(list) \in Nat /\ DOMAIN list = 1..Len(list)
    BY DEF ListPair
  <2> HIDE DEF list
  <2>2. Place(list, doc) \in (Nat \ {0}) \union {None}
    <3>1. CASE \E i \in 1..Len(list) : list[i] = doc
      <4>1. Place(list, doc) \in 1..Len(list)
        BY <2>1, <3>1 DEF Place, Contains
      <4>2. QED
        BY <2>1, <4>1
    <3>2. CASE ~ \E i \in 1..Len(list) : list[i] = doc
      BY <3>2 DEF Place, Contains
    <3>3. QED
      BY <3>1, <3>2
  <2>3. QED
    BY <2>2 DEF list
<1>4. ASSUME NEW doc PROVE Fused(lists, doc) \in Int
  <2>1. /\ Places(lists, doc)["bm25"] = Place(lists["bm25"], doc)
        /\ Places(lists, doc)["ann"] = Place(lists["ann"], doc)
    BY DEF Places
  <2>2. Bm25Weight \in Nat /\ AnnWeight \in Nat
    BY AnalysisAssumption
  <2>3. /\ Share(Bm25Weight, Places(lists, doc)["bm25"]) \in Int
        /\ Share(AnnWeight, Places(lists, doc)["ann"]) \in Int
    <3>1. /\ Place(lists["bm25"], doc) \in (Nat \ {0}) \union {None}
          /\ Place(lists["ann"], doc) \in (Nat \ {0}) \union {None}
      BY <1>3
    <3>2. QED
      BY <2>1, <2>2, <3>1, ShareIsAnInteger
  <2>4. QED
    BY <2>3 DEF Fused, FusedScore
<1>5. QED
  BY <1>2, <1>4 DEF Score

\* What the server may return without equal scores is what is computed locally.
LEMMA OneFusion ==
  ASSUME NEW lists, ListPair(lists), ~Ties(lists)
  PROVE  /\ Reconstruction(lists) \in OrdersBy(Fusible(lists), Score(lists))
         /\ \A o \in SetToSeqs(Fusible(lists)) :
              (\A i, j \in DOMAIN o : i < j => Fused(lists, o[i]) >= Fused(lists, o[j]))
                => o = Reconstruction(lists)
<1> DEFINE S == Fusible(lists)
           score == Score(lists)
           falling(o) == \A i, j \in DOMAIN o : i < j => Fused(lists, o[i]) >= Fused(lists, o[j])
<1>1. IsFiniteSet(S) /\ score \in [S -> Int] /\ \A d \in S : score[d] = Fused(lists, d)
  BY ScoresAreIntegers DEF Score
<1>2. \A d, e \in S : score[d] = score[e] => d = e
  BY <1>1 DEF Ties
<1> HIDE DEF S, score
<1>3. ASSUME NEW o \in SetToSeqs(S), falling(o) PROVE o \in OrdersBy(S, score)
  <2>1. \A i \in DOMAIN o : o[i] \in S
    BY DEF SetToSeqs
  <2>2. QED
    BY <1>1, <1>3, <2>1 DEF OrdersBy
<1>4. falling(Reconstruction(lists)) /\ Reconstruction(lists) \in SetToSeqs(S)
  <2> DEFINE ahead(d, e) ==
        \/ Fused(lists, d) > Fused(lists, e)
        \/ Fused(lists, d) = Fused(lists, e)
           /\ \/ FirstPlace(lists, d) < FirstPlace(lists, e)
              \/ FirstPlace(lists, d) = FirstPlace(lists, e) /\ IdOrder[d] < IdOrder[e]
             Sorted(o) == \A i, j \in DOMAIN o : i < j => ahead(o[i], o[j])
  <2>1. PICK o : o \in OrdersBy(S, score)
    BY <1>1, <1>2, RankingIsAnOrder
  <2>2. o \in SetToSeqs(S) /\ DOMAIN o \subseteq Int /\ \A i \in DOMAIN o : o[i] \in S
    <3>1. o \in SetToSeqs(S)
      BY <2>1 DEF OrdersBy
    <3>2. DOMAIN o = 1..Cardinality(S) /\ \A i \in DOMAIN o : o[i] \in S
      BY <1>1, <3>1, OrdersArePermutations
    <3>3. Cardinality(S) \in Nat
      BY <1>1, FS_CardinalityType
    <3>4. QED
      BY <3>1, <3>2, <3>3
  <2>3. Sorted(o)
    <3> SUFFICES ASSUME NEW i \in DOMAIN o, NEW j \in DOMAIN o, i < j
                 PROVE  Fused(lists, o[i]) > Fused(lists, o[j])
      OBVIOUS
    <3>1. score[o[i]] >= score[o[j]]
      BY <2>1 DEF OrdersBy
    <3>2. o[i] # o[j]
      BY <1>1, <2>2, OrdersArePermutations
    <3>3. score[o[i]] # score[o[j]]
      BY <1>2, <2>2, <3>2
    <3>4. score[o[i]] \in Int /\ score[o[j]] \in Int
      BY <1>1, <2>2
    <3>5. QED
      BY <1>1, <2>2, <3>1, <3>3, <3>4
  <2>4. Reconstruction(lists) = CHOOSE r \in SetToSeqs(S) : Sorted(r)
    BY DEF Reconstruction, S
  <2> HIDE DEF Sorted
  <2>5. Reconstruction(lists) \in SetToSeqs(S) /\ Sorted(Reconstruction(lists))
    BY <2>2, <2>3, <2>4
  <2>6. \A i \in DOMAIN Reconstruction(lists) : Reconstruction(lists)[i] \in S
    BY <2>5 DEF SetToSeqs
  <2>7. \A d \in S : Fused(lists, d) \in Int
    BY <1>1
  <2>8. QED
    BY <2>5, <2>6, <2>7 DEF Sorted
<1>5. Reconstruction(lists) \in OrdersBy(S, score)
  BY <1>3, <1>4
<1>6. ASSUME NEW o \in SetToSeqs(S), falling(o) PROVE o = Reconstruction(lists)
  BY <1>1, <1>2, <1>3, <1>5, <1>6, OrderWithoutTies
<1>7. QED
  BY <1>5, <1>6 DEF S, score

\* Sorted by their places in the fusion, the hits of a hybrid search give the
\* fusion back, whatever the reranker did; and every fused document is a hit.
LEMMA PrefixIsTheFusion ==
  ASSUME NEW m \in Nat, NEW D, NEW fused \in Injection(1..m, D),
         NEW mode, NEW hits \in HybridHits(mode, fused)
  PROVE  /\ PrimaryPrefix(hits) = fused
         /\ \A k \in 1..m : \E h \in ToSet(hits) : h.doc = fused[k]
<1> DEFINE H == ToSet(hits)
           S == ToSet(fused)
<1>0. fused \in [1..m -> D] /\ \A i, j \in 1..m : fused[i] = fused[j] => i = j
  BY DEF Injection, IsInjective
<1>1. DOMAIN fused = 1..m /\ Len(fused) = m
  BY <1>0
<1>2. IsFiniteSet(S) /\ Cardinality(S) = m
  <2>1. fused \in Surjection(1..m, S) /\ fused \in Injection(1..m, S)
    BY <1>0, <1>1 DEF Surjection, Injection, IsInjective, ToSet
  <2>2. IsFiniteSet(1..m) /\ Cardinality(1..m) = m
    BY FS_Interval
  <2> HIDE DEF S
  <2>3. QED
    BY <2>1, <2>2, FS_Surjection
<1>3. PICK order : /\ order \in SetToSeqs(S) \union {fused}
                   /\ DOMAIN hits = 1..m
                   /\ \A i \in 1..m : hits[i].doc = order[i] /\ hits[i].rrf = Place(fused, order[i])
  BY <1>1 DEF HybridHits, Reranked
<1>4. /\ \A i \in 1..m : order[i] \in S
      /\ \A i, j \in 1..m : order[i] = order[j] => i = j
      /\ \A d \in S : \E i \in 1..m : order[i] = d
  <2>1. CASE order \in SetToSeqs(S)
    <3>1. /\ DOMAIN order = 1..Cardinality(S)
          /\ \A i \in DOMAIN order : order[i] \in S
          /\ \A i, j \in DOMAIN order : order[i] = order[j] => i = j
          /\ \A d \in S : \E i \in DOMAIN order : order[i] = d
      BY <1>2, <2>1, OrdersArePermutations
    <3>2. QED
      BY <1>2, <3>1
  <2>2. CASE order = fused
    BY <1>0, <1>1, <2>2 DEF ToSet
  <2>3. QED
    BY <1>3, <2>1, <2>2
<1>5. \A k \in 1..m : Place(fused, fused[k]) = k
  BY <1>0, <1>1, PlaceIsTheIndex
<1>6. \A i \in 1..m : hits[i].rrf \in 1..m /\ fused[hits[i].rrf] = hits[i].doc
  <2>1. ASSUME NEW i \in 1..m PROVE hits[i].rrf \in 1..m /\ fused[hits[i].rrf] = hits[i].doc
    <3>1. PICK k \in 1..m : order[i] = fused[k]
      BY <1>1, <1>4 DEF ToSet
    <3>2. QED
      BY <1>3, <1>5, <3>1
  <2>2. QED
    BY <2>1
<1>7. \A k \in 1..m : \E i \in 1..m : hits[i].doc = fused[k] /\ hits[i].rrf = k
  <2>1. ASSUME NEW k \in 1..m PROVE \E i \in 1..m : hits[i].doc = fused[k] /\ hits[i].rrf = k
    <3>1. fused[k] \in S
      BY <1>1 DEF ToSet
    <3>2. PICK i \in 1..m : order[i] = fused[k]
      BY <1>4, <3>1
    <3>3. QED
      BY <1>3, <1>5, <3>2
  <2>2. QED
    BY <2>1
<1>8. \A i, j \in 1..m : hits[i] = hits[j] => i = j
  BY <1>3, <1>4
<1>9. H = {hits[i] : i \in 1..m}
  BY <1>3 DEF ToSet
<1> HIDE DEF H, S
<1>9a. (\A i \in 1..m : hits[i] \in H) /\ \A h \in H : \E i \in 1..m : h = hits[i]
  BY <1>9
<1>10. IsFiniteSet(H) /\ Cardinality(H) = m
  <2> DEFINE f == [i \in 1..m |-> hits[i]]
  <2>1. f \in Surjection(1..m, H) /\ f \in Injection(1..m, H)
    BY <1>8, <1>9 DEF Surjection, Injection, IsInjective
  <2>2. IsFiniteSet(1..m) /\ Cardinality(1..m) = m
    BY FS_Interval
  <2> HIDE DEF f
  <2>3. QED
    BY <2>1, <2>2, FS_Surjection
<1>11. PICK at \in [1..m -> H] : \A k \in 1..m : at[k].doc = fused[k] /\ at[k].rrf = k
  <2> DEFINE hit(k) == CHOOSE h \in H : h.doc = fused[k] /\ h.rrf = k
  <2>1. \A k \in 1..m : \E h \in H : h.doc = fused[k] /\ h.rrf = k
    BY <1>9a, <1>7
  <2>2. \A k \in 1..m : hit(k) \in H /\ hit(k).doc = fused[k] /\ hit(k).rrf = k
    BY <2>1
  <2> HIDE DEF hit
  <2>3. [k \in 1..m |-> hit(k)] \in [1..m -> H]
    BY <2>2
  <2>4. QED
    BY <2>2, <2>3
<1> DEFINE rising(o) == \A i, j \in DOMAIN o : i < j => o[i].rrf < o[j].rrf
           byRank == CHOOSE o \in SetToSeqs(H) : rising(o)
           back == [h \in H |-> -h.rrf]
<1>12. at \in SetToSeqs(H) /\ rising(at)
  BY <1>10, <1>11 DEF SetToSeqs
<1>13. byRank \in SetToSeqs(H) /\ rising(byRank)
  BY <1>12
<1>14. /\ back \in [H -> Int]
       /\ \A g, h \in H : back[g] = back[h] => g = h
       /\ \A h \in H : h.rrf \in Nat /\ back[h] = -h.rrf
  <2>1. \A h \in H : h.rrf \in 1..m
    BY <1>9a, <1>6
  <2>2. \A g, h \in H : g.rrf = h.rrf => g = h
    <3> SUFFICES ASSUME NEW g \in H, NEW h \in H, g.rrf = h.rrf PROVE g = h
      OBVIOUS
    <3>1. PICK i \in 1..m, j \in 1..m : g = hits[i] /\ h = hits[j]
      BY <1>9a
    <3>2. order[i] = order[j]
      BY <1>3, <1>6, <3>1
    <3>3. QED
      BY <1>4, <3>1, <3>2
  <2>3. QED
    BY <2>1, <2>2
<1> HIDE DEF byRank, back
<1>15. ASSUME NEW o \in SetToSeqs(H), rising(o) PROVE o \in OrdersBy(H, back)
  <2>1. \A i \in DOMAIN o : o[i] \in H
    BY DEF SetToSeqs
  <2>2. \A i, j \in DOMAIN o : i < j => back[o[i]] >= back[o[j]]
    BY <1>14, <1>15, <2>1
  <2>3. QED
    BY <2>2 DEF OrdersBy
<1>16. byRank = at
  BY <1>10, <1>12, <1>13, <1>14, <1>15, OrderWithoutTies
<1>17. PrimaryPrefix(hits) = [i \in DOMAIN byRank |-> byRank[i].doc]
  BY DEF PrimaryPrefix, byRank, H
<1>18. PrimaryPrefix(hits) = fused
  BY <1>0, <1>11, <1>16, <1>17
<1>19. \A k \in 1..m : \E h \in H : h.doc = fused[k]
  BY <1>11
<1>20. QED
  BY <1>18, <1>19 DEF H

\* Cutting a sequence at a length it has.
LEMMA CutSequence ==
  ASSUME NEW S, NEW n \in Nat, NEW o \in [1..n -> S], NEW m \in 0..n
  PROVE  /\ SubSeq(o, 1, m) \in [1..m -> S]
         /\ \A k \in 1..m : SubSeq(o, 1, m)[k] = o[k]
<1>1. o \in Seq(S) /\ Len(o) = n
  OBVIOUS
<1>2. SubSeq(o, 1, m) = [k \in 1..m |-> o[k]]
  BY <1>1
<1>3. \A k \in 1..m : o[k] \in S
  OBVIOUS
<1>4. QED
  BY <1>2, <1>3

\* The smaller of two numbers.
LEMMA SmallerOfTwo ==
  ASSUME NEW a \in Nat, NEW b \in Nat
  PROVE  Min({a, b}) = IF a <= b THEN a ELSE b
<1>1. Min({a, b}) = CHOOSE x \in {a, b} : \A y \in {a, b} : x <= y
  BY DEF Min
<1>2. \A x \in {a, b} : (\A y \in {a, b} : x <= y) <=> x = IF a <= b THEN a ELSE b
  OBVIOUS
<1>3. QED
  BY <1>1, <1>2

\* A probe that sees the lists of the primary query, without equal scores, leads
\* to the prefix that was returned, all of which the result holds.
LEMMA SameListsSamePrefix ==
  ASSUME NEW lists, ListPair(lists), ~Ties(lists), NEW mode,
         NEW fused \in ServerFusions(lists), NEW hits \in HybridHits(mode, fused)
  PROVE  /\ ~AnalysedProbe(lists, hits).warned
         /\ \A k \in 1..Len(PrimaryPrefix(hits)) :
              \E h \in ToSet(hits) : h.doc = Reconstruction(lists)[k]
<1> DEFINE S == Fusible(lists)
           order == Reconstruction(lists)
           n == Cardinality(S)
           m == Min({ResultK, n})
<1>1. IsFiniteSet(S)
  BY ScoresAreIntegers
<1>2. order \in SetToSeqs(S)
  BY OneFusion DEF OrdersBy
<1>3. /\ n \in Nat /\ order \in [1..n -> S] /\ Len(order) = n
      /\ \A i, j \in 1..n : order[i] = order[j] => i = j
  <2>1. n \in Nat
    BY <1>1, FS_CardinalityType
  <2>2. order \in [1..n -> S] /\ \A i, j \in 1..n : i # j => order[i] # order[j]
    BY <1>2 DEF SetToSeqs
  <2> HIDE DEF n, order
  <2>3. QED
    BY <2>1, <2>2
<1>4. fused = SubSeq(order, 1, m)
  <2>1. PICK o \in SetToSeqs(S) :
          /\ \A i, j \in DOMAIN o : i < j => Fused(lists, o[i]) >= Fused(lists, o[j])
          /\ fused = SubSeq(o, 1, Min({ResultK, Len(o)}))
    BY DEF ServerFusions
  <2>2. o = order
    BY <2>1, OneFusion
  <2>3. QED
    BY <1>3, <2>1, <2>2
<1> HIDE DEF n, order, S
<1>5. m \in 0..n
  <2>1. ResultK \in Nat
    BY AnalysisAssumption
  <2>2. QED
    BY <1>3, <2>1, SmallerOfTwo
<1> HIDE DEF m
<1>6. fused \in [1..m -> S] /\ \A k \in 1..m : fused[k] = order[k]
  BY <1>3, <1>4, <1>5, CutSequence
<1>7. m \in Nat /\ \A i, j \in 1..m : fused[i] = fused[j] => i = j
  BY <1>3, <1>5, <1>6
<1>8. PrimaryPrefix(hits) = fused /\ \A k \in 1..m : \E h \in ToSet(hits) : h.doc = fused[k]
  <2>1. fused \in Injection(1..m, S)
    BY <1>6, <1>7 DEF Injection, IsInjective
  <2>2. QED
    BY <1>7, <2>1, PrefixIsTheFusion
<1>9. Len(fused) = m
  BY <1>6, <1>7
<1>10. Min({Len(PrimaryPrefix(hits)), Len(order)}) = m
  BY <1>3, <1>5, <1>7, <1>8, <1>9, SmallerOfTwo
<1>11. AnalysedProbe(lists, hits).warned = (SubSeq(order, 1, m) # fused)
  BY <1>8, <1>10 DEF AnalysedProbe, order
<1>12. QED
  BY <1>4, <1>6, <1>8, <1>9, <1>11 DEF order

\* A document that was returned is not excused by an order the probe computed.
LEMMA NoExcuse ==
  ASSUME NEW lists, ListPair(lists), ~Ties(lists), NEW result,
         result.probe = AnalysedProbe(lists, result.hits),
         NEW fused \in ServerFusions(lists), result.hits \in HybridHits(result.mode, fused),
         NEW f \in Findings(result), f.code = "not_observable", f.origin = "client_computed"
  PROVE  FALSE
<1>1. PICK doc \in Judged :
        f \in (IF HitFor(result.hits, doc) # {} THEN RerankedDown(result, doc)
               ELSE {MissFinding(result, doc)})
  BY DEF Findings
<1>2. \A g \in RerankedDown(result, doc) : g.code = "reranked_down"
  BY DEF RerankedDown, Finding
<1>3. HitFor(result.hits, doc) = {} /\ f = MissFinding(result, doc)
  BY <1>1, <1>2
<1>4. /\ result.probe.state = "analysed" /\ result.probe.lists = lists
      /\ result.probe.order = Reconstruction(lists)
  BY DEF AnalysedProbe
<1>5. f = ProbeFinding(result, doc)
  BY <1>3, <1>4 DEF MissFinding
<1> DEFINE held == {x \in {"bm25", "ann"} : Contains(lists[x], doc)}
           inPrefix == Place(Reconstruction(lists), doc) <= Len(PrimaryPrefix(result.hits))
<1>6. held \notin {{}, {"ann"}, {"bm25"}} /\ inPrefix
  BY <1>4, <1>5 DEF ProbeFinding, Finding
<1>7. doc \in Fusible(lists)
  <2>1. PICK x \in {"bm25", "ann"} : Contains(lists[x], doc)
    BY <1>6
  <2>2. Len(lists[x]) \in Nat /\ DOMAIN lists[x] = 1..Len(lists[x])
    BY DEF ListPair
  <2>3. doc \in ToSet(lists[x])
    BY <2>1, <2>2 DEF Contains, ToSet
  <2>4. QED
    BY <2>1, <2>3 DEF Fusible
<1> DEFINE order == Reconstruction(lists)
           n == Cardinality(Fusible(lists))
<1>8. PICK k \in 1..n : /\ n \in Nat /\ DOMAIN order = 1..n /\ order[k] = doc
                        /\ \A i, j \in 1..n : order[i] = order[j] => i = j
  <2>1. IsFiniteSet(Fusible(lists)) /\ order \in SetToSeqs(Fusible(lists))
    BY OneFusion, ScoresAreIntegers DEF OrdersBy
  <2>2. n \in Nat
    BY <2>1, FS_CardinalityType
  <2> HIDE DEF order
  <2>3. QED
    BY <1>7, <2>1, <2>2, OrdersArePermutations
<1>9. Place(order, doc) = k
  <2>1. Len(order) = n
    <3> HIDE DEF order, n
    <3>1. order = [i \in 1..n |-> order[i]]
      <4>1. order \in [1..n -> Fusible(lists)]
        BY OneFusion DEF OrdersBy, SetToSeqs, order, n
      <4>2. QED
        BY <4>1
    <3>2. QED
      BY <1>8, <3>1
  <2> HIDE DEF order, n
  <2>2. QED
    BY <1>8, <2>1, PlaceIsTheIndex
<1>10. k \in 1..Len(PrimaryPrefix(result.hits))
  BY <1>6, <1>8, <1>9
<1>11. PICK h \in ToSet(result.hits) : h.doc = doc
  BY <1>8, <1>10, SameListsSamePrefix
<1>12. QED
  BY <1>3, <1>11 DEF HitFor

-----------------------------------------------------------------------------
(* A replay: the results it holds.                                         *)

\* Two lists as they are read: no document twice in one of them.
CandidateLists(lists) == ListPair(lists) /\ \A x \in {"bm25", "ann"} : IsInjective(lists[x])

\* One result of a replay: its hits are those of some fusion the server may
\* return for its lists, and a probe was analysed against these hits.
SoundResult(x) ==
  /\ x = [mode |-> x.mode, source |-> x.source, hits |-> x.hits, probe |-> x.probe]
  /\ Hybrid(x.mode) =>
       ListPair(x.source) /\ \E fused \in ServerFusions(x.source) : x.hits \in HybridHits(x.mode, fused)
  /\ \/ x.probe \in {NoProbe, FailedProbe}
     \/ Hybrid(x.mode) /\ \E lists : CandidateLists(lists) /\ x.probe = AnalysedProbe(lists, x.hits)

SoundResults(results) == DOMAIN results = {1, 2} /\ \A i \in {1, 2} : SoundResult(results[i])

IsReplay == request # None /\ request.kind = "replay"

\* Where a replay holds its two results.
HoldsItsResults ==
  /\ Answered => phase = "ended"
  /\ IsReplay =>
       /\ request \in Requests
       /\ phase \notin {"embedding", "connecting", "querying"}
       /\ phase = "probing" => SoundResults(answer) /\ Unprobed(answer) # {}
       /\ phase = "closing" /\ ~failed /\ ~cancelled => SoundResults(answer)
       /\ Answered => SoundResults(answer) /\ response = ReplayAnswer(answer)

\* The results of a comparison.
LEMMA PrimaryResultsAreSound ==
  ASSUME NEW mode, NEW source, ListPair(source), NEW x \in PrimaryResults(mode, source)
  PROVE  SoundResult(x)
<1>1. CASE Hybrid(mode)
  <2>1. PICK hits : /\ x = [mode |-> mode, source |-> source, hits |-> hits, probe |-> NoProbe]
                    /\ \E fused \in ServerFusions(source) : hits \in HybridHits(mode, fused)
    BY <1>1 DEF PrimaryResults
  <2>2. x.mode = mode /\ x.source = source /\ x.hits = hits /\ x.probe = NoProbe
    BY <2>1
  <2>3. QED
    BY <2>1, <2>2 DEF SoundResult
<1>2. CASE ~Hybrid(mode)
  <2>1. PICK hits : x = [mode |-> mode, source |-> source, probe |-> NoProbe, hits |-> hits]
    BY <1>2 DEF PrimaryResults
  <2>2. /\ x.mode = mode /\ x.source = source /\ x.hits = hits /\ x.probe = NoProbe
        /\ x = [mode |-> mode, source |-> source, hits |-> hits, probe |-> NoProbe]
    BY <2>1
  <2>3. QED
    BY <1>2, <2>2 DEF SoundResult
<1>3. QED
  BY <1>1, <1>2

\* A probe of a hybrid result, analysed or failed, keeps the results sound.
LEMMA ProbeKeepsSound ==
  ASSUME SoundResults(answer), Unprobed(answer) # {}, NEW probe,
         \/ probe = FailedProbe
         \/ \E lists : /\ CandidateLists(lists)
                       /\ probe = AnalysedProbe(lists, answer[Min(Unprobed(answer))].hits)
  PROVE  SoundResults(WithProbe(Min(Unprobed(answer)), probe))
<1> DEFINE open == Unprobed(answer)
           i == Min(open)
           new == WithProbe(i, probe)
<1>1. open \subseteq {1, 2} /\ \A k \in open : Hybrid(answer[k].mode)
  BY DEF Unprobed, SoundResults
<1>2. i \in open
  <2> HIDE DEF open
  <2>1. \E x \in open : \A y \in open : x <= y
    BY <1>1 DEF open
  <2>2. QED
    BY <2>1 DEF Min
<1> HIDE DEF open, i
<1>3. i \in {1, 2} /\ Hybrid(answer[i].mode)
  BY <1>1, <1>2
<1>4. /\ DOMAIN new = {1, 2} /\ \A k \in {1, 2} : k # i => new[k] = answer[k]
      /\ new[i] = [answer[i] EXCEPT !.probe = probe]
  BY <1>3 DEF WithProbe, SoundResults
<1> HIDE DEF new
<1>5. answer[i] = [mode |-> answer[i].mode, source |-> answer[i].source,
                   hits |-> answer[i].hits, probe |-> answer[i].probe]
  BY <1>3 DEF SoundResults, SoundResult
<1>6. /\ new[i].mode = answer[i].mode /\ new[i].source = answer[i].source
      /\ new[i].hits = answer[i].hits /\ new[i].probe = probe
      /\ new[i] = [mode |-> new[i].mode, source |-> new[i].source,
                   hits |-> new[i].hits, probe |-> new[i].probe]
  BY <1>4, <1>5
<1>7. SoundResult(answer[i])
  BY <1>3 DEF SoundResults
<1>8. probe = FailedProbe \/ \E lists : CandidateLists(lists) /\ probe = AnalysedProbe(lists, new[i].hits)
  BY <1>6 DEF i, open
<1>9. SoundResult(new[i])
  BY <1>3, <1>6, <1>7, <1>8 DEF SoundResult
<1>10. SoundResults(new)
  BY <1>4, <1>9 DEF SoundResults
<1>11. QED
  BY <1>10 DEF new, i, open

\* Where a replay stands after a comparison or a probe.
LEMMA ProbedResults ==
  ASSUME NEW results, Probed(results), SoundResults(results), UNCHANGED request
  PROVE  /\ SoundResults(answer)' /\ phase' \in {"probing", "closing"}
         /\ phase' = "probing" => (Unprobed(answer) # {})'
<1>1. answer' = results
  BY DEF Probed
<1>2. phase' = "closing" \/ (phase' = "probing" /\ Unprobed(results) # {})
  BY DEF Probed, StartClose
<1>3. Unprobed(answer)' = Unprobed(results)
  BY <1>1 DEF Unprobed
<1>4. QED
  BY <1>1, <1>2, <1>3 DEF SoundResults, SoundResult

LEMMA ResultsAreKept == Control /\ HoldsItsResults /\ [Next]_vars => HoldsItsResults'
<1> SUFFICES ASSUME Control, HoldsItsResults, [Next]_vars PROVE HoldsItsResults'
  OBVIOUS
<1> USE DEF HoldsItsResults, IsReplay, Answered
<1>1. CASE Refuse
  BY <1>1 DEF Refuse
<1>2. CASE Begin
  BY <1>2 DEF Begin
<1>3. ASSUME CompareAnswers \/ ProbeAnswers \/ ProbeFails PROVE HoldsItsResults'
  <2>1. /\ phase \in {"comparing", "probing"}
        /\ UNCHANGED <<request, failed, cancelled, outcome, response>>
    BY <1>3 DEF CompareAnswers, ProbeAnswers, ProbeFails
  <2>2. CASE ~IsReplay
    BY <2>1, <2>2
  <2>3. ASSUME IsReplay PROVE \E results : Probed(results) /\ SoundResults(results)
    <3>1. CASE CompareAnswers
      <4>1. PICK one \in Answers[request], two \in Answers[request] :
              \E first \in PrimaryResults(request.modes[1], one),
                 second \in PrimaryResults(request.modes[2], two) : Probed(<<first, second>>)
        BY <3>1 DEF CompareAnswers
      <4>2. PICK first \in PrimaryResults(request.modes[1], one),
                 second \in PrimaryResults(request.modes[2], two) : Probed(<<first, second>>)
        BY <4>1
      <4>3. ListPair(one) /\ ListPair(two)
        BY <2>3, AnswersAssumption DEF ListPair
      <4>4. SoundResult(first) /\ SoundResult(second)
        BY <4>3, PrimaryResultsAreSound
      <4>5. SoundResults(<<first, second>>)
        BY <4>4 DEF SoundResults
      <4>6. QED
        BY <4>2, <4>5
    <3>2. CASE ProbeAnswers
      <4>1. PICK lists \in Answers[request] :
              Probed(WithProbe(Min(Unprobed(answer)),
                               AnalysedProbe(lists, answer[Min(Unprobed(answer))].hits)))
        BY <3>2 DEF ProbeAnswers
      <4>2. phase = "probing"
        BY <3>2 DEF ProbeAnswers
      <4>3. CandidateLists(lists)
        BY <2>3, AnswersAssumption DEF CandidateLists, ListPair
      <4>4. QED
        BY <2>3, <4>1, <4>2, <4>3, ProbeKeepsSound
    <3>3. CASE ProbeFails
      <4>1. phase = "probing" /\ Probed(WithProbe(Min(Unprobed(answer)), FailedProbe))
        BY <3>3 DEF ProbeFails
      <4>2. QED
        BY <2>3, <4>1, ProbeKeepsSound
    <3>4. QED
      BY <1>3, <3>1, <3>2, <3>3
  <2>4. CASE IsReplay
    <3>1. PICK results : Probed(results) /\ SoundResults(results)
      BY <2>3, <2>4
    <3>2. /\ SoundResults(answer)' /\ phase' \in {"probing", "closing"}
          /\ phase' = "probing" => (Unprobed(answer) # {})'
      BY <2>1, <3>1, ProbedResults
    <3>3. QED
      BY <2>1, <2>4, <3>2
  <2>5. QED
    BY <2>2, <2>4
<1>4. CASE CloseResumes
  <2>1. /\ phase = "closing" /\ phase' = "ended" /\ UNCHANGED <<request, answer, cancelled>>
        /\ failed' = (failed \/ task = "broken")
        /\ response' = IF outcome' = "answered" THEN Composed ELSE None
        /\ outcome' = "answered" => ~cancelled /\ ~failed'
    BY <1>4 DEF CloseResumes, End
  <2>2. ASSUME IsReplay' PROVE Composed = ReplayAnswer(answer)
    BY <2>1, <2>2 DEF Composed, IsDiagnosis
  <2>3. IsReplay' /\ outcome' = "answered" => SoundResults(answer) /\ response' = ReplayAnswer(answer)
    BY <2>1, <2>2
  <2>4. (SoundResults(answer) => SoundResults(answer)') /\ ReplayAnswer(answer)' = ReplayAnswer(answer)
    BY <2>1 DEF SoundResults, SoundResult, ReplayAnswer
  <2>5. QED
    BY <2>1, <2>3, <2>4
<1>5. CASE Reply
  BY <1>5, OutcomeAssumption DEF Reply
<1>6. CASE QueryAnswers \/ Connect \/ EmbeddingResumes
  <2>1. /\ phase \in {"querying", "connecting", "embedding"} /\ request' = request
        /\ phase' \in {"querying", "connecting", "closing", "ended"}
        /\ outcome' = "answered" => outcome = "answered"
    BY <1>6 DEF QueryAnswers, Connect, EmbeddingResumes, End, StartClose
  <2>2. QED
    BY <2>1
<1>7. CASE TaskEnds \/ CallFails \/ CancelCall \/ CancelDrain \/ UNCHANGED vars
  <2>1. /\ UNCHANGED <<request, answer, outcome, response>>
        /\ \/ phase' = phase /\ (UNCHANGED <<failed, cancelled>> \/ cancelled')
           \/ phase # "ended" /\ phase' = "closing" /\ (failed' \/ cancelled')
    BY <1>7 DEF TaskEnds, CallFails, CancelCall, CancelDrain, StartClose, vars
  <2>2. Unprobed(answer)' = Unprobed(answer)
    BY <2>1 DEF Unprobed
  <2>3. SoundResults(answer)' = SoundResults(answer) /\ ReplayAnswer(answer)' = ReplayAnswer(answer)
    BY <2>1 DEF SoundResults, SoundResult, ReplayAnswer
  <2>4. QED
    BY <2>1, <2>2, <2>3
<1>8. QED
  BY <1>1, <1>2, <1>3, <1>4, <1>5, <1>6, <1>7 DEF Next

\* A warning or an excuse of a sound result means a difference.
LEMMA SoundResultWarns ==
  ASSUME NEW result, SoundResult(result), result.probe.state = "analysed",
         result.probe.warned
           \/ \E f \in Findings(result) : f.code = "not_observable" /\ f.origin = "client_computed"
  PROVE  result.probe.lists # result.source \/ Ties(result.source)
<1> SUFFICES ASSUME result.probe.lists = result.source, ~Ties(result.source) PROVE FALSE
  OBVIOUS
<1>1. PICK lists : Hybrid(result.mode) /\ result.probe = AnalysedProbe(lists, result.hits)
  BY DEF SoundResult, NoProbe, FailedProbe
<1>2. lists = result.source
  <2>1. AnalysedProbe(lists, result.hits).lists = lists
    BY DEF AnalysedProbe
  <2>2. QED
    BY <1>1, <2>1
<1>3. PICK fused \in ServerFusions(result.source) : result.hits \in HybridHits(result.mode, fused)
  BY <1>1 DEF SoundResult
<1>4. ListPair(result.source)
  BY <1>1 DEF SoundResult
<1>5. ~result.probe.warned
  BY <1>1, <1>2, <1>3, <1>4, SameListsSamePrefix
<1>6. PICK f \in Findings(result) : f.code = "not_observable" /\ f.origin = "client_computed"
  BY <1>5
<1>7. QED
  BY <1>1, <1>2, <1>3, <1>4, <1>6, NoExcuse

-----------------------------------------------------------------------------
(* Recursion over a finite tree.                                           *)

\* Every nonempty set of natural numbers has a least member.
LEMMA LeastNumber ==
  ASSUME NEW T, T \subseteq Nat, T # {}
  PROVE  \E n \in T : \A k \in T : n <= k
<1> DEFINE R == OpToRel(<, Nat)
<1>1. IsWellFoundedOn(R, Nat)
  BY NatLessThanWellFounded, Zenon
<1>2. \A x, y \in Nat : y < x => <<y, x>> \in R
  BY DEF OpToRel
<1> HIDE DEF R
<1>3. PICK n \in T : \A k \in T : ~(<<k, n>> \in R)
  BY <1>1, WFMin
<1>4. \A k \in T : k \in Nat /\ n \in Nat /\ ~(k < n)
  BY <1>2, <1>3
<1>5. QED
  BY <1>4

\* A property that passes from the members of smaller rank to a member holds for
\* all of them.
LEMMA RankInduction ==
  ASSUME NEW N, NEW rank \in [N -> Nat], NEW S,
         \A i \in N : (\A j \in N : rank[j] < rank[i] => j \in S) => i \in S
  PROVE  N \subseteq S
<1> DEFINE left == {rank[i] : i \in N \ S}
<1> SUFFICES ASSUME left # {} PROVE FALSE
  OBVIOUS
<1>1. left \subseteq Nat
  OBVIOUS
<1>2. PICK m \in left : \A k \in left : m <= k
  <2> HIDE DEF left
  <2>1. QED
    BY <1>1, LeastNumber
<1>3. PICK i \in N \ S : rank[i] = m
  OBVIOUS
<1>4. ASSUME NEW j \in N, rank[j] < rank[i], j \notin S PROVE FALSE
  <2>1. rank[j] \in left
    BY <1>4
  <2>2. rank[j] \in Nat /\ m \in Nat /\ m <= rank[j]
    <3> HIDE DEF left
    <3>1. QED
      BY <1>1, <1>2, <2>1
  <2>3. QED
    BY <1>3, <1>4, <2>2
<1>5. QED
  BY <1>3, <1>4

\* What step makes of a member depends on the members of smaller rank only.
IsRecursion(N, rank, V, step) ==
  /\ step \in [N -> [[N -> V] -> V]]
  /\ \A i \in N : \A f, g \in [N -> V] :
       (\A j \in N : rank[j] < rank[i] => f[j] = g[j]) => step[i][f] = step[i][g]

IsSolution(N, V, step, f) == f \in [N -> V] /\ \A i \in N : f[i] = step[i][f]

\* What a recursion says of each member from those of smaller rank, some function
\* satisfies.
LEMMA RecursionHasSolution ==
  ASSUME NEW N, NEW m \in Nat, NEW rank \in [N -> 0..m], NEW V, V # {},
         NEW step, IsRecursion(N, rank, V, step)
  PROVE  \E f : IsSolution(N, V, step, f)
<1> DEFINE Solved(k) == \E f \in [N -> V] : \A i \in N : rank[i] < k => f[i] = step[i][f]
           S == {k \in Nat : Solved(k)}
<1> DEFINE self == [k \in Nat |-> k]
<1>1. ASSUME NEW k \in Nat, \A l \in Nat : l < k => l \in S PROVE k \in S
  <2>1. CASE k = 0
    <3>1. PICK f : f \in [N -> V]
      <4>1. PICK v : v \in V
        OBVIOUS
      <4>2. [i \in N |-> v] \in [N -> V]
        BY <4>1
      <4>3. QED
        BY <4>2
    <3>2. \A i \in N : ~(rank[i] < 0)
      OBVIOUS
    <3>3. QED
      BY <2>1, <3>1, <3>2
  <2>2. CASE k # 0
    <3>1. k - 1 \in S
      <4> HIDE DEF S
      <4>1. k - 1 \in Nat /\ k - 1 < k
        BY <2>2
      <4>2. QED
        BY <1>1, <4>1
    <3>2. PICK f \in [N -> V] : \A i \in N : rank[i] < k - 1 => f[i] = step[i][f]
      BY <3>1
    <3> DEFINE g == [i \in N |-> IF rank[i] < k - 1 THEN f[i] ELSE step[i][f]]
    <3>3. g \in [N -> V]
      BY DEF IsRecursion
    <3>4. \A i \in N : rank[i] < k - 1 => g[i] = f[i]
      OBVIOUS
    <3>5. \A i \in N : g[i] = step[i][f]
      BY <3>2 DEF IsRecursion
    <3> HIDE DEF g
    <3>6. ASSUME NEW i \in N, rank[i] < k PROVE g[i] = step[i][g]
      <4>1. \A j \in N : rank[j] < rank[i] => rank[j] < k - 1
        BY <3>6
      <4>2. \A j \in N : rank[j] < rank[i] => g[j] = f[j]
        BY <3>4, <4>1
      <4>3. QED
        BY <3>3, <3>5, <4>2 DEF IsRecursion
    <3>7. QED
      BY <3>3, <3>6
  <2>3. QED
    BY <2>1, <2>2
<1>2. Nat \subseteq S
  <2>1. self \in [Nat -> Nat] /\ \A k \in Nat : self[k] = k
    OBVIOUS
  <2>2. \A k \in Nat : (\A l \in Nat : self[l] < self[k] => l \in S) => k \in S
    BY <1>1, <2>1
  <2> HIDE DEF S, self
  <2>3. QED
    BY <2>1, <2>2, RankInduction
<1>3. Solved(m + 1)
  <2> HIDE DEF Solved
  <2>1. QED
    BY <1>2
<1>4. \A i \in N : rank[i] < m + 1
  OBVIOUS
<1>5. QED
  BY <1>3, <1>4 DEF IsSolution

-----------------------------------------------------------------------------
(* The stored filter as a tree.                                            *)

Truths == {"true", "false", "unknown"}

IsGate(filter, i) == filter[i].kind \in {"and", "or"}

\* The value of a child that decides a gate, and the one that leaves it open.
Absorbing(filter, i) == IF filter[i].kind = "and" THEN "false" ELSE "true"
Neutral(filter, i) == IF filter[i].kind = "and" THEN "true" ELSE "false"

IsTree(filter) ==
  /\ IsFilter(filter)
  /\ \A i \in DOMAIN filter : filter[i].kind # "predicate" =>
       /\ filter[i].children # {}
       /\ filter[i].kind = "not" => \E c : filter[i].children = {c}

\* What the value of every node says about those of its children.
Valued(filter, results, value) ==
  /\ value \in [DOMAIN filter -> Truths]
  /\ \A i \in DOMAIN filter :
       /\ filter[i].kind = "predicate" => value[i] = results[i]
       /\ filter[i].kind = "not" => \A c \in filter[i].children : value[i] = KleeneNot(value[c])
       /\ IsGate(filter, i) =>
            /\ value[i] = Absorbing(filter, i)
                 <=> \E c \in filter[i].children : value[c] = Absorbing(filter, i)
            /\ value[i] = Neutral(filter, i)
                 <=> \A c \in filter[i].children : value[c] = Neutral(filter, i)

\* The definition behind Values, for one node.
ValueOf(filter, results, value, i) ==
  LET below == {value[j] : j \in filter[i].children}
  IN  CASE filter[i].kind = "predicate" -> results[i]
        [] filter[i].kind = "not" -> KleeneNot(CHOOSE v \in below : TRUE)
        [] filter[i].kind = "and" -> KleeneAnd(below)
        [] filter[i].kind = "or"  -> KleeneOr(below)

\* A property that passes from the children to their parent holds at every node.
LEMMA UpwardInduction ==
  ASSUME NEW filter, IsFilter(filter), NEW S,
         \A i \in DOMAIN filter : filter[i].children \subseteq S => i \in S
  PROVE  DOMAIN filter \subseteq S
<1> DEFINE n == Len(filter)
           N == DOMAIN filter
           rank == [i \in N |-> n - i]
<1>1. n \in Nat /\ N = 1..n /\ \A i \in N : filter[i].children \subseteq (i + 1)..n
  BY DEF IsFilter
<1> HIDE DEF n, N
<1>2. rank \in [N -> Nat] /\ \A i \in N : rank[i] = n - i
  BY <1>1
<1> HIDE DEF rank
<1>3. ASSUME NEW i \in N, \A j \in N : rank[j] < rank[i] => j \in S PROVE i \in S
  <2>1. ASSUME NEW c \in filter[i].children PROVE c \in S
    <3>1. c \in N /\ c > i /\ c \in Nat /\ i \in Nat
      BY <1>1
    <3>2. rank[c] < rank[i]
      BY <1>1, <1>2, <3>1
    <3>3. QED
      BY <1>3, <3>1, <3>2
  <2>2. QED
    BY <2>1 DEF N
<1>4. N \subseteq S
  BY <1>2, <1>3, RankInduction
<1>5. QED
  BY <1>4 DEF N

\* A property of the root that passes to the children holds at every node.
LEMMA DownwardInduction ==
  ASSUME NEW filter, IsFilter(filter), NEW S, 1 \in S,
         \A i \in DOMAIN filter : i \in S => filter[i].children \subseteq S
  PROVE  DOMAIN filter \subseteq S
<1> DEFINE n == Len(filter)
           N == DOMAIN filter
           rank == [i \in N |-> i]
<1>1. /\ n \in Nat /\ N = 1..n /\ \A i \in N : filter[i].children \subseteq (i + 1)..n
      /\ \A i \in 2..n : \E p \in N : i \in filter[p].children
  BY DEF IsFilter
<1> HIDE DEF n
<1>2. rank \in [N -> Nat] /\ \A i \in N : rank[i] = i
  BY <1>1
<1> HIDE DEF rank
<1>3. ASSUME NEW i \in N, \A j \in N : rank[j] < rank[i] => j \in S PROVE i \in S
  <2>1. CASE i = 1
    BY <2>1
  <2>2. CASE i # 1
    <3>1. i \in 2..n
      BY <1>1, <2>2
    <3>2. PICK p \in N : i \in filter[p].children
      BY <1>1, <3>1
    <3>3. rank[p] < rank[i]
      BY <1>1, <1>2, <3>2
    <3>4. QED
      BY <1>3, <3>2, <3>3
  <2>3. QED
    BY <2>1, <2>2
<1>4. N \subseteq S
  <2> HIDE DEF N
  <2>1. QED
    BY <1>2, <1>3, RankInduction
<1>5. QED
  BY <1>4

LEMMA ValueOfIsDecided ==
  ASSUME NEW filter, IsTree(filter), NEW results \in [Predicates(filter) -> Truths],
         NEW i \in DOMAIN filter, NEW value, \A c \in filter[i].children : value[c] \in Truths
  PROVE  LET v == ValueOf(filter, results, value, i) IN
           /\ v \in Truths
           /\ filter[i].kind = "predicate" => v = results[i]
           /\ filter[i].kind = "not" => \A c \in filter[i].children : v = KleeneNot(value[c])
           /\ IsGate(filter, i) =>
                /\ v = Absorbing(filter, i)
                     <=> \E c \in filter[i].children : value[c] = Absorbing(filter, i)
                /\ v = Neutral(filter, i)
                     <=> \A c \in filter[i].children : value[c] = Neutral(filter, i)
<1> DEFINE children == filter[i].children
           below == {value[j] : j \in children}
           v == ValueOf(filter, results, value, i)
<1>1. filter[i].kind \in {"predicate", "not", "and", "or"}
  BY DEF IsTree, IsFilter
<1>2. CASE filter[i].kind = "predicate"
  <2>1. v = results[i] /\ i \in Predicates(filter)
    BY <1>2 DEF ValueOf, Predicates
  <2>2. QED
    BY <1>2, <2>1 DEF IsGate
<1>3. CASE filter[i].kind = "not"
  <2>1. PICK c : children = {c}
    BY <1>3 DEF IsTree
  <2>2. below = {value[c]}
    BY <2>1
  <2>3. (CHOOSE x \in below : TRUE) = value[c]
    BY <2>2
  <2>4. v = KleeneNot(value[c])
    BY <1>3, <2>3 DEF ValueOf
  <2>5. QED
    BY <1>3, <2>1, <2>4 DEF IsGate, KleeneNot, Truths
<1>4. CASE IsGate(filter, i)
  <2>1. children # {}
    BY <1>4 DEF IsTree, IsGate
  <2>2. below # {} /\ below \subseteq Truths
    BY <2>1
  <2>3. \A x : x \in below <=> \E c \in children : value[c] = x
    OBVIOUS
  <2>4. \A x : below = {x} <=> \A c \in children : value[c] = x
    BY <2>1
  <2>5. v = IF filter[i].kind = "and" THEN KleeneAnd(below) ELSE KleeneOr(below)
    BY <1>4 DEF ValueOf, IsGate
  <2> HIDE DEF below, v
  <2>6. v \in Truths
    BY <2>5 DEF KleeneAnd, KleeneOr, Truths
  <2>7. v = Absorbing(filter, i) <=> Absorbing(filter, i) \in below
    BY <1>4, <2>5 DEF KleeneAnd, KleeneOr, IsGate, Absorbing
  <2>8. v = Neutral(filter, i) <=> below = {Neutral(filter, i)}
    BY <1>4, <2>5 DEF KleeneAnd, KleeneOr, IsGate, Neutral
  <2>9. QED
    BY <1>4, <2>3, <2>4, <2>6, <2>7, <2>8 DEF v, IsGate
<1>5. QED
  BY <1>1, <1>2, <1>3, <1>4 DEF IsGate

\* The recursion behind Values has a solution, and every solution gives each node
\* one of the three values.
LEMMA ValuesAreValued ==
  ASSUME NEW filter, IsTree(filter), NEW results \in [Predicates(filter) -> Truths]
  PROVE  Valued(filter, results, Values(filter, results))
<1> DEFINE N == DOMAIN filter
           n == Len(filter)
           Solves(v) == v = [i \in N |-> ValueOf(filter, results, v, i)]
           rank == [i \in N |-> n - i]
           step == [i \in N |-> [v \in [N -> Truths] |-> ValueOf(filter, results, v, i)]]
<1>1. /\ IsFilter(filter) /\ n \in Nat /\ N = 1..n
      /\ \A i \in N : filter[i].children \subseteq N
      /\ \A i \in N : filter[i].children \subseteq (i + 1)..n
  <2>1. IsFilter(filter)
    BY DEF IsTree
  <2>2. /\ Len(filter) \in Nat /\ DOMAIN filter = 1..Len(filter)
        /\ \A i \in DOMAIN filter : filter[i].children \subseteq (i + 1)..Len(filter)
    BY <2>1 DEF IsFilter
  <2>3. \A i \in N : filter[i].children \subseteq (i + 1)..n
    BY <2>2
  <2>4. \A i \in N : filter[i].children \subseteq N
    <3>1. n \in Nat /\ N = 1..n
      BY <2>2
    <3> HIDE DEF n, N
    <3>2. \A i \in N : (i + 1)..n \subseteq N
      BY <3>1
    <3>3. QED
      BY <2>3, <3>2
  <2>5. QED
    BY <2>1, <2>2, <2>3, <2>4
<1> HIDE DEF n, N
<1>2. rank \in [N -> 0..n] /\ \A i \in N : rank[i] = n - i
  BY <1>1
<1> HIDE DEF rank
<1>3. step \in [N -> [[N -> Truths] -> Truths]]
  <2>1. ASSUME NEW i \in N, NEW v \in [N -> Truths]
        PROVE  ValueOf(filter, results, v, i) \in Truths
    <3>1. \A c \in filter[i].children : v[c] \in Truths
      BY <1>1
    <3>2. i \in DOMAIN filter
      BY DEF N
    <3>3. QED
      BY <3>1, <3>2, ValueOfIsDecided
  <2>2. QED
    BY <2>1
<1>4. \A i \in N : \A v \in [N -> Truths] : step[i][v] = ValueOf(filter, results, v, i)
  OBVIOUS
<1> HIDE DEF step
<1>5. ASSUME NEW i \in N, NEW f \in [N -> Truths], NEW g \in [N -> Truths],
             \A j \in N : rank[j] < rank[i] => f[j] = g[j]
      PROVE  step[i][f] = step[i][g]
  <2>1. ASSUME NEW c \in filter[i].children PROVE f[c] = g[c]
    <3>1. c \in N /\ c > i /\ c \in Nat /\ i \in Nat
      BY <1>1
    <3>2. QED
      BY <1>1, <1>2, <1>5, <3>1
  <2>2. {f[j] : j \in filter[i].children} = {g[j] : j \in filter[i].children}
    BY <2>1
  <2>3. ValueOf(filter, results, f, i) = ValueOf(filter, results, g, i)
    BY <2>2 DEF ValueOf
  <2>4. QED
    BY <1>4, <2>3
<1>6. PICK v : IsSolution(N, Truths, step, v)
  <2>1. Truths # {}
    BY DEF Truths
  <2>2. IsRecursion(N, rank, Truths, step)
    BY <1>3, <1>5 DEF IsRecursion
  <2>3. n \in Nat /\ rank \in [N -> 0..n]
    BY <1>1, <1>2
  <2>4. QED
    BY <2>1, <2>2, <2>3, RecursionHasSolution
<1>7. Solves(v)
  BY <1>4, <1>6 DEF IsSolution
<1> DEFINE value == Values(filter, results)
<1>8. value = CHOOSE x : Solves(x)
  BY DEF Values, ValueOf, N
<1>9. Solves(value)
  <2> HIDE DEF Solves, value
  <2>1. QED
    BY <1>7, <1>8
<1>10. value = [i \in N |-> ValueOf(filter, results, value, i)]
  BY <1>9
<1> HIDE DEF value
<1>11. \A i \in N : value[i] = ValueOf(filter, results, value, i)
  BY <1>10
<1>12. DOMAIN value = N
  BY <1>10
<1> DEFINE S == {i \in N : value[i] \in Truths}
<1>13. ASSUME NEW i \in DOMAIN filter, filter[i].children \subseteq S PROVE i \in S
  <2>1. \A c \in filter[i].children : value[c] \in Truths
    BY <1>13
  <2>2. ValueOf(filter, results, value, i) \in Truths
    BY <2>1, ValueOfIsDecided
  <2>3. QED
    BY <1>11, <2>2 DEF N
<1>14. N \subseteq S
  <2> HIDE DEF S
  <2>1. QED
    BY <1>1, <1>13, UpwardInduction DEF N
<1>15. value \in [N -> Truths]
  BY <1>10, <1>12, <1>14
<1>16. ASSUME NEW i \in DOMAIN filter
       PROVE  /\ filter[i].kind = "predicate" => value[i] = results[i]
              /\ filter[i].kind = "not" => \A c \in filter[i].children : value[i] = KleeneNot(value[c])
              /\ IsGate(filter, i) =>
                   /\ value[i] = Absorbing(filter, i)
                        <=> \E c \in filter[i].children : value[c] = Absorbing(filter, i)
                   /\ value[i] = Neutral(filter, i)
                        <=> \A c \in filter[i].children : value[c] = Neutral(filter, i)
  <2>1. \A c \in filter[i].children : value[c] \in Truths
    BY <1>1, <1>15 DEF N
  <2>2. value[i] = ValueOf(filter, results, value, i)
    BY <1>11 DEF N
  <2>3. QED
    BY <2>1, <2>2, ValueOfIsDecided
<1>17. QED
  BY <1>15, <1>16 DEF Valued, value, N

\* The one parent of every node but the root.
Parent(filter, i) == CHOOSE j \in DOMAIN filter : i \in filter[j].children

LEMMA ParentIsTheOnlyOne ==
  ASSUME NEW filter, IsFilter(filter), NEW i \in DOMAIN filter
  PROVE  /\ i # 1 => /\ Parent(filter, i) \in DOMAIN filter /\ Parent(filter, i) < i
                     /\ i \in filter[Parent(filter, i)].children
         /\ \A j \in DOMAIN filter : i \in filter[j].children =>
              i # 1 /\ j < i /\ Parent(filter, i) = j
<1>1. /\ Len(filter) \in Nat /\ DOMAIN filter = 1..Len(filter)
      /\ \A j \in DOMAIN filter : filter[j].children \subseteq (j + 1)..Len(filter)
  BY DEF IsFilter
<1>2. ASSUME i # 1
      PROVE  \E p \in DOMAIN filter : \A j \in DOMAIN filter : i \in filter[j].children <=> j = p
  <2>1. i \in 2..Len(filter)
    BY <1>1, <1>2
  <2>2. QED
    BY <2>1 DEF IsFilter
<1>3. ASSUME NEW j \in DOMAIN filter, i \in filter[j].children PROVE i # 1 /\ j < i
  BY <1>1, <1>3
<1>4. QED
  BY <1>2, <1>3 DEF Parent

IsDescent(filter, V, first, step, f) ==
  /\ f \in [DOMAIN filter -> V] /\ f[1] = first
  /\ \A i \in DOMAIN filter : \A c \in filter[i].children : f[c] = step[i][c][f[i]]

\* A recursion from the root to the leaves has a solution.
LEMMA DescentHasSolution ==
  ASSUME NEW filter, IsFilter(filter), NEW V, NEW first \in V,
         NEW step, \A i, c \in DOMAIN filter : \A v \in V : step[i][c][v] \in V
  PROVE  \E f : IsDescent(filter, V, first, step, f)
<1> DEFINE N == DOMAIN filter
           n == Len(filter)
           up == [i \in N |-> IF i = 1 THEN 1 ELSE Parent(filter, i)]
           rank == [i \in N |-> i]
           go == [i \in N |-> [f \in [N -> V] |->
                    IF i = 1 THEN first ELSE step[up[i]][i][f[up[i]]]]]
<1>1. n \in Nat /\ N = 1..n /\ \A i \in N : filter[i].children \subseteq N
  BY DEF IsFilter
<1>2. up \in [N -> N] /\ \A i \in N : i # 1 => up[i] < i
  <2>1. \A i \in N : i # 1 => Parent(filter, i) \in N /\ Parent(filter, i) < i
    BY ParentIsTheOnlyOne
  <2>2. QED
    BY <2>1, <1>1
<1>3. \A i \in N : \A c \in filter[i].children : c \in N /\ c # 1 /\ up[c] = i
  BY <1>1, ParentIsTheOnlyOne
<1>4. 1 \in N
  BY DEF IsFilter
<1> HIDE DEF N, n, up
<1>5. rank \in [N -> 0..n] /\ \A i \in N : rank[i] = i
  BY <1>1
<1> HIDE DEF rank
<1>6. \A i \in N : \A f \in [N -> V] :
        go[i][f] = IF i = 1 THEN first ELSE step[up[i]][i][f[up[i]]]
  OBVIOUS
<1>7. go \in [N -> [[N -> V] -> V]]
  <2>1. ASSUME NEW i \in N, NEW f \in [N -> V]
        PROVE  (IF i = 1 THEN first ELSE step[up[i]][i][f[up[i]]]) \in V
    <3>1. up[i] \in N /\ f[up[i]] \in V
      BY <1>2
    <3>2. QED
      BY <3>1 DEF N
  <2>2. QED
    BY <2>1
<1> HIDE DEF go
<1>8. IsRecursion(N, rank, V, go)
  <2>1. ASSUME NEW i \in N, NEW f \in [N -> V], NEW g \in [N -> V],
               \A j \in N : rank[j] < rank[i] => f[j] = g[j]
        PROVE  go[i][f] = go[i][g]
    <3>1. i # 1 => f[up[i]] = g[up[i]]
      BY <1>2, <1>5, <2>1
    <3>2. QED
      BY <1>6, <3>1
  <2>2. QED
    BY <1>7, <2>1 DEF IsRecursion
<1>9. PICK f : IsSolution(N, V, go, f)
  <2>1. V # {}
    OBVIOUS
  <2>2. QED
    BY <1>1, <1>5, <1>8, <2>1, RecursionHasSolution
<1>10. f \in [N -> V] /\ f[1] = first
  BY <1>4, <1>6, <1>9 DEF IsSolution
<1>11. ASSUME NEW i \in N, NEW c \in filter[i].children PROVE f[c] = step[i][c][f[i]]
  BY <1>3, <1>6, <1>9 DEF IsSolution
<1>12. QED
  BY <1>10, <1>11 DEF N, IsDescent

\* A value for every node that the leaves bring about when each has its own.
Intended(filter, goal) ==
  /\ goal \in [DOMAIN filter -> {"true", "false"}]
  /\ \A i \in DOMAIN filter : \A c \in filter[i].children :
       goal[c] = IF filter[i].kind = "not" THEN KleeneNot(goal[i]) ELSE goal[i]

LEMMA IntentionExists ==
  ASSUME NEW filter, IsFilter(filter), NEW t \in {"true", "false"}
  PROVE  \E goal : Intended(filter, goal) /\ goal[1] = t
<1> DEFINE N == DOMAIN filter
           V == {"true", "false"}
           step == [i \in N |-> [c \in N |-> [v \in V |->
                      IF filter[i].kind = "not" THEN KleeneNot(v) ELSE v]]]
<1>1. \A v \in V : KleeneNot(v) \in V
  BY DEF KleeneNot
<1>2. \A i, c \in N : \A v \in V : step[i][c][v] \in V
  BY <1>1
<1>3. \A i, c \in N : \A v \in V :
        step[i][c][v] = IF filter[i].kind = "not" THEN KleeneNot(v) ELSE v
  OBVIOUS
<1>4. \A i \in N : filter[i].children \subseteq N
  BY DEF IsFilter
<1> HIDE DEF step, V, N
<1>5. PICK goal : IsDescent(filter, V, t, step, goal)
  <2>1. t \in V
    BY DEF V
  <2>2. QED
    BY <1>2, <2>1, DescentHasSolution DEF N
<1>6. \A i \in N : \A c \in filter[i].children :
        goal[c] = IF filter[i].kind = "not" THEN KleeneNot(goal[i]) ELSE goal[i]
  BY <1>3, <1>4, <1>5 DEF IsDescent, N
<1>7. QED
  BY <1>5, <1>6 DEF Intended, IsDescent, V, N

\* The nodes that the search for witnesses visits.
Visits(filter, value, seen) ==
  /\ seen \subseteq DOMAIN filter /\ 1 \in seen
  /\ \A i \in DOMAIN filter : \A c \in filter[i].children :
       c \in seen <=> i \in seen /\ (filter[i].kind = "not" \/ value[c] = value[i])

Seen(filter, value) == {i \in DOMAIN filter : Wanted(filter, value)[i] # "unvisited"}

LEMMA WantedAreVisited ==
  ASSUME NEW filter, IsTree(filter), NEW results, NEW value, Valued(filter, results, value)
  PROVE  /\ \A i \in DOMAIN filter :
              Wanted(filter, value)[i] = "unvisited" \/ Wanted(filter, value)[i] = value[i]
         /\ Visits(filter, value, Seen(filter, value))
<1> DEFINE N == DOMAIN filter
           V == Truths \union {"unvisited"}
           Passed(i, w) == IF filter[i].kind = "not" THEN KleeneNot(w) ELSE w
           Next1(i, c, w) == IF w # "unvisited" /\ value[c] = Passed(i, w) THEN Passed(i, w) ELSE "unvisited"
           step == [i \in N |-> [c \in N |-> [w \in V |-> Next1(i, c, w)]]]
           Solves(f) == f = [i \in N |-> IF i = 1 THEN value[1]
                                          ELSE Next1(Parent(filter, i), i, f[Parent(filter, i)])]
           wanted == Wanted(filter, value)
<1>1. /\ IsFilter(filter) /\ 1 \in N /\ \A i \in N : filter[i].children \subseteq N
      /\ value \in [N -> Truths]
  BY DEF IsTree, IsFilter, Valued
<1>2. wanted = CHOOSE f : Solves(f)
  BY DEF Wanted, Parent
<1>3. \E f : Solves(f)
  <2>1. \A i, c \in N : \A w \in V : step[i][c][w] \in V
    BY DEF KleeneNot, Truths
  <2>2. \A i, c \in N : \A w \in V : step[i][c][w] = Next1(i, c, w)
    OBVIOUS
  <2>3. value[1] \in V
    BY <1>1
  <2> HIDE DEF step, Next1, V
  <2>4. PICK f : IsDescent(filter, V, value[1], step, f)
    BY <1>1, <2>1, <2>3, DescentHasSolution
  <2>5. ASSUME NEW i \in N, i # 1
        PROVE  f[i] = Next1(Parent(filter, i), i, f[Parent(filter, i)])
    <3>1. Parent(filter, i) \in N /\ i \in filter[Parent(filter, i)].children
      BY <1>1, <2>5, ParentIsTheOnlyOne
    <3>2. QED
      BY <2>2, <2>4, <3>1 DEF IsDescent
  <2>6. Solves(f)
    BY <2>4, <2>5 DEF IsDescent
  <2>7. QED
    BY <2>6
<1> HIDE DEF wanted
<1>4. Solves(wanted)
  <2> HIDE DEF Solves
  <2>1. QED
    BY <1>2, <1>3
<1>5. wanted[1] = value[1]
  BY <1>1, <1>4
<1>6. \A i \in N : \A c \in filter[i].children : wanted[c] = Next1(i, c, wanted[i])
  <2>1. \A i \in N : \A c \in filter[i].children : c \in N /\ c # 1 /\ Parent(filter, c) = i
    BY <1>1, ParentIsTheOnlyOne
  <2> HIDE DEF Next1
  <2>2. QED
    BY <1>4, <2>1
<1> DEFINE S == {i \in N : wanted[i] \in {"unvisited", value[i]}}
<1>7. N \subseteq S
  <2>1. 1 \in S
    BY <1>1, <1>5
  <2>2. ASSUME NEW i \in N, NEW c \in filter[i].children PROVE c \in S
    BY <1>1, <1>6
  <2>3. \A i \in DOMAIN filter : i \in S => filter[i].children \subseteq S
    BY <2>2
  <2> HIDE DEF S
  <2>4. QED
    BY <1>1, <2>1, <2>3, DownwardInduction
<1>8. \A i \in N : wanted[i] = "unvisited" \/ wanted[i] = value[i]
  BY <1>7
<1>9. "unvisited" \notin Truths
  BY DEF Truths
<1> DEFINE seen == {i \in N : wanted[i] # "unvisited"}
<1>10. 1 \in seen
  BY <1>1, <1>5, <1>9
<1>11. ASSUME NEW i \in N, NEW c \in filter[i].children
       PROVE  c \in seen <=> i \in seen /\ (filter[i].kind = "not" \/ value[c] = value[i])
  <2>1. c \in N /\ value[c] \in Truths /\ value[i] \in Truths
    BY <1>1
  <2>2. CASE i \notin seen
    BY <1>6, <2>2
  <2>3. CASE i \in seen /\ filter[i].kind = "not"
    <3>1. value[i] = KleeneNot(value[c]) /\ wanted[i] = value[i]
      BY <1>8, <2>3 DEF Valued
    <3>2. value[c] = KleeneNot(value[i])
      BY <2>1, <3>1 DEF KleeneNot, Truths
    <3>3. QED
      BY <1>6, <1>9, <2>1, <2>3, <3>1, <3>2
  <2>4. CASE i \in seen /\ filter[i].kind # "not"
    BY <1>6, <1>8, <1>9, <2>1, <2>4
  <2>5. QED
    BY <2>2, <2>3, <2>4
<1>12. QED
  BY <1>8, <1>10, <1>11 DEF Visits, Seen, wanted

\* The two ends of a gate are the two decided values.
LEMMA GateEnds ==
  ASSUME NEW filter, NEW i
  PROVE  /\ Absorbing(filter, i) \in {"true", "false"} /\ Neutral(filter, i) \in {"true", "false"}
         /\ Absorbing(filter, i) # Neutral(filter, i)
BY DEF Absorbing, Neutral

\* A gate below a node, and the child of a negation, hold the intended value when
\* they bring the value of the node about.
LEMMA IntentionBelow ==
  ASSUME NEW filter, IsTree(filter), NEW goal, Intended(filter, goal), NEW i \in DOMAIN filter
  PROVE  /\ goal[i] \in {"true", "false"}
         /\ filter[i].children \subseteq DOMAIN filter
         /\ \A c \in filter[i].children :
              /\ goal[c] \in {"true", "false"}
              /\ filter[i].kind = "not" => goal[c] # goal[i]
              /\ filter[i].kind # "not" => goal[c] = goal[i]
         /\ filter[i].kind = "predicate" \/ filter[i].kind = "not" \/ IsGate(filter, i)
<1>1. filter[i].children \subseteq DOMAIN filter
  BY DEF IsTree, IsFilter
<1>2. filter[i].kind \in {"predicate", "not", "and", "or"}
  BY DEF IsTree, IsFilter
<1>3. QED
  BY <1>1, <1>2 DEF Intended, KleeneNot, IsGate

\* Leaves that change to what a goal asks of them move every node towards it.
LEMMA TowardsTheGoal ==
  ASSUME NEW filter, IsTree(filter), NEW goal, Intended(filter, goal),
         NEW before, NEW old, Valued(filter, before, old),
         NEW after, NEW new, Valued(filter, after, new),
         \A x \in Predicates(filter) : after[x] = before[x] \/ after[x] = goal[x]
  PROVE  \A i \in DOMAIN filter :
           /\ old[i] = goal[i] => new[i] = goal[i]
           /\ old[i] # KleeneNot(goal[i]) => new[i] # KleeneNot(goal[i])
<1> DEFINE Nearer(i) == /\ old[i] = goal[i] => new[i] = goal[i]
                        /\ old[i] # KleeneNot(goal[i]) => new[i] # KleeneNot(goal[i])
           S == {i \in DOMAIN filter : Nearer(i)}
<1>1. ASSUME NEW i \in DOMAIN filter, filter[i].children \subseteq S PROVE i \in S
  <2>1. \A c \in filter[i].children : Nearer(c)
    BY <1>1
  <2>2. /\ goal[i] \in {"true", "false"}
        /\ \A c \in filter[i].children :
             /\ c \in DOMAIN filter /\ goal[c] \in {"true", "false"}
             /\ filter[i].kind = "not" => goal[c] # goal[i]
             /\ filter[i].kind # "not" => goal[c] = goal[i]
        /\ filter[i].kind = "predicate" \/ filter[i].kind = "not" \/ IsGate(filter, i)
    BY IntentionBelow
  <2>3. old[i] \in Truths /\ new[i] \in Truths
    BY DEF Valued
  <2>4. CASE filter[i].kind = "predicate"
    <3>1. i \in Predicates(filter) /\ old[i] = before[i] /\ new[i] = after[i]
      BY <2>4 DEF Valued, Predicates
    <3>2. goal[i] # KleeneNot(goal[i])
      BY <2>2 DEF KleeneNot
    <3>3. QED
      BY <3>1, <3>2
  <2>5. CASE filter[i].kind = "not"
    <3>1. PICK c \in filter[i].children : TRUE
      BY <2>5 DEF IsTree
    <3>2. /\ old[i] = KleeneNot(old[c]) /\ new[i] = KleeneNot(new[c])
          /\ old[c] \in Truths /\ new[c] \in Truths
      BY <2>2, <2>5 DEF Valued
    <3>3. Nearer(c) /\ goal[c] \in {"true", "false"} /\ goal[c] # goal[i]
      BY <2>1, <2>2, <2>5
    <3>4. QED
      BY <2>2, <3>2, <3>3 DEF KleeneNot, Truths
  <2>6. CASE IsGate(filter, i)
    <3> DEFINE z == Absorbing(filter, i)
               u == Neutral(filter, i)
    <3>1. z \in {"true", "false"} /\ u \in {"true", "false"} /\ z # u
      BY GateEnds
    <3>2. /\ old[i] = z <=> \E c \in filter[i].children : old[c] = z
          /\ old[i] = u <=> \A c \in filter[i].children : old[c] = u
          /\ new[i] = z <=> \E c \in filter[i].children : new[c] = z
          /\ new[i] = u <=> \A c \in filter[i].children : new[c] = u
      BY <2>6 DEF Valued
    <3>3. \A c \in filter[i].children : goal[c] = goal[i]
      BY <2>2, <2>6 DEF IsGate
    <3> HIDE DEF z, u
    <3>4. KleeneNot(z) = u /\ KleeneNot(u) = z /\ (goal[i] = z \/ goal[i] = u)
      BY <2>2, <3>1 DEF KleeneNot
    <3>5. QED
      BY <2>1, <3>2, <3>3, <3>4
  <2>7. QED
    BY <2>2, <2>4, <2>5, <2>6
<1>2. DOMAIN filter \subseteq S
  <2> HIDE DEF S
  <2>1. QED
    BY <1>1, UpwardInduction DEF IsTree
<1>3. QED
  BY <1>2

\* Leaves that change only where nothing was known leave every known value.
LEMMA KnownStaysKnown ==
  ASSUME NEW filter, IsTree(filter),
         NEW before, NEW old, Valued(filter, before, old),
         NEW after, NEW new, Valued(filter, after, new),
         \A x \in Predicates(filter) : before[x] # "unknown" => after[x] = before[x]
  PROVE  \A i \in DOMAIN filter : old[i] # "unknown" => new[i] = old[i]
<1> DEFINE S == {i \in DOMAIN filter : old[i] # "unknown" => new[i] = old[i]}
<1>1. ASSUME NEW i \in DOMAIN filter, filter[i].children \subseteq S PROVE i \in S
  <2>1. \A c \in filter[i].children : c \in DOMAIN filter /\ (old[c] # "unknown" => new[c] = old[c])
    BY <1>1
  <2>2. old[i] \in Truths
    BY DEF Valued
  <2>3. filter[i].kind = "predicate" \/ filter[i].kind = "not" \/ IsGate(filter, i)
    BY DEF IsTree, IsFilter, IsGate
  <2>4. CASE filter[i].kind = "predicate"
    <3>1. i \in Predicates(filter) /\ old[i] = before[i] /\ new[i] = after[i]
      BY <2>4 DEF Valued, Predicates
    <3>2. QED
      BY <3>1
  <2>5. CASE filter[i].kind = "not"
    <3>1. PICK c \in filter[i].children : TRUE
      BY <2>5 DEF IsTree
    <3>2. old[i] = KleeneNot(old[c]) /\ new[i] = KleeneNot(new[c]) /\ old[c] \in Truths
      BY <2>1, <2>5 DEF Valued
    <3>3. QED
      BY <2>1, <3>2 DEF KleeneNot, Truths
  <2>6. CASE IsGate(filter, i)
    <3> DEFINE z == Absorbing(filter, i)
               u == Neutral(filter, i)
    <3>1. z \in {"true", "false"} /\ u \in {"true", "false"} /\ z # u
      BY GateEnds
    <3>2. /\ old[i] = z <=> \E c \in filter[i].children : old[c] = z
          /\ old[i] = u <=> \A c \in filter[i].children : old[c] = u
          /\ new[i] = z <=> \E c \in filter[i].children : new[c] = z
          /\ new[i] = u <=> \A c \in filter[i].children : new[c] = u
      BY <2>6 DEF Valued
    <3> HIDE DEF z, u
    <3>3. old[i] # "unknown" => old[i] = z \/ old[i] = u
      BY <2>2, <3>1 DEF Truths
    <3>4. QED
      BY <2>1, <3>1, <3>2, <3>3
  <2>7. QED
    BY <2>3, <2>4, <2>5, <2>6
<1>2. DOMAIN filter \subseteq S
  <2> HIDE DEF S
  <2>1. QED
    BY <1>1, UpwardInduction DEF IsTree
<1>3. QED
  BY <1>2

-----------------------------------------------------------------------------
(* A leaf that the search does not visit is in no smallest change.         *)

\* A decided filter: on the visited nodes a goal that opposes the root opposes
\* the value.
LEMMA GoalOpposesTheVisited ==
  ASSUME NEW filter, IsTree(filter), NEW results, NEW value, Valued(filter, results, value),
         value[1] # "unknown", NEW goal, Intended(filter, goal), goal[1] # value[1],
         NEW seen, Visits(filter, value, seen)
  PROVE  \A i \in seen : value[i] = KleeneNot(goal[i])
<1> DEFINE S == {i \in DOMAIN filter : i \in seen => value[i] = KleeneNot(goal[i])}
<1>1. 1 \in S
  <2>1. 1 \in DOMAIN filter
    BY DEF IsTree, IsFilter
  <2>2. value[1] \in Truths /\ goal[1] \in {"true", "false"}
    BY <2>1 DEF Valued, Intended
  <2>3. QED
    BY <2>1, <2>2 DEF Truths, KleeneNot
<1>2. ASSUME NEW i \in DOMAIN filter, i \in S, NEW c \in filter[i].children PROVE c \in S
  <2>1. /\ c \in DOMAIN filter /\ goal[c] \in {"true", "false"} /\ goal[i] \in {"true", "false"}
        /\ filter[i].kind = "not" => goal[c] # goal[i]
        /\ filter[i].kind # "not" => goal[c] = goal[i]
    BY IntentionBelow
  <2>2. c \in seen => i \in seen /\ (filter[i].kind = "not" \/ value[c] = value[i])
    BY DEF Visits
  <2>3. value[c] \in Truths /\ (filter[i].kind = "not" => value[i] = KleeneNot(value[c]))
    BY <2>1 DEF Valued
  <2>4. QED
    BY <1>2, <2>1, <2>2, <2>3 DEF KleeneNot, Truths
<1>3. \A i \in DOMAIN filter : i \in S => filter[i].children \subseteq S
  BY <1>2
<1>4. DOMAIN filter \subseteq S
  <2> HIDE DEF S
  <2>1. QED
    BY <1>1, <1>3, DownwardInduction DEF IsTree
<1>5. QED
  BY <1>4 DEF Visits

\* The results change in some leaves only.
ChangeIn(filter, leaves, results, changed) ==
  \A x \in Predicates(filter) \ leaves : changed[x] = results[x]

\* Some leaves are at their goals, and no other changes.
BroughtToTheGoal(filter, leaves, results, goal, after) ==
  \A x \in Predicates(filter) : after[x] = IF x \in leaves THEN goal[x] ELSE results[x]

\* If a change moves a decided root, then so does the change that leaves out a
\* leaf never visited and brings the others to their goals.
LEMMA DecidedWithoutTheUnseen ==
  ASSUME NEW filter, IsTree(filter), NEW results, NEW value, Valued(filter, results, value),
         value[1] # "unknown", NEW seen, Visits(filter, value, seen),
         NEW l, l \notin seen, NEW goal, Intended(filter, goal), goal[1] # value[1],
         NEW leaves,
         NEW changed, NEW moved, Valued(filter, changed, moved), moved[1] # value[1],
         ChangeIn(filter, leaves, results, changed),
         NEW after, NEW new, Valued(filter, after, new),
         BroughtToTheGoal(filter, leaves \ {l}, results, goal, after)
  PROVE  new[1] # value[1]
<1>1. \A i \in seen : value[i] = KleeneNot(goal[i])
  BY GoalOpposesTheVisited
<1>2. \A i \in DOMAIN filter : value[i] # KleeneNot(goal[i]) => new[i] # KleeneNot(goal[i])
  <2>1. \A x \in Predicates(filter) : after[x] = results[x] \/ after[x] = goal[x]
    BY DEF BroughtToTheGoal
  <2>2. QED
    BY <2>1, TowardsTheGoal
<1> DEFINE S == {i \in DOMAIN filter : i \in seen /\ moved[i] # value[i] => new[i] # value[i]}
<1>3. ASSUME NEW i \in DOMAIN filter, filter[i].children \subseteq S PROVE i \in S
  <2> SUFFICES ASSUME i \in seen, moved[i] # value[i] PROVE new[i] # value[i]
    OBVIOUS
  <2>1. \A c \in filter[i].children :
          /\ c \in DOMAIN filter
          /\ c \in seen /\ moved[c] # value[c] => new[c] # value[c]
          /\ goal[c] \in {"true", "false"}
          /\ filter[i].kind = "not" => goal[c] # goal[i]
          /\ filter[i].kind # "not" => goal[c] = goal[i]
    BY <1>3, IntentionBelow
  <2>2. /\ goal[i] \in {"true", "false"}
        /\ filter[i].kind = "predicate" \/ filter[i].kind = "not" \/ IsGate(filter, i)
    BY IntentionBelow
  <2>3. \A c \in filter[i].children : c \in seen <=> filter[i].kind = "not" \/ value[c] = value[i]
    BY DEF Visits
  <2>4. value[i] = KleeneNot(goal[i])
    BY <1>1
  <2>5. CASE filter[i].kind = "predicate"
    <3>1. i \in Predicates(filter) /\ value[i] = results[i] /\ moved[i] = changed[i] /\ new[i] = after[i]
      BY <2>5 DEF Valued, Predicates
    <3>2. i \in leaves \ {l}
      BY <3>1 DEF ChangeIn
    <3>3. new[i] = goal[i]
      BY <3>1, <3>2 DEF BroughtToTheGoal
    <3>4. QED
      BY <2>2, <2>4, <3>3 DEF KleeneNot
  <2>6. CASE filter[i].kind = "not"
    <3>1. PICK c \in filter[i].children : TRUE
      BY <2>6 DEF IsTree
    <3>2. /\ value[i] = KleeneNot(value[c]) /\ moved[i] = KleeneNot(moved[c])
          /\ new[i] = KleeneNot(new[c])
          /\ value[c] \in Truths /\ moved[c] \in Truths /\ new[c] \in Truths
      BY <2>1, <2>6 DEF Valued
    <3>3. moved[c] # value[c] => new[c] # value[c]
      BY <2>1, <2>3, <2>6
    <3>4. QED
      BY <3>2, <3>3 DEF KleeneNot, Truths
  <2>7. CASE IsGate(filter, i)
    <3> DEFINE z == Absorbing(filter, i)
               u == Neutral(filter, i)
    <3>1. z \in {"true", "false"} /\ u \in {"true", "false"} /\ z # u
      BY GateEnds
    <3>2. /\ value[i] = u <=> \A c \in filter[i].children : value[c] = u
          /\ moved[i] = z <=> \E c \in filter[i].children : moved[c] = z
          /\ moved[i] = u <=> \A c \in filter[i].children : moved[c] = u
          /\ new[i] = z <=> \E c \in filter[i].children : new[c] = z
          /\ new[i] = u <=> \A c \in filter[i].children : new[c] = u
      BY <2>7 DEF Valued
    <3>3. /\ filter[i].kind # "not"
          /\ \A c \in filter[i].children : KleeneNot(goal[c]) = value[i]
      BY <2>1, <2>4, <2>7 DEF IsGate
    <3>4. \A c \in filter[i].children :
            /\ value[c] # value[i] => new[c] # value[i]
            /\ value[c] = value[i] => (moved[c] # value[i] => new[c] # value[i])
      BY <1>2, <2>1, <2>3, <3>3
    <3> HIDE DEF z, u
    <3>5. value[i] = z \/ value[i] = u
      BY <2>2, <2>4, <3>1 DEF KleeneNot
    <3>6. CASE value[i] = z
      BY <3>2, <3>4, <3>6
    <3>7. CASE value[i] = u
      BY <3>2, <3>4, <3>7
    <3>8. QED
      BY <3>5, <3>6, <3>7
  <2>8. QED
    BY <2>2, <2>5, <2>6, <2>7
<1>4. DOMAIN filter \subseteq S
  <2> HIDE DEF S
  <2>1. QED
    BY <1>3, UpwardInduction DEF IsTree
<1>5. 1 \in DOMAIN filter /\ 1 \in seen
  BY DEF IsTree, IsFilter, Visits
<1>6. QED
  BY <1>4, <1>5

\* The visited nodes of an unknown filter are unknown.
LEMMA VisitedAreUnknown ==
  ASSUME NEW filter, IsTree(filter), NEW results, NEW value, Valued(filter, results, value),
         value[1] = "unknown", NEW seen, Visits(filter, value, seen)
  PROVE  \A i \in seen : value[i] = "unknown"
<1> DEFINE U == {i \in DOMAIN filter : i \in seen => value[i] = "unknown"}
<1>1. 1 \in U
  BY DEF IsTree, IsFilter
<1>2. ASSUME NEW i \in DOMAIN filter, i \in U, NEW c \in filter[i].children PROVE c \in U
  <2>1. c \in DOMAIN filter /\ value[c] \in Truths
    BY DEF IsTree, IsFilter, Valued
  <2>2. c \in seen => i \in seen /\ (filter[i].kind = "not" \/ value[c] = value[i])
    BY DEF Visits
  <2>3. filter[i].kind = "not" => value[i] = KleeneNot(value[c])
    BY DEF Valued
  <2>4. QED
    BY <1>2, <2>1, <2>2, <2>3 DEF KleeneNot, Truths
<1>3. \A i \in DOMAIN filter : i \in U => filter[i].children \subseteq U
  BY <1>2
<1>4. DOMAIN filter \subseteq U
  <2> HIDE DEF U
  <2>1. QED
    BY <1>1, <1>3, DownwardInduction DEF IsTree
<1>5. QED
  BY <1>4 DEF Visits

\* A change of unknown leaves has the same effect on an unknown root without a
\* leaf never visited.
LEMMA UnknownWithoutTheUnseen ==
  ASSUME NEW filter, IsTree(filter), NEW results, NEW value, Valued(filter, results, value),
         value[1] = "unknown", NEW seen, Visits(filter, value, seen),
         NEW l, l \notin seen,
         NEW changed, NEW moved, Valued(filter, changed, moved),
         NEW after, NEW new, Valued(filter, after, new),
         \A x \in Predicates(filter) : results[x] # "unknown" => changed[x] = results[x],
         \A x \in Predicates(filter) : results[x] # "unknown" => after[x] = results[x],
         \A x \in Predicates(filter) : x # l => after[x] = changed[x]
  PROVE  new[1] = moved[1]
<1>1. \A i \in DOMAIN filter : value[i] # "unknown" => moved[i] = value[i] /\ new[i] = value[i]
  BY KnownStaysKnown
<1> DEFINE S == {i \in DOMAIN filter : i \in seen \/ value[i] # "unknown" => new[i] = moved[i]}
<1>2. \A i \in seen : value[i] = "unknown"
  BY VisitedAreUnknown
<1>3. ASSUME NEW i \in DOMAIN filter, filter[i].children \subseteq S PROVE i \in S
  <2> SUFFICES ASSUME i \in seen PROVE new[i] = moved[i]
    BY <1>1
  <2>1. value[i] = "unknown"
    BY <1>2
  <2>2. /\ filter[i].kind = "predicate" \/ filter[i].kind = "not" \/ IsGate(filter, i)
        /\ new[i] \in Truths /\ moved[i] \in Truths
    BY DEF IsTree, IsFilter, IsGate, Valued
  <2>3. \A c \in filter[i].children : c \in DOMAIN filter /\ (c \in seen \/ value[c] # "unknown")
    BY <2>1 DEF Visits, IsTree, IsFilter
  <2>4. \A c \in filter[i].children : new[c] = moved[c]
    BY <1>3, <2>3
  <2>5. CASE filter[i].kind = "predicate"
    <3>1. i \in Predicates(filter) /\ new[i] = after[i] /\ moved[i] = changed[i]
      BY <2>5 DEF Valued, Predicates
    <3>2. QED
      BY <3>1
  <2>6. CASE filter[i].kind = "not"
    BY <2>4, <2>6 DEF Valued, IsTree
  <2>7. CASE IsGate(filter, i)
    <3>1. /\ moved[i] = Absorbing(filter, i)
               <=> \E c \in filter[i].children : moved[c] = Absorbing(filter, i)
          /\ moved[i] = Neutral(filter, i)
               <=> \A c \in filter[i].children : moved[c] = Neutral(filter, i)
          /\ new[i] = Absorbing(filter, i)
               <=> \E c \in filter[i].children : new[c] = Absorbing(filter, i)
          /\ new[i] = Neutral(filter, i)
               <=> \A c \in filter[i].children : new[c] = Neutral(filter, i)
      BY <2>7 DEF Valued
    <3>2. /\ moved[i] = Absorbing(filter, i) <=> new[i] = Absorbing(filter, i)
          /\ moved[i] = Neutral(filter, i) <=> new[i] = Neutral(filter, i)
      BY <2>4, <3>1
    <3>3. QED
      BY <2>2, <3>2, GateEnds DEF Truths
  <2>8. QED
    BY <2>2, <2>5, <2>6, <2>7
<1>4. DOMAIN filter \subseteq S
  <2> HIDE DEF S
  <2>1. QED
    BY <1>3, UpwardInduction DEF IsTree
<1>5. 1 \in DOMAIN filter /\ 1 \in seen
  BY DEF IsTree, IsFilter, Visits
<1>6. QED
  BY <1>4, <1>5

-----------------------------------------------------------------------------
(* A leaf that the search visits is in some smallest change: it is decided *)
(* by the way from the root to the leaf, and what hangs off that way.      *)

\* A set of nodes that holds the parents of its members.
Rises(filter, S) ==
  \A p \in DOMAIN filter : \A c \in filter[p].children : c \in S => p \in S

\* The way from a node to the root.
Path(filter, l) ==
  {i \in DOMAIN filter : \A S \in SUBSET DOMAIN filter : l \in S /\ Rises(filter, S) => i \in S}

LEMMA PathShape ==
  ASSUME NEW filter, IsFilter(filter), NEW l \in DOMAIN filter
  PROVE  /\ l \in Path(filter, l) /\ 1 \in Path(filter, l) /\ Rises(filter, Path(filter, l))
         /\ \A i \in Path(filter, l) : i <= l
         /\ \A i \in Path(filter, l) : i # l => \E c \in filter[i].children : c \in Path(filter, l)
<1> DEFINE N == DOMAIN filter
           A == Path(filter, l)
<1>1. /\ N \subseteq Nat /\ \A i \in N : filter[i].children \subseteq N
      /\ \A i \in N : \A c \in filter[i].children : i < c
  BY DEF IsFilter
<1>2. l \in A /\ A \subseteq N
  BY DEF Path
<1>3. Rises(filter, A)
  BY <1>1 DEF Path, Rises
<1>4. \A S \in SUBSET N : l \in S /\ Rises(filter, S) => A \subseteq S
  BY DEF Path
<1>5. \A i \in A : i <= l
  <2> DEFINE S == {i \in N : i <= l}
  <2>1. S \in SUBSET N /\ l \in S
    BY <1>1
  <2>2. ASSUME NEW p \in N, NEW c \in filter[p].children, c \in S PROVE p \in S
    <3>1. p < c /\ c <= l /\ p \in Nat /\ c \in Nat /\ l \in Nat
      BY <1>1, <2>2
    <3>2. QED
      BY <3>1
  <2>3. Rises(filter, S)
    BY <2>2 DEF Rises
  <2>4. A \subseteq S
    <3> HIDE DEF S
    <3>1. QED
      BY <1>4, <2>1, <2>3
  <2>5. QED
    BY <2>4
<1>6. ASSUME NEW i \in A, i # l PROVE \E c \in filter[i].children : c \in A
  <2> SUFFICES ASSUME \A c \in filter[i].children : c \notin A PROVE FALSE
    OBVIOUS
  <2>1. l \in A \ {i} /\ A \ {i} \in SUBSET N
    BY <1>2, <1>6
  <2>2. Rises(filter, A \ {i})
    BY <1>3 DEF Rises
  <2>3. QED
    BY <1>4, <2>1, <2>2
<1>7. 1 \in A
  <2>1. A \subseteq Nat /\ A # {}
    BY <1>1, <1>2
  <2>2. PICK m \in A : \A k \in A : m <= k
    BY <2>1, LeastNumber
  <2>3. ASSUME m # 1 PROVE FALSE
    <3>1. /\ Parent(filter, m) \in N /\ Parent(filter, m) < m
          /\ m \in filter[Parent(filter, m)].children
      BY <1>2, <2>3, ParentIsTheOnlyOne
    <3>2. Parent(filter, m) \in A
      BY <1>3, <3>1 DEF Rises
    <3>3. m \in Nat /\ Parent(filter, m) \in Nat /\ m <= Parent(filter, m)
      BY <2>1, <2>2, <3>2
    <3>4. QED
      BY <3>1, <3>3
  <2>4. QED
    BY <2>2, <2>3
<1>8. QED
  BY <1>2, <1>3, <1>5, <1>6, <1>7

\* The way does not fork.
LEMMA PathIsStraight ==
  ASSUME NEW filter, IsFilter(filter), NEW l \in DOMAIN filter,
         NEW x \in Path(filter, l), NEW y \in Path(filter, l), x < y,
         NEW p \in DOMAIN filter, y \in filter[p].children
  PROVE  x <= p
<1> DEFINE N == DOMAIN filter
           Straight(k) == \A i, j \in Path(filter, k) : i < j =>
                            \A q \in N : j \in filter[q].children => i <= q
           S == {k \in N : Straight(k)}
<1>1. /\ N \subseteq Nat /\ 1 \in N /\ \A i \in N : filter[i].children \subseteq N
      /\ \A i \in N : \A c \in filter[i].children : i < c
  BY DEF IsFilter
<1>2. \A k \in N : Path(filter, k) \subseteq N /\ \A i \in Path(filter, k) : i <= k
  BY PathShape DEF Path
<1>3. 1 \in S
  <2>1. ASSUME NEW i \in Path(filter, 1), NEW j \in Path(filter, 1), i < j PROVE FALSE
    <3>1. i \in 1..Len(filter) /\ j \in 1..Len(filter) /\ i <= 1 /\ j <= 1
      BY <1>1, <1>2 DEF IsFilter
    <3>2. Len(filter) \in Nat
      BY DEF IsFilter
    <3>3. QED
      BY <2>1, <3>1, <3>2
  <2>2. QED
    BY <1>1, <2>1
<1>4. ASSUME NEW i \in N, i \in S, NEW c \in filter[i].children PROVE c \in S
  <2>1. c \in N
    BY <1>1
  <2>2. Path(filter, c) \subseteq Path(filter, i) \union {c}
    <3> DEFINE T == Path(filter, i) \union {c}
    <3>1. T \in SUBSET N /\ c \in T
      BY <1>2, <2>1
    <3>2. Rises(filter, Path(filter, i)) /\ i \in Path(filter, i)
      BY PathShape
    <3>3. \A q \in N : c \in filter[q].children => q = i
      BY <2>1, ParentIsTheOnlyOne
    <3>4. Rises(filter, T)
      BY <3>2, <3>3 DEF Rises
    <3> HIDE DEF T
    <3>5. Path(filter, c) \subseteq T
      BY <3>1, <3>4 DEF Path
    <3>6. QED
      BY <3>5 DEF T
  <2>3. ASSUME NEW a \in Path(filter, c), NEW b \in Path(filter, c), a < b,
               NEW q \in N, b \in filter[q].children
        PROVE  a <= q
    <3>1. a \in Nat /\ b \in Nat /\ c \in Nat /\ i \in Nat /\ q \in Nat /\ a <= c /\ b <= c
      BY <1>1, <1>2, <2>1
    <3>2. a # c
      BY <2>3, <3>1
    <3>3. a \in Path(filter, i)
      BY <2>2, <3>2
    <3>4. CASE b = c
      <4>1. q = i
        BY <2>1, <2>3, <3>4, ParentIsTheOnlyOne
      <4>2. QED
        BY <1>2, <3>3, <4>1
    <3>5. CASE b # c
      <4>1. b \in Path(filter, i)
        BY <2>2, <3>5
      <4>2. QED
        BY <1>4, <2>3, <3>3, <4>1
    <3>6. QED
      BY <3>4, <3>5
  <2>4. QED
    BY <2>1, <2>3
<1>5. \A i \in DOMAIN filter : i \in S => filter[i].children \subseteq S
  BY <1>4
<1>6. N \subseteq S
  <2> HIDE DEF S
  <2>1. QED
    BY <1>3, <1>5, DownwardInduction
<1>7. Straight(l)
  BY <1>6
<1>8. QED
  BY <1>7

\* What hangs off the way where the goal needs every child: the nodes below such
\* children.
IsSide(filter, goal, path, side) ==
  /\ side \subseteq DOMAIN filter /\ side \intersect path = {}
  /\ \A i \in DOMAIN filter : \A c \in filter[i].children :
       /\ i \in side => c \in side
       /\ i \in path /\ c \notin path => (c \in side <=> goal[i] = Neutral(filter, i))
       /\ i \notin path \union side => c \notin path \union side

LEMMA SideExists ==
  ASSUME NEW filter, IsFilter(filter), NEW l \in DOMAIN filter, NEW goal
  PROVE  \E side : IsSide(filter, goal, Path(filter, l), side)
<1> DEFINE N == DOMAIN filter
           A == Path(filter, l)
           V == {"path", "side", "rest"}
           Label(i, c, v) == IF v # "path" THEN v ELSE IF c \in A THEN "path"
                             ELSE IF goal[i] = Neutral(filter, i) THEN "side" ELSE "rest"
           step == [i \in N |-> [c \in N |-> [v \in V |-> Label(i, c, v)]]]
<1>1. \A i \in N : filter[i].children \subseteq N
  BY DEF IsFilter
<1>2. \A i, c \in N : \A v \in V : step[i][c][v] \in V /\ step[i][c][v] = Label(i, c, v)
  OBVIOUS
<1>3. "path" \in V
  OBVIOUS
<1> HIDE DEF step
<1>4. PICK lab : IsDescent(filter, V, "path", step, lab)
  <2> HIDE DEF V, Label
  <2>1. QED
    BY <1>2, <1>3, DescentHasSolution
<1>5. /\ \A i \in N : lab[i] \in V
      /\ lab[1] = "path" /\ \A i \in N : \A c \in filter[i].children : lab[c] = Label(i, c, lab[i])
  <2> HIDE DEF V, Label
  <2>1. QED
    BY <1>1, <1>2, <1>4 DEF IsDescent
<1>6. A \subseteq N /\ 1 \in A /\ Rises(filter, A)
  BY PathShape DEF Path
<1> DEFINE S == {i \in N : lab[i] = "path" <=> i \in A}
<1>7. N \subseteq S
  <2>1. 1 \in S
    BY <1>5, <1>6
  <2>2. ASSUME NEW i \in N, i \in S, NEW c \in filter[i].children PROVE c \in S
    BY <1>1, <1>5, <1>6, <2>2 DEF Rises
  <2>3. \A i \in DOMAIN filter : i \in S => filter[i].children \subseteq S
    BY <2>2
  <2> HIDE DEF S
  <2>4. QED
    BY <2>1, <2>3, DownwardInduction
<1> DEFINE side == {i \in N : lab[i] = "side"}
<1>8. side \subseteq N /\ side \intersect A = {}
  BY <1>7
<1>9. ASSUME NEW i \in N, NEW c \in filter[i].children
      PROVE  /\ i \in side => c \in side
             /\ i \in A /\ c \notin A => (c \in side <=> goal[i] = Neutral(filter, i))
             /\ i \notin A \union side => c \notin A \union side
  <2>1. c \in N /\ lab[c] = Label(i, c, lab[i]) /\ lab[i] \in V
    BY <1>1, <1>5
  <2>2. (lab[i] = "path" <=> i \in A) /\ (lab[c] = "path" <=> c \in A)
    BY <1>7, <2>1
  <2>3. QED
    BY <2>1, <2>2
<1>10. IsSide(filter, goal, A, side)
  <2> HIDE DEF side, A
  <2>1. QED
    BY <1>8, <1>9 DEF IsSide
<1>11. QED
  BY <1>10

\* A set of nodes that holds the children of its members.
Sinks(filter, S) == \A i \in DOMAIN filter : i \in S => filter[i].children \subseteq S

\* The leaves of a set are at their goals: all of them, or those that did not have
\* the opposite value before.
AreAtTheGoal(filter, how, side, before, goal, after) ==
  \A x \in Predicates(filter) :
    x \in side /\ (how = "all" \/ before[x] # KleeneNot(goal[x])) => after[x] = goal[x]

\* They take the nodes above them there.
LEMMA SideReachesTheGoal ==
  ASSUME NEW filter, IsTree(filter), NEW goal, Intended(filter, goal),
         NEW side, Sinks(filter, side), NEW how,
         NEW before, NEW old, Valued(filter, before, old),
         NEW after, NEW new, Valued(filter, after, new),
         AreAtTheGoal(filter, how, side, before, goal, after)
  PROVE  \A i \in DOMAIN filter :
           i \in side /\ (how = "all" \/ old[i] # KleeneNot(goal[i])) => new[i] = goal[i]
<1> DEFINE S == {i \in DOMAIN filter :
                   i \in side /\ (how = "all" \/ old[i] # KleeneNot(goal[i])) => new[i] = goal[i]}
<1>1. ASSUME NEW i \in DOMAIN filter, filter[i].children \subseteq S PROVE i \in S
  <2> SUFFICES ASSUME i \in side, how = "all" \/ old[i] # KleeneNot(goal[i]) PROVE new[i] = goal[i]
    OBVIOUS
  <2>1. \A c \in filter[i].children :
          /\ c \in DOMAIN filter /\ (how = "all" \/ old[c] # KleeneNot(goal[c]) => new[c] = goal[c])
          /\ goal[c] \in {"true", "false"}
          /\ filter[i].kind = "not" => goal[c] # goal[i]
          /\ filter[i].kind # "not" => goal[c] = goal[i]
    BY <1>1, IntentionBelow DEF Sinks
  <2>2. /\ goal[i] \in {"true", "false"} /\ old[i] \in Truths
        /\ filter[i].kind = "predicate" \/ filter[i].kind = "not" \/ IsGate(filter, i)
    BY IntentionBelow DEF Valued
  <2>3. CASE filter[i].kind = "predicate"
    <3>1. i \in Predicates(filter) /\ old[i] = before[i] /\ new[i] = after[i]
      BY <2>3 DEF Valued, Predicates
    <3>2. QED
      BY <3>1 DEF AreAtTheGoal
  <2>4. CASE filter[i].kind = "not"
    <3>1. PICK c \in filter[i].children : TRUE
      BY <2>4 DEF IsTree
    <3>2. old[i] = KleeneNot(old[c]) /\ new[i] = KleeneNot(new[c]) /\ old[c] \in Truths
      BY <2>1, <2>4 DEF Valued
    <3>3. goal[c] \in {"true", "false"} /\ goal[c] # goal[i]
      BY <2>1, <2>4
    <3>4. old[i] # KleeneNot(goal[i]) => old[c] # KleeneNot(goal[c])
      BY <2>2, <3>2, <3>3 DEF KleeneNot, Truths
    <3>5. new[c] = goal[c]
      BY <2>1, <3>4
    <3>6. QED
      BY <2>2, <3>2, <3>3, <3>5 DEF KleeneNot
  <2>5. CASE IsGate(filter, i)
    <3> DEFINE z == Absorbing(filter, i)
               u == Neutral(filter, i)
    <3>1. z \in {"true", "false"} /\ u \in {"true", "false"} /\ z # u
      BY GateEnds
    <3>2. /\ old[i] = z <=> \E c \in filter[i].children : old[c] = z
          /\ old[i] = u <=> \A c \in filter[i].children : old[c] = u
          /\ new[i] = z <=> \E c \in filter[i].children : new[c] = z
          /\ new[i] = u <=> \A c \in filter[i].children : new[c] = u
      BY <2>5 DEF Valued
    <3>3. filter[i].children # {} /\ \A c \in filter[i].children : goal[c] = goal[i]
      BY <2>1, <2>5 DEF IsGate, IsTree
    <3> HIDE DEF z, u
    <3>4. KleeneNot(z) = u /\ KleeneNot(u) = z /\ (goal[i] = z \/ goal[i] = u)
      BY <2>2, <3>1 DEF KleeneNot
    <3>5. CASE goal[i] = z
      BY <2>1, <3>2, <3>3, <3>4, <3>5
    <3>6. CASE goal[i] = u
      BY <2>1, <3>2, <3>3, <3>4, <3>6
    <3>7. QED
      BY <3>4, <3>5, <3>6
  <2>6. QED
    BY <2>2, <2>3, <2>4, <2>5
<1>2. DOMAIN filter \subseteq S
  <2> HIDE DEF S
  <2>1. QED
    BY <1>1, UpwardInduction DEF IsTree
<1>3. QED
  BY <1>2

\* A leaf, its way to the root with what hangs off it, and a goal.
IsWay(filter, goal, l, path, side) ==
  /\ IsTree(filter) /\ Intended(filter, goal)
  /\ l \in Predicates(filter) /\ path = Path(filter, l)
  /\ IsSide(filter, goal, path, side)

\* One step of the way.
LEMMA OnTheWay ==
  ASSUME NEW filter, NEW goal, NEW l, NEW path, NEW side, IsWay(filter, goal, l, path, side),
         NEW i \in path
  PROVE  /\ i \in DOMAIN filter /\ goal[i] \in {"true", "false"}
         /\ \A c \in filter[i].children :
              /\ c \in DOMAIN filter
              /\ filter[i].kind = "not" => goal[c] # goal[i] /\ c \in path
              /\ filter[i].kind # "not" => goal[c] = goal[i]
              /\ c \in path \/ (c \in side <=> goal[i] = Neutral(filter, i))
         /\ \/ i = l /\ i \in Predicates(filter) /\ i \notin side
            \/ i # l /\ filter[i].kind = "not"
            \/ i # l /\ IsGate(filter, i)
         /\ i # l => \E c \in filter[i].children : c \in path
<1>1. IsTree(filter) /\ IsFilter(filter) /\ l \in DOMAIN filter /\ i \in DOMAIN filter
  BY DEF IsWay, Path, IsTree, Predicates
<1>2. i # l => \E c \in filter[i].children : c \in path
  BY <1>1, PathShape DEF IsWay
<1>3. i # l => filter[i].kind = "not" \/ IsGate(filter, i)
  BY <1>1, <1>2 DEF IsFilter, IsGate
<1>4. ASSUME filter[i].kind = "not" PROVE i # l /\ \A c \in filter[i].children : c \in path
  <2>1. i # l
    BY <1>4 DEF IsWay, Predicates
  <2>2. QED
    BY <1>1, <1>2, <1>4, <2>1 DEF IsTree
<1>5. \A c \in filter[i].children : c \in path \/ (c \in side <=> goal[i] = Neutral(filter, i))
  BY <1>1 DEF IsWay, IsSide
<1>6. i = l => i \in Predicates(filter) /\ i \notin side
  BY DEF IsWay, IsSide
<1>7. QED
  BY <1>1, <1>2, <1>3, <1>4, <1>5, <1>6, IntentionBelow DEF IsWay

\* Every leaf may change, or no value on the way opposes the goal.
IsFree(how, path, old, goal) == how = "all" \/ \A i \in path : old[i] # KleeneNot(goal[i])

\* A leaf and the side leaves brought to their goals take the whole way there.
LEMMA WayReachesTheGoal ==
  ASSUME NEW filter, NEW goal, NEW l, NEW path, NEW side, IsWay(filter, goal, l, path, side),
         NEW how,
         NEW before, NEW old, Valued(filter, before, old),
         NEW after, NEW new, Valued(filter, after, new),
         IsFree(how, path, old, goal),
         after[l] = goal[l],
         AreAtTheGoal(filter, how, side, before, goal, after)
  PROVE  \A i \in path : new[i] = goal[i]
<1> DEFINE S == {i \in DOMAIN filter : i \in path => new[i] = goal[i]}
<1>1. IsTree(filter) /\ IsFilter(filter) /\ Intended(filter, goal)
  BY DEF IsWay, IsTree
<1>2. \A i \in DOMAIN filter :
        i \in side /\ (how = "all" \/ old[i] # KleeneNot(goal[i])) => new[i] = goal[i]
  <2>1. Sinks(filter, side)
    BY DEF IsWay, IsSide, Sinks
  <2>2. QED
    BY <1>1, <2>1, SideReachesTheGoal
<1>3. ASSUME NEW i \in DOMAIN filter, filter[i].children \subseteq S PROVE i \in S
  <2> SUFFICES ASSUME i \in path PROVE new[i] = goal[i]
    OBVIOUS
  <2>1. /\ goal[i] \in {"true", "false"}
        /\ \A c \in filter[i].children :
              /\ c \in DOMAIN filter
              /\ filter[i].kind = "not" => goal[c] # goal[i] /\ c \in path
              /\ filter[i].kind # "not" => goal[c] = goal[i]
              /\ c \in path \/ (c \in side <=> goal[i] = Neutral(filter, i))
        /\ \/ i = l /\ i \in Predicates(filter) /\ i \notin side
           \/ i # l /\ filter[i].kind = "not"
           \/ i # l /\ IsGate(filter, i)
        /\ i # l => \E c \in filter[i].children : c \in path
    BY OnTheWay
  <2>2. \A c \in filter[i].children : c \in path => new[c] = goal[c]
    BY <1>3
  <2>3. CASE i = l
    BY <2>1, <2>3 DEF Valued, Predicates
  <2>4. CASE i # l /\ filter[i].kind = "not"
    <3>1. PICK c \in filter[i].children : c \in path
      BY <2>1, <2>4
    <3>2. new[i] = KleeneNot(new[c]) /\ new[c] = goal[c] /\ goal[c] # goal[i]
      BY <2>1, <2>2, <2>4, <3>1 DEF Valued
    <3>3. goal[c] \in {"true", "false"}
      BY <1>1, <2>1 DEF Intended
    <3>4. QED
      BY <2>1, <3>2, <3>3 DEF KleeneNot
  <2>5. CASE i # l /\ IsGate(filter, i)
    <3> DEFINE z == Absorbing(filter, i)
               u == Neutral(filter, i)
    <3>1. z \in {"true", "false"} /\ u \in {"true", "false"} /\ z # u
      BY GateEnds
    <3>2. /\ old[i] = z <=> \E c \in filter[i].children : old[c] = z
          /\ new[i] = z <=> \E c \in filter[i].children : new[c] = z
          /\ new[i] = u <=> \A c \in filter[i].children : new[c] = u
      BY <2>5 DEF Valued
    <3>3. \A c \in filter[i].children :
            goal[c] = goal[i] /\ (c \in path \/ (c \in side <=> goal[i] = u))
      BY <2>1, <2>5 DEF IsGate
    <3>4. PICK c \in filter[i].children : c \in path
      BY <2>1, <2>5
    <3> HIDE DEF z, u
    <3>5. KleeneNot(z) = u /\ KleeneNot(u) = z /\ (goal[i] = z \/ goal[i] = u)
      BY <2>1, <3>1 DEF KleeneNot
    <3>6. CASE goal[i] = z
      BY <2>2, <3>2, <3>3, <3>4, <3>6
    <3>7. CASE goal[i] = u
      <4>1. how = "all" \/ \A d \in filter[i].children : old[d] # KleeneNot(goal[d])
        BY <3>2, <3>3, <3>5, <3>7 DEF IsFree
      <4>2. \A d \in filter[i].children : new[d] = u
        BY <1>2, <2>1, <2>2, <3>3, <3>7, <4>1
      <4>3. QED
        BY <3>2, <3>7, <4>2
    <3>8. QED
      BY <3>5, <3>6, <3>7
  <2>6. QED
    BY <2>1, <2>3, <2>4, <2>5
<1>4. DOMAIN filter \subseteq S
  <2> HIDE DEF S
  <2>1. QED
    BY <1>1, <1>3, UpwardInduction
<1>5. QED
  BY <1>4 DEF IsWay, Path

\* What neither lies on the way nor hangs off it keeps its value.
LEMMA TheRestStays ==
  ASSUME NEW filter, NEW goal, NEW l, NEW path, NEW side, IsWay(filter, goal, l, path, side),
         NEW before, NEW old, Valued(filter, before, old),
         NEW after, NEW new, Valued(filter, after, new),
         \A x \in Predicates(filter) : x \notin side => after[x] = before[x]
  PROVE  \A i \in DOMAIN filter : i \notin path \union side => new[i] = old[i]
<1> DEFINE S == {i \in DOMAIN filter : i \notin path \union side => new[i] = old[i]}
<1>1. IsTree(filter) /\ IsFilter(filter)
  BY DEF IsWay, IsTree
<1>2. ASSUME NEW i \in DOMAIN filter, filter[i].children \subseteq S PROVE i \in S
  <2> SUFFICES ASSUME i \notin path \union side PROVE new[i] = old[i]
    OBVIOUS
  <2>1. \A c \in filter[i].children : new[c] = old[c]
    BY <1>2 DEF IsWay, IsSide
  <2>2. /\ filter[i].kind = "predicate" \/ filter[i].kind = "not" \/ IsGate(filter, i)
        /\ new[i] \in Truths /\ old[i] \in Truths
    BY <1>1 DEF IsFilter, IsGate, Valued
  <2>3. CASE filter[i].kind = "predicate"
    BY <2>3 DEF Valued, Predicates
  <2>4. CASE filter[i].kind = "not"
    BY <1>1, <2>1, <2>4 DEF Valued, IsTree
  <2>5. CASE IsGate(filter, i)
    <3>1. /\ old[i] = Absorbing(filter, i)
               <=> \E c \in filter[i].children : old[c] = Absorbing(filter, i)
          /\ old[i] = Neutral(filter, i)
               <=> \A c \in filter[i].children : old[c] = Neutral(filter, i)
          /\ new[i] = Absorbing(filter, i)
               <=> \E c \in filter[i].children : new[c] = Absorbing(filter, i)
          /\ new[i] = Neutral(filter, i)
               <=> \A c \in filter[i].children : new[c] = Neutral(filter, i)
      BY <2>5 DEF Valued
    <3>2. /\ old[i] = Absorbing(filter, i) <=> new[i] = Absorbing(filter, i)
          /\ old[i] = Neutral(filter, i) <=> new[i] = Neutral(filter, i)
      BY <2>1, <3>1
    <3>3. QED
      BY <2>2, <3>2, GateEnds DEF Truths
  <2>6. QED
    BY <2>2, <2>3, <2>4, <2>5
<1>3. DOMAIN filter \subseteq S
  <2> HIDE DEF S
  <2>1. QED
    BY <1>1, <1>2, UpwardInduction
<1>4. QED
  BY <1>3

\* Without the leaf itself, no change of the side leaves takes the way to its goal,
\* and a way whose values oppose the goal keeps them.
LEMMA WayNeedsItsLeaf ==
  ASSUME NEW filter, NEW goal, NEW l, NEW path, NEW side, IsWay(filter, goal, l, path, side),
         NEW before, NEW old, Valued(filter, before, old),
         NEW after, NEW new, Valued(filter, after, new),
         \A x \in Predicates(filter) : x \notin side => after[x] = before[x],
         \A i \in path : old[i] # goal[i]
  PROVE  /\ \A i \in path : new[i] # goal[i]
         /\ (\A i \in path : old[i] = KleeneNot(goal[i])) => \A i \in path : new[i] = old[i]
<1> DEFINE opposed == \A i \in path : old[i] = KleeneNot(goal[i])
           S == {i \in DOMAIN filter : i \in path => new[i] # goal[i] /\ (opposed => new[i] = old[i])}
<1>1. IsTree(filter) /\ IsFilter(filter) /\ Intended(filter, goal) /\ path \subseteq DOMAIN filter
  BY DEF IsWay, IsTree, Path
<1>2. \A i \in DOMAIN filter : i \notin path \union side => new[i] = old[i]
  BY TheRestStays
<1>3. ASSUME NEW i \in DOMAIN filter, filter[i].children \subseteq S PROVE i \in S
  <2> SUFFICES ASSUME i \in path PROVE new[i] # goal[i] /\ (opposed => new[i] = old[i])
    OBVIOUS
  <2>1. /\ goal[i] \in {"true", "false"}
        /\ \A c \in filter[i].children :
              /\ c \in DOMAIN filter
              /\ filter[i].kind = "not" => goal[c] # goal[i] /\ c \in path
              /\ filter[i].kind # "not" => goal[c] = goal[i]
              /\ c \in path \/ (c \in side <=> goal[i] = Neutral(filter, i))
        /\ \/ i = l /\ i \in Predicates(filter) /\ i \notin side
           \/ i # l /\ filter[i].kind = "not"
           \/ i # l /\ IsGate(filter, i)
        /\ i # l => \E c \in filter[i].children : c \in path
    BY OnTheWay
  <2>2. \A c \in filter[i].children : c \in path => new[c] # goal[c] /\ (opposed => new[c] = old[c])
    BY <1>3
  <2>3. new[i] \in Truths /\ old[i] \in Truths /\ old[i] # goal[i]
    BY DEF Valued
  <2>4. \A c \in filter[i].children : opposed /\ c \in path => old[c] = KleeneNot(goal[c])
    OBVIOUS
  <2> HIDE DEF opposed
  <2>5. CASE i = l
    BY <2>1, <2>3, <2>5 DEF Valued, Predicates
  <2>6. CASE i # l /\ filter[i].kind = "not"
    <3>1. PICK c \in filter[i].children : c \in path
      BY <2>1, <2>6
    <3>2. /\ new[i] = KleeneNot(new[c]) /\ old[i] = KleeneNot(old[c])
          /\ goal[c] # goal[i] /\ new[c] \in Truths
          /\ new[c] # goal[c] /\ (opposed => new[c] = old[c])
      BY <2>1, <2>2, <2>6, <3>1 DEF Valued
    <3>3. goal[c] \in {"true", "false"}
      BY <1>1, <2>1 DEF Intended
    <3>4. QED
      BY <2>1, <3>2, <3>3 DEF KleeneNot, Truths
  <2>7. CASE i # l /\ IsGate(filter, i)
    <3> DEFINE z == Absorbing(filter, i)
               u == Neutral(filter, i)
    <3>1. z \in {"true", "false"} /\ u \in {"true", "false"} /\ z # u
      BY GateEnds
    <3>2. /\ old[i] = z <=> \E c \in filter[i].children : old[c] = z
          /\ old[i] = u <=> \A c \in filter[i].children : old[c] = u
          /\ new[i] = z <=> \E c \in filter[i].children : new[c] = z
          /\ new[i] = u <=> \A c \in filter[i].children : new[c] = u
      BY <2>7 DEF Valued
    <3>3. \A c \in filter[i].children :
            /\ goal[c] = goal[i]
            /\ c \notin path /\ goal[i] # u => new[c] = old[c]
      BY <1>2, <2>1, <2>7 DEF IsGate
    <3>4. PICK c \in filter[i].children : c \in path
      BY <2>1, <2>7
    <3>5. opposed => old[i] = KleeneNot(goal[i])
      BY DEF opposed
    <3> HIDE DEF z, u
    <3>6. KleeneNot(z) = u /\ KleeneNot(u) = z /\ (goal[i] = z \/ goal[i] = u)
      BY <2>1, <3>1 DEF KleeneNot
    <3>7. CASE goal[i] = z
      <4>1. \A d \in filter[i].children : new[d] # z
        BY <2>2, <2>3, <3>1, <3>2, <3>3, <3>7
      <4>2. opposed => \A d \in filter[i].children : new[d] = old[d]
        BY <2>2, <3>1, <3>3, <3>7
      <4>3. QED
        BY <3>2, <3>5, <3>6, <3>7, <4>1, <4>2
    <3>8. CASE goal[i] = u
      <4>1. new[i] # u
        BY <2>2, <3>2, <3>3, <3>4, <3>8
      <4>2. opposed => old[c] = z /\ new[c] = z
        BY <2>2, <2>4, <3>3, <3>4, <3>6, <3>8
      <4>3. QED
        BY <3>2, <3>5, <3>6, <3>8, <4>1, <4>2
    <3>9. QED
      BY <3>6, <3>7, <3>8
  <2>8. QED
    BY <2>1, <2>5, <2>6, <2>7
<1>4. DOMAIN filter \subseteq S
  <2> HIDE DEF S
  <2>1. QED
    BY <1>1, <1>3, UpwardInduction
<1>5. QED
  BY <1>1, <1>4

\* An unknown way stays unknown without its leaf, when above the first place where
\* something unknown hangs off it nothing else does, and when the goal does not
\* need what hangs off it there.
LEMMA WayStaysUnknown ==
  ASSUME NEW filter, NEW goal, NEW l, NEW path, NEW side, IsWay(filter, goal, l, path, side),
         NEW before, NEW old, Valued(filter, before, old),
         NEW after, NEW new, Valued(filter, after, new),
         \A x \in Predicates(filter) : x \notin side => after[x] = before[x],
         \A x \in Predicates(filter) : before[x] # "unknown" => after[x] = before[x],
         \A i \in path : old[i] = "unknown",
         NEW top \in path,
         \/ top = l
         \/ /\ goal[top] = Absorbing(filter, top)
            /\ \E c \in filter[top].children : c \notin path /\ old[c] = "unknown",
         \A i \in path : i < top =>
           i # l /\ \A c \in filter[i].children : old[c] = "unknown" => c \in path
  PROVE  new[1] = "unknown"
<1> DEFINE S == {i \in DOMAIN filter : i \in path /\ i <= top => new[i] = "unknown"}
<1>1. /\ IsTree(filter) /\ IsFilter(filter) /\ path \subseteq DOMAIN filter
      /\ l \in DOMAIN filter /\ path = Path(filter, l) /\ DOMAIN filter \subseteq Nat
  <2>1. IsFilter(filter)
    BY DEF IsWay, IsTree
  <2>2. QED
    BY <2>1 DEF IsWay, Path, Predicates, IsFilter
<1>2. \A i \in DOMAIN filter : i \notin path \union side => new[i] = old[i]
  BY TheRestStays
<1>3. \A i \in DOMAIN filter : old[i] # "unknown" => new[i] = old[i]
  BY <1>1, KnownStaysKnown
<1>4. \A i \in path : new[i] # goal[i]
  <2>1. \A i \in path : old[i] # goal[i]
    BY <1>1 DEF IsWay, Intended
  <2>2. QED
    BY <2>1, WayNeedsItsLeaf
<1>5. ASSUME NEW i \in DOMAIN filter, filter[i].children \subseteq S PROVE i \in S
  <2> SUFFICES ASSUME i \in path, i <= top PROVE new[i] = "unknown"
    OBVIOUS
  <2>1. /\ \A c \in filter[i].children :
              /\ c \in DOMAIN filter
              /\ filter[i].kind = "not" => c \in path
              /\ filter[i].kind # "not" => goal[c] = goal[i]
              /\ c \in path \/ (c \in side <=> goal[i] = Neutral(filter, i))
        /\ \/ i = l /\ i \in Predicates(filter) /\ i \notin side
           \/ i # l /\ filter[i].kind = "not"
           \/ i # l /\ IsGate(filter, i)
        /\ i # l => \E c \in filter[i].children : c \in path
    BY OnTheWay
  <2>2. new[i] \in Truths /\ old[i] = "unknown"
    BY DEF Valued
  <2>3. CASE i = l
    BY <2>1, <2>2, <2>3 DEF Valued, Predicates
  <2>4. CASE i # l /\ i = top
    <3>1. IsGate(filter, i)
      BY <2>1, <2>4
    <3> DEFINE z == Absorbing(filter, i)
               u == Neutral(filter, i)
    <3>2. z \in {"true", "false"} /\ u \in {"true", "false"} /\ z # u
      BY GateEnds
    <3>3. /\ old[i] = z <=> \E c \in filter[i].children : old[c] = z
          /\ new[i] = z <=> \E c \in filter[i].children : new[c] = z
          /\ new[i] = u <=> \A c \in filter[i].children : new[c] = u
      BY <3>1 DEF Valued
    <3>4. goal[i] = z
      BY <2>4
    <3>5. filter[i].kind # "not"
      BY <3>1 DEF IsGate
    <3> HIDE DEF z
    <3>6. \A c \in filter[i].children :
            /\ c \in path => new[c] # z
            /\ c \notin path => new[c] = old[c]
      BY <1>2, <1>4, <2>1, <3>2, <3>4, <3>5
    <3>7. PICK c \in filter[i].children : c \notin path /\ old[c] = "unknown"
      BY <2>4
    <3> HIDE DEF u
    <3>8. new[i] # z /\ new[i] # u
      BY <2>2, <3>2, <3>3, <3>6, <3>7
    <3>9. QED
      BY <2>2, <3>2, <3>8 DEF Truths
  <2>5. CASE i # l /\ i < top
    <3>1. PICK c \in filter[i].children : c \in path
      BY <2>1, <2>5
    <3>2. \A d \in filter[i].children : d \in path => new[d] = "unknown"
      <4> SUFFICES ASSUME NEW d \in filter[i].children, d \in path PROVE new[d] = "unknown"
        OBVIOUS
      <4>1. d \in Nat /\ top \in Nat /\ i \in Nat
        BY <1>1
      <4>2. top < d => top <= i
        BY <1>1, PathIsStraight
      <4>3. d <= top
        BY <2>5, <4>1, <4>2
      <4>4. QED
        BY <1>5, <4>3
    <3>3. \A d \in filter[i].children : old[d] = "unknown" => d \in path
      BY <2>5
    <3>4. CASE filter[i].kind = "not"
      BY <2>1, <3>1, <3>2, <3>4 DEF Valued, KleeneNot
    <3>5. CASE IsGate(filter, i)
      <4> DEFINE z == Absorbing(filter, i)
                 u == Neutral(filter, i)
      <4>1. z \in {"true", "false"} /\ u \in {"true", "false"} /\ z # u
        BY GateEnds
      <4>2. /\ old[i] = z <=> \E d \in filter[i].children : old[d] = z
            /\ new[i] = z <=> \E d \in filter[i].children : new[d] = z
            /\ new[i] = u <=> \A d \in filter[i].children : new[d] = u
        BY <3>5 DEF Valued
      <4> HIDE DEF z, u
      <4>3. \A d \in filter[i].children : new[d] # z
        BY <1>3, <2>1, <2>2, <3>2, <3>3, <4>1, <4>2
      <4>4. new[i] # z /\ new[i] # u
        BY <3>1, <3>2, <4>1, <4>2, <4>3
      <4>5. QED
        BY <2>2, <4>1, <4>4 DEF Truths
    <3>6. QED
      BY <2>1, <2>5, <3>4, <3>5
  <2>6. QED
    BY <1>1, <2>3, <2>4, <2>5
<1>6. DOMAIN filter \subseteq S
  <2> HIDE DEF S
  <2>1. QED
    BY <1>1, <1>5, UpwardInduction
<1>7. 1 \in path /\ 1 <= top
  <2>1. 1 \in path
    BY <1>1, PathShape
  <2>2. top \in 1..Len(filter) /\ Len(filter) \in Nat
    BY <1>1 DEF IsFilter
  <2>3. QED
    BY <2>1, <2>2
<1>8. QED
  BY <1>1, <1>6, <1>7

-----------------------------------------------------------------------------
(* The visited leaves are those that some smallest change has to touch.    *)

\* Values for these leaves that give the filter another value.
Moving(filter, results, leaves) ==
  \E changed \in [Predicates(filter) -> Truths] :
    /\ ChangeIn(filter, leaves, results, changed)
    /\ Values(filter, changed)[1] # Values(filter, results)[1]

\* The leaves that may change.
Open(filter, results) ==
  IF Values(filter, results)[1] = "unknown" THEN {x \in Predicates(filter) : results[x] = "unknown"}
                                            ELSE Predicates(filter)

LEMMA OppositeIntention ==
  ASSUME NEW filter, IsTree(filter), NEW goal, Intended(filter, goal)
  PROVE  \E other : Intended(filter, other) /\ \A i \in DOMAIN filter : other[i] = KleeneNot(goal[i])
<1> DEFINE other == [i \in DOMAIN filter |-> KleeneNot(goal[i])]
<1>1. \A i \in DOMAIN filter : goal[i] \in {"true", "false"} /\ filter[i].children \subseteq DOMAIN filter
  BY DEF Intended, IsTree, IsFilter
<1>2. \A i \in DOMAIN filter : \A c \in filter[i].children :
        goal[c] = IF filter[i].kind = "not" THEN KleeneNot(goal[i]) ELSE goal[i]
  BY DEF Intended
<1>3. Intended(filter, other)
  BY <1>1, <1>2 DEF Intended, KleeneNot
<1>4. QED
  BY <1>3

LEMMA UnvisitedLeafIsNotNeeded ==
  ASSUME NEW filter, IsTree(filter), NEW results \in [Predicates(filter) -> Truths],
         NEW seen, Visits(filter, Values(filter, results), seen),
         NEW l, l \notin seen,
         NEW leaves \in SUBSET Open(filter, results), Moving(filter, results, leaves)
  PROVE  Moving(filter, results, leaves \ {l})
<1> DEFINE P == Predicates(filter)
           value == Values(filter, results)
<1>1. Valued(filter, results, value)
  BY ValuesAreValued
<1>2. PICK changed \in [P -> Truths] :
        /\ ChangeIn(filter, leaves, results, changed)
        /\ Values(filter, changed)[1] # value[1]
  BY DEF Moving
<1>3. Valued(filter, changed, Values(filter, changed))
  BY <1>2, ValuesAreValued
<1>4. 1 \in DOMAIN filter /\ value[1] \in Truths
  BY <1>1 DEF IsTree, IsFilter, Valued
<1>5. CASE value[1] # "unknown"
  <2>1. PICK goal : Intended(filter, goal) /\ goal[1] = KleeneNot(value[1])
    <3>1. KleeneNot(value[1]) \in {"true", "false"}
      BY <1>4, <1>5 DEF Truths, KleeneNot
    <3>2. QED
      BY <3>1, IntentionExists DEF IsTree
  <2>2. goal[1] # value[1]
    BY <1>4, <1>5, <2>1 DEF Truths, KleeneNot
  <2> DEFINE after == [x \in P |-> IF x \in leaves \ {l} THEN goal[x] ELSE results[x]]
  <2>3. after \in [P -> Truths]
    BY <2>1 DEF Intended, Predicates, Truths
  <2>4. Valued(filter, after, Values(filter, after))
    BY <2>3, ValuesAreValued
  <2>5. BroughtToTheGoal(filter, leaves \ {l}, results, goal, after)
    BY DEF BroughtToTheGoal
  <2> HIDE DEF after, value, P
  <2>6. Values(filter, after)[1] # value[1]
    BY <1>1, <1>2, <1>3, <1>5, <2>1, <2>2, <2>4, <2>5, DecidedWithoutTheUnseen DEF P, value
  <2>7. ChangeIn(filter, leaves \ {l}, results, after)
    BY <2>5 DEF BroughtToTheGoal, ChangeIn
  <2>8. QED
    BY <2>3, <2>6, <2>7 DEF Moving, P, value
<1>6. CASE value[1] = "unknown"
  <2> DEFINE after == [x \in P |-> IF x = l THEN results[x] ELSE changed[x]]
  <2>1. after \in [P -> Truths]
    OBVIOUS
  <2>2. Valued(filter, after, Values(filter, after))
    BY <2>1, ValuesAreValued
  <2>3. \A x \in P : results[x] # "unknown" => x \notin leaves
    BY <1>6 DEF Open
  <2>4. \A x \in P : results[x] # "unknown" => changed[x] = results[x]
    BY <1>2, <2>3 DEF ChangeIn
  <2>5. \A x \in P : results[x] # "unknown" => after[x] = results[x]
    BY <2>4
  <2>6. \A x \in P : x # l => after[x] = changed[x]
    OBVIOUS
  <2>7. ChangeIn(filter, leaves \ {l}, results, after)
    BY <1>2 DEF ChangeIn
  <2> HIDE DEF after, value, P
  <2>8. Values(filter, after)[1] = Values(filter, changed)[1]
    BY <1>1, <1>3, <1>6, <2>2, <2>4, <2>5, <2>6, UnknownWithoutTheUnseen DEF P, value
  <2>9. QED
    BY <1>2, <2>1, <2>7, <2>8 DEF Moving, P, value
<1>7. QED
  BY <1>5, <1>6

LEMMA VisitedLeafIsNeeded ==
  ASSUME NEW filter, IsTree(filter), NEW results \in [Predicates(filter) -> Truths],
         NEW seen, Visits(filter, Values(filter, results), seen),
         NEW l \in Predicates(filter), l \in seen
  PROVE  \E leaves \in SUBSET Open(filter, results) :
           Moving(filter, results, leaves) /\ ~Moving(filter, results, leaves \ {l})
<1> DEFINE P == Predicates(filter)
           value == Values(filter, results)
           path == Path(filter, l)
<1>1. /\ IsFilter(filter) /\ l \in DOMAIN filter /\ 1 \in DOMAIN filter
      /\ DOMAIN filter \subseteq Nat /\ P \subseteq DOMAIN filter
  <2>1. IsFilter(filter)
    BY DEF IsTree
  <2>2. QED
    BY <2>1 DEF IsFilter, Predicates
<1>2. Valued(filter, results, value) /\ value \in [DOMAIN filter -> Truths]
  BY ValuesAreValued DEF Valued
<1>3. path \subseteq seen
  <2>1. Rises(filter, seen)
    BY DEF Rises, Visits
  <2>2. seen \in SUBSET DOMAIN filter
    BY DEF Visits
  <2>3. QED
    BY <2>1, <2>2 DEF Path
<1>4. /\ l \in path /\ 1 \in path /\ path \subseteq DOMAIN filter
      /\ \A i \in path : i # l => \E c \in filter[i].children : c \in path
  BY <1>1, PathShape DEF Path
<1>5. value[l] = results[l]
  BY <1>2 DEF Valued, Predicates
<1>6. CASE value[1] # "unknown"
  <2>1. value[1] \in {"true", "false"}
    BY <1>1, <1>2, <1>6 DEF Truths
  <2>2. PICK goal : Intended(filter, goal) /\ goal[1] = KleeneNot(value[1])
    <3>1. KleeneNot(value[1]) \in {"true", "false"}
      BY <2>1 DEF KleeneNot
    <3>2. QED
      BY <1>1, <3>1, IntentionExists
  <2>3. goal[1] # value[1]
    BY <2>1, <2>2 DEF KleeneNot
  <2>4. \A i \in path : value[i] = KleeneNot(goal[i])
    BY <1>2, <1>3, <1>6, <2>2, <2>3, GoalOpposesTheVisited
  <2>5. \A i \in path : value[i] # goal[i]
    BY <1>4, <2>2, <2>4 DEF Intended, KleeneNot
  <2>6. PICK side : IsSide(filter, goal, path, side)
    BY <1>1, SideExists
  <2>7. IsWay(filter, goal, l, path, side)
    BY <2>2, <2>6 DEF IsWay
  <2> DEFINE leaves == {x \in P : x = l \/ x \in side}
             after == [x \in P |-> IF x \in leaves THEN goal[x] ELSE results[x]]
  <2>8. leaves \in SUBSET Open(filter, results)
    BY <1>6 DEF Open
  <2>9. Moving(filter, results, leaves)
    <3>1. after \in [P -> Truths]
      BY <1>1, <2>2 DEF Intended, Truths
    <3>2. Valued(filter, after, Values(filter, after))
      BY <3>1, ValuesAreValued
    <3>3. after[l] = goal[l]
      OBVIOUS
    <3>4. AreAtTheGoal(filter, "all", side, results, goal, after)
      BY DEF AreAtTheGoal
    <3>5. ChangeIn(filter, leaves, results, after) /\ IsFree("all", path, value, goal)
      BY DEF ChangeIn, IsFree
    <3> HIDE DEF after, leaves, path, value
    <3>6. \A i \in path : Values(filter, after)[i] = goal[i]
      BY <1>2, <2>7, <3>2, <3>3, <3>4, <3>5, WayReachesTheGoal
    <3>7. Values(filter, after)[1] # value[1]
      BY <1>4, <2>3, <3>6
    <3>8. QED
      BY <3>1, <3>5, <3>7 DEF Moving, value, P
  <2>10. ASSUME Moving(filter, results, leaves \ {l}) PROVE FALSE
    <3>1. PICK other \in [P -> Truths] :
            /\ ChangeIn(filter, leaves \ {l}, results, other)
            /\ Values(filter, other)[1] # value[1]
      BY <2>10 DEF Moving
    <3>2. Valued(filter, other, Values(filter, other))
      BY <3>1, ValuesAreValued
    <3>3. \A x \in P : x \notin side => other[x] = results[x]
      BY <3>1 DEF ChangeIn
    <3> HIDE DEF leaves, path, value
    <3>4. \A i \in path : Values(filter, other)[i] = value[i]
      BY <1>2, <2>4, <2>5, <2>7, <3>2, <3>3, WayNeedsItsLeaf
    <3>5. QED
      BY <1>4, <3>1, <3>4
  <2>11. QED
    BY <2>8, <2>9, <2>10
<1>7. CASE value[1] = "unknown"
  <2>1. \A i \in path : value[i] = "unknown"
    BY <1>2, <1>3, <1>7, VisitedAreUnknown
  <2> DEFINE tops == {p \in path : p = l \/ \E c \in filter[p].children : c \notin path /\ value[c] = "unknown"}
  <2>2. PICK top \in tops : \A k \in tops : top <= k
    <3>1. tops \subseteq Nat /\ tops # {}
      BY <1>1, <1>4
    <3> HIDE DEF tops
    <3>2. QED
      BY <3>1, LeastNumber
  <2>3. \A i \in path : i < top => i # l /\ \A c \in filter[i].children : value[c] = "unknown" => c \in path
    <3>1. ASSUME NEW i \in path, i < top PROVE i \notin tops
      <4>1. i \in Nat /\ top \in Nat
        BY <1>1, <1>4
      <4> HIDE DEF tops
      <4>2. QED
        BY <2>2, <3>1, <4>1
    <3>2. QED
      BY <3>1
  <2>4. top \in path /\ (top = l \/ \E c \in filter[top].children : c \notin path /\ value[c] = "unknown")
    OBVIOUS
  <2>5. PICK goal : Intended(filter, goal) /\ (top # l => goal[top] = Absorbing(filter, top))
    <3>1. PICK one : Intended(filter, one)
      BY <1>1, IntentionExists
    <3>2. PICK other : Intended(filter, other) /\ \A i \in DOMAIN filter : other[i] = KleeneNot(one[i])
      BY <3>1, OppositeIntention
    <3>3. one[top] \in {"true", "false"} /\ other[top] = KleeneNot(one[top])
      BY <1>4, <3>1, <3>2 DEF Intended
    <3>4. one[top] = Absorbing(filter, top) \/ other[top] = Absorbing(filter, top)
      BY <3>3 DEF Absorbing, KleeneNot
    <3>5. QED
      BY <3>1, <3>2, <3>4
  <2>6. PICK side : IsSide(filter, goal, path, side)
    BY <1>1, SideExists
  <2>7. IsWay(filter, goal, l, path, side)
    BY <2>5, <2>6 DEF IsWay
  <2> DEFINE leaves == {x \in P : results[x] = "unknown" /\ (x = l \/ x \in side)}
             after == [x \in P |-> IF x \in leaves THEN goal[x] ELSE results[x]]
  <2>8. leaves \in SUBSET Open(filter, results)
    BY <1>7 DEF Open
  <2>9. \A x \in P : goal[x] \in {"true", "false"} /\ results[x] \in Truths
    BY <1>1, <2>5 DEF Intended
  <2>10. Moving(filter, results, leaves)
    <3>1. after \in [P -> Truths]
      BY <2>9 DEF Truths
    <3>2. Valued(filter, after, Values(filter, after))
      BY <3>1, ValuesAreValued
    <3>3. after[l] = goal[l]
      BY <1>4, <1>5, <2>1
    <3>4. AreAtTheGoal(filter, "open", side, results, goal, after)
      BY <2>9 DEF AreAtTheGoal, KleeneNot, Truths
    <3>5. ChangeIn(filter, leaves, results, after)
      BY DEF ChangeIn
    <3>6. IsFree("open", path, value, goal)
      BY <1>4, <2>1, <2>5 DEF Intended, KleeneNot, IsFree
    <3> HIDE DEF after, leaves, path, value
    <3>7. \A i \in path : Values(filter, after)[i] = goal[i]
      BY <1>2, <2>7, <3>2, <3>3, <3>4, <3>6, WayReachesTheGoal
    <3>8. goal[1] \in {"true", "false"}
      BY <1>1, <2>5 DEF Intended
    <3>9. Values(filter, after)[1] # value[1]
      BY <1>4, <1>7, <3>7, <3>8
    <3>10. QED
      BY <3>1, <3>5, <3>9 DEF Moving, value, P
  <2>11. ASSUME Moving(filter, results, leaves \ {l}) PROVE FALSE
    <3>1. PICK other \in [P -> Truths] :
            /\ ChangeIn(filter, leaves \ {l}, results, other)
            /\ Values(filter, other)[1] # value[1]
      BY <2>11 DEF Moving
    <3>2. Valued(filter, other, Values(filter, other))
      BY <3>1, ValuesAreValued
    <3>3. \A x \in P : x \notin side => other[x] = results[x]
      BY <3>1 DEF ChangeIn
    <3>4. \A x \in P : results[x] # "unknown" => other[x] = results[x]
      BY <3>1 DEF ChangeIn
    <3> HIDE DEF leaves, path, value, tops
    <3>5. Values(filter, other)[1] = "unknown"
      BY <1>2, <2>1, <2>3, <2>4, <2>5, <2>7, <3>2, <3>3, <3>4, WayStaysUnknown
    <3>6. QED
      BY <1>7, <3>1, <3>5
  <2>12. QED
    BY <2>8, <2>10, <2>11
<1>8. QED
  BY <1>6, <1>7

\* The leaves of the smallest changes that move the filter.
Touched(filter, results, open) ==
  LET moving == {leaves \in SUBSET open : Moving(filter, results, leaves)}
      smallest == {leaves \in moving : \A other \in moving : other \subseteq leaves => other = leaves}
  IN  UNION smallest

\* A leaf is in a smallest change exactly when some change needs it.
LEMMA SmallestChanges ==
  ASSUME NEW filter, IsFilter(filter), NEW results, NEW open \in SUBSET Predicates(filter), NEW l
  PROVE  l \in Touched(filter, results, open)
           <=> \E leaves \in SUBSET open :
                 Moving(filter, results, leaves) /\ ~Moving(filter, results, leaves \ {l})
<1> DEFINE moving == {leaves \in SUBSET open : Moving(filter, results, leaves)}
           smallest == {leaves \in moving : \A other \in moving : other \subseteq leaves => other = leaves}
<1>1. IsFiniteSet(open)
  <2>1. Len(filter) \in Nat /\ DOMAIN filter = 1..Len(filter)
    BY DEF IsFilter
  <2>2. IsFiniteSet(1..Len(filter))
    BY <2>1, FS_Interval
  <2>3. open \subseteq 1..Len(filter)
    BY <2>1 DEF Predicates
  <2>4. QED
    BY <2>2, <2>3, FS_Subset
<1>2. ASSUME NEW leaves, NEW more, leaves \subseteq more, Moving(filter, results, leaves)
      PROVE  Moving(filter, results, more)
  BY <1>2 DEF Moving, ChangeIn
<1>3. ASSUME NEW least \in smallest, l \in least
      PROVE  \E leaves \in SUBSET open :
               Moving(filter, results, leaves) /\ ~Moving(filter, results, leaves \ {l})
  <2>1. least \in SUBSET open /\ Moving(filter, results, least)
    OBVIOUS
  <2>2. least \ {l} \in SUBSET open /\ least \ {l} \subseteq least /\ least \ {l} # least
    BY <1>3
  <2>3. least \ {l} \notin moving
    BY <2>2
  <2>4. QED
    BY <2>1, <2>2, <2>3
<1>4. ASSUME NEW leaves \in SUBSET open, Moving(filter, results, leaves),
             ~Moving(filter, results, leaves \ {l})
      PROVE  l \in UNION smallest
  <2> DEFINE within == {other \in SUBSET leaves : Moving(filter, results, other)}
             sizes == {Cardinality(other) : other \in within}
  <2>1. \A other \in SUBSET open : IsFiniteSet(other) /\ Cardinality(other) \in Nat
    BY <1>1, FS_Subset, FS_CardinalityType
  <2>2. PICK least \in within : \A other \in within : Cardinality(least) <= Cardinality(other)
    <3>1. sizes \subseteq Nat /\ sizes # {}
      BY <1>4, <2>1
    <3>2. PICK size \in sizes : \A k \in sizes : size <= k
      <4> HIDE DEF sizes
      <4>1. QED
        BY <3>1, LeastNumber
    <3>3. QED
      BY <3>2
  <2>3. l \in least
    <3> SUFFICES ASSUME l \notin least PROVE FALSE
      OBVIOUS
    <3>1. least \subseteq leaves \ {l}
      OBVIOUS
    <3>2. QED
      BY <1>2, <1>4, <3>1
  <2>4. ASSUME NEW other \in moving, other \subseteq least PROVE other = least
    <3>1. other \in within /\ least \in SUBSET open
      BY <2>4
    <3>2. Cardinality(least) <= Cardinality(other)
      BY <2>2, <3>1
    <3>3. Cardinality(other) <= Cardinality(least) /\ (Cardinality(other) = Cardinality(least) => other = least)
      BY <2>1, <2>4, <3>1, FS_Subset
    <3>4. Cardinality(least) \in Nat /\ Cardinality(other) \in Nat
      BY <2>1, <3>1
    <3> HIDE DEF within, moving
    <3>5. QED
      BY <3>2, <3>3, <3>4
  <2>5. least \in moving
    OBVIOUS
  <2>6. least \in smallest
    BY <2>4, <2>5
  <2>7. QED
    BY <2>3, <2>6
<1>5. QED
  BY <1>3, <1>4 DEF Touched

-----------------------------------------------------------------------------
(* The causes of a snapshot's filter.                                      *)

LEMMA ResultsAreTruths ==
  ASSUME NEW s, IsFilter(s.filter)
  PROVE  Results(s) \in [Predicates(s.filter) -> Truths]
<1>1. ASSUME NEW p, NEW attribute, p.op \in Comparisons PROVE PredicateResult(p, attribute) \in Truths
  <2>1. \A holds : Truth(holds) \in Truths
    BY DEF Truth, Truths
  <2>2. CASE attribute.presence = "missing"
    BY <2>1, <2>2 DEF PredicateResult, Truths
  <2>3. CASE attribute.presence = "null"
    BY <2>1, <2>3 DEF PredicateResult, Truths
  <2>4. CASE attribute.presence \notin {"missing", "null"}
    BY <1>1, <2>1, <2>4 DEF PredicateResult, Comparisons, Ranges
  <2>5. QED
    BY <2>2, <2>3, <2>4
<1>2. \A i \in Predicates(s.filter) : s.filter[i].op \in Comparisons
  BY DEF IsFilter, Predicates
<1>3. QED
  BY <1>1, <1>2 DEF Results

LEMMA DefinitionIsATree ==
  ASSUME NEW filter, NEW schema, IsFilter(filter), ValidDefinition(filter, schema)
  PROVE  IsTree(filter)
<1>1. ASSUME NEW i \in DOMAIN filter, filter[i].kind # "predicate"
      PROVE  filter[i].children # {} /\ (filter[i].kind = "not" => \E c : filter[i].children = {c})
  <2>1. filter[i].children # {} /\ (filter[i].kind = "not" => Cardinality(filter[i].children) = 1)
    BY <1>1 DEF ValidDefinition
  <2>2. i \in Nat /\ Len(filter) \in Nat /\ filter[i].children \subseteq (i + 1)..Len(filter)
    BY DEF IsFilter
  <2>3. IsFiniteSet(filter[i].children)
    <3>1. \A n \in Nat : IsFiniteSet((n + 1)..Len(filter))
      <4> TAKE n \in Nat
      <4>1. n + 1 \in Int /\ Len(filter) \in Int
        BY <2>2
      <4>2. QED
        BY <4>1, FS_Interval, Zenon
    <3>2. QED
      BY <2>2, <3>1, FS_Subset
  <2>4. QED
    BY <2>1, <2>3, FS_Singleton
<1>2. QED
  BY <1>1 DEF IsTree

\* A snapshot with a filter that can be decided.
Filtered(s) == IsTree(s.filter) /\ s.filter # None

LEMMA MovesIsMoving ==
  ASSUME NEW s, Filtered(s), NEW leaves \in SUBSET Predicates(s.filter)
  PROVE  Moves(s, leaves) <=> Moving(s.filter, Results(s), leaves)
<1> DEFINE P == Predicates(s.filter)
           With(changed) == [i \in P |-> IF i \in leaves THEN changed[i] ELSE Results(s)[i]]
<1>1. Results(s) \in [P -> Truths] /\ Root(s) = Values(s.filter, Results(s))[1]
  BY ResultsAreTruths DEF Filtered, IsTree, Root
<1>2. ASSUME Moves(s, leaves) PROVE Moving(s.filter, Results(s), leaves)
  <2>1. PICK changed \in [leaves -> Truths] : Values(s.filter, With(changed))[1] # Root(s)
    BY <1>2 DEF Moves, Truths
  <2>2. With(changed) \in [P -> Truths] /\ ChangeIn(s.filter, leaves, Results(s), With(changed))
    BY <1>1 DEF ChangeIn
  <2> HIDE DEF With
  <2>3. QED
    BY <1>1, <2>1, <2>2 DEF Moving
<1>3. ASSUME Moving(s.filter, Results(s), leaves) PROVE Moves(s, leaves)
  <2>1. PICK after \in [P -> Truths] :
          /\ ChangeIn(s.filter, leaves, Results(s), after)
          /\ Values(s.filter, after)[1] # Root(s)
    BY <1>1, <1>3 DEF Moving
  <2> DEFINE changed == [i \in leaves |-> after[i]]
  <2>2. changed \in [leaves -> Truths]
    OBVIOUS
  <2>3. With(changed) = after
    BY <2>1 DEF ChangeIn
  <2> HIDE DEF changed
  <2>4. QED
    BY <2>1, <2>2, <2>3 DEF Moves, Truths
<1>4. QED
  BY <1>2, <1>3

\* What the search for witnesses finds are the causes, and nothing else.
LEMMA WitnessesAreTheCauses ==
  ASSUME NEW s, Filtered(s), Root(s) \in {"false", "unknown"}
  PROVE  Causes(s) = {i \in Witnesses(s.filter, Results(s)) : Results(s)[i] = Root(s)}
<1> DEFINE P == Predicates(s.filter)
           value == Values(s.filter, Results(s))
           wanted == Wanted(s.filter, value)
           seen == Seen(s.filter, value)
           open == Open(s.filter, Results(s))
           touched == Touched(s.filter, Results(s), open)
<1>1. /\ IsTree(s.filter) /\ IsFilter(s.filter)
      /\ Results(s) \in [P -> Truths] /\ Root(s) = value[1]
  BY ResultsAreTruths DEF Filtered, IsTree, Root
<1>2. Valued(s.filter, Results(s), value)
  BY <1>1, ValuesAreValued
<1>3. /\ \A i \in DOMAIN s.filter : wanted[i] = "unvisited" \/ wanted[i] = value[i]
      /\ Visits(s.filter, value, seen)
  <2> HIDE DEF value
  <2>1. QED
    BY <1>1, <1>2, WantedAreVisited
<1>4. \A i \in P : i \in DOMAIN s.filter /\ value[i] = Results(s)[i]
  BY <1>2 DEF Valued, Predicates
<1>5. open \in SUBSET P
  BY DEF Open
<1>6. \A l : l \in touched
               <=> \E leaves \in SUBSET open :
                     Moving(s.filter, Results(s), leaves) /\ ~Moving(s.filter, Results(s), leaves \ {l})
  <2> TAKE l
  <2> HIDE DEF open
  <2>1. QED
    BY <1>1, <1>5, SmallestChanges
<1>7. \A l \in P : l \in seen => l \in touched
  <2> SUFFICES ASSUME NEW l \in P, l \in seen PROVE l \in touched
    OBVIOUS
  <2> HIDE DEF seen, touched
  <2>1. \E leaves \in SUBSET open :
          Moving(s.filter, Results(s), leaves) /\ ~Moving(s.filter, Results(s), leaves \ {l})
    BY <1>1, <1>3, VisitedLeafIsNeeded
  <2>2. QED
    BY <1>6, <2>1
<1>8. \A l \in P : l \in touched => l \in seen
  <2> SUFFICES ASSUME NEW l \in P, l \notin seen, l \in touched PROVE FALSE
    OBVIOUS
  <2> HIDE DEF seen, touched
  <2>1. PICK leaves \in SUBSET open :
          Moving(s.filter, Results(s), leaves) /\ ~Moving(s.filter, Results(s), leaves \ {l})
    BY <1>6
  <2>2. QED
    BY <1>1, <1>3, <2>1, UnvisitedLeafIsNotNeeded
<1>9. Causes(s) = {i \in P : Results(s)[i] = Root(s)} \intersect touched
  <2>1. open = IF Root(s) = "unknown" THEN {i \in P : Results(s)[i] = Root(s)} ELSE P
    BY <1>1 DEF Open
  <2>2. {leaves \in SUBSET open : Moving(s.filter, Results(s), leaves)}
          = {leaves \in SUBSET open : Moves(s, leaves)}
    BY <1>5, MovesIsMoving
  <2> HIDE DEF open
  <2>3. QED
    BY <2>1, <2>2 DEF Causes, Touched
<1>10. \A i \in P : Results(s)[i] = Root(s) =>
         (i \in seen <=> i \in Witnesses(s.filter, Results(s)))
  BY <1>3, <1>4 DEF Witnesses, Seen
<1>11. Witnesses(s.filter, Results(s)) \subseteq P
  BY DEF Witnesses
<1> HIDE DEF seen, touched, P
<1>12. QED
  BY <1>7, <1>8, <1>9, <1>10, <1>11

\* The observations about other things than the filter name no leaf.
LEMMA OnlyFilterObservationsNameLeaves ==
  ASSUME NEW s, s.available, Root(s) \in {"false", "unknown"}
  PROVE  ReportedLeaves(Response(s)) = {i \in Witnesses(s.filter, Results(s)) : Results(s)[i] = Root(s)}
<1> DEFINE Leaves(o) == {item.node : item \in {x \in o.items : x.kind = "filter"}}
           named == {i \in Witnesses(s.filter, Results(s)) : Results(s)[i] = Root(s)}
           observations == Response(s).observations
<1>1. PICK candidates, fusions :
        observations = FilterObservations(s)
                         \union {CandidateObservation(e) : e \in candidates}
                         \union {RrfObservation(e) : e \in fusions}
  BY DEF Response, Analysis
<1>2. \A e : Leaves(CandidateObservation(e)) = {}
  BY DEF CandidateObservation, Observation, CutoffItem
<1>3. \A e : Leaves(RrfObservation(e)) = {}
  <2> TAKE e
  <2>1. \A x \in RrfObservation(e).items : x.kind # "filter"
    BY DEF RrfObservation, Observation, CutoffItem
  <2>2. QED
    BY <2>1
<1> DEFINE About(i) == Observation(IF Root(s) = "false" THEN "filter_predicate_failed" ELSE "not_observable",
                         {[kind |-> "filter", node |-> i, result |-> Root(s)]},
                         IF Root(s) = "false" THEN "observed" ELSE "insufficient")
<1>4. FilterObservations(s) = {About(i) : i \in named}
  BY DEF FilterObservations
<1>5. \A i : Leaves(About(i)) = {i}
  <2> TAKE i
  <2> DEFINE item == [kind |-> "filter", node |-> i, result |-> Root(s)]
  <2>1. About(i).items = {item}
    BY DEF Observation
  <2>2. item.kind = "filter" /\ item.node = i
    OBVIOUS
  <2> HIDE DEF About, item
  <2>3. {x \in About(i).items : x.kind = "filter"} = {item}
    BY <2>1, <2>2
  <2>4. QED
    BY <2>2, <2>3
<1>6. ReportedLeaves(Response(s)) = UNION {Leaves(o) : o \in observations}
  BY DEF ReportedLeaves
<1> HIDE DEF Leaves, About, named, observations
<1>7. QED
  BY <1>1, <1>2, <1>3, <1>4, <1>5, <1>6 DEF named

-----------------------------------------------------------------------------
(* An answered diagnostic.                                                 *)

\* Where a diagnostic answers, and from what.
AnswersFromItsSnapshot ==
  /\ Answered => phase = "ended"
  /\ IsDiagnosis =>
       /\ request \in Requests
       /\ phase \notin {"comparing", "probing"}
       /\ phase = "closing" /\ ~failed /\ ~cancelled => answer \in Answers[request]
       /\ Answered => answer \in Answers[request] /\ ~Refuses(answer) /\ response = Response(answer)

LEMMA SnapshotIsKept == Control /\ AnswersFromItsSnapshot /\ [Next]_vars => AnswersFromItsSnapshot'
<1> SUFFICES ASSUME Control, AnswersFromItsSnapshot, [Next]_vars PROVE AnswersFromItsSnapshot'
  OBVIOUS
<1> USE DEF AnswersFromItsSnapshot, IsDiagnosis, Answered
<1>1. CASE Refuse
  BY <1>1 DEF Refuse
<1>2. CASE Begin
  BY <1>2 DEF Begin
<1>3. CASE CompareAnswers \/ ProbeAnswers \/ ProbeFails
  <2>1. phase \in {"comparing", "probing"} /\ UNCHANGED <<request, outcome>>
    BY <1>3 DEF CompareAnswers, ProbeAnswers, ProbeFails
  <2>2. QED
    BY <2>1
<1>4. CASE TaskEnds \/ CancelDrain
  BY <1>4 DEF TaskEnds, CancelDrain
<1>5. CASE EmbeddingResumes \/ Connect
  BY <1>5 DEF EmbeddingResumes, Connect, End, StartClose
<1>6. CASE QueryAnswers
  BY <1>6 DEF QueryAnswers, StartClose
<1>7. CASE CallFails \/ CancelCall
  BY <1>7 DEF CallFails, CancelCall, StartClose
<1>8. CASE CloseResumes
  <2>1. /\ phase = "closing" /\ phase' = "ended" /\ UNCHANGED <<request, answer>>
        /\ outcome' = "answered" => ~cancelled /\ ~failed /\ Acceptable /\ response' = Composed
    BY <1>8 DEF CloseResumes, End
  <2>2. IsDiagnosis /\ Acceptable => ~Refuses(answer) /\ Composed = Response(answer)
    BY DEF Acceptable, Composed
  <2>3. QED
    BY <2>1, <2>2
<1>9. CASE Reply
  BY <1>9, OutcomeAssumption DEF Reply
<1>10. CASE UNCHANGED vars
  BY <1>10 DEF vars
<1>11. QED
  BY <1>1, <1>2, <1>3, <1>4, <1>5, <1>6, <1>7, <1>8, <1>9, <1>10 DEF Next

-----------------------------------------------------------------------------
(* An honest list, and what is read from it.                               *)

\* A snapshot from a correct provider.
SoundSnapshot(s) == IsSnapshot(s) /\ Honest(s)

\* The rows of a list that is in order.
OrderedRows(rows, signal, limit) ==
  /\ Len(rows) \in Nat /\ DOMAIN rows = 1..Len(rows)
  /\ limit \in Nat \ {0} /\ Len(rows) <= limit
  /\ \A i \in 1..Len(rows) : rows[i].score \in Nat /\ (signal = "bm25" => rows[i].score > 0)
  /\ \A i, j \in 1..Len(rows) : rows[i].doc = rows[j].doc => i = j
  /\ \A i, j \in 1..Len(rows) : i < j => ~Better(signal, rows[j].score, rows[i].score)

LEMMA LimitIsPositive == \A mode : Limit(mode) \in Nat \ {0}
BY AnalysisAssumption DEF Limit

LEMMA RolesAreRecords ==
  ASSUME NEW mode, NEW noFilter, NEW role \in Roles(mode, noFilter)
  PROVE  /\ role = [scope |-> role.scope, signal |-> role.signal]
         /\ role.scope \in Scopes(noFilter) /\ role.scope \in {"stored", "no_filter"}
         /\ role.signal \in Signals(mode) /\ role.signal \in {"bm25", "ann"}
BY DEF Roles, Scopes, Signals

LEMMA RowsAreOrdered ==
  ASSUME NEW s, SoundSnapshot(s), NEW role \in Roles(s.mode, s.noFilter)
  PROVE  role \in DOMAIN s.lists /\ OrderedRows(s.lists[role], role.signal, Limit(s.mode))
<1> DEFINE rows == s.lists[role]
<1>1. role \in DOMAIN s.lists /\ ValidList(s, role)
  BY DEF SoundSnapshot, Honest, ValidSnapshot
<1>2. rows \in Seq(ToSet(rows)) /\ \A row \in ToSet(rows) : row.score \in Nat
  BY <1>1 DEF SoundSnapshot, IsSnapshot
<1>3. /\ Len(rows) <= Limit(s.mode)
      /\ \A i, j \in DOMAIN rows : rows[i].doc = rows[j].doc => i = j
      /\ role.signal = "bm25" => \A i \in DOMAIN rows : rows[i].score > 0
      /\ \A i, j \in DOMAIN rows : i < j =>
           IF role.signal = "bm25" THEN rows[i].score >= rows[j].score
                                   ELSE rows[i].score <= rows[j].score
  BY <1>1 DEF ValidList
<1> HIDE DEF rows
<1>4. /\ Len(rows) \in Nat /\ DOMAIN rows = 1..Len(rows)
      /\ \A i \in 1..Len(rows) : rows[i] \in ToSet(rows)
  BY <1>2
<1>5. \A i \in 1..Len(rows) : rows[i].score \in Nat
  BY <1>2, <1>4
<1>6. \A i, j \in 1..Len(rows) : i < j => ~Better(role.signal, rows[j].score, rows[i].score)
  BY <1>3, <1>4, <1>5 DEF Better
<1>7. Limit(s.mode) \in Nat \ {0}
  BY LimitIsPositive
<1>8. OrderedRows(rows, role.signal, Limit(s.mode))
  BY <1>3, <1>4, <1>5, <1>6, <1>7 DEF OrderedRows
<1>9. QED
  BY <1>1, <1>8 DEF rows

\* The rank of a document is the index of its row.
LEMMA RankIsTheIndex ==
  ASSUME NEW rows, NEW signal, NEW limit, OrderedRows(rows, signal, limit), NEW doc
  PROVE  \/ RankOf(rows, doc) = None /\ \A i \in 1..Len(rows) : rows[i].doc # doc
         \/ /\ RankOf(rows, doc) \in 1..Len(rows) /\ RankOf(rows, doc) # None
            /\ \A i \in 1..Len(rows) : rows[i].doc = doc <=> i = RankOf(rows, doc)
<1>1. CASE \E i \in 1..Len(rows) : rows[i].doc = doc
  <2>1. PICK i \in 1..Len(rows) : rows[i].doc = doc
    BY <1>1
  <2>2. RankOf(rows, doc) = i
    BY <2>1 DEF RankOf, OrderedRows
  <2>3. i # None
    BY <2>1, AnalysisAssumption DEF OrderedRows
  <2>4. QED
    BY <2>1, <2>2, <2>3 DEF OrderedRows
<1>2. CASE ~ \E i \in 1..Len(rows) : rows[i].doc = doc
  BY <1>2 DEF RankOf, OrderedRows
<1>3. QED
  BY <1>1, <1>2

\* The documents of a list are as many as its rows.
LEMMA DocumentsAreAsManyAsRows ==
  ASSUME NEW rows, NEW signal, NEW limit, OrderedRows(rows, signal, limit)
  PROVE  LET docs == {rows[i].doc : i \in 1..Len(rows)}
         IN  IsFiniteSet(docs) /\ Cardinality(docs) = Len(rows)
<1> DEFINE n == Len(rows)
           docs == {rows[i].doc : i \in 1..n}
           f == [i \in 1..n |-> rows[i].doc]
<1>1. n \in Nat
  BY DEF OrderedRows
<1>2. IsFiniteSet(1..n) /\ Cardinality(1..n) = n
  <2> HIDE DEF n
  <2>1. IsFiniteSet(1..n)
    BY <1>1, FS_Interval
  <2>2. Cardinality(1..n) = IF 1 > n THEN 0 ELSE n - 1 + 1
    BY <1>1, FS_Interval
  <2>3. QED
    BY <1>1, <2>1, <2>2
<1>3. f \in Bijection(1..n, docs)
  <2>1. f \in Injection(1..n, docs)
    BY DEF OrderedRows, Injection, IsInjective
  <2>2. f \in Surjection(1..n, docs)
    BY DEF Surjection
  <2>3. QED
    BY <2>1, <2>2 DEF Bijection
<1> HIDE DEF f, docs, n
<1>4. IsFiniteSet(docs) /\ Cardinality(docs) = n
  <2>1. ExistsBijection(1..n, docs)
    BY <1>3 DEF ExistsBijection
  <2>2. QED
    BY <1>2, <2>1, FS_Bijection
<1>5. QED
  BY <1>4 DEF docs, n

LEMMA HonestAnswersAreDecoded ==
  ASSUME NEW s, SoundSnapshot(s)
  PROVE  Decoded(s)
<1>1. DecodesTarget(s) /\ DOMAIN s.lists = Roles(s.mode, s.noFilter)
  BY DEF SoundSnapshot, Honest, ValidSnapshot
<1>2. ASSUME NEW role \in DOMAIN s.lists
      PROVE  DecodesRows(s.lists[role], role.signal, Limit(s.mode)) /\ AgreesWithLookup(s, role)
  <2> DEFINE rows == s.lists[role]
             limit == Limit(s.mode)
  <2>1. OrderedRows(rows, role.signal, limit)
    BY <1>1, RowsAreOrdered
  <2>2. HonestList(s, role)
    BY DEF SoundSnapshot, Honest
  <2>3. rows \in Seq(ToSet(rows))
    BY DEF SoundSnapshot, IsSnapshot
  <2>4. RankOf(rows, Target) # None => s.available /\ rows[RankOf(rows, Target)].score = Direct(s, role.signal)
    BY <2>2 DEF HonestList
  <2> HIDE DEF rows, limit
  <2>5. ToSet(rows) = {rows[i] : i \in 1..Len(rows)}
    BY <2>1 DEF ToSet, OrderedRows
  <2>6. \A i \in 2..Len(rows) : ~Better(role.signal, rows[i].score, rows[i - 1].score)
    <3> SUFFICES ASSUME NEW i \in 2..Len(rows)
                 PROVE  ~Better(role.signal, rows[i].score, rows[i - 1].score)
      OBVIOUS
    <3>1. i \in 1..Len(rows) /\ i - 1 \in 1..Len(rows) /\ i - 1 < i
      BY <2>1 DEF OrderedRows
    <3>2. QED
      BY <2>1, <3>1 DEF OrderedRows
  <2>7. Cardinality({row.doc : row \in ToSet(rows)}) = Len(rows)
    <3>1. {row.doc : row \in ToSet(rows)} = {rows[i].doc : i \in 1..Len(rows)}
      BY <2>5
    <3>2. QED
      BY <2>1, <3>1, DocumentsAreAsManyAsRows
  <2>8. DecodesRows(rows, role.signal, limit)
    BY <2>1, <2>6, <2>7 DEF DecodesRows, OrderedRows
  <2>9. \A row \in ToSet(rows) : row.doc = Target => s.available /\ row.score = Direct(s, role.signal)
    <3> SUFFICES ASSUME NEW i \in 1..Len(rows), rows[i].doc = Target
                 PROVE  s.available /\ rows[i].score = Direct(s, role.signal)
      BY <2>5
    <3>1. RankOf(rows, Target) # None /\ i = RankOf(rows, Target)
      BY <2>1, RankIsTheIndex
    <3>2. QED
      BY <2>4, <3>1
  <2>10. QED
    BY <2>8, <2>9 DEF AgreesWithLookup, rows, limit
<1>3. QED
  BY <1>1, <1>2 DEF Decoded, FitsRequest

-----------------------------------------------------------------------------
(* One candidate list of an honest answer.                                 *)

LEMMA NoneIsNothingElse ==
  /\ None \notin Nat /\ None \notin Truths
  /\ None # "true" /\ None # "false" /\ None # "unknown"
BY AnalysisAssumption DEF Truths

LEMMA RootIsDecided ==
  ASSUME NEW s, SoundSnapshot(s)
  PROVE  /\ Root(s) \in Truths \union {None} /\ (Root(s) = None <=> s.filter = None)
         /\ s.filter # None => Filtered(s) /\ Results(s) \in [Predicates(s.filter) -> Truths]
<1>1. ASSUME s.filter # None
      PROVE  /\ Filtered(s) /\ Results(s) \in [Predicates(s.filter) -> Truths]
             /\ Root(s) \in Truths
  <2>1. IsFilter(s.filter) /\ ValidDefinition(s.filter, s.schema)
    BY <1>1 DEF SoundSnapshot, IsSnapshot, Honest, ValidSnapshot
  <2>2. IsTree(s.filter)
    BY <2>1, DefinitionIsATree
  <2>3. Results(s) \in [Predicates(s.filter) -> Truths]
    BY <2>1, ResultsAreTruths
  <2>4. Values(s.filter, Results(s)) \in [DOMAIN s.filter -> Truths]
    BY <2>2, <2>3, ValuesAreValued DEF Valued
  <2>5. 1 \in DOMAIN s.filter
    BY <2>1 DEF IsFilter
  <2>6. QED
    BY <1>1, <2>2, <2>3, <2>4, <2>5 DEF Root, Filtered
<1>2. s.filter = None => Root(s) = None
  BY DEF Root
<1>3. QED
  BY <1>1, <1>2, NoneIsNothingElse

LEMMA DirectScores ==
  ASSUME NEW s, SoundSnapshot(s), s.available, NEW signal \in Signals(s.mode)
  PROVE  Direct(s, signal) \in Nat /\ Direct(s, signal) # None
<1>1. /\ s.bm25 # None <=> "bm25" \in Signals(s.mode)
      /\ s.distance # None <=> "ann" \in Signals(s.mode)
      /\ s.bm25 \in Nat \union {None} /\ s.distance \in Nat \union {None}
  BY DEF SoundSnapshot, Honest, DecodesTarget, IsSnapshot
<1>2. signal \in {"bm25", "ann"}
  BY DEF Signals
<1>3. QED
  BY <1>1, <1>2 DEF Direct

\* The summary of a list: what it says fits together.
IsSummary(c, role, limit) ==
  /\ c.role = role /\ c.limit = limit /\ limit \in Nat \ {0}
  /\ c.returned \in Nat /\ c.returned <= limit
  /\ IF c.present THEN /\ c.rank \in 1..c.returned /\ c.score \in Nat
                       /\ role.signal = "bm25" => c.score > 0
                  ELSE c.rank = None /\ c.score = None
  /\ IF c.returned = limit THEN c.boundary \in Nat /\ (role.signal = "bm25" => c.boundary > 0)
                           ELSE c.boundary = None
  /\ c.present /\ c.boundary # None => ~Better(role.signal, c.boundary, c.score)

LEMMA SummariesFit ==
  ASSUME NEW s, SoundSnapshot(s), NEW role \in Roles(s.mode, s.noFilter)
  PROVE  IsSummary(Summary(s, role), role, Limit(s.mode))
<1> DEFINE rows == s.lists[role]
           n == Len(rows)
           limit == Limit(s.mode)
           rank == RankOf(rows, Target)
           c == Summary(s, role)
<1>1. OrderedRows(rows, role.signal, limit)
  BY RowsAreOrdered
<1>2. /\ c.role = role /\ c.limit = limit /\ c.returned = n
      /\ c.present <=> rank # None
      /\ c.rank = rank
      /\ c.score = IF rank = None THEN None ELSE rows[rank].score
      /\ c.boundary = IF n = limit THEN rows[limit].score ELSE None
  BY DEF Summary, Boundary
<1>3. rank = None \/ (rank \in 1..n /\ rank # None)
  BY <1>1, RankIsTheIndex
<1> HIDE DEF rows, n, limit, rank, c
<1>4. n \in Nat /\ limit \in Nat \ {0} /\ n <= limit
  BY <1>1 DEF OrderedRows, n
<1>5. \A i \in 1..n : rows[i].score \in Nat /\ (role.signal = "bm25" => rows[i].score > 0)
  BY <1>1 DEF OrderedRows, n
<1>6. IF c.present THEN /\ c.rank \in 1..c.returned /\ c.score \in Nat
                        /\ role.signal = "bm25" => c.score > 0
                   ELSE c.rank = None /\ c.score = None
  BY <1>2, <1>3, <1>5
<1>7. IF c.returned = limit THEN c.boundary \in Nat /\ (role.signal = "bm25" => c.boundary > 0)
                            ELSE c.boundary = None
  <2>1. n = limit => limit \in 1..n
    BY <1>4
  <2>2. QED
    BY <1>2, <1>5, <2>1
<1>8. ASSUME c.present, c.boundary # None PROVE ~Better(role.signal, c.boundary, c.score)
  <2>1. n = limit /\ rank \in 1..n /\ limit \in 1..n /\ rank # None
    BY <1>2, <1>3, <1>4, <1>8
  <2>2. c.boundary = rows[limit].score /\ c.score = rows[rank].score
    BY <1>2, <2>1
  <2>3. rank < limit \/ rank = limit
    BY <1>4, <2>1
  <2>4. rank < limit => ~Better(role.signal, rows[limit].score, rows[rank].score)
    BY <1>1, <2>1 DEF OrderedRows, n
  <2>5. ~Better(role.signal, rows[limit].score, rows[limit].score)
    BY <1>5, <2>1 DEF Better
  <2>6. QED
    BY <2>2, <2>3, <2>4, <2>5
<1>9. QED
  BY <1>2, <1>4, <1>6, <1>7, <1>8 DEF IsSummary, c, limit

\* A list of an honest answer agrees with the direct score and with the filter.
IsCandidate(c, role, direct, root) ==
  /\ direct \in Nat /\ root \in Truths \union {None}
  /\ c.present => c.score = direct /\ (role.scope = "stored" => root # "false")
  /\ ~c.present /\ role.signal = "bm25"
       /\ ~(role.scope = "stored" /\ root \in {"false", "unknown"}) =>
         ~(c.boundary # None /\ direct > c.boundary)

LEMMA HonestListsAgree ==
  ASSUME NEW s, SoundSnapshot(s), s.available, NEW role \in Roles(s.mode, s.noFilter)
  PROVE  IsCandidate(Summary(s, role), role, Direct(s, role.signal), Root(s))
<1> DEFINE rows == s.lists[role]
           n == Len(rows)
           limit == Limit(s.mode)
           rank == RankOf(rows, Target)
           c == Summary(s, role)
           direct == Direct(s, role.signal)
           root == Root(s)
<1>1. /\ c.returned = n /\ (c.present <=> rank # None)
      /\ c.score = IF rank = None THEN None ELSE rows[rank].score
      /\ c.boundary = IF n = limit THEN rows[limit].score ELSE None
  BY DEF Summary, Boundary
<1>2. /\ rank # None => MayHold(s, role) /\ rows[rank].score = direct
      /\ role.signal = "bm25" /\ rank = None /\ MustHold(s, role) /\ direct > 0 =>
           n = limit /\ rows[limit].score >= direct
  <2>1. HonestList(s, role)
    BY RowsAreOrdered DEF SoundSnapshot, Honest
  <2>2. QED
    BY <2>1 DEF HonestList
<1>3. direct \in Nat
  BY RolesAreRecords, DirectScores
<1>4. root \in Truths \union {None}
  BY RootIsDecided
<1>5. role.scope \in {"stored", "no_filter"}
  BY RolesAreRecords
<1>6. IsSummary(c, role, limit)
  BY SummariesFit
<1>7. MayHold(s, role) /\ role.scope = "stored" => root # "false"
  BY DEF MayHold
<1>8. ~(role.scope = "stored" /\ root \in {"false", "unknown"}) => MustHold(s, role)
  BY <1>4, <1>5 DEF MustHold, Truths
<1> HIDE DEF rows, n, limit, rank, c, direct, root
<1>9. ASSUME ~c.present, role.signal = "bm25",
             ~(role.scope = "stored" /\ root \in {"false", "unknown"}), c.boundary # None
      PROVE  ~(direct > c.boundary)
  <2>1. c.boundary \in Nat /\ c.returned = limit
    BY <1>6, <1>9 DEF IsSummary
  <2>2. CASE direct > 0
    BY <1>1, <1>2, <1>3, <1>8, <1>9, <2>1, <2>2
  <2>3. CASE ~(direct > 0)
    BY <1>3, <2>1, <2>3
  <2>4. QED
    BY <2>2, <2>3
<1>10. QED
  BY <1>1, <1>2, <1>3, <1>4, <1>7, <1>9 DEF IsCandidate, c, direct, root

LEMMA HonestAnswersAreNotRefused ==
  ASSUME NEW s, SoundSnapshot(s)
  PROVE  ~Refuses(s)
<1>1. ValidSnapshot(s)
  BY DEF SoundSnapshot, Honest
<1>2. ASSUME s.available, NEW role \in Roles(s.mode, s.noFilter)
      PROVE  ~CandidateContradicts(s, role, Root(s))
  <2> DEFINE c == Summary(s, role)
             direct == Direct(s, role.signal)
  <2>1. IsCandidate(c, role, direct, Root(s))
    BY <1>2, HonestListsAgree
  <2> HIDE DEF c, direct
  <2>2. /\ ~(c.present /\ c.score # direct)
        /\ ~(c.present /\ role.scope = "stored" /\ Root(s) = "false")
    BY <2>1 DEF IsCandidate
  <2>3. role.signal = "bm25" /\ ~c.present /\ ~Ineligible(role, Root(s), c.present) =>
          ~BeatsBoundary("bm25", direct, c.boundary)
    BY <2>1 DEF IsCandidate, Ineligible, BeatsBoundary, Better
  <2>4. QED
    BY <2>2, <2>3 DEF CandidateContradicts, c, direct
<1>3. ASSUME s.available, Hybrid(s.mode), NEW scope \in Scopes(s.noFilter)
      PROVE  ~FusionContradicts(s, scope, Root(s))
  <2> SUFFICES ASSUME scope = "stored", Root(s) = "false", Target \in FusedDocuments(s, scope)
               PROVE  FALSE
    BY DEF FusionContradicts
  <2>1. PICK role \in [scope : {scope}, signal : {"bm25", "ann"}] :
          \E i \in DOMAIN s.lists[role] : Target = s.lists[role][i].doc
    BY DEF FusedDocuments
  <2>2. Signals(s.mode) = {"bm25", "ann"}
    BY <1>3 DEF Hybrid, Signals
  <2>3. role \in Roles(s.mode, s.noFilter) /\ role.scope = "stored"
    BY <2>2 DEF Roles
  <2>4. PICK i \in DOMAIN s.lists[role] : Target = s.lists[role][i].doc
    BY <2>1
  <2>5. OrderedRows(s.lists[role], role.signal, Limit(s.mode))
    BY <2>3, RowsAreOrdered
  <2>6. RankOf(s.lists[role], Target) # None
    <3>1. i \in 1..Len(s.lists[role])
      BY <2>5 DEF OrderedRows
    <3>2. QED
      BY <2>4, <2>5, <3>1, RankIsTheIndex
  <2>7. Summary(s, role).present
    BY <2>6 DEF Summary
  <2>8. IsCandidate(Summary(s, role), role, Direct(s, role.signal), Root(s))
    BY <1>3, <2>3, HonestListsAgree
  <2>9. QED
    BY <2>3, <2>7, <2>8 DEF IsCandidate
<1>4. QED
  BY <1>1, <1>2, <1>3 DEF Refuses

\* The fields of the evidence about a list.
LEMMA EvidenceOfARole ==
  ASSUME NEW s, NEW role, NEW root
  PROVE  LET e == CandidateEvidence(s, role, root)
             c == Summary(s, role)
             direct == Direct(s, role.signal)
         IN  /\ e.role = role /\ e.summary = c /\ e.direct = direct
             /\ e.filterResult = FilterResult(role.scope, root)
             /\ e.relation = IF Ineligible(role, root, c.present)
                                /\ BeatsBoundary(role.signal, direct, c.boundary)
                             THEN "not_observable"
                             ELSE Relation(role.signal, direct, c.present, c.boundary)
             /\ e.certainty = Certainty(role.scope, e.relation)
BY DEF CandidateEvidence

\* The relations that an honest list can have to the target.
CandidateRelation(role, relation) ==
  /\ relation \in {"target_present", "no_lexical_score", "not_observable",
                   "ann_candidate_miss", "outside_candidates"}
  /\ relation = "no_lexical_score" => role.signal = "bm25"
  /\ relation = "ann_candidate_miss" => role.signal = "ann"

\* The analysis and the contract derive the same relation.
LEMMA CandidateEvidenceIsValid ==
  ASSUME NEW s, SoundSnapshot(s), s.available, NEW role \in Roles(s.mode, s.noFilter)
  PROVE  LET e == CandidateEvidence(s, role, Root(s))
         IN  Contract!ValidCandidateEvidence(e) /\ CandidateRelation(role, e.relation)
<1> DEFINE root == Root(s)
           e == CandidateEvidence(s, role, root)
           c == Summary(s, role)
           direct == Direct(s, role.signal)
<1>1. /\ e.role = role /\ e.summary = c /\ e.direct = direct
      /\ e.filterResult = FilterResult(role.scope, root)
      /\ e.relation = IF Ineligible(role, root, c.present)
                         /\ BeatsBoundary(role.signal, direct, c.boundary)
                      THEN "not_observable"
                      ELSE Relation(role.signal, direct, c.present, c.boundary)
      /\ e.certainty = Certainty(role.scope, e.relation)
  BY EvidenceOfARole
<1>2. IsSummary(c, role, Limit(s.mode)) /\ IsCandidate(c, role, direct, root)
  BY SummariesFit, HonestListsAgree
<1>3. role.scope \in {"stored", "no_filter"} /\ role.signal \in {"bm25", "ann"}
  BY RolesAreRecords
<1> HIDE DEF root, e, c, direct
<1>4. /\ direct \in Nat /\ direct # None
      /\ c.boundary # None => c.boundary \in Nat /\ (role.signal = "bm25" => c.boundary > 0)
  BY <1>2, NoneIsNothingElse DEF IsSummary, IsCandidate
<1>5. e.filterResult = IF role.scope = "stored" THEN root ELSE None
  BY <1>1, <1>3 DEF FilterResult
<1>6. /\ c.present => /\ c.score = direct /\ e.filterResult # "false"
                      /\ role.signal = "bm25" => direct > 0
      /\ c.present /\ c.boundary # None => ~Better(role.signal, c.boundary, direct)
  <2>1. c.present => c.score = direct
    BY <1>2 DEF IsCandidate
  <2>2. c.present => e.filterResult # "false"
    <3>1. c.present /\ role.scope = "stored" => root # "false"
      BY <1>2 DEF IsCandidate
    <3>2. QED
      BY <1>5, <3>1, NoneIsNothingElse
  <2>3. c.present /\ role.signal = "bm25" => c.score > 0
    BY <1>2 DEF IsSummary
  <2>4. c.present /\ c.boundary # None => ~Better(role.signal, c.boundary, c.score)
    BY <1>2 DEF IsSummary
  <2>5. QED
    BY <2>1, <2>2, <2>3, <2>4
<1>7. ~c.present /\ role.signal = "bm25" /\ ~Contract!AccountedFor(e) =>
        ~(c.boundary # None /\ direct > c.boundary)
  BY <1>1, <1>2, <1>5 DEF IsCandidate, Contract!AccountedFor
<1>8. Contract!AccountedFor(e) <=> role.scope = "stored" /\ root \in {"false", "unknown"}
  BY <1>1, <1>5 DEF Contract!AccountedFor
<1>9. Contract!ValidSummary(c)
  <2>1. c.present => c.rank # None /\ c.score # None /\ c.rank <= c.returned
    BY <1>2, NoneIsNothingElse DEF IsSummary
  <2>2. QED
    BY <1>2, <2>1, NoneIsNothingElse DEF IsSummary, Contract!ValidSummary
<1>10. ~Contract!Underivable(e)
  BY <1>1, <1>7 DEF Contract!Underivable
<1>11. e.relation = Contract!DerivedRelation(e) /\ CandidateRelation(role, e.relation)
  <2> DEFINE beats == IF role.signal = "bm25" THEN direct > c.boundary ELSE direct < c.boundary
  <2>1. c.boundary # None =>
          /\ BeatsBoundary(role.signal, direct, c.boundary) <=> beats
          /\ Contract!Above(role.signal, direct, c.boundary) <=> beats
    BY DEF BeatsBoundary, Better, Contract!Above
  <2>2. c.boundary = None => ~BeatsBoundary(role.signal, direct, c.boundary)
    BY DEF BeatsBoundary
  <2>3. c.boundary # None /\ ~c.present /\ role.signal = "bm25" /\ ~Contract!AccountedFor(e) => ~beats
    BY <1>7
  <2>4. Ineligible(role, root, c.present) <=> Contract!AccountedFor(e) /\ ~c.present
    BY <1>8 DEF Ineligible
  <2> HIDE DEF beats
  <2>5. CASE c.present
    <3>1. e.relation = "target_present" /\ Contract!DerivedRelation(e) = "target_present"
      BY <1>1, <2>4, <2>5 DEF Relation, Contract!DerivedRelation
    <3>2. QED
      BY <3>1 DEF CandidateRelation
  <2>6. CASE ~c.present /\ role.signal = "bm25" /\ direct = 0
    <3>1. ~BeatsBoundary(role.signal, direct, c.boundary)
      BY <1>4, <2>6 DEF BeatsBoundary, Better
    <3>2. e.relation = "no_lexical_score" /\ Contract!DerivedRelation(e) = "no_lexical_score"
      BY <1>1, <2>6, <3>1 DEF Relation, Contract!DerivedRelation
    <3>3. QED
      BY <2>6, <3>2 DEF CandidateRelation
  <2>7. CASE ~c.present /\ ~(role.signal = "bm25" /\ direct = 0) /\ c.boundary \in {None, direct}
    <3>1. ~BeatsBoundary(role.signal, direct, c.boundary)
      BY <1>4, <2>7 DEF BeatsBoundary, Better
    <3>2. e.relation = "not_observable" /\ Contract!DerivedRelation(e) = "not_observable"
      BY <1>1, <2>7, <3>1 DEF Relation, Contract!DerivedRelation
    <3>3. QED
      BY <3>2 DEF CandidateRelation
  <2>8. CASE ~c.present /\ ~(role.signal = "bm25" /\ direct = 0) /\ c.boundary \notin {None, direct}
    <3>1. CASE ~beats
      <4>1. e.relation = "outside_candidates" /\ Contract!DerivedRelation(e) = "outside_candidates"
        BY <1>1, <2>1, <2>8, <3>1 DEF Relation, Contract!DerivedRelation
      <4>2. QED
        BY <4>1 DEF CandidateRelation
    <3>2. CASE beats /\ Contract!AccountedFor(e)
      <4>1. e.relation = "not_observable" /\ Contract!DerivedRelation(e) = "not_observable"
        BY <1>1, <2>1, <2>4, <2>8, <3>2 DEF Contract!DerivedRelation
      <4>2. QED
        BY <4>1 DEF CandidateRelation
    <3>3. CASE beats /\ ~Contract!AccountedFor(e)
      <4>1. role.signal = "ann"
        BY <1>3, <2>3, <2>8, <3>3
      <4>2. e.relation = "ann_candidate_miss" /\ Contract!DerivedRelation(e) = "ann_candidate_miss"
        BY <1>1, <2>1, <2>4, <2>8, <3>3 DEF Relation, Contract!DerivedRelation
      <4>3. QED
        BY <4>1, <4>2 DEF CandidateRelation
    <3>4. QED
      BY <3>1, <3>2, <3>3
  <2>9. QED
    BY <2>5, <2>6, <2>7, <2>8
<1>12. e.certainty = Contract!DerivedCertainty(e.role.scope, e.relation)
  BY <1>1 DEF Certainty, Contract!DerivedCertainty
<1>13. /\ c.present => ~(e.role.signal = "bm25" /\ e.direct = 0)
       /\ c.present /\ c.boundary # None => ~Contract!Above(e.role.signal, c.boundary, c.score)
  BY <1>1, <1>4, <1>6 DEF Better, Contract!Above
<1>14. Contract!ValidCandidateEvidence(e)
  BY <1>1, <1>3, <1>5, <1>6, <1>9, <1>10, <1>11, <1>12, <1>13 DEF Contract!ValidCandidateEvidence
<1>15. QED
  BY <1>11, <1>14 DEF e, root

-----------------------------------------------------------------------------
(* One fusion of an honest answer.                                         *)

\* A place that is held adds to the sum, because the scale has every divisor.
LEMMA SharesArePositive ==
  ASSUME NEW weight \in Nat \ {0}, NEW rank \in 1..CandidateK
  PROVE  Share(weight, rank) \in Nat \ {0}
<1> DEFINE m == RankConstant + rank
           q == ShareScale \div m
<1>1. /\ m \in Nat \ {0} /\ ShareScale \in Nat \ {0} /\ ShareScale % m = 0 /\ rank # None
  <2>1. rank \in Nat /\ RankConstant \in Nat \ {0}
    BY AnalysisAssumption
  <2>2. ShareScale \in Nat \ {0} /\ ShareScale % (RankConstant + rank) = 0
    BY AnalysisAssumption
  <2>3. QED
    BY <2>1, <2>2, NoneIsNothingElse
<1> HIDE DEF m
<1>2. q \in Nat \ {0}
  BY <1>1
<1> HIDE DEF q
<1>3. weight * q \in Nat \ {0}
  BY <1>2
<1>4. Share(weight, rank) = weight * q
  BY <1>1 DEF Share, q, m
<1>5. QED
  BY <1>3, <1>4

\* A document has a place, and a sum, exactly when a list holds it.
HasPlace(ranks) == ranks["bm25"] # None \/ ranks["ann"] # None

LEMMA PlacesOfADocument ==
  ASSUME NEW s, NEW scope, FusedLists(s, scope), NEW doc
  PROVE  /\ doc \in FusedDocuments(s, scope) <=> HasPlace(Ranks(s, scope, doc))
         /\ FusedScore(Ranks(s, scope, doc)) \in Nat
         /\ FusedScore(Ranks(s, scope, doc)) = 0 <=> doc \notin FusedDocuments(s, scope)
<1> DEFINE ranks == Ranks(s, scope, doc)
           one == ranks["bm25"]
           other == ranks["ann"]
<1>1. one \in 1..CandidateK \union {None} /\ other \in 1..CandidateK \union {None}
  BY SameFusion
<1>2. doc \in FusedDocuments(s, scope) <=> HasPlace(ranks)
  <2>1. FusedDocuments(s, scope)
          = {ListOf(s, scope, "bm25")[i].doc : i \in DOMAIN ListOf(s, scope, "bm25")}
            \union {ListOf(s, scope, "ann")[i].doc : i \in DOMAIN ListOf(s, scope, "ann")}
    BY RolesOfScope DEF FusedDocuments, ListOf
  <2>2. ASSUME NEW x \in {"bm25", "ann"}
        PROVE  ranks[x] # None <=> \E i \in DOMAIN ListOf(s, scope, x) : ListOf(s, scope, x)[i].doc = doc
    <3> DEFINE rows == ListOf(s, scope, x)
    <3>1. ranks[x] = RankOf(rows, doc)
      BY DEF Ranks, ListOf
    <3>2. DOMAIN rows = 1..Len(rows) /\ Len(rows) \in Nat
      BY DEF FusedLists
    <3> HIDE DEF rows, ranks
    <3>3. None \notin DOMAIN rows
      BY <3>2, NoneIsNothingElse
    <3>4. QED
      BY <3>1, <3>3 DEF RankOf, rows
  <2>3. QED
    BY <2>1, <2>2 DEF HasPlace
<1> HIDE DEF ranks
<1>3. FusedScore(ranks) = Share(Bm25Weight, one) + Share(AnnWeight, other)
  BY DEF FusedScore
<1> HIDE DEF one, other
<1>4. Bm25Weight \in Nat \ {0} /\ AnnWeight \in Nat \ {0}
  BY AnalysisAssumption
<1>5. /\ Share(Bm25Weight, one) \in Nat /\ (Share(Bm25Weight, one) = 0 <=> one = None)
      /\ Share(AnnWeight, other) \in Nat /\ (Share(AnnWeight, other) = 0 <=> other = None)
  <2>1. \A weight : Share(weight, None) = 0
    BY DEF Share
  <2>2. \A weight \in Nat \ {0} : \A rank \in 1..CandidateK : Share(weight, rank) \in Nat \ {0} /\ rank # None
    BY SharesArePositive, AnalysisAssumption
  <2>3. QED
    BY <1>1, <1>4, <2>1, <2>2
<1>6. FusedScore(ranks) \in Nat /\ (FusedScore(ranks) = 0 <=> one = None /\ other = None)
  BY <1>3, <1>5
<1>7. HasPlace(ranks) <=> ~(one = None /\ other = None)
  BY DEF HasPlace, one, other
<1>8. QED
  BY <1>2, <1>6, <1>7 DEF ranks

\* There is an order by falling scores.
LEMMA OrdersExist ==
  ASSUME NEW S, IsFiniteSet(S), NEW score \in [S -> Int]
  PROVE  \E o : o \in OrdersBy(S, score)
<1>1. CASE S = {}
  <2>1. \A d, e \in S : score[d] = score[e] => d = e
    BY <1>1
  <2>2. QED
    BY <2>1, RankingIsAnOrder
<1>2. CASE S # {}
  BY <1>2, EitherEndIsPossible
<1>3. QED
  BY <1>1, <1>2

\* In every order the score at the cutoff stands at the same place.
LEMMA ScoreAtThePlace ==
  ASSUME NEW S, IsFiniteSet(S), NEW score \in [S -> Int], NEW o \in OrdersBy(S, score),
         NEW k \in 1..Cardinality(S)
  PROVE  ScoreAt(S, score, k) = score[o[k]]
<1>1. Cardinality(S) \in Nat
  BY FS_CardinalityType
<1>2. DOMAIN o = 1..Cardinality(S) /\ \A i \in DOMAIN o : o[i] \in S
  <2>1. o \in SetToSeqs(S)
    BY DEF OrdersBy
  <2>2. QED
    BY <2>1, OrdersArePermutations
<1> DEFINE t == o[k]
<1>3. t \in S /\ k \in DOMAIN o /\ k \in Nat
  BY <1>1, <1>2
<1> HIDE DEF t
<1>4. /\ Cardinality(Above(S, score, t)) + 1 <= k
      /\ k <= Cardinality(Above(S, score, t)) + Cardinality(Level(S, score, t))
  BY <1>3, PlaceInOrder DEF t
<1>5. Cardinality(Above(S, score, t)) \in Nat /\ Cardinality(Level(S, score, t)) \in Nat
  BY <1>3, AboveAndLevel
<1>6. ScoreAt(S, score, k) = score[t]
  BY <1>3, <1>4, <1>5, BoundaryIsTheOnlyOne
<1>7. QED
  BY <1>6 DEF t

\* The boundary of a fusion lies between a member and those outside.
BoundaryFits(totals, score) ==
  LET n == Cardinality(DOMAIN totals)
      boundary == FusionBoundary(totals)
  IN  /\ n < ResultK => boundary = None
      /\ n >= ResultK =>
           /\ boundary \in Nat \ {0}
           /\ MembershipCertain(totals) => score >= boundary
           /\ ~MembershipCertain(totals) => score <= boundary

LEMMA BoundaryOfAnyOrder ==
  ASSUME NEW s, NEW scope, FusedLists(s, scope),
         Cardinality(FusedDocuments(s, scope)) >= ResultK,
         NEW o \in OrdersBy(FusedDocuments(s, scope), Totals(s, scope))
  PROVE  /\ FusionBoundary(Totals(s, scope)) = Totals(s, scope)[o[ResultK]]
         /\ o[ResultK] \in FusedDocuments(s, scope)
<1> DEFINE S == FusedDocuments(s, scope)
           totals == Totals(s, scope)
           n == Cardinality(S)
<1>1. IsFiniteSet(S) /\ totals \in [S -> Int] /\ DOMAIN totals = S
  BY TotalsAreIntegers
<1>2. n \in Nat /\ n >= ResultK /\ ResultK \in 1..n
  BY <1>1, FS_CardinalityType, AnalysisAssumption
<1>3. o \in OrdersBy(S, totals)
  OBVIOUS
<1> HIDE DEF S, totals
<1>4. FusionBoundary(totals) = ScoreAt(S, totals, ResultK)
  <2>1. ~(n < ResultK)
    BY <1>2, AnalysisAssumption
  <2>2. QED
    BY <1>1, <2>1 DEF FusionBoundary, ScoreAt
<1>5. ScoreAt(S, totals, ResultK) = totals[o[ResultK]]
  BY <1>1, <1>2, <1>3, ScoreAtThePlace
<1>6. o[ResultK] \in S
  <2>1. o \in SetToSeqs(S)
    BY <1>3 DEF OrdersBy
  <2>2. QED
    BY <1>1, <1>2, <2>1, OrdersArePermutations
<1>7. QED
  BY <1>4, <1>5, <1>6 DEF S, totals

LEMMA BoundaryIsBetween ==
  ASSUME NEW s, NEW scope, FusedLists(s, scope)
  PROVE  BoundaryFits(Totals(s, scope), FusedScore(Ranks(s, scope, Target)))
<1> DEFINE S == FusedDocuments(s, scope)
           totals == Totals(s, scope)
           n == Cardinality(S)
           boundary == FusionBoundary(totals)
           score == FusedScore(Ranks(s, scope, Target))
           present == MembershipCertain(totals)
           h == Higher(totals)
           t == Tied(totals)
<1>1. IsFiniteSet(S) /\ totals \in [S -> Int] /\ DOMAIN totals = S
  BY TotalsAreIntegers
<1>2. n \in Nat /\ ResultK \in Nat \ {0}
  BY <1>1, FS_CardinalityType, AnalysisAssumption
<1>3. n < ResultK => boundary = None
  BY <1>1 DEF FusionBoundary
<1>4. \A d \in S : totals[d] \in Nat \ {0}
  BY PlacesOfADocument DEF Totals
<1>5. score \in Nat /\ (Target \in S => score = totals[Target]) /\ (Target \notin S => score = 0)
  BY PlacesOfADocument DEF Totals
<1>6. ASSUME n >= ResultK, NEW o \in OrdersBy(S, totals)
      PROVE  boundary = totals[o[ResultK]] /\ o[ResultK] \in S
  BY <1>6, BoundaryOfAnyOrder
<1>7. \E o : o \in OrdersBy(S, totals)
  BY <1>1, OrdersExist
<1>8. present <=> Target \in S /\ (n <= ResultK \/ h + t <= ResultK)
  BY <1>1 DEF MembershipCertain
<1>9. /\ h = Cardinality(Above(S, totals, Target)) /\ t = Cardinality(Level(S, totals, Target))
  BY <1>1 DEF Higher, Tied, Above, Level
<1> HIDE DEF S, totals, n, boundary, score, present, h, t
<1>10. ASSUME n >= ResultK PROVE boundary \in Nat \ {0}
  BY <1>4, <1>6, <1>7, <1>10
<1>11. ASSUME n >= ResultK, Target \in S, NEW o \in OrdersBy(S, totals), NEW p \in DOMAIN o, o[p] = Target
       PROVE  /\ DOMAIN o = 1..n /\ p \in 1..n /\ ResultK \in DOMAIN o /\ p <= h + t
              /\ p <= ResultK => score >= boundary
              /\ p >= ResultK => score <= boundary
  <2>1. o \in SetToSeqs(S) /\ \A i, j \in DOMAIN o : i < j => totals[o[i]] >= totals[o[j]]
    BY <1>11 DEF OrdersBy
  <2>2. DOMAIN o = 1..n
    BY <1>1, <2>1, OrdersArePermutations DEF n
  <2>3. p \in 1..n /\ ResultK \in 1..n
    BY <1>2, <1>11, <2>2
  <2>4. boundary = totals[o[ResultK]] /\ boundary \in Nat /\ score = totals[o[p]] /\ score \in Nat
    BY <1>5, <1>6, <1>10, <1>11
  <2>5. p <= h + t
    BY <1>1, <1>9, <1>11, PlaceInOrder
  <2>6. p < ResultK => score >= boundary
    BY <2>1, <2>2, <2>3, <2>4
  <2>7. p > ResultK => score <= boundary
    BY <1>2, <2>1, <2>2, <2>3, <2>4
  <2>8. p = ResultK => score = boundary
    BY <2>4
  <2>9. QED
    BY <1>2, <2>2, <2>3, <2>4, <2>5, <2>6, <2>7, <2>8
<1>12. ASSUME n >= ResultK, present PROVE score >= boundary
  <2>1. Target \in S /\ (n <= ResultK \/ h + t <= ResultK)
    BY <1>8, <1>12
  <2>2. PICK o \in OrdersBy(S, totals) : h + 1 \in DOMAIN o /\ o[h + 1] = Target
    BY <1>1, <1>9, <2>1, EitherEndIsPossible
  <2>3. /\ h + 1 \in 1..n /\ h + 1 <= h + t
        /\ h + 1 <= ResultK => score >= boundary
    BY <1>11, <1>12, <2>1, <2>2
  <2>4. h \in Nat /\ t \in Nat
    BY <1>1, <1>9, <2>1, AboveAndLevel
  <2>5. h + 1 <= ResultK
    BY <1>2, <2>1, <2>3, <2>4
  <2>6. QED
    BY <2>3, <2>5
<1>13. ASSUME n >= ResultK, ~present PROVE score <= boundary
  <2>1. CASE Target \notin S
    BY <1>5, <1>10, <1>13, <2>1
  <2>2. CASE Target \in S
    <3>1. PICK o \in OrdersBy(S, totals) : h + t \in DOMAIN o /\ o[h + t] = Target
      BY <1>1, <1>9, <2>2, EitherEndIsPossible
    <3>2. h \in Nat /\ t \in Nat
      BY <1>1, <1>9, <2>2, AboveAndLevel
    <3>3. h + t >= ResultK
      BY <1>2, <1>8, <1>13, <2>2, <3>2
    <3>4. QED
      BY <1>11, <1>13, <2>2, <3>1, <3>3
  <2>3. QED
    BY <2>1, <2>2
<1>14. QED
  <2>1. n = Cardinality(DOMAIN totals)
    BY <1>1 DEF n
  <2>2. QED
    BY <1>3, <1>10, <1>12, <1>13, <2>1 DEF BoundaryFits, boundary, present, score, totals

\* The lists of a scope that are fused.
LEMMA HybridHasFusedLists ==
  ASSUME NEW s, SoundSnapshot(s), Hybrid(s.mode), NEW scope \in Scopes(s.noFilter)
  PROVE  /\ FusedLists(s, scope) /\ scope \in {"stored", "no_filter"}
         /\ \A x \in {"bm25", "ann"} : [scope |-> scope, signal |-> x] \in Roles(s.mode, s.noFilter)
<1>1. ValidSnapshot(s) /\ \A role \in DOMAIN s.lists : s.lists[role] \in Seq(ToSet(s.lists[role]))
  BY DEF SoundSnapshot, Honest, IsSnapshot
<1>2. FusedLists(s, scope)
  BY <1>1, SnapshotHasFusedLists
<1>3. Signals(s.mode) = {"bm25", "ann"}
  BY DEF Hybrid, Signals
<1>4. QED
  BY <1>2, <1>3 DEF Roles, Scopes

\* The fields of the evidence about a fusion.
LEMMA EvidenceOfAFusion ==
  ASSUME NEW s, NEW scope, NEW root
  PROVE  LET e == QualifiedRrf(s, scope, root)
             totals == Totals(s, scope)
             n == Cardinality(DOMAIN totals)
             ranks == Ranks(s, scope, Target)
         IN  /\ e.scope = scope /\ e.filterResult = FilterResult(scope, root)
             /\ e.ranks = ranks /\ e.score = FusedScore(ranks)
             /\ e.returned = IF n < ResultK THEN n ELSE ResultK
             /\ e.present = MembershipCertain(totals)
             /\ e.rank = IF e.present THEN Higher(totals) + 1 ELSE None
             /\ e.boundary = FusionBoundary(totals)
             /\ e.relation = CASE e.present -> "target_present"
                               [] ~e.present /\ e.boundary \in {None, e.score} -> "not_observable"
                               [] OTHER -> "outside_candidates"
             /\ e.certainty = Certainty(scope, e.relation)
BY DEF QualifiedRrf

\* A place in the results of a fusion.
LEMMA RankOfAMember ==
  ASSUME NEW s, NEW scope, FusedLists(s, scope), MembershipCertain(Totals(s, scope))
  PROVE  LET totals == Totals(s, scope)
             n == Cardinality(DOMAIN totals)
         IN  /\ Higher(totals) + 1 \in Nat
             /\ Higher(totals) + 1 <= n /\ Higher(totals) + 1 <= ResultK
<1> DEFINE S == FusedDocuments(s, scope)
           totals == Totals(s, scope)
           n == Cardinality(DOMAIN totals)
           h == Higher(totals)
           t == Tied(totals)
           ranks == PossibleRanks(s, scope)
<1>1. DOMAIN totals = S
  BY DEF Totals
<1>2. Target \in S /\ (n <= ResultK \/ h + t <= ResultK)
  BY <1>1 DEF MembershipCertain
<1>3. /\ h \in Nat /\ t \in Nat /\ n \in Nat /\ h + 1 \in ranks
      /\ \A p \in ranks : p \in 1..n /\ h + 1 <= p /\ p <= h + t
  BY <1>2, RanksOfTheTarget
<1> HIDE DEF totals, n, h, t, ranks
<1>4. h + 1 \in 1..n /\ h + 1 <= h + t /\ ResultK \in Nat
  BY <1>3, AnalysisAssumption
<1>5. h + 1 <= ResultK
  BY <1>2, <1>3, <1>4
<1>6. QED
  BY <1>3, <1>4, <1>5 DEF totals, n, h

\* A filter that excludes the target keeps it out of the fusion.
LEMMA ExcludedIsNotFused ==
  ASSUME NEW s, SoundSnapshot(s), s.available, Hybrid(s.mode), NEW scope \in Scopes(s.noFilter),
         FilterResult(scope, Root(s)) = "false"
  PROVE  Target \notin FusedDocuments(s, scope)
<1>1. ~FusionContradicts(s, scope, Root(s))
  BY HonestAnswersAreNotRefused DEF Refuses
<1>2. scope = "stored" /\ Root(s) = "false"
  BY HybridHasFusedLists, NoneIsNothingElse DEF FilterResult
<1>3. QED
  BY <1>1, <1>2 DEF FusionContradicts

\* The analysis and the contract agree about a fusion.
LEMMA FusionEvidenceIsValid ==
  ASSUME NEW s, SoundSnapshot(s), s.available, Hybrid(s.mode), NEW scope \in Scopes(s.noFilter)
  PROVE  LET e == QualifiedRrf(s, scope, Root(s))
         IN  /\ Contract!ValidRrfEvidence(e)
             /\ e.relation \in {"target_present", "not_observable", "outside_candidates"}
<1> DEFINE S == FusedDocuments(s, scope)
           totals == Totals(s, scope)
           n == Cardinality(DOMAIN totals)
           ranks == Ranks(s, scope, Target)
           root == Root(s)
           e == QualifiedRrf(s, scope, root)
           h == Higher(totals)
<1>1. FusedLists(s, scope) /\ scope \in {"stored", "no_filter"}
  BY HybridHasFusedLists
<1>2. DOMAIN totals = S
  BY DEF Totals
<1>3. n \in Nat /\ ResultK \in Nat \ {0}
  BY <1>1, <1>2, TotalsAreIntegers, FS_CardinalityType, AnalysisAssumption
<1>4. /\ Target \in S <=> HasPlace(ranks)
      /\ FusedScore(ranks) \in Nat
  BY <1>1, PlacesOfADocument
<1>5. BoundaryFits(totals, FusedScore(ranks))
  BY <1>1, BoundaryIsBetween
<1>6. /\ MembershipCertain(totals) => h + 1 \in Nat /\ h + 1 <= n /\ h + 1 <= ResultK /\ Target \in S
      /\ Target \in S /\ n <= ResultK => MembershipCertain(totals)
  BY <1>1, <1>2, RankOfAMember DEF MembershipCertain
<1>7. FilterResult(scope, root) = "false" => Target \notin S
  BY ExcludedIsNotFused
<1>8. scope = "no_filter" => FilterResult(scope, root) = None
  BY DEF FilterResult
<1>9. /\ e.scope = scope /\ e.filterResult = FilterResult(scope, root)
      /\ e.ranks = ranks /\ e.score = FusedScore(ranks)
      /\ e.returned = IF n < ResultK THEN n ELSE ResultK
      /\ e.present = MembershipCertain(totals)
      /\ e.rank = IF e.present THEN h + 1 ELSE None
      /\ e.boundary = FusionBoundary(totals)
      /\ e.relation = CASE e.present -> "target_present"
                        [] ~e.present /\ e.boundary \in {None, e.score} -> "not_observable"
                        [] OTHER -> "outside_candidates"
      /\ e.certainty = Certainty(scope, e.relation)
  BY EvidenceOfAFusion
<1>10. /\ n < ResultK => e.boundary = None
       /\ n >= ResultK => /\ e.boundary \in Nat \ {0}
                          /\ e.present => e.score >= e.boundary
                          /\ ~e.present => e.score <= e.boundary
  BY <1>5, <1>9 DEF BoundaryFits
<1>11. /\ Contract!Ranked(e) <=> HasPlace(ranks)
       /\ Contract!RankInputs(e) = FusedScore(ranks)
  BY <1>9 DEF Contract!Ranked, HasPlace, Contract!RankInputs, Contract!RankShare, FusedScore, Share
<1> HIDE DEF S, totals, n, ranks, root, e, h
<1>12. e.boundary # 0 /\ (e.boundary # None <=> e.returned = ResultK)
  BY <1>3, <1>9, <1>10, NoneIsNothingElse
<1>13. e.boundary # None => IF e.present THEN e.score >= e.boundary ELSE e.score <= e.boundary
  BY <1>3, <1>10
<1>14. IF e.present
       THEN e.filterResult # "false" /\ e.rank # None /\ e.rank <= e.returned /\ Contract!Ranked(e)
       ELSE e.rank = None
  BY <1>3, <1>4, <1>6, <1>7, <1>9, <1>11, NoneIsNothingElse
<1>15. ~e.present /\ e.returned < ResultK => ~Contract!Ranked(e)
  BY <1>3, <1>4, <1>6, <1>9, <1>11
<1>16. /\ e.relation = Contract!DerivedRrfRelation(e)
       /\ e.relation \in {"target_present", "not_observable", "outside_candidates"}
  BY <1>9 DEF Contract!DerivedRrfRelation
<1>17. e.certainty = Contract!DerivedCertainty(e.scope, e.relation)
  BY <1>9 DEF Certainty, Contract!DerivedCertainty
<1>18. /\ e.scope = "no_filter" => e.filterResult = None
       /\ e.filterResult = "false" => ~Contract!Ranked(e)
       /\ e.score = Contract!RankInputs(e)
  BY <1>4, <1>7, <1>8, <1>9, <1>11
<1>19. Contract!ValidRrfEvidence(e)
  BY <1>12, <1>13, <1>14, <1>15, <1>16, <1>17, <1>18 DEF Contract!ValidRrfEvidence
<1>20. QED
  BY <1>16, <1>19 DEF e, root

-----------------------------------------------------------------------------
(* The crosscheck with the rows.                                           *)

\* The summary that the application derives from the rows is that of the analysis.
LEMMA SummariesAreExpected ==
  ASSUME NEW s, SoundSnapshot(s), NEW role \in Roles(s.mode, s.noFilter)
  PROVE  /\ ExpectedSummary(s, role) = Summary(s, role)
         /\ ExpectedSummary(s, role).rank = RankOf(s.lists[role], Target)
<1> DEFINE rows == s.lists[role]
           limit == Limit(s.mode)
           rank == RankOf(rows, Target)
           held == {i \in DOMAIN rows : rows[i].doc = Target}
           last == IF Len(rows) = limit THEN {Last(rows).score} ELSE {}
           only(values) == IF values = {} THEN None ELSE CHOOSE v \in values : TRUE
<1>1. OrderedRows(rows, role.signal, limit)
  BY RowsAreOrdered
<1>2. \/ rank = None /\ \A i \in 1..Len(rows) : rows[i].doc # Target
      \/ /\ rank \in 1..Len(rows) /\ rank # None
         /\ \A i \in 1..Len(rows) : rows[i].doc = Target <=> i = rank
  BY <1>1, RankIsTheIndex
<1>3. DOMAIN rows = 1..Len(rows)
  BY <1>1 DEF OrderedRows
<1>4. ExpectedSummary(s, role) =
        [role |-> role, limit |-> limit, returned |-> Len(rows),
         present |-> held # {}, rank |-> only(held),
         score |-> only({rows[i].score : i \in held}), boundary |-> only(last)]
  BY DEF ExpectedSummary
<1>5. Summary(s, role) =
        [role |-> role, limit |-> limit, returned |-> Len(rows),
         present |-> rank # None, rank |-> rank,
         score |-> IF rank = None THEN None ELSE rows[rank].score,
         boundary |-> IF Len(rows) = limit THEN rows[limit].score ELSE None]
  BY DEF Summary, Boundary
<1> HIDE DEF rows, limit, rank
<1>6. only({}) = None /\ \A v : only({v}) = v
  OBVIOUS
<1>7. held = IF rank = None THEN {} ELSE {rank}
  BY <1>2, <1>3
<1>8. only(last) = IF Len(rows) = limit THEN rows[limit].score ELSE None
  <2>1. Last(rows) = rows[Len(rows)]
    BY DEF Last
  <2>2. QED
    BY <1>6, <2>1
<1>9. /\ (held # {}) = (rank # None)
      /\ only(held) = rank
      /\ only({rows[i].score : i \in held}) = IF rank = None THEN None ELSE rows[rank].score
  <2>1. CASE rank = None
    <3>1. held = {} /\ {rows[i].score : i \in held} = {}
      BY <1>7, <2>1
    <3>2. QED
      BY <1>6, <2>1, <3>1
  <2>2. CASE rank # None
    <3>1. held = {rank} /\ {rows[i].score : i \in held} = {rows[rank].score}
      BY <1>7, <2>2
    <3>2. QED
      BY <1>6, <2>2, <3>1
  <2>3. QED
    BY <2>1, <2>2
<1> HIDE DEF held, last, only
<1>10. QED
  BY <1>4, <1>5, <1>8, <1>9 DEF rank, rows

\* What a row adds is the share of its place.
LEMMA RowShareIsTheShare ==
  ASSUME NEW rows, NEW n \in Nat, DOMAIN rows = 1..n, NEW weight, NEW doc,
         \A i, j \in 1..n : rows[i].doc = rows[j].doc => i = j
  PROVE  RowShare(rows, weight, doc) = Share(weight, RankOf(rows, doc))
<1> DEFINE held == {i \in DOMAIN rows : rows[i].doc = doc}
           rank == CHOOSE i \in held : TRUE
<1>1. RowShare(rows, weight, doc)
        = IF held = {} THEN 0 ELSE weight * (ShareScale \div (RankConstant + rank))
  BY DEF RowShare
<1>2. CASE held = {}
  <2>1. RankOf(rows, doc) = None
    BY <1>2 DEF RankOf
  <2>2. QED
    BY <1>1, <1>2, <2>1 DEF Share
<1>3. CASE held # {}
  <2>1. rank \in held
    BY <1>3
  <2>2. \A i \in held : i = rank
    BY <2>1
  <2>3. RankOf(rows, doc) = CHOOSE i \in DOMAIN rows : rows[i].doc = doc
    BY <1>3 DEF RankOf
  <2>4. RankOf(rows, doc) \in held
    BY <2>1, <2>3
  <2>5. RankOf(rows, doc) = rank /\ rank # None
    BY <2>1, <2>2, <2>4, NoneIsNothingElse
  <2> HIDE DEF rank, held
  <2>6. QED
    BY <1>1, <1>3, <2>5 DEF Share
<1>4. QED
  BY <1>2, <1>3

\* The fusion of the rows is that of the analysis.
LEMMA RowsAreFusedAlike ==
  ASSUME NEW s, SoundSnapshot(s), Hybrid(s.mode), NEW scope \in Scopes(s.noFilter)
  PROVE  /\ {row.doc : row \in RowsOf(s, scope)} = FusedDocuments(s, scope)
         /\ \A doc : RowShares(s, scope, doc) = FusedScore(Ranks(s, scope, doc))
<1>1. /\ FusedLists(s, scope)
      /\ \A x \in {"bm25", "ann"} : [scope |-> scope, signal |-> x] \in Roles(s.mode, s.noFilter)
  BY HybridHasFusedLists
<1>2. DOMAIN s.lists = Roles(s.mode, s.noFilter)
  BY DEF SoundSnapshot, Honest, ValidSnapshot
<1>3. {row.doc : row \in RowsOf(s, scope)} = FusedDocuments(s, scope)
  <2> DEFINE mine == {r \in DOMAIN s.lists : r.scope = scope}
             docs(r) == {s.lists[r][i].doc : i \in DOMAIN s.lists[r]}
  <2>1. mine = [scope : {scope}, signal : {"bm25", "ann"}]
    <3>1. \A r \in mine : r \in [scope : {scope}, signal : {"bm25", "ann"}]
      <4> SUFFICES ASSUME NEW r \in mine PROVE r \in [scope : {scope}, signal : {"bm25", "ann"}]
        OBVIOUS
      <4>1. r \in Roles(s.mode, s.noFilter) /\ r.scope = scope
        BY <1>2
      <4>2. r = [scope |-> r.scope, signal |-> r.signal] /\ r.signal \in {"bm25", "ann"}
        BY <4>1, RolesAreRecords
      <4>3. QED
        BY <4>1, <4>2
    <3>2. ASSUME NEW r \in [scope : {scope}, signal : {"bm25", "ann"}]
          PROVE  r \in mine
      <4>1. r = [scope |-> scope, signal |-> "bm25"] \/ r = [scope |-> scope, signal |-> "ann"]
        BY RolesOfScope
      <4>2. r \in Roles(s.mode, s.noFilter)
        BY <1>1, <4>1
      <4>3. QED
        BY <1>2, <4>1, <4>2
    <3>3. QED
      BY <3>1, <3>2
  <2>2. {row.doc : row \in RowsOf(s, scope)} = UNION {docs(r) : r \in mine}
    <3>1. RowsOf(s, scope) = UNION {ToSet(s.lists[r]) : r \in mine}
      BY DEF RowsOf
    <3>2. RowsOf(s, scope) = UNION {{s.lists[r][i] : i \in DOMAIN s.lists[r]} : r \in mine}
      BY <3>1 DEF ToSet
    <3> HIDE DEF mine
    <3>3. QED
      BY <3>2
  <2>3. FusedDocuments(s, scope) = UNION {docs(r) : r \in [scope : {scope}, signal : {"bm25", "ann"}]}
    BY DEF FusedDocuments
  <2> HIDE DEF docs, mine
  <2>4. QED
    BY <2>1, <2>2, <2>3
<1>4. ASSUME NEW doc PROVE RowShares(s, scope, doc) = FusedScore(Ranks(s, scope, doc))
  <2>1. ASSUME NEW x \in {"bm25", "ann"}, NEW weight
        PROVE  RowShare(ListOf(s, scope, x), weight, doc) = Share(weight, Ranks(s, scope, doc)[x])
    <3>1. Ranks(s, scope, doc)[x] = RankOf(ListOf(s, scope, x), doc)
      BY DEF Ranks, ListOf
    <3> DEFINE rows == ListOf(s, scope, x)
    <3>2. /\ Len(rows) \in Nat /\ DOMAIN rows = 1..Len(rows)
          /\ \A i, j \in 1..Len(rows) : rows[i].doc = rows[j].doc => i = j
      BY <1>1 DEF FusedLists
    <3> HIDE DEF rows
    <3>3. RowShare(rows, weight, doc) = Share(weight, RankOf(rows, doc))
      BY <3>2, RowShareIsTheShare
    <3>4. QED
      BY <3>1, <3>3 DEF rows
  <2>2. RowShares(s, scope, doc)
          = RowShare(ListOf(s, scope, "bm25"), Bm25Weight, doc) + RowShare(ListOf(s, scope, "ann"), AnnWeight, doc)
    BY DEF RowShares, ListOf
  <2>3. QED
    BY <2>1, <2>2 DEF FusedScore
<1>5. QED
  BY <1>3, <1>4

LEMMA FusionIsCrosschecked ==
  ASSUME NEW s, SoundSnapshot(s), Hybrid(s.mode), NEW scope \in Scopes(s.noFilter), NEW root
  PROVE  CrosschecksRrf(s, QualifiedRrf(s, scope, root))
<1> DEFINE S == FusedDocuments(s, scope)
           totals == Totals(s, scope)
           n == Cardinality(S)
           ranks == Ranks(s, scope, Target)
           e == QualifiedRrf(s, scope, root)
           fused == {row.doc : row \in RowsOf(s, e.scope)}
           score == [doc \in fused |-> RowShares(s, e.scope, doc)]
           target == IF Target \in fused THEN score[Target] ELSE 0
           ordered == CHOOSE o \in SetToSeqs(fused) :
                        \A i, j \in DOMAIN o : i < j => score[o[i]] >= score[o[j]]
           higher == Cardinality({d \in fused : score[d] > target})
           tied == Cardinality({d \in fused : score[d] = target})
           present == Target \in fused /\ (Len(ordered) <= ResultK \/ higher + tied <= ResultK)
           rank(signal) == ExpectedSummary(s, [scope |-> e.scope, signal |-> signal]).rank
<1>1. /\ FusedLists(s, scope)
      /\ \A x \in {"bm25", "ann"} : [scope |-> scope, signal |-> x] \in Roles(s.mode, s.noFilter)
  BY HybridHasFusedLists
<1>2. /\ e.scope = scope /\ e.ranks = ranks /\ e.score = FusedScore(ranks)
      /\ e.returned = IF Cardinality(DOMAIN totals) < ResultK THEN Cardinality(DOMAIN totals) ELSE ResultK
      /\ e.present = MembershipCertain(totals)
      /\ e.rank = IF e.present THEN Higher(totals) + 1 ELSE None
      /\ e.boundary = FusionBoundary(totals)
  BY EvidenceOfAFusion
<1>3. /\ fused = S /\ score = totals
  <2>1. fused = S
    BY <1>2, RowsAreFusedAlike
  <2>2. \A doc : RowShares(s, e.scope, doc) = FusedScore(Ranks(s, scope, doc))
    BY <1>2, RowsAreFusedAlike
  <2> HIDE DEF e, fused
  <2>3. QED
    BY <2>1, <2>2 DEF Totals
<1>4. IsFiniteSet(S) /\ totals \in [S -> Int] /\ DOMAIN totals = S /\ n \in Nat
  BY <1>1, TotalsAreIntegers, FS_CardinalityType
<1>5. /\ FusedScore(ranks) \in Nat
      /\ Target \in S => FusedScore(ranks) = totals[Target]
      /\ Target \notin S => FusedScore(ranks) = 0
  BY <1>1, PlacesOfADocument DEF Totals
<1>6. e.ranks = [x \in {"bm25", "ann"} |-> rank(x)]
  <2>1. ranks = [x \in {"bm25", "ann"} |-> RankOf(s.lists[[scope |-> scope, signal |-> x]], Target)]
    BY DEF Ranks
  <2>2. \A x \in {"bm25", "ann"} : rank(x) = RankOf(s.lists[[scope |-> scope, signal |-> x]], Target)
    BY <1>1, <1>2, SummariesAreExpected
  <2> HIDE DEF rank, ranks
  <2>3. QED
    BY <1>2, <2>1, <2>2
<1>7. ordered \in OrdersBy(S, totals)
  <2>1. \E o \in SetToSeqs(S) : \A i, j \in DOMAIN o : i < j => totals[o[i]] >= totals[o[j]]
    BY <1>4, OrdersExist DEF OrdersBy
  <2>2. ordered = CHOOSE o \in SetToSeqs(S) :
                     \A i, j \in DOMAIN o : i < j => totals[o[i]] >= totals[o[j]]
    BY <1>3
  <2> HIDE DEF ordered, S, totals
  <2>3. ordered \in SetToSeqs(S) /\ \A i, j \in DOMAIN ordered : i < j => totals[ordered[i]] >= totals[ordered[j]]
    BY <2>1, <2>2
  <2>4. QED
    BY <2>3 DEF OrdersBy
<1>8. target = FusedScore(ranks)
  BY <1>3, <1>5
<1>9. Target \in S => higher = Higher(totals) /\ tied = Tied(totals)
  <2>1. Target \in S => target = totals[Target]
    BY <1>5, <1>8
  <2> HIDE DEF target, fused, score, totals, S
  <2>2. QED
    BY <1>3, <1>4, <2>1 DEF Higher, Tied
<1> HIDE DEF S, totals, ranks, fused, score, target, ordered, higher, tied, rank
<1>10. Len(ordered) = n
  <2>1. ordered \in SetToSeqs(S)
    BY <1>7 DEF OrdersBy
  <2>2. ordered \in [1..n -> S]
    BY <2>1 DEF SetToSeqs
  <2> HIDE DEF n
  <2>3. QED
    BY <1>4, <2>2
<1>11. present = MembershipCertain(totals)
  BY <1>3, <1>4, <1>9, <1>10 DEF MembershipCertain
<1>12. e.rank = IF present THEN higher + 1 ELSE None
  <2>1. present => Target \in S
    BY <1>3
  <2> HIDE DEF e, present
  <2>2. QED
    BY <1>2, <1>9, <1>11, <2>1
<1>13. ResultK \in Nat /\ Min({Len(ordered), ResultK}) = IF n < ResultK THEN n ELSE ResultK
  <2>1. ResultK \in Nat
    BY AnalysisAssumption
  <2>2. Min({n, ResultK}) = IF n <= ResultK THEN n ELSE ResultK
    BY <1>4, <2>1, SmallerOfTwo
  <2>3. QED
    BY <1>4, <1>10, <2>1, <2>2
<1>14. e.returned = Min({Len(ordered), ResultK})
  BY <1>2, <1>4, <1>13
<1>15. e.boundary = IF Len(ordered) >= ResultK THEN score[ordered[ResultK]] ELSE None
  <2>1. CASE n >= ResultK
    <3>1. FusionBoundary(totals) = totals[ordered[ResultK]]
      BY <1>1, <1>7, <2>1, BoundaryOfAnyOrder DEF n, S, totals
    <3>2. QED
      BY <1>2, <1>3, <1>10, <2>1, <3>1
  <2>2. CASE ~(n >= ResultK)
    <3>1. n < ResultK
      BY <1>4, <1>13, <2>2
    <3>2. FusionBoundary(totals) = None
      BY <1>4, <3>1 DEF FusionBoundary
    <3>3. QED
      BY <1>2, <1>10, <2>2, <3>2
  <2>3. QED
    BY <2>1, <2>2
<1> HIDE DEF e, present
<1>16. /\ e.ranks = [x \in {"bm25", "ann"} |-> rank(x)]
       /\ e.returned = Min({Len(ordered), ResultK})
       /\ e.present = present
       /\ e.rank = IF present THEN higher + 1 ELSE None
       /\ e.score = target
       /\ e.boundary = IF Len(ordered) >= ResultK THEN score[ordered[ResultK]] ELSE None
  BY <1>2, <1>6, <1>8, <1>11, <1>12, <1>14, <1>15
<1>17. CrosschecksRrf(s, e)
  BY <1>16 DEF CrosschecksRrf, fused, score, target, ordered, higher, tied, present, rank
<1>18. QED
  BY <1>17 DEF e

-----------------------------------------------------------------------------
(* The response to an honest answer.                                       *)

LEMMA FieldsOfTheResponse ==
  ASSUME NEW s
  PROVE  LET r == Response(s)
             roles == Roles(s.mode, s.noFilter)
         IN  /\ r.root = IF s.available THEN Root(s) ELSE None
             /\ r.summaries = {Summary(s, role) : role \in roles}
             /\ r.available = s.available /\ r.bm25 = s.bm25 /\ r.distance = s.distance
             /\ r.filterEvidence = IF s.available THEN FilterEvidence(s) ELSE {}
             /\ r.candidateEvidence = IF s.available THEN {CandidateEvidence(s, role, r.root) : role \in roles} ELSE {}
             /\ r.rrfEvidence = IF s.available /\ Hybrid(s.mode)
                                THEN {QualifiedRrf(s, scope, r.root) : scope \in Scopes(s.noFilter)} ELSE {}
             /\ r.mode = s.mode /\ r.noFilter = s.noFilter /\ r.embedded = (s.mode # "bm25")
BY DEF Response, Analysis

\* The evidence of an available target, role by role and scope by scope.
EvidenceOf(s, r) ==
  /\ r.root = Root(s)
  /\ r.candidateEvidence = {CandidateEvidence(s, role, Root(s)) : role \in Roles(s.mode, s.noFilter)}
  /\ r.filterEvidence = FilterEvidence(s)
  /\ r.rrfEvidence = IF Hybrid(s.mode) THEN {QualifiedRrf(s, scope, Root(s)) : scope \in Scopes(s.noFilter)} ELSE {}

LEMMA AvailableEvidence ==
  ASSUME NEW s, s.available
  PROVE  EvidenceOf(s, Response(s))
<1> DEFINE r == Response(s)
<1>1. r.root = Root(s)
  BY FieldsOfTheResponse
<1>2. /\ r.candidateEvidence = {CandidateEvidence(s, role, r.root) : role \in Roles(s.mode, s.noFilter)}
      /\ r.filterEvidence = FilterEvidence(s)
      /\ r.rrfEvidence = IF Hybrid(s.mode) THEN {QualifiedRrf(s, scope, r.root) : scope \in Scopes(s.noFilter)} ELSE {}
  BY FieldsOfTheResponse
<1> HIDE DEF r
<1>3. EvidenceOf(s, r)
  BY <1>1, <1>2 DEF EvidenceOf
<1>4. QED
  BY <1>3 DEF r

LEMMA AnalysisIsCrosschecked ==
  ASSUME NEW s, SoundSnapshot(s)
  PROVE  Crosschecked(s, Response(s))
<1> DEFINE r == Response(s)
           roles == Roles(s.mode, s.noFilter)
<1>1. DOMAIN s.lists = roles
  BY DEF SoundSnapshot, Honest, ValidSnapshot
<1>2. /\ r.available = s.available /\ r.bm25 = s.bm25 /\ r.distance = s.distance
      /\ r.summaries = {Summary(s, role) : role \in roles}
      /\ ~s.available => r.candidateEvidence = {}
      /\ ~(s.available /\ Hybrid(s.mode)) => r.rrfEvidence = {}
  BY FieldsOfTheResponse
<1>3. s.available => EvidenceOf(s, r)
  BY AvailableEvidence
<1> HIDE DEF r, roles
<1>4. r.summaries = {ExpectedSummary(s, role) : role \in DOMAIN s.lists}
  <2>1. \A role \in roles : ExpectedSummary(s, role) = Summary(s, role)
    BY SummariesAreExpected DEF roles
  <2>2. QED
    BY <1>1, <1>2, <2>1
<1>5. \A role : CandidateEvidence(s, role, Root(s)).summary = Summary(s, role)
                /\ CandidateEvidence(s, role, Root(s)).role = role
                /\ CandidateEvidence(s, role, Root(s)).direct = Direct(s, role.signal)
                /\ Summary(s, role).role = role
  BY EvidenceOfARole DEF Summary
<1>6. s.available => r.candidateEvidence = {CandidateEvidence(s, role, Root(s)) : role \in roles}
  BY <1>3 DEF EvidenceOf, roles
<1>7. {e.summary : e \in r.candidateEvidence} = IF s.available THEN r.summaries ELSE {}
  BY <1>2, <1>5, <1>6
<1>8. \A e \in r.candidateEvidence : e.role = e.summary.role /\ e.direct = Direct(s, e.role.signal)
  BY <1>2, <1>5, <1>6
<1>9. s.available /\ Hybrid(s.mode) =>
        r.rrfEvidence = {QualifiedRrf(s, scope, Root(s)) : scope \in Scopes(s.noFilter)}
  BY <1>3 DEF EvidenceOf
<1>10. \A scope : QualifiedRrf(s, scope, Root(s)).scope = scope
  BY EvidenceOfAFusion
<1>11. {e.scope : e \in r.rrfEvidence} = IF s.available /\ Hybrid(s.mode) THEN Scopes(s.noFilter) ELSE {}
  BY <1>2, <1>9, <1>10
<1>12. \A e \in r.rrfEvidence : CrosschecksRrf(s, e)
  <2>1. Hybrid(s.mode) => \A scope \in Scopes(s.noFilter) : CrosschecksRrf(s, QualifiedRrf(s, scope, Root(s)))
    BY FusionIsCrosschecked
  <2>2. QED
    BY <1>2, <1>9, <2>1
<1>13. Crosschecked(s, r)
  BY <1>2, <1>4, <1>7, <1>8, <1>11, <1>12 DEF Crosschecked
<1>14. QED
  BY <1>13 DEF r

\* The roles and limits of the contract are those of the analysis.
LEMMA SameRoles ==
  ASSUME NEW s, SoundSnapshot(s)
  PROVE  /\ Contract!RoleSequences(s.mode, s.noFilter) = Roles(s.mode, s.noFilter)
         /\ {role.signal : role \in Contract!RoleSequences(s.mode, FALSE)} = Signals(s.mode)
         /\ {role.scope : role \in Contract!RoleSequences(s.mode, s.noFilter)} = Scopes(s.noFilter)
         /\ Contract!CandidateLimit(s.mode) = Limit(s.mode)
         /\ Contract!IsHybrid(s.mode) <=> Hybrid(s.mode)
<1>1. s.mode \in Modes /\ s.noFilter \in BOOLEAN
  BY DEF SoundSnapshot, IsSnapshot
<1>2. ASSUME NEW noFilter
      PROVE  Contract!RoleSequences(s.mode, noFilter) = [scope : Scopes(noFilter), signal : Signals(s.mode)]
  <2>1. (CASE s.mode = "bm25" -> {"bm25"} [] s.mode = "vector" -> {"ann"} [] OTHER -> Contract!CandidateSignals)
          = Signals(s.mode)
    BY <1>1 DEF Modes, Signals, Contract!CandidateSignals
  <2>2. QED
    BY <2>1 DEF Contract!RoleSequences, Scopes
<1>3. Signals(s.mode) # {} /\ \A noFilter : "stored" \in Scopes(noFilter)
  BY DEF Signals, Scopes
<1>4. /\ {role.signal : role \in [scope : Scopes(FALSE), signal : Signals(s.mode)]} = Signals(s.mode)
      /\ {role.scope : role \in [scope : Scopes(s.noFilter), signal : Signals(s.mode)]} = Scopes(s.noFilter)
  <2> DEFINE first == Scopes(s.noFilter)
             second == Signals(s.mode)
  <2>1. ASSUME NEW A, NEW B, NEW a \in A, NEW b \in B
        PROVE  {role.signal : role \in [scope : A, signal : B]} = B /\ {role.scope : role \in [scope : A, signal : B]} = A
    <3>1. \A x \in A : \A y \in B : [scope |-> x, signal |-> y] \in [scope : A, signal : B]
      OBVIOUS
    <3>2. \A x \in A : [scope |-> x, signal |-> b].scope = x
      OBVIOUS
    <3>3. \A y \in B : [scope |-> a, signal |-> y].signal = y
      OBVIOUS
    <3>4. \A role \in [scope : A, signal : B] : role.scope \in A /\ role.signal \in B
      OBVIOUS
    <3>5. QED
      BY <3>1, <3>2, <3>3, <3>4
  <2>2. PICK b : b \in Signals(s.mode)
    BY <1>3
  <2>3. QED
    BY <1>3, <2>1, <2>2
<1>5. QED
  BY <1>2, <1>4 DEF Roles, Contract!CandidateLimit, Limit, Contract!IsHybrid, Hybrid

LEMMA SummariesOfTheResponseAreValid ==
  ASSUME NEW s, SoundSnapshot(s)
  PROVE  LET r == Response(s)
         IN  /\ Contract!ValidTiming(r)
             /\ {c.role : c \in r.summaries} = Contract!RoleSequences(r.mode, r.noFilter)
             /\ \A c \in r.summaries : c.limit = Contract!CandidateLimit(r.mode) /\ Contract!ValidSummary(c)
             /\ \A c \in r.summaries : c.present => s.available
<1> DEFINE r == Response(s)
           roles == Roles(s.mode, s.noFilter)
<1>1. /\ r.summaries = {Summary(s, role) : role \in roles}
      /\ r.mode = s.mode /\ r.noFilter = s.noFilter /\ r.embedded = (s.mode # "bm25")
  BY FieldsOfTheResponse
<1>2. /\ Contract!RoleSequences(s.mode, s.noFilter) = roles
      /\ Contract!CandidateLimit(s.mode) = Limit(s.mode)
  BY SameRoles
<1>3. ASSUME NEW role \in roles
      PROVE  LET c == Summary(s, role)
             IN  /\ c.role = role /\ c.limit = Limit(s.mode) /\ Contract!ValidSummary(c)
                 /\ c.present => s.available
  <2> DEFINE c == Summary(s, role)
  <2>1. IsSummary(c, role, Limit(s.mode))
    BY SummariesFit
  <2>2. c.present => s.available
    <3>1. HonestList(s, role)
      BY RowsAreOrdered DEF SoundSnapshot, Honest
    <3>2. QED
      BY <3>1 DEF HonestList, Summary
  <2> HIDE DEF c
  <2>3. c.present => c.rank # None /\ c.score # None /\ c.rank <= c.returned
    BY <2>1, NoneIsNothingElse DEF IsSummary
  <2>4. Contract!ValidSummary(c)
    BY <2>1, <2>3, NoneIsNothingElse DEF IsSummary, Contract!ValidSummary
  <2>5. QED
    BY <2>1, <2>2, <2>4 DEF IsSummary, c
<1> HIDE DEF r, roles
<1>4. {c.role : c \in r.summaries} = roles
  BY <1>1, <1>3
<1>5. \A c \in r.summaries : c.limit = Limit(s.mode) /\ Contract!ValidSummary(c) /\ (c.present => s.available)
  BY <1>1, <1>3
<1>6. Contract!ValidTiming(r)
  BY <1>1 DEF Contract!ValidTiming
<1>7. QED
  BY <1>1, <1>2, <1>4, <1>5, <1>6 DEF r

LEMMA TargetOfTheResponseIsValid ==
  ASSUME NEW s, SoundSnapshot(s)
  PROVE  Contract!ValidResponseTarget(Response(s))
<1> DEFINE r == Response(s)
<1>1. /\ r.available = s.available /\ r.bm25 = s.bm25 /\ r.distance = s.distance /\ r.mode = s.mode
      /\ ~s.available => r.filterEvidence = {} /\ r.candidateEvidence = {} /\ r.rrfEvidence = {}
  BY FieldsOfTheResponse
<1>2. {role.signal : role \in Contract!RoleSequences(s.mode, FALSE)} = Signals(s.mode)
  BY SameRoles
<1>3. /\ s.bm25 # None <=> s.available /\ "bm25" \in Signals(s.mode)
      /\ s.distance # None <=> s.available /\ "ann" \in Signals(s.mode)
  BY DEF SoundSnapshot, Honest, DecodesTarget
<1>4. \A c \in r.summaries : c.present => s.available
  BY SummariesOfTheResponseAreValid
<1> HIDE DEF r
<1>5. Contract!ValidResponseTarget(r)
  BY <1>1, <1>2, <1>3, <1>4 DEF Contract!ValidResponseTarget
<1>6. QED
  BY <1>5 DEF r

\* The walk ends at a leaf: a filter has at least one predicate.
LEMMA FiltersHavePredicates ==
  ASSUME NEW filter, NEW schema, IsFilter(filter), ValidDefinition(filter, schema)
  PROVE  Len(filter) \in Predicates(filter)
<1> DEFINE n == Len(filter)
<1>1. n \in Nat \ {0} /\ DOMAIN filter = 1..n /\ filter[n].children \subseteq (n + 1)..n
  BY DEF IsFilter
<1>2. filter[n].children = {} /\ n \in DOMAIN filter
  BY <1>1
<1>3. filter[n].kind = "predicate"
  BY <1>2 DEF ValidDefinition
<1>4. QED
  BY <1>2, <1>3 DEF Predicates

LEMMA FilterEvidenceIsValid ==
  ASSUME NEW s, SoundSnapshot(s)
  PROVE  Contract!ValidFilterEvidence(Response(s))
<1> DEFINE r == Response(s)
           evidence(i) == [node |-> i, result |-> Results(s)[i],
                           certainty |-> IF Results(s)[i] = "unknown" THEN "insufficient" ELSE "observed"]
<1>1. /\ r.root = IF s.available THEN Root(s) ELSE None
      /\ r.filterEvidence = IF s.available THEN FilterEvidence(s) ELSE {}
  BY FieldsOfTheResponse
<1>2. FilterEvidence(s) = IF s.filter = None THEN {} ELSE {evidence(i) : i \in Predicates(s.filter)}
  BY DEF FilterEvidence
<1>3. Root(s) = None <=> s.filter = None
  BY RootIsDecided
<1>4. ASSUME s.filter # None PROVE Predicates(s.filter) # {}
  BY <1>4, FiltersHavePredicates DEF SoundSnapshot, Honest, IsSnapshot, ValidSnapshot
<1>5. \A i : /\ evidence(i).node = i
             /\ evidence(i).certainty = IF evidence(i).result = "unknown" THEN "insufficient" ELSE "observed"
  OBVIOUS
<1> HIDE DEF r, evidence
<1>6. FilterEvidence(s) = {} <=> s.filter = None
  BY <1>2, <1>4
<1>7. r.root = None <=> r.filterEvidence = {}
  BY <1>1, <1>3, <1>6
<1>8. \A e \in r.filterEvidence : \E i : e = evidence(i)
  BY <1>1, <1>2
<1>9. \A e, f \in r.filterEvidence : e.node = f.node => e = f
  BY <1>5, <1>8
<1>10. \A e \in r.filterEvidence : e.certainty = IF e.result = "unknown" THEN "insufficient" ELSE "observed"
  BY <1>5, <1>8
<1>11. Contract!ValidFilterEvidence(r)
  BY <1>7, <1>9, <1>10 DEF Contract!ValidFilterEvidence
<1>12. QED
  BY <1>11 DEF r

\* At most four lists.
LEMMA RolesAreFinite ==
  ASSUME NEW mode, NEW noFilter
  PROVE  IsFiniteSet(Roles(mode, noFilter))
<1> DEFINE role(x, y) == [scope |-> x, signal |-> y]
           all == {role("stored", "bm25"), role("stored", "ann"),
                   role("no_filter", "bm25"), role("no_filter", "ann")}
<1>1. IsFiniteSet(all)
  <2> HIDE DEF role
  <2>1. IsFiniteSet({role("stored", "bm25")})
    BY FS_Singleton
  <2>2. IsFiniteSet({role("stored", "bm25")} \union {role("stored", "ann")})
    BY <2>1, FS_AddElement
  <2>3. IsFiniteSet({role("stored", "bm25"), role("stored", "ann")} \union {role("no_filter", "bm25")})
    <3>1. {role("stored", "bm25")} \union {role("stored", "ann")} = {role("stored", "bm25"), role("stored", "ann")}
      OBVIOUS
    <3>2. QED
      BY <2>2, <3>1, FS_AddElement
  <2>4. IsFiniteSet({role("stored", "bm25"), role("stored", "ann"), role("no_filter", "bm25")}
                    \union {role("no_filter", "ann")})
    <3>1. {role("stored", "bm25"), role("stored", "ann")} \union {role("no_filter", "bm25")}
            = {role("stored", "bm25"), role("stored", "ann"), role("no_filter", "bm25")}
      OBVIOUS
    <3>2. QED
      BY <2>3, <3>1, FS_AddElement
  <2>5. all = {role("stored", "bm25"), role("stored", "ann"), role("no_filter", "bm25")}
                \union {role("no_filter", "ann")}
    OBVIOUS
  <2>6. QED
    BY <2>4, <2>5
<1>2. Roles(mode, noFilter) \subseteq all
  <2> SUFFICES ASSUME NEW x \in Roles(mode, noFilter) PROVE x \in all
    OBVIOUS
  <2>1. x = role(x.scope, x.signal) /\ x.scope \in {"stored", "no_filter"} /\ x.signal \in {"bm25", "ann"}
    BY RolesAreRecords
  <2> HIDE DEF role
  <2>2. QED
    BY <2>1
<1>3. QED
  BY <1>1, <1>2, FS_Subset

\* The contract counts as the analysis does.
LEMMA SameCardinality == \A S : Contract!Cardinality(S) = Cardinality(S)
BY Zenon DEF Contract!Cardinality, Cardinality

\* Pieces of evidence that differ in their summaries are as many as these.
LEMMA AsManySummaries ==
  ASSUME NEW E, IsFiniteSet(E), \A e, f \in E : e.summary = f.summary => e = f
  PROVE  Cardinality(E) = Cardinality({e.summary : e \in E})
<1> DEFINE T == {e.summary : e \in E}
           g == [e \in E |-> e.summary]
<1>1. g \in Injection(E, T)
  BY DEF Injection, IsInjective
<1>2. g \in Surjection(E, T)
  BY DEF Surjection
<1> HIDE DEF T, g
<1>3. ExistsBijection(E, T)
  BY <1>1, <1>2 DEF Bijection, ExistsBijection
<1>4. Cardinality(T) = Cardinality(E)
  BY <1>3, FS_Bijection
<1>5. QED
  BY <1>4 DEF T

\* The evidence about a role is the only one.
LEMMA EvidenceByRole ==
  ASSUME NEW s, SoundSnapshot(s), s.available
  PROVE  LET r == Response(s)
         IN  /\ IsFiniteSet(r.candidateEvidence)
             /\ \A e, f \in r.candidateEvidence : e.role = f.role => e = f
             /\ \A e \in r.candidateEvidence :
                  /\ e.role \in Roles(s.mode, s.noFilter)
                  /\ e = CandidateEvidence(s, e.role, Root(s))
             /\ \A role \in Roles(s.mode, s.noFilter) :
                  /\ CandidateEvidence(s, role, Root(s)) \in r.candidateEvidence
                  /\ CandidateEvidence(s, role, Root(s)).role = role
                  /\ CandidateEvidence(s, role, Root(s)).summary = Summary(s, role)
                  /\ Summary(s, role).role = role
<1> DEFINE r == Response(s)
           roles == Roles(s.mode, s.noFilter)
           of(role) == CandidateEvidence(s, role, Root(s))
<1>1. r.candidateEvidence = {of(role) : role \in roles}
  BY AvailableEvidence DEF EvidenceOf
<1>2. \A role : of(role).role = role /\ of(role).summary = Summary(s, role) /\ Summary(s, role).role = role
  BY EvidenceOfARole DEF Summary
<1>3. IsFiniteSet(roles)
  BY RolesAreFinite
<1> HIDE DEF r, roles, of
<1>4. IsFiniteSet(r.candidateEvidence)
  <2> DEFINE g == [role \in roles |-> of(role)]
  <2>1. g \in Surjection(roles, r.candidateEvidence)
    BY <1>1 DEF Surjection
  <2>2. QED
    BY <1>3, <2>1, FS_Surjection
<1>5. \A e \in r.candidateEvidence : e.role \in roles /\ e = of(e.role)
  BY <1>1, <1>2
<1>6. \A e, f \in r.candidateEvidence : e.role = f.role => e = f
  BY <1>5
<1>7. \A role \in roles : of(role) \in r.candidateEvidence
  BY <1>1
<1>8. QED
  BY <1>2, <1>4, <1>5, <1>6, <1>7 DEF r, roles, of

LEMMA CoverOfTheCandidates ==
  ASSUME NEW s, SoundSnapshot(s)
  PROVE  Contract!ValidCandidateCover(Response(s))
<1> DEFINE r == Response(s)
           roles == Roles(s.mode, s.noFilter)
<1>1. /\ r.available = s.available /\ r.bm25 = s.bm25 /\ r.distance = s.distance
      /\ r.summaries = {Summary(s, role) : role \in roles}
  BY FieldsOfTheResponse
<1>2. ASSUME r.available
      PROVE  /\ {e.summary : e \in r.candidateEvidence} = r.summaries
             /\ Cardinality(r.candidateEvidence) = Cardinality(r.summaries)
             /\ \A e \in r.candidateEvidence :
                  /\ e.role = e.summary.role
                  /\ e.filterResult = Contract!BoundFilterResult(r, e.role.scope)
                  /\ e.direct = Contract!ResponseDirect(r, e.role.signal)
  <2> DEFINE of(role) == CandidateEvidence(s, role, Root(s))
  <2>0. s.available
    BY <1>1, <1>2
  <2>1. /\ IsFiniteSet(r.candidateEvidence)
        /\ \A e, f \in r.candidateEvidence : e.role = f.role => e = f
        /\ \A e \in r.candidateEvidence : e.role \in roles /\ e = of(e.role)
        /\ \A role \in roles : of(role) \in r.candidateEvidence /\ of(role).role = role
                               /\ of(role).summary = Summary(s, role) /\ Summary(s, role).role = role
    BY <2>0, EvidenceByRole
  <2>2. r.root = Root(s)
    BY <2>0, FieldsOfTheResponse
  <2>3. ASSUME NEW role \in roles
        PROVE  /\ of(role).filterResult = Contract!BoundFilterResult(r, role.scope)
               /\ of(role).direct = Contract!ResponseDirect(r, role.signal)
    <3>1. of(role).filterResult = FilterResult(role.scope, Root(s)) /\ of(role).direct = Direct(s, role.signal)
      BY EvidenceOfARole
    <3>2. role.scope \in {"stored", "no_filter"}
      BY RolesAreRecords
    <3> HIDE DEF r, of
    <3>3. FilterResult(role.scope, Root(s)) = Contract!BoundFilterResult(r, role.scope)
      BY <2>2, <3>2 DEF FilterResult, Contract!BoundFilterResult
    <3>4. Direct(s, role.signal) = Contract!ResponseDirect(r, role.signal)
      BY <1>1 DEF Direct, Contract!ResponseDirect
    <3>5. QED
      BY <3>1, <3>3, <3>4
  <2> HIDE DEF r, roles, of
  <2>4. {e.summary : e \in r.candidateEvidence} = r.summaries
    <3>1. ASSUME NEW e \in r.candidateEvidence PROVE e.summary \in r.summaries
      BY <1>1, <2>1
    <3>2. ASSUME NEW c \in r.summaries PROVE \E e \in r.candidateEvidence : c = e.summary
      BY <1>1, <2>1
    <3>3. QED
      BY <3>1, <3>2
  <2>5. \A e \in r.candidateEvidence : e.role = e.summary.role
    BY <2>1
  <2>6. \A e, f \in r.candidateEvidence : e.summary = f.summary => e = f
    BY <2>1, <2>5
  <2>7. Cardinality(r.candidateEvidence) = Cardinality(r.summaries)
    BY <2>1, <2>4, <2>6, AsManySummaries
  <2>8. QED
    BY <2>1, <2>3, <2>4, <2>5, <2>7
<1> HIDE DEF r
<1>3. Contract!ValidCandidateCover(r)
  BY <1>2, SameCardinality DEF Contract!ValidCandidateCover
<1>4. QED
  BY <1>3 DEF r

\* What the contract looks up for a role is its evidence.
LEMMA SourceIsTheEvidence ==
  ASSUME NEW s, SoundSnapshot(s), s.available, NEW scope, NEW signal,
         [scope |-> scope, signal |-> signal] \in Roles(s.mode, s.noFilter)
  PROVE  LET source == Contract!SourceOf(Response(s), scope, signal)
             role == [scope |-> scope, signal |-> signal]
         IN  source = CandidateEvidence(s, role, Root(s)) /\ source.summary = Summary(s, role)
<1> DEFINE r == Response(s)
           role == [scope |-> scope, signal |-> signal]
           of == CandidateEvidence(s, role, Root(s))
<1>1. /\ \A e, f \in r.candidateEvidence : e.role = f.role => e = f
      /\ of \in r.candidateEvidence /\ of.role = role /\ of.summary = Summary(s, role)
  BY EvidenceByRole
<1>2. Contract!SourceOf(r, scope, signal) = CHOOSE e \in r.candidateEvidence : e.role = role
  BY DEF Contract!SourceOf
<1> HIDE DEF r, role, of
<1>3. Contract!SourceOf(r, scope, signal) = of
  BY <1>1, <1>2
<1>4. QED
  BY <1>1, <1>3 DEF r, role, of

\* The documents of two lists, counted once.
LEMMA SizeOfTheUnion ==
  ASSUME NEW A, NEW B, IsFiniteSet(A), IsFiniteSet(B), NEW a \in Nat, NEW b \in Nat,
         Cardinality(A) = a, Cardinality(B) = b
  PROVE  /\ Cardinality(A \union B) \in Nat
         /\ a <= Cardinality(A \union B) /\ b <= Cardinality(A \union B)
         /\ Cardinality(A \union B) <= a + b
         /\ A \intersect B # {} => Cardinality(A \union B) <= a + b - 1
<1> DEFINE u == Cardinality(A \union B)
           i == Cardinality(A \intersect B)
<1>1. IsFiniteSet(A \union B) /\ u = a + b - i
  BY FS_Union
<1>2. A \subseteq A \union B /\ B \subseteq A \union B /\ A \intersect B \subseteq A
  OBVIOUS
<1>3. IsFiniteSet(A \intersect B)
  BY <1>2, FS_Subset
<1>4. u \in Nat /\ i \in Nat
  BY <1>1, <1>3, FS_CardinalityType
<1>5. a <= u /\ b <= u
  BY <1>1, <1>2, FS_Subset
<1>6. A \intersect B # {} => i # 0
  BY <1>3, FS_EmptySet
<1> HIDE DEF u, i
<1>7. u <= a + b /\ (A \intersect B # {} => u <= a + b - 1)
  BY <1>1, <1>4, <1>6
<1>8. QED
  BY <1>4, <1>5, <1>7 DEF u

LEMMA FusionCountsFit ==
  ASSUME NEW s, SoundSnapshot(s), Hybrid(s.mode), NEW scope \in Scopes(s.noFilter), NEW root
  PROVE  QualifiedRrf(s, scope, root).returned
           \in Contract!UnionBounds(Summary(s, [scope |-> scope, signal |-> "bm25"]),
                                    Summary(s, [scope |-> scope, signal |-> "ann"]))
<1> DEFINE e == QualifiedRrf(s, scope, root)
           role(x) == [scope |-> scope, signal |-> x]
           rows(x) == s.lists[role(x)]
           docs(x) == {rows(x)[i].doc : i \in 1..Len(rows(x))}
           one == Summary(s, role("bm25"))
           other == Summary(s, role("ann"))
           S == FusedDocuments(s, scope)
           n == Cardinality(S)
           a == Len(rows("bm25"))
           b == Len(rows("ann"))
<1>1. role("bm25") \in Roles(s.mode, s.noFilter) /\ role("ann") \in Roles(s.mode, s.noFilter)
  BY HybridHasFusedLists
<1>2. \A x : role(x).signal = x
  OBVIOUS
<1>3. ASSUME NEW x \in {"bm25", "ann"}
      PROVE  /\ Len(rows(x)) \in Nat /\ DOMAIN rows(x) = 1..Len(rows(x))
             /\ IsFiniteSet(docs(x)) /\ Cardinality(docs(x)) = Len(rows(x))
             /\ Summary(s, role(x)).returned = Len(rows(x))
             /\ Summary(s, role(x)).present <=> Target \in docs(x)
  <2>1. role(x) \in Roles(s.mode, s.noFilter)
    BY <1>1
  <2>2. OrderedRows(rows(x), x, Limit(s.mode))
    BY <1>2, <2>1, RowsAreOrdered
  <2>3. IsFiniteSet(docs(x)) /\ Cardinality(docs(x)) = Len(rows(x))
    BY <2>2, DocumentsAreAsManyAsRows
  <2>4. RankOf(rows(x), Target) # None <=> Target \in docs(x)
    BY <2>2, RankIsTheIndex
  <2>5. /\ Summary(s, role(x)).returned = Len(rows(x))
        /\ Summary(s, role(x)).present <=> RankOf(rows(x), Target) # None
    BY DEF Summary
  <2>6. Len(rows(x)) \in Nat /\ DOMAIN rows(x) = 1..Len(rows(x))
    BY <2>2 DEF OrderedRows
  <2>7. QED
    BY <2>3, <2>4, <2>5, <2>6
<1>4. S = docs("bm25") \union docs("ann")
  <2>1. S = {rows("bm25")[i].doc : i \in DOMAIN rows("bm25")} \union {rows("ann")[i].doc : i \in DOMAIN rows("ann")}
    BY RolesOfScope DEF FusedDocuments
  <2>2. DOMAIN rows("bm25") = 1..Len(rows("bm25")) /\ DOMAIN rows("ann") = 1..Len(rows("ann"))
    BY <1>3
  <2> HIDE DEF rows
  <2>3. QED
    BY <2>1, <2>2
<1>5. e.returned = IF n < ResultK THEN n ELSE ResultK
  <2>1. DOMAIN Totals(s, scope) = S
    BY DEF Totals
  <2>2. QED
    BY <2>1, EvidenceOfAFusion
<1>6. /\ a \in Nat /\ b \in Nat /\ one.returned = a /\ other.returned = b
      /\ one.present /\ other.present => docs("bm25") \intersect docs("ann") # {}
      /\ IsFiniteSet(docs("bm25")) /\ IsFiniteSet(docs("ann"))
      /\ Cardinality(docs("bm25")) = a /\ Cardinality(docs("ann")) = b
  BY <1>3
<1> HIDE DEF e, role, rows, docs, one, other, S, n, a, b
<1>7. /\ n \in Nat /\ a <= n /\ b <= n /\ n <= a + b
      /\ one.present /\ other.present => n <= a + b - 1
  BY <1>4, <1>6, SizeOfTheUnion DEF n
<1>8. ResultK \in Nat
  BY AnalysisAssumption
<1> DEFINE larger == IF one.returned > other.returned THEN one.returned ELSE other.returned
           shared == IF one.present /\ other.present THEN 1 ELSE 0
           capped(x) == IF x < ResultK THEN x ELSE ResultK
<1>9. /\ larger \in Nat /\ larger <= n
      /\ one.returned + other.returned - shared \in Int /\ n <= one.returned + other.returned - shared
  BY <1>6, <1>7
<1> HIDE DEF larger, shared
<1>10. capped(n) \in capped(larger)..capped(one.returned + other.returned - shared)
  BY <1>7, <1>8, <1>9
<1>11. e.returned \in Contract!UnionBounds(one, other)
  BY <1>5, <1>10 DEF Contract!UnionBounds, larger, shared
<1>12. QED
  BY <1>11 DEF e, one, other, role

LEMMA CoverOfTheFusions ==
  ASSUME NEW s, SoundSnapshot(s)
  PROVE  Contract!ValidRrfCover(Response(s))
<1> DEFINE r == Response(s)
           scopes == Scopes(s.noFilter)
           of(scope) == QualifiedRrf(s, scope, Root(s))
           fused == s.available /\ Hybrid(s.mode)
<1>1. /\ r.available = s.available /\ r.mode = s.mode /\ r.noFilter = s.noFilter
      /\ ~fused => r.rrfEvidence = {}
  BY FieldsOfTheResponse
<1>2. fused => r.root = Root(s) /\ r.rrfEvidence = {of(scope) : scope \in scopes}
  BY AvailableEvidence DEF EvidenceOf
<1>3. /\ {role.scope : role \in Contract!RoleSequences(s.mode, s.noFilter)} = scopes
      /\ Contract!IsHybrid(s.mode) <=> Hybrid(s.mode)
  BY SameRoles
<1>4. \A scope : of(scope).scope = scope
  BY EvidenceOfAFusion
<1>5. ASSUME fused, NEW scope \in scopes
      PROVE  LET bm25 == Contract!SourceOf(r, scope, "bm25").summary
                 ann == Contract!SourceOf(r, scope, "ann").summary
             IN  /\ of(scope).filterResult = Contract!BoundFilterResult(r, scope)
                 /\ of(scope).ranks["bm25"] = bm25.rank /\ of(scope).ranks["ann"] = ann.rank
                 /\ of(scope).returned \in Contract!UnionBounds(bm25, ann)
  <2>1. /\ scope \in {"stored", "no_filter"}
        /\ [scope |-> scope, signal |-> "bm25"] \in Roles(s.mode, s.noFilter)
        /\ [scope |-> scope, signal |-> "ann"] \in Roles(s.mode, s.noFilter)
    BY <1>5, HybridHasFusedLists
  <2>2. /\ Contract!SourceOf(r, scope, "bm25").summary = Summary(s, [scope |-> scope, signal |-> "bm25"])
        /\ Contract!SourceOf(r, scope, "ann").summary = Summary(s, [scope |-> scope, signal |-> "ann"])
    BY <1>5, <2>1, SourceIsTheEvidence
  <2>3. of(scope).returned \in Contract!UnionBounds(Summary(s, [scope |-> scope, signal |-> "bm25"]),
                                                     Summary(s, [scope |-> scope, signal |-> "ann"]))
    BY <1>5, FusionCountsFit
  <2>4. /\ of(scope).ranks = Ranks(s, scope, Target)
        /\ of(scope).filterResult = FilterResult(scope, Root(s))
    BY EvidenceOfAFusion
  <2>5. /\ Ranks(s, scope, Target)["bm25"] = Summary(s, [scope |-> scope, signal |-> "bm25"]).rank
        /\ Ranks(s, scope, Target)["ann"] = Summary(s, [scope |-> scope, signal |-> "ann"]).rank
    BY DEF Ranks, Summary
  <2> HIDE DEF r, of
  <2>6. FilterResult(scope, Root(s)) = Contract!BoundFilterResult(r, scope)
    BY <1>2, <1>5, <2>1 DEF FilterResult, Contract!BoundFilterResult
  <2>7. QED
    BY <2>2, <2>3, <2>4, <2>5, <2>6
<1> HIDE DEF r, scopes, of
<1>6. {e.scope : e \in r.rrfEvidence} = IF fused THEN scopes ELSE {}
  BY <1>1, <1>2, <1>4
<1>7. \A e \in r.rrfEvidence : fused /\ e.scope \in scopes /\ e = of(e.scope)
  BY <1>1, <1>2, <1>4
<1>8. \A e, f \in r.rrfEvidence : e.scope = f.scope => e = f
  BY <1>7
<1>9. \A e \in r.rrfEvidence :
        LET bm25 == Contract!SourceOf(r, e.scope, "bm25").summary
            ann == Contract!SourceOf(r, e.scope, "ann").summary
        IN  /\ e.filterResult = Contract!BoundFilterResult(r, e.scope)
            /\ e.ranks["bm25"] = bm25.rank /\ e.ranks["ann"] = ann.rank
            /\ e.returned \in Contract!UnionBounds(bm25, ann)
  BY <1>5, <1>7
<1>10. Contract!ValidRrfCover(r)
  BY <1>1, <1>3, <1>6, <1>8, <1>9 DEF Contract!ValidRrfCover
<1>11. QED
  BY <1>10 DEF r

-----------------------------------------------------------------------------
(* The observations of an honest answer.                                   *)

\* An observation that the contract accepts, and the item it is about.
IsAbout(r, o, item) ==
  Contract!ValidObservation(r, o) /\ Contract!Fingerprint(o) = <<o.code, {item}>>

\* The codes of a cutoff, with the certainty that goes with them.
ShowsCutoff(o, cut) ==
  /\ o.origin = "client_computed" /\ o.code # "filter_predicate_failed"
  /\ o.code = "not_observable" <=> cut.relation = "not_observable"
  /\ o.code # "not_observable" => <<cut.signal, cut.relation>> = Contract!CutoffOf[o.code]
  /\ o.certainty = Certainty(cut.scope, cut.relation)

\* An observation with one cutoff and no filter result is about the cutoff.
LEMMA CutoffObservation ==
  ASSUME NEW r, NEW o, NEW cut, cut \in o.items, cut.kind = "cutoff",
         \A item \in o.items : item.kind \in {"cutoff", "filter"} => item = cut,
         \A item \in o.items : Contract!ItemRefers(r, o, item),
         ~(r.root = "false" /\ cut.scope = "stored" /\ cut.relation = "not_observable"),
         ShowsCutoff(o, cut)
  PROVE  IsAbout(r, o, cut)
<1> DEFINE filters == Contract!OfKind(o, "filter")
           cutoffs == Contract!OfKind(o, "cutoff")
           scopes == {c.scope : c \in cutoffs}
           fusions == {c \in cutoffs : c.signal = "rrf"}
<1>1. filters = {} /\ cutoffs = {cut}
  BY DEF Contract!OfKind
<1>2. scopes = {cut.scope} /\ (fusions = {} \/ fusions = {cut})
  BY <1>1
<1>3. Contract!Cardinality(fusions) <= 1 /\ Contract!Cardinality(scopes) <= 1
  <2>1. Cardinality(fusions) \in {0, 1}
    BY <1>2, FS_EmptySet, FS_Singleton
  <2>2. Cardinality(scopes) = 1
    BY <1>2, FS_Singleton
  <2> HIDE DEF fusions, scopes
  <2>3. QED
    BY <2>1, <2>2, SameCardinality
<1>4. Contract!CodeShown(o)
  <2>1. CASE o.code = "not_observable"
    BY <1>1, <2>1 DEF ShowsCutoff, Contract!CodeShown
  <2>2. CASE o.code # "not_observable"
    BY <1>1, <2>2 DEF ShowsCutoff, Contract!CodeShown
  <2>3. QED
    BY <2>1, <2>2
<1>5. o.certainty = Contract!ObservationCertainty(o)
  <2>1. (\E c \in Contract!OfKind(o, "cutoff") : c.scope = "no_filter") <=> cut.scope = "no_filter"
    BY <1>1
  <2>2. QED
    BY <2>1 DEF ShowsCutoff, Certainty, Contract!ObservationCertainty
<1>6. \A c \in cutoffs : ~(r.root = "false" /\ c.scope = "stored" /\ c.relation = "not_observable")
  BY <1>1
<1>7. o.origin # "live_diagnostic"
  BY DEF ShowsCutoff
<1> HIDE DEF filters, cutoffs, scopes, fusions
<1>8. Contract!ValidObservation(r, o)
  BY <1>1, <1>3, <1>4, <1>5, <1>6, <1>7 DEF Contract!ValidObservation, filters, cutoffs, scopes, fusions
<1>9. Contract!Fingerprint(o) = <<o.code, {cut}>>
  <2> DEFINE subject(item) ==
        \/ item.kind = "filter" /\ item.result = (IF o.code = "not_observable" THEN "unknown" ELSE "false")
        \/ item.kind = "cutoff" /\ IF o.code = "not_observable" THEN item.relation = "not_observable"
                                   ELSE o.code # "filter_predicate_failed"
                                        /\ <<item.signal, item.relation>> = Contract!CutoffOf[o.code]
  <2>1. subject(cut)
    BY DEF ShowsCutoff
  <2>2. \A item \in o.items : subject(item) => item = cut
    OBVIOUS
  <2>3. Contract!Fingerprint(o) = <<o.code, {item \in o.items : subject(item)}>>
    BY DEF Contract!Fingerprint
  <2> HIDE DEF subject
  <2>4. {item \in o.items : subject(item)} = {cut}
    BY <2>1, <2>2
  <2>5. QED
    BY <2>3, <2>4
<1>10. QED
  BY <1>8, <1>9 DEF IsAbout

\* A finding about a leaf of the filter.
LeafItem(i, root) == [kind |-> "filter", node |-> i, result |-> root]

LeafObservation(i, root) ==
  Observation(IF root = "false" THEN "filter_predicate_failed" ELSE "not_observable",
              {LeafItem(i, root)},
              IF root = "false" THEN "observed" ELSE "insufficient")

LEMMA LeafObservationIsValid ==
  ASSUME NEW r, NEW root \in {"false", "unknown"}, r.root = root, NEW i,
         NEW e \in r.filterEvidence, e.node = i, e.result = root
  PROVE  IsAbout(r, LeafObservation(i, root), LeafItem(i, root))
<1> DEFINE o == LeafObservation(i, root)
           item == LeafItem(i, root)
<1>1. item.kind = "filter" /\ item.node = i /\ item.result = root
  BY DEF LeafItem
<1>2. /\ o.items = {item} /\ o.origin = "client_computed"
      /\ o.code = IF root = "false" THEN "filter_predicate_failed" ELSE "not_observable"
      /\ o.certainty = IF root = "false" THEN "observed" ELSE "insufficient"
  BY DEF LeafObservation, Observation
<1> HIDE DEF o, item
<1>3. Contract!OfKind(o, "filter") = {item} /\ Contract!OfKind(o, "cutoff") = {}
  BY <1>1, <1>2 DEF Contract!OfKind
<1>4. Contract!ItemRefers(r, o, item)
  BY <1>1 DEF Contract!ItemRefers
<1>5. Contract!CodeShown(o)
  BY <1>1, <1>2, <1>3 DEF Contract!CodeShown
<1>6. o.certainty = Contract!ObservationCertainty(o)
  BY <1>2, <1>3 DEF Contract!ObservationCertainty
<1>7. Contract!Cardinality({}) = 0
  BY FS_EmptySet, SameCardinality
<1>8. {c.scope : c \in Contract!OfKind(o, "cutoff")} = {}
      /\ {c \in Contract!OfKind(o, "cutoff") : c.signal = "rrf"} = {}
  BY <1>3
<1>9. Contract!ValidObservation(r, o)
  BY <1>1, <1>2, <1>3, <1>4, <1>5, <1>6, <1>7, <1>8 DEF Contract!ValidObservation
<1>10. Contract!Fingerprint(o) = <<o.code, {item}>>
  <2> DEFINE subject(x) ==
        \/ x.kind = "filter" /\ x.result = (IF o.code = "not_observable" THEN "unknown" ELSE "false")
        \/ x.kind = "cutoff" /\ IF o.code = "not_observable" THEN x.relation = "not_observable"
                                ELSE o.code # "filter_predicate_failed"
                                     /\ <<x.signal, x.relation>> = Contract!CutoffOf[o.code]
  <2>1. subject(item)
    BY <1>1, <1>2
  <2>2. Contract!Fingerprint(o) = <<o.code, {x \in o.items : subject(x)}>>
    BY DEF Contract!Fingerprint
  <2> HIDE DEF subject
  <2>3. {x \in o.items : subject(x)} = {item}
    BY <1>2, <2>1
  <2>4. QED
    BY <2>2, <2>3
<1>11. QED
  BY <1>9, <1>10 DEF IsAbout, o, item

\* A finding about a candidate list.
LEMMA CandidateObservationIsValid ==
  ASSUME NEW s, SoundSnapshot(s), s.available, NEW role \in Roles(s.mode, s.noFilter),
         ~Suppressed(role.scope, CandidateEvidence(s, role, Root(s)).relation, Root(s))
  PROVE  LET e == CandidateEvidence(s, role, Root(s))
         IN  IsAbout(Response(s), CandidateObservation(e), CutoffItem(role.scope, role.signal, e.relation))
<1> DEFINE r == Response(s)
           e == CandidateEvidence(s, role, Root(s))
           o == CandidateObservation(e)
           cut == CutoffItem(role.scope, role.signal, e.relation)
           direct == [kind |-> "direct", signal |-> role.signal, score |-> Direct(s, role.signal)]
<1>1. /\ e.role = role /\ e.direct = Direct(s, role.signal)
      /\ e.certainty = Certainty(role.scope, e.relation)
  BY EvidenceOfARole
<1>2. CandidateRelation(role, e.relation)
  BY CandidateEvidenceIsValid
<1>3. /\ role = [scope |-> role.scope, signal |-> role.signal]
      /\ role.signal \in {"bm25", "ann"} /\ role.scope \in {"stored", "no_filter"}
  BY RolesAreRecords
<1>4. e \in r.candidateEvidence
  BY EvidenceByRole
<1>5. r.root = Root(s) /\ r.bm25 = s.bm25 /\ r.distance = s.distance
  BY FieldsOfTheResponse
<1> HIDE DEF r, e
<1>6. /\ o.items = {cut, direct} /\ o.origin = "client_computed"
      /\ o.code = CandidateCode(role.signal, e.relation) /\ o.certainty = e.certainty
  BY <1>1 DEF CandidateObservation, Observation
<1>7. /\ cut.kind = "cutoff" /\ cut.scope = role.scope /\ cut.signal = role.signal
      /\ cut.relation = e.relation
  BY DEF CutoffItem
<1>8. direct.kind = "direct" /\ direct.signal = role.signal /\ direct.score = Direct(s, role.signal)
  OBVIOUS
<1>9. e.relation # "target_present"
      /\ ~(Root(s) = "false" /\ role.scope = "stored" /\ e.relation = "not_observable")
  BY DEF Suppressed, e
<1> HIDE DEF o, cut, direct
<1>10. ShowsCutoff(o, cut)
  <2>1. CASE e.relation = "not_observable"
    <3>1. o.code = "not_observable"
      BY <1>6, <2>1 DEF CandidateCode
    <3>2. QED
      BY <1>1, <1>6, <1>7, <2>1, <3>1 DEF ShowsCutoff
  <2>2. CASE e.relation = "no_lexical_score"
    <3>1. role.signal = "bm25" /\ o.code = "no_lexical_score"
      BY <1>2, <1>6, <2>2 DEF CandidateCode, CandidateRelation
    <3>2. Contract!CutoffOf["no_lexical_score"] = <<"bm25", "no_lexical_score">>
      BY DEF Contract!CutoffOf
    <3>3. QED
      BY <1>1, <1>6, <1>7, <2>2, <3>1, <3>2 DEF ShowsCutoff
  <2>3. CASE e.relation = "ann_candidate_miss"
    <3>1. role.signal = "ann" /\ o.code = "ann_candidate_miss"
      BY <1>2, <1>6, <2>3 DEF CandidateCode, CandidateRelation
    <3>2. Contract!CutoffOf["ann_candidate_miss"] = <<"ann", "ann_candidate_miss">>
      BY DEF Contract!CutoffOf
    <3>3. QED
      BY <1>1, <1>6, <1>7, <2>3, <3>1, <3>2 DEF ShowsCutoff
  <2>4. CASE e.relation = "outside_candidates" /\ role.signal = "bm25"
    <3>1. o.code = "outside_lexical_candidates"
      BY <1>6, <2>4 DEF CandidateCode
    <3>2. Contract!CutoffOf["outside_lexical_candidates"] = <<"bm25", "outside_candidates">>
      BY DEF Contract!CutoffOf
    <3>3. QED
      BY <1>1, <1>6, <1>7, <2>4, <3>1, <3>2 DEF ShowsCutoff
  <2>5. CASE e.relation = "outside_candidates" /\ role.signal = "ann"
    <3>1. o.code = "outside_vector_candidates"
      BY <1>6, <2>5 DEF CandidateCode
    <3>2. Contract!CutoffOf["outside_vector_candidates"] = <<"ann", "outside_candidates">>
      BY DEF Contract!CutoffOf
    <3>3. QED
      BY <1>1, <1>6, <1>7, <2>5, <3>1, <3>2 DEF ShowsCutoff
  <2>6. QED
    BY <1>2, <1>3, <1>9, <2>1, <2>2, <2>3, <2>4, <2>5 DEF CandidateRelation
<1>11. Contract!ItemRefers(r, o, cut)
  <2>1. e.role = [scope |-> cut.scope, signal |-> cut.signal] /\ e.relation = cut.relation
    BY <1>1, <1>3, <1>7
  <2>2. cut.kind = "cutoff" /\ cut.signal # "rrf"
    BY <1>3, <1>7
  <2>3. QED
    BY <1>4, <2>1, <2>2 DEF Contract!ItemRefers
<1>12. Contract!ItemRefers(r, o, direct)
  <2>1. direct.score = Contract!ResponseDirect(r, direct.signal)
    BY <1>5, <1>8 DEF Contract!ResponseDirect, Direct
  <2>2. QED
    BY <1>8, <2>1 DEF Contract!ItemRefers
<1>13. /\ cut \in o.items
       /\ \A item \in o.items : item.kind \in {"cutoff", "filter"} => item = cut
       /\ \A item \in o.items : Contract!ItemRefers(r, o, item)
  BY <1>6, <1>8, <1>11, <1>12
<1>14. ~(r.root = "false" /\ cut.scope = "stored" /\ cut.relation = "not_observable")
  BY <1>5, <1>7, <1>9
<1>15. IsAbout(r, o, cut)
  BY <1>7, <1>10, <1>13, <1>14, CutoffObservation
<1>16. QED
  BY <1>15 DEF r, e, o, cut

\* A finding about a fusion.
LEMMA RrfObservationIsValid ==
  ASSUME NEW s, SoundSnapshot(s), s.available, Hybrid(s.mode), NEW scope \in Scopes(s.noFilter),
         ~Suppressed(scope, QualifiedRrf(s, scope, Root(s)).relation, Root(s))
  PROVE  LET e == QualifiedRrf(s, scope, Root(s))
         IN  IsAbout(Response(s), RrfObservation(e), CutoffItem(scope, "rrf", e.relation))
<1> DEFINE r == Response(s)
           e == QualifiedRrf(s, scope, Root(s))
           o == RrfObservation(e)
           cut == CutoffItem(scope, "rrf", e.relation)
           score == [kind |-> "score", scope |-> scope, score |-> e.score]
           share(x) == [kind |-> "share", scope |-> scope, signal |-> x, rank |-> e.ranks[x]]
           ranked == {x \in {"bm25", "ann"} : e.ranks[x] # None}
           fusions == {c \in Contract!OfKind(o, "cutoff") : c.signal = "rrf"}
           source == CHOOSE f \in r.rrfEvidence : \E c \in fusions : f.scope = c.scope
<1>1. /\ e.scope = scope /\ e.certainty = Certainty(scope, e.relation)
      /\ e.ranks = Ranks(s, scope, Target)
  BY EvidenceOfAFusion
<1>2. e.relation \in {"target_present", "not_observable", "outside_candidates"}
  BY FusionEvidenceIsValid
<1>3. /\ r.root = Root(s)
      /\ r.rrfEvidence = {QualifiedRrf(s, x, Root(s)) : x \in Scopes(s.noFilter)}
  BY AvailableEvidence DEF EvidenceOf
<1>4. e \in r.rrfEvidence /\ \A f \in r.rrfEvidence : f.scope = scope => f = e
  <2>1. \A x : QualifiedRrf(s, x, Root(s)).scope = x
    BY EvidenceOfAFusion
  <2> HIDE DEF r
  <2>2. QED
    BY <1>3, <2>1
<1>5. ASSUME NEW x \in {"bm25", "ann"}
      PROVE  Contract!SourceOf(r, scope, x).summary.rank = e.ranks[x]
  <2>1. [scope |-> scope, signal |-> x] \in Roles(s.mode, s.noFilter)
    BY HybridHasFusedLists
  <2>2. Contract!SourceOf(r, scope, x).summary = Summary(s, [scope |-> scope, signal |-> x])
    BY <2>1, SourceIsTheEvidence
  <2>3. Summary(s, [scope |-> scope, signal |-> x]).rank = Ranks(s, scope, Target)[x]
    BY DEF Summary, Ranks
  <2> HIDE DEF r, e
  <2>4. QED
    BY <1>1, <2>2, <2>3
<1> HIDE DEF r, e
<1>6. /\ o.items = {cut, score} \union {share(x) : x \in ranked} /\ o.origin = "client_computed"
      /\ o.code = IF e.relation = "outside_candidates" THEN "outside_fusion_top_k" ELSE "not_observable"
      /\ o.certainty = e.certainty
  BY <1>1 DEF RrfObservation, Observation
<1>7. /\ cut.kind = "cutoff" /\ cut.scope = scope /\ cut.signal = "rrf" /\ cut.relation = e.relation
      /\ score.kind = "score" /\ score.scope = scope /\ score.score = e.score
      /\ \A x : /\ share(x).kind = "share" /\ share(x).scope = scope /\ share(x).signal = x
                /\ share(x).rank = e.ranks[x]
  BY DEF CutoffItem
<1>8. e.relation # "target_present"
      /\ ~(Root(s) = "false" /\ scope = "stored" /\ e.relation = "not_observable")
  BY DEF Suppressed, e
<1> HIDE DEF o, cut, score, share
<1>9. ShowsCutoff(o, cut)
  <2>1. CASE e.relation = "not_observable"
    BY <1>1, <1>6, <1>7, <2>1 DEF ShowsCutoff
  <2>2. CASE e.relation = "outside_candidates"
    <3>1. Contract!CutoffOf["outside_fusion_top_k"] = <<"rrf", "outside_candidates">>
      BY DEF Contract!CutoffOf
    <3>2. QED
      BY <1>1, <1>6, <1>7, <2>2, <3>1 DEF ShowsCutoff
  <2>3. QED
    BY <1>2, <1>8, <2>1, <2>2
<1>10. \A item \in o.items : item = cut \/ item = score \/ \E x \in {"bm25", "ann"} : item = share(x)
  BY <1>6
<1>11. \A item \in o.items : item.kind \in {"cutoff", "filter"} => item = cut
  BY <1>7, <1>10
<1>12. cut \in o.items
  BY <1>6
<1>13. fusions = {cut}
  <2>1. Contract!OfKind(o, "cutoff") = {cut}
    BY <1>7, <1>11, <1>12 DEF Contract!OfKind
  <2>2. QED
    BY <1>7, <2>1
<1>14. source = e
  <2>1. \A f : (\E c \in fusions : f.scope = c.scope) <=> f.scope = scope
    BY <1>7, <1>13
  <2> HIDE DEF fusions
  <2>2. QED
    BY <1>1, <1>4, <2>1
<1>15. Contract!ItemRefers(r, o, cut)
  BY <1>1, <1>4, <1>7 DEF Contract!ItemRefers
<1>16. Contract!ItemRefers(r, o, score)
  <2>1. fusions # {} /\ score.score = source.score /\ score.scope = source.scope
    BY <1>1, <1>7, <1>13, <1>14
  <2>2. score.kind = "score"
    BY <1>7
  <2>3. QED
    BY <2>1, <2>2 DEF Contract!ItemRefers
<1>17. ASSUME NEW x \in {"bm25", "ann"} PROVE Contract!ItemRefers(r, o, share(x))
  <2> DEFINE item == share(x)
  <2>1. item.kind = "share" /\ item.scope = scope /\ item.signal = x /\ item.rank = e.ranks[x]
    BY <1>7
  <2> HIDE DEF item
  <2>2. /\ fusions # {} /\ item.scope = source.scope
        /\ item.rank = Contract!SourceOf(r, source.scope, item.signal).summary.rank
    BY <1>1, <1>5, <1>13, <1>14, <2>1
  <2>3. Contract!ItemRefers(r, o, item)
    BY <2>1, <2>2 DEF Contract!ItemRefers
  <2>4. QED
    BY <2>3 DEF item
<1>18. \A item \in o.items : Contract!ItemRefers(r, o, item)
  BY <1>10, <1>15, <1>16, <1>17
<1>19. ~(r.root = "false" /\ cut.scope = "stored" /\ cut.relation = "not_observable")
  BY <1>3, <1>7, <1>8
<1>20. IsAbout(r, o, cut)
  BY <1>7, <1>9, <1>11, <1>12, <1>18, <1>19, CutoffObservation
<1>21. QED
  BY <1>20 DEF r, e, o, cut

\* What there is to observe: a leaf of the filter, a list, or a fusion.
LeafFinding(s, o) ==
  \E i \in Predicates(s.filter) :
    o = LeafObservation(i, Root(s)) /\ IsAbout(Response(s), o, LeafItem(i, Root(s)))

CandidateFinding(s, o) ==
  \E role \in Roles(s.mode, s.noFilter) :
    LET e == CandidateEvidence(s, role, Root(s))
    IN  o = CandidateObservation(e) /\ IsAbout(Response(s), o, CutoffItem(role.scope, role.signal, e.relation))

FusionFinding(s, o) ==
  \E scope \in Scopes(s.noFilter) :
    LET e == QualifiedRrf(s, scope, Root(s))
    IN  o = RrfObservation(e) /\ IsAbout(Response(s), o, CutoffItem(scope, "rrf", e.relation))

LEMMA ObservationsAreFindings ==
  ASSUME NEW s, SoundSnapshot(s), s.available, NEW o \in Response(s).observations
  PROVE  LeafFinding(s, o) \/ CandidateFinding(s, o) \/ FusionFinding(s, o)
<1> DEFINE root == Root(s)
           candidates == {CandidateEvidence(s, role, root) : role \in Roles(s.mode, s.noFilter)}
           fusions == IF Hybrid(s.mode) THEN {QualifiedRrf(s, scope, root) : scope \in Scopes(s.noFilter)} ELSE {}
<1>1. Response(s).observations =
        FilterObservations(s)
          \union {CandidateObservation(e) : e \in {c \in candidates : ~Suppressed(c.role.scope, c.relation, root)}}
          \union {RrfObservation(e) : e \in {f \in fusions : ~Suppressed(f.scope, f.relation, root)}}
  BY DEF Response, Analysis
<1>2. ASSUME o \in FilterObservations(s) PROVE LeafFinding(s, o)
  <2> DEFINE results == Results(s)
  <2>1. FilterObservations(s) = IF root \notin {"false", "unknown"} THEN {}
          ELSE {LeafObservation(i, root) : i \in {j \in Witnesses(s.filter, results) : results[j] = root}}
    BY DEF FilterObservations, LeafObservation, LeafItem
  <2>2. root \in {"false", "unknown"}
    BY <1>2, <2>1
  <2>3. PICK i \in Witnesses(s.filter, results) : results[i] = root /\ o = LeafObservation(i, root)
    BY <1>2, <2>1
  <2>4. s.filter # None
    BY <2>2, RootIsDecided, NoneIsNothingElse
  <2>5. i \in Predicates(s.filter)
    BY DEF Witnesses
  <2> DEFINE e == [node |-> i, result |-> results[i],
                   certainty |-> IF results[i] = "unknown" THEN "insufficient" ELSE "observed"]
  <2>6. e \in FilterEvidence(s)
    BY <2>4, <2>5 DEF FilterEvidence
  <2>7. Response(s).filterEvidence = FilterEvidence(s) /\ Response(s).root = root
    BY AvailableEvidence DEF EvidenceOf
  <2>8. e.node = i /\ e.result = root
    BY <2>3
  <2> HIDE DEF e, root
  <2>9. IsAbout(Response(s), LeafObservation(i, root), LeafItem(i, root))
    BY <2>2, <2>6, <2>7, <2>8, LeafObservationIsValid
  <2>10. QED
    BY <2>3, <2>5, <2>9 DEF LeafFinding, root
<1>3. ASSUME NEW e \in candidates, ~Suppressed(e.role.scope, e.relation, root), o = CandidateObservation(e)
      PROVE  CandidateFinding(s, o)
  <2>1. PICK role \in Roles(s.mode, s.noFilter) : e = CandidateEvidence(s, role, root)
    OBVIOUS
  <2>2. e.role = role
    BY <2>1, EvidenceOfARole
  <2>3. IsAbout(Response(s), CandidateObservation(e), CutoffItem(role.scope, role.signal, e.relation))
    BY <1>3, <2>1, <2>2, CandidateObservationIsValid
  <2>4. QED
    BY <1>3, <2>1, <2>3 DEF CandidateFinding
<1>4. ASSUME NEW e \in fusions, ~Suppressed(e.scope, e.relation, root), o = RrfObservation(e)
      PROVE  FusionFinding(s, o)
  <2>1. Hybrid(s.mode)
    OBVIOUS
  <2>2. PICK scope \in Scopes(s.noFilter) : e = QualifiedRrf(s, scope, root)
    BY <2>1
  <2>3. e.scope = scope
    BY <2>2, EvidenceOfAFusion
  <2>4. IsAbout(Response(s), RrfObservation(e), CutoffItem(scope, "rrf", e.relation))
    BY <1>4, <2>1, <2>2, <2>3, RrfObservationIsValid
  <2>5. QED
    BY <1>4, <2>2, <2>4 DEF FusionFinding
<1> HIDE DEF candidates, fusions
<1>5. QED
  BY <1>1, <1>2, <1>3, <1>4

\* No two findings are about the same.
LEMMA FindingsDiffer ==
  ASSUME NEW s, SoundSnapshot(s), s.available,
         NEW o \in Response(s).observations, NEW p \in Response(s).observations,
         Contract!Fingerprint(o) = Contract!Fingerprint(p)
  PROVE  o = p
<1>1. ASSUME NEW item, NEW other, IsAbout(Response(s), o, item), IsAbout(Response(s), p, other)
      PROVE  item = other
  <2>1. <<o.code, {item}>> = <<p.code, {other}>>
    BY <1>1 DEF IsAbout
  <2>2. {item} = {other}
    BY <2>1
  <2>3. QED
    BY <2>2
<1>2. \A i, j, root : /\ LeafItem(i, root) = LeafItem(j, root) => i = j
                      /\ \A x, y, z : LeafItem(i, root) # CutoffItem(x, y, z)
  <2> SUFFICES ASSUME NEW i, NEW j, NEW root
               PROVE  /\ LeafItem(i, root) = LeafItem(j, root) => i = j
                      /\ \A x, y, z : LeafItem(i, root) # CutoffItem(x, y, z)
    OBVIOUS
  <2>1. \A k : LeafItem(k, root).node = k /\ LeafItem(k, root).kind = "filter"
    BY DEF LeafItem
  <2>2. \A x, y, z : CutoffItem(x, y, z).kind = "cutoff"
    BY DEF CutoffItem
  <2>3. QED
    BY <2>1, <2>2
<1>3. \A x, y, z, u, v, w : CutoffItem(x, y, z) = CutoffItem(u, v, w) => x = u /\ y = v
  <2>1. \A x, y, z : CutoffItem(x, y, z).scope = x /\ CutoffItem(x, y, z).signal = y
    BY DEF CutoffItem
  <2>2. QED
    BY <2>1
<1>4. ASSUME LeafFinding(s, o) PROVE o = p
  <2>1. PICK i \in Predicates(s.filter) :
          o = LeafObservation(i, Root(s)) /\ IsAbout(Response(s), o, LeafItem(i, Root(s)))
    BY <1>4 DEF LeafFinding
  <2>2. CASE LeafFinding(s, p)
    <3>1. PICK j \in Predicates(s.filter) :
            p = LeafObservation(j, Root(s)) /\ IsAbout(Response(s), p, LeafItem(j, Root(s)))
      BY <2>2 DEF LeafFinding
    <3>2. QED
      BY <1>1, <1>2, <2>1, <3>1
  <2>3. CASE CandidateFinding(s, p)
    BY <1>1, <1>2, <2>1, <2>3 DEF CandidateFinding
  <2>4. CASE FusionFinding(s, p)
    BY <1>1, <1>2, <2>1, <2>4 DEF FusionFinding
  <2>5. QED
    BY <2>2, <2>3, <2>4, ObservationsAreFindings
<1>5. ASSUME CandidateFinding(s, o) PROVE o = p
  <2>1. PICK role \in Roles(s.mode, s.noFilter) :
          LET e == CandidateEvidence(s, role, Root(s))
          IN  o = CandidateObservation(e) /\ IsAbout(Response(s), o, CutoffItem(role.scope, role.signal, e.relation))
    BY <1>5 DEF CandidateFinding
  <2>2. role = [scope |-> role.scope, signal |-> role.signal] /\ role.signal # "rrf"
    BY RolesAreRecords
  <2>3. CASE LeafFinding(s, p)
    BY <1>1, <1>2, <2>1, <2>3 DEF LeafFinding
  <2>4. CASE CandidateFinding(s, p)
    <3>1. PICK other \in Roles(s.mode, s.noFilter) :
            LET e == CandidateEvidence(s, other, Root(s))
            IN  p = CandidateObservation(e) /\ IsAbout(Response(s), p, CutoffItem(other.scope, other.signal, e.relation))
      BY <2>4 DEF CandidateFinding
    <3>2. other = [scope |-> other.scope, signal |-> other.signal]
      BY RolesAreRecords
    <3>3. role.scope = other.scope /\ role.signal = other.signal
      BY <1>1, <1>3, <2>1, <3>1
    <3>4. role = other
      BY <2>2, <3>2, <3>3
    <3>5. QED
      BY <2>1, <3>1, <3>4
  <2>5. CASE FusionFinding(s, p)
    BY <1>1, <1>3, <2>1, <2>2, <2>5 DEF FusionFinding
  <2>6. QED
    BY <2>3, <2>4, <2>5, ObservationsAreFindings
<1>6. ASSUME FusionFinding(s, o) PROVE o = p
  <2>1. PICK scope \in Scopes(s.noFilter) :
          LET e == QualifiedRrf(s, scope, Root(s))
          IN  o = RrfObservation(e) /\ IsAbout(Response(s), o, CutoffItem(scope, "rrf", e.relation))
    BY <1>6 DEF FusionFinding
  <2>2. CASE LeafFinding(s, p)
    BY <1>1, <1>2, <2>1, <2>2 DEF LeafFinding
  <2>3. CASE CandidateFinding(s, p)
    <3>1. \A role \in Roles(s.mode, s.noFilter) : role.signal # "rrf"
      BY RolesAreRecords
    <3>2. QED
      BY <1>1, <1>3, <2>1, <2>3, <3>1 DEF CandidateFinding
  <2>4. CASE FusionFinding(s, p)
    BY <1>1, <1>3, <2>1, <2>4 DEF FusionFinding
  <2>5. QED
    BY <2>2, <2>3, <2>4, ObservationsAreFindings
<1>7. QED
  BY <1>4, <1>5, <1>6, ObservationsAreFindings

LEMMA ObservationsAreValid ==
  ASSUME NEW s, SoundSnapshot(s)
  PROVE  Contract!ValidObservations(Response(s))
<1> DEFINE r == Response(s)
<1>1. r.available = s.available
  BY FieldsOfTheResponse
<1>2. CASE ~s.available
  <2>1. r.observations = {UnavailableObservation}
    BY <1>2 DEF Response, Analysis
  <2>2. Contract!Cardinality({UnavailableObservation}) = 1
    BY FS_Singleton, SameCardinality
  <2>3. LET o == UnavailableObservation
        IN  /\ o.code = "not_observable" /\ o.origin = "live_diagnostic"
            /\ o.certainty = "insufficient" /\ o.items = {}
    BY DEF UnavailableObservation
  <2> HIDE DEF r
  <2>4. Contract!ValidObservations(r)
    BY <1>1, <1>2, <2>1, <2>2, <2>3 DEF Contract!ValidObservations
  <2>5. QED
    BY <2>4 DEF r
<1>3. CASE s.available
  <2>1. \A o \in r.observations : Contract!ValidObservation(r, o)
    BY <1>3, ObservationsAreFindings DEF LeafFinding, CandidateFinding, FusionFinding, IsAbout
  <2>2. \A o, p \in r.observations : Contract!Fingerprint(o) = Contract!Fingerprint(p) => o = p
    BY <1>3, FindingsDiffer
  <2> HIDE DEF r
  <2>3. Contract!ValidObservations(r)
    BY <1>1, <1>3, <2>1, <2>2 DEF Contract!ValidObservations
  <2>4. QED
    BY <2>3 DEF r
<1>4. QED
  BY <1>2, <1>3

\* What the analysis computes from an honest answer, the contract accepts.
LEMMA ResponseIsValid ==
  ASSUME NEW s, SoundSnapshot(s)
  PROVE  Contract!ValidResponse(Response(s))
<1> DEFINE r == Response(s)
<1>1. /\ ~s.available => r.candidateEvidence = {}
      /\ ~(s.available /\ Hybrid(s.mode)) => r.rrfEvidence = {}
  BY FieldsOfTheResponse
<1>2. s.available => EvidenceOf(s, r)
  BY AvailableEvidence
<1>3. s.available => \A role \in Roles(s.mode, s.noFilter) :
                       Contract!ValidCandidateEvidence(CandidateEvidence(s, role, Root(s)))
  BY CandidateEvidenceIsValid
<1>4. s.available /\ Hybrid(s.mode) => \A scope \in Scopes(s.noFilter) :
                       Contract!ValidRrfEvidence(QualifiedRrf(s, scope, Root(s)))
  BY FusionEvidenceIsValid
<1>5. /\ Contract!ValidTiming(r)
      /\ {c.role : c \in r.summaries} = Contract!RoleSequences(r.mode, r.noFilter)
      /\ \A c \in r.summaries : c.limit = Contract!CandidateLimit(r.mode) /\ Contract!ValidSummary(c)
  BY SummariesOfTheResponseAreValid
<1>6. /\ Contract!ValidResponseTarget(r) /\ Contract!ValidFilterEvidence(r)
      /\ Contract!ValidCandidateCover(r) /\ Contract!ValidRrfCover(r) /\ Contract!ValidObservations(r)
  BY TargetOfTheResponseIsValid, FilterEvidenceIsValid, CoverOfTheCandidates, CoverOfTheFusions,
     ObservationsAreValid
<1> HIDE DEF r
<1>7. \A e \in r.candidateEvidence : Contract!ValidCandidateEvidence(e)
  BY <1>1, <1>2, <1>3 DEF EvidenceOf
<1>8. \A e \in r.rrfEvidence : Contract!ValidRrfEvidence(e)
  BY <1>1, <1>2, <1>4 DEF EvidenceOf
<1>9. Contract!ValidResponse(r)
  BY <1>5, <1>6, <1>7, <1>8 DEF Contract!ValidResponse
<1>10. QED
  BY <1>9 DEF r

LEMMA HonestAnswersAreAcceptable ==
  ASSUME IsDiagnosis, SoundSnapshot(answer)
  PROVE  Acceptable
<1>1. Decoded(answer) /\ ~Refuses(answer)
  BY HonestAnswersAreDecoded, HonestAnswersAreNotRefused
<1>2. Composed = Response(answer)
  BY DEF Composed
<1>3. QED
  BY <1>1, <1>2, AnalysisIsCrosschecked, ResponseIsValid DEF Acceptable

-----------------------------------------------------------------------------
(* The response to a replay.                                               *)

\* No document is returned twice.
UniqueHits(hits) == \A i, j \in DOMAIN hits : hits[i].doc = hits[j].doc => i = j

LEMMA HybridHitsAreUnique ==
  ASSUME NEW lists, ListPair(lists), NEW mode, NEW fused \in ServerFusions(lists),
         NEW hits \in HybridHits(mode, fused)
  PROVE  /\ UniqueHits(hits)
         /\ \A i \in DOMAIN hits : \E doc, rrf, reranker :
              hits[i] = [doc |-> doc, rrf |-> rrf, reranker |-> reranker]
<1> DEFINE S == Fusible(lists)
           n == Cardinality(S)
<1>1. IsFiniteSet(S) /\ n \in Nat
  BY ScoresAreIntegers, FS_CardinalityType
<1>2. PICK order \in SetToSeqs(S) : fused = SubSeq(order, 1, Min({ResultK, Len(order)}))
  BY DEF ServerFusions
<1> HIDE DEF S, n
<1>3. /\ order \in [1..n -> S] /\ Len(order) = n
      /\ \A i, j \in 1..n : order[i] = order[j] => i = j
  <2>1. order \in [1..n -> S]
    BY <1>2 DEF SetToSeqs, n
  <2>2. DOMAIN order = 1..n /\ \A i, j \in DOMAIN order : order[i] = order[j] => i = j
    BY <1>1, OrdersArePermutations DEF n
  <2>3. QED
    BY <1>1, <2>1, <2>2
<1> DEFINE m == Min({ResultK, n})
<1>4. m \in 0..n
  <2>1. ResultK \in Nat
    BY AnalysisAssumption
  <2>2. m = IF ResultK <= n THEN ResultK ELSE n
    BY <1>1, <2>1, SmallerOfTwo
  <2>3. QED
    BY <1>1, <2>1, <2>2
<1> HIDE DEF m
<1>5. fused \in [1..m -> S] /\ \A k \in 1..m : fused[k] = order[k]
  <2>1. fused = SubSeq(order, 1, m)
    BY <1>2, <1>3 DEF m
  <2>2. n \in Nat
    BY <1>1
  <2>3. /\ SubSeq(order, 1, m) \in [1..m -> S]
        /\ \A k \in 1..m : SubSeq(order, 1, m)[k] = order[k]
    BY <1>3, <1>4, <2>2, CutSequence
  <2>4. QED
    BY <2>1, <2>3
<1>6. \A i, j \in 1..m : fused[i] = fused[j] => i = j
  BY <1>1, <1>3, <1>4, <1>5
<1>7. PICK other \in Reranked(mode, fused) :
        hits = [i \in DOMAIN fused |->
                  [doc |-> other[i], rrf |-> Place(fused, other[i]),
                   reranker |-> IF mode = "hybrid_rerank" THEN i ELSE None]]
  BY DEF HybridHits
<1>8. \A i, j \in 1..m : other[i] = other[j] => i = j
  <2>1. CASE other = fused
    BY <1>6, <2>1
  <2>2. CASE other \in SetToSeqs(ToSet(fused))
    <3> DEFINE F == ToSet(fused)
    <3>1. DOMAIN fused = 1..m /\ F = {fused[i] : i \in 1..m}
      BY <1>5 DEF ToSet
    <3>2. fused \in Surjection(1..m, F) /\ fused \in Injection(1..m, F)
      BY <1>5, <1>6, <3>1 DEF Surjection, Injection, IsInjective
    <3>3. m \in Nat
      BY <1>1, <1>4
    <3>4. IsFiniteSet(1..m) /\ Cardinality(1..m) = m
      BY <3>3, FS_Interval
    <3> HIDE DEF F
    <3>5. IsFiniteSet(F) /\ Cardinality(F) = m
      BY <3>2, <3>4, FS_Surjection
    <3>6. DOMAIN other = 1..m /\ \A i, j \in DOMAIN other : other[i] = other[j] => i = j
      BY <2>2, <3>5, OrdersArePermutations DEF F
    <3>7. QED
      BY <3>6
  <2>3. QED
    BY <1>7, <2>1, <2>2 DEF Reranked
<1>9. DOMAIN hits = 1..m /\ \A i \in 1..m : hits[i].doc = other[i]
  BY <1>5, <1>7
<1>10. UniqueHits(hits)
  BY <1>8, <1>9 DEF UniqueHits
<1>11. QED
  BY <1>5, <1>7, <1>9, <1>10

\* The place of a document is what the contract reads.
LEMMA SamePlace ==
  ASSUME NEW lists, CandidateLists(lists), NEW x \in {"bm25", "ann"}, NEW doc
  PROVE  /\ Contract!PlaceIn(lists[x], doc) = Place(lists[x], doc)
         /\ Place(lists[x], doc) # None <=> Contains(lists[x], doc)
         /\ Contains(lists[x], doc) => Place(lists[x], doc) <= Len(lists[x])
<1> DEFINE list == lists[x]
<1>1. Len(list) \in Nat /\ DOMAIN list = 1..Len(list)
  BY DEF CandidateLists, ListPair
<1> HIDE DEF list
<1>2. Contains(list, doc) <=> \E i \in DOMAIN list : list[i] = doc
  BY <1>1 DEF Contains
<1>3. Contract!PlaceIn(list, doc) = Place(list, doc)
  BY <1>2 DEF Contract!PlaceIn, Place
<1>4. Contains(list, doc) => Place(list, doc) \in 1..Len(list)
  BY <1>1, <1>2 DEF Place
<1>5. ~Contains(list, doc) => Place(list, doc) = None
  BY DEF Place
<1>6. QED
  BY <1>1, <1>3, <1>4, <1>5, NoneIsNothingElse DEF list

\* What the contract asks of one finding about a result.
FindingHolds(f, o, result) ==
  /\ f.code # "ann_candidate_miss"
  /\ Contract!ValidReplayObservation(o)
  /\ Contract!SourceHolds(o.origin, None, o, result)
  /\ \A item \in o.items : Contract!SourceHolds(item.origin, item, o, result)

\* The fields of an observation.
Binds(o, f) ==
  /\ o.doc = f.doc /\ o.code = f.code /\ o.origin = f.origin
  /\ o.items = f.items /\ o.certainty = f.certainty

LEMMA DownrankingHolds ==
  ASSUME NEW result, SoundResult(result), NEW doc, NEW f \in RerankedDown(result, doc),
         NEW o, Binds(o, f)
  PROVE  FindingHolds(f, o, result)
<1> DEFINE hits == result.hits
<1>1. PICK h \in HitFor(hits, doc) :
        /\ result.mode = "hybrid_rerank" /\ h.rrf # None /\ h.reranker # None
        /\ f = Finding(doc, "reranked_down", "primary",
                 {Item("primary", "rank", "rrf", h.rrf), Item("primary", "rank", "reranker", h.reranker)},
                 "observed")
  BY DEF RerankedDown
<1>2. PICK fused \in ServerFusions(result.source) : ListPair(result.source) /\ hits \in HybridHits(result.mode, fused)
  BY <1>1 DEF SoundResult, Hybrid
<1>3. /\ UniqueHits(hits)
      /\ \A i \in DOMAIN hits : \E d, rrf, reranker :
           hits[i] = [doc |-> d, rrf |-> rrf, reranker |-> reranker]
  <2>1. ListPair(result.source)
    BY <1>2
  <2>2. hits \in HybridHits(result.mode, fused)
    BY <1>2
  <2> HIDE DEF hits
  <2>3. QED
    BY <2>1, <2>2, HybridHitsAreUnique
<1>4. /\ o.doc = doc /\ o.code = "reranked_down" /\ o.origin = "primary" /\ o.certainty = "observed"
      /\ f.code = "reranked_down"
      /\ o.items = {Item("primary", "rank", "rrf", h.rrf), Item("primary", "rank", "reranker", h.reranker)}
  BY <1>1 DEF Finding, Binds
<1> HIDE DEF hits
<1>5. PICK i \in DOMAIN hits : hits[i] = h /\ h.doc = doc
  BY DEF HitFor, ToSet
<1>6. Contract!InPrimary(hits, doc) /\ Contract!HitOf(hits, doc) = h
  <2>1. \A g \in {hits[j] : j \in DOMAIN hits} : g.doc = doc => g = h
    BY <1>3, <1>5 DEF UniqueHits
  <2>2. h \in {hits[j] : j \in DOMAIN hits}
    BY <1>5
  <2>3. Contract!HitOf(hits, doc) = h
    BY <1>5, <2>1, <2>2 DEF Contract!HitOf
  <2>4. QED
    BY <1>5, <2>3 DEF Contract!InPrimary
<1>7. h["rrf"] = h.rrf /\ h["reranker"] = h.reranker
  <2>1. PICK d, rrf, reranker : h = [doc |-> d, rrf |-> rrf, reranker |-> reranker]
    BY <1>3, <1>5
  <2>2. QED
    BY <2>1
<1>8. ASSUME NEW item \in o.items
      PROVE  item.origin = "primary" /\ Contract!PrimaryItemHolds(item, hits, doc)
  <2>1. CASE item = Item("primary", "rank", "rrf", h.rrf)
    <3>1. item.origin = "primary" /\ item.kind = "rank" /\ item.stage = "rrf" /\ item.value = h.rrf
      BY <2>1 DEF Item
    <3>2. QED
      BY <1>1, <1>6, <1>7, <3>1 DEF Contract!PrimaryItemHolds
  <2>2. CASE item = Item("primary", "rank", "reranker", h.reranker)
    <3>1. item.origin = "primary" /\ item.kind = "rank" /\ item.stage = "reranker" /\ item.value = h.reranker
      BY <2>2 DEF Item
    <3>2. QED
      BY <1>1, <1>6, <1>7, <3>1 DEF Contract!PrimaryItemHolds
  <2>3. QED
    BY <1>4, <2>1, <2>2
<1>9. Contract!ValidReplayObservation(o)
  BY <1>4, <1>8 DEF Contract!ValidReplayObservation
<1>10. \A item \in o.items : Contract!SourceHolds(item.origin, item, o, result)
  BY <1>4, <1>8 DEF Contract!SourceHolds, hits
<1>11. Contract!SourceHolds(o.origin, None, o, result)
  BY <1>4 DEF Contract!SourceHolds
<1>12. QED
  BY <1>4, <1>9, <1>10, <1>11 DEF FindingHolds

\* Without a probe, or with one that failed, nothing is claimed.
LEMMA UnprobedMissHolds ==
  ASSUME NEW result, result.probe \in {NoProbe, FailedProbe}, NEW doc,
         HitFor(result.hits, doc) = {}, NEW o, Binds(o, MissFinding(result, doc))
  PROVE  FindingHolds(MissFinding(result, doc), o, result)
<1> DEFINE f == MissFinding(result, doc)
<1>1. CASE result.probe = FailedProbe
  <2> DEFINE warning == Item("probe", "warning", "none", "provenance_probe_failed")
  <2>1. result.probe.state = "failed"
    BY <1>1 DEF FailedProbe
  <2>2. f = Finding(doc, "not_observable", "probe", {warning}, "insufficient")
    BY <2>1 DEF MissFinding
  <2> HIDE DEF f
  <2>3. /\ o.code = "not_observable" /\ o.origin = "probe" /\ o.certainty = "insufficient"
        /\ o.items = {warning} /\ f.code = "not_observable"
    BY <2>2 DEF Finding, Binds, f
  <2>4. warning.origin = "probe" /\ warning.kind = "warning"
    BY DEF Item
  <2> HIDE DEF warning
  <2>5. Contract!ValidReplayObservation(o)
    BY <2>3, <2>4 DEF Contract!ValidReplayObservation
  <2>6. Contract!SourceHolds("probe", warning, o, result) /\ Contract!SourceHolds("probe", None, o, result)
    BY <2>1, <2>3, <2>4 DEF Contract!SourceHolds
  <2>7. QED
    BY <2>3, <2>4, <2>5, <2>6 DEF FindingHolds, f
<1>2. CASE result.probe = NoProbe
  <2> DEFINE absent == Item("primary", "presence", "final", FALSE)
  <2>1. result.probe.state = "none"
    BY <1>2 DEF NoProbe
  <2>2. f = Finding(doc, "not_observable", "primary", {absent}, "insufficient")
    BY <2>1 DEF MissFinding
  <2> HIDE DEF f
  <2>3. /\ o.code = "not_observable" /\ o.origin = "primary" /\ o.certainty = "insufficient"
        /\ o.items = {absent} /\ o.doc = doc /\ f.code = "not_observable"
    BY <2>2 DEF Finding, Binds, f
  <2>4. absent.origin = "primary" /\ absent.kind = "presence" /\ absent.stage = "final" /\ absent.value = FALSE
    BY DEF Item
  <2> HIDE DEF absent
  <2>5. Contract!ValidReplayObservation(o)
    BY <2>3, <2>4 DEF Contract!ValidReplayObservation
  <2>6. Contract!InPrimary(result.hits, doc) = FALSE
    BY DEF HitFor, ToSet, Contract!InPrimary
  <2>7. Contract!PrimaryItemHolds(absent, result.hits, doc)
    BY <2>4, <2>6 DEF Contract!PrimaryItemHolds
  <2>8. Contract!SourceHolds("primary", absent, o, result) /\ Contract!SourceHolds("primary", None, o, result)
    BY <2>3, <2>7 DEF Contract!SourceHolds
  <2>9. QED
    BY <2>3, <2>4, <2>5, <2>8 DEF FindingHolds, f
<1>3. QED
  BY <1>1, <1>2

\* What a probe says repeats what its lists hold.
LEMMA ProbedMissHolds ==
  ASSUME NEW result, NEW lists, CandidateLists(lists),
         result.probe = AnalysedProbe(lists, result.hits), NEW doc,
         NEW o, Binds(o, ProbeFinding(result, doc))
  PROVE  FindingHolds(ProbeFinding(result, doc), o, result)
<1> DEFINE f == ProbeFinding(result, doc)
           held == {x \in {"bm25", "ann"} : Contains(lists[x], doc)}
           items == Counts(lists) \union UNION {Membership(lists, x, doc) : x \in {"bm25", "ann"}}
           inPrefix == Place(result.probe.order, doc) <= Len(PrimaryPrefix(result.hits))
           both == Finding(doc, IF inPrefix THEN "not_observable" ELSE "outside_fusion_top_k",
                     "client_computed", items \union {Contribution(lists, x, doc) : x \in held},
                     IF inPrefix THEN "insufficient" ELSE "counterfactual")
<1>1. result.probe.state = "analysed" /\ result.probe.lists = lists
  BY DEF AnalysedProbe
<1>2. f = CASE held = {} -> Finding(doc, "not_observable", "probe", items, "insufficient")
            [] held = {"ann"} -> Finding(doc, "outside_lexical_candidates", "probe", items, "counterfactual")
            [] held = {"bm25"} -> Finding(doc, "outside_vector_candidates", "probe", items, "counterfactual")
            [] OTHER -> both
  BY <1>1 DEF ProbeFinding
<1>3. ASSUME NEW x \in {"bm25", "ann"}
      PROVE  /\ Contract!PlaceIn(lists[x], doc) = Place(lists[x], doc)
             /\ Place(lists[x], doc) # None <=> Contains(lists[x], doc)
             /\ Contains(lists[x], doc) => Place(lists[x], doc) <= Len(lists[x])
  BY SamePlace
<1>4. ASSUME NEW item \in items
      PROVE  item.origin = "probe" /\ Contract!ProbeItemHolds(item, lists, doc)
  <2>1. PICK x \in {"bm25", "ann"} :
          \/ item = Item("probe", "count", x, Len(lists[x]))
          \/ item = Item("probe", "presence", x, Place(lists[x], doc) # None)
          \/ Place(lists[x], doc) # None /\ item = Item("probe", "rank", x, Place(lists[x], doc))
    BY DEF Counts, Membership
  <2>2. CASE item = Item("probe", "count", x, Len(lists[x]))
    <3>1. item.origin = "probe" /\ item.kind = "count" /\ item.stage = x /\ item.value = Len(lists[x])
      BY <2>2 DEF Item
    <3>2. QED
      BY <3>1 DEF Contract!ProbeItemHolds, Contract!CandidateSignals
  <2>3. CASE item = Item("probe", "presence", x, Place(lists[x], doc) # None)
    <3>1. /\ item.origin = "probe" /\ item.kind = "presence" /\ item.stage = x
          /\ item.value = (Place(lists[x], doc) # None)
      BY <2>3 DEF Item
    <3>2. QED
      BY <1>3, <3>1 DEF Contract!ProbeItemHolds, Contract!CandidateSignals
  <2>4. CASE Place(lists[x], doc) # None /\ item = Item("probe", "rank", x, Place(lists[x], doc))
    <3>1. /\ item.origin = "probe" /\ item.kind = "rank" /\ item.stage = x
          /\ item.value = Place(lists[x], doc)
      BY <2>4 DEF Item
    <3>2. QED
      BY <1>3, <2>4, <3>1 DEF Contract!ProbeItemHolds, Contract!CandidateSignals
  <2>5. QED
    BY <2>1, <2>2, <2>3, <2>4
<1>5. ASSUME NEW x \in held
      PROVE  LET item == Contribution(lists, x, doc)
             IN  item.origin = "client_computed" /\ Contract!ProbeItemHolds(item, lists, doc)
  <2> DEFINE item == Contribution(lists, x, doc)
  <2>1. /\ item.origin = "client_computed" /\ item.kind = "contribution" /\ item.stage = x
        /\ item.value = Place(lists[x], doc)
    BY DEF Contribution, Item
  <2> HIDE DEF item
  <2>2. Contract!ProbeItemHolds(item, lists, doc)
    BY <1>3, <2>1 DEF Contract!ProbeItemHolds, Contract!CandidateSignals
  <2>3. QED
    BY <2>1, <2>2 DEF item
<1> HIDE DEF f, items, inPrefix
<1>6. \/ /\ o.origin = "probe" /\ o.items = items
         /\ \/ o.code = "not_observable" /\ o.certainty = "insufficient"
            \/ o.code = "outside_lexical_candidates" /\ o.certainty = "counterfactual"
            \/ o.code = "outside_vector_candidates" /\ o.certainty = "counterfactual"
      \/ /\ o.origin = "client_computed"
         /\ o.items = items \union {Contribution(lists, x, doc) : x \in held}
         /\ \/ o.code = "not_observable" /\ o.certainty = "insufficient"
            \/ o.code = "outside_fusion_top_k" /\ o.certainty = "counterfactual"
  <2>1. CASE held = {}
    BY <1>2, <2>1 DEF Finding, Binds, f
  <2>2. CASE held = {"ann"}
    BY <1>2, <2>2 DEF Finding, Binds, f
  <2>3. CASE held = {"bm25"}
    BY <1>2, <2>3 DEF Finding, Binds, f
  <2>4. CASE held \notin {{}, {"ann"}, {"bm25"}}
    <3>1. f = both
      BY <1>2, <2>4
    <3> HIDE DEF held
    <3>2. QED
      BY <3>1 DEF Finding, Binds, f
  <2>5. QED
    BY <2>1, <2>2, <2>3, <2>4
<1>7. f.code = o.code /\ o.doc = doc
  <2>1. f.doc = doc
    BY <1>2 DEF Finding
  <2>2. QED
    BY <2>1 DEF Binds, f
<1>8. \A item \in o.items :
        /\ item.origin = "probe" \/ (o.origin = "client_computed" /\ item.origin = "client_computed")
        /\ Contract!ProbeItemHolds(item, lists, doc)
  <2> HIDE DEF held
  <2>1. \A item \in o.items : item \in items
          \/ (o.origin = "client_computed" /\ \E x \in held : item = Contribution(lists, x, doc))
    BY <1>6
  <2>2. QED
    BY <1>4, <1>5, <2>1
<1>9. o.certainty # "observed" /\ (o.code = "not_observable" <=> o.certainty = "insufficient")
      /\ o.code # "ann_candidate_miss" /\ o.origin \in {"probe", "client_computed"}
  BY <1>6
<1> HIDE DEF held
<1>10. Contract!ValidReplayObservation(o)
  BY <1>8, <1>9 DEF Contract!ValidReplayObservation
<1>11. Contract!SourceHolds(o.origin, None, o, result)
  BY <1>1, <1>9 DEF Contract!SourceHolds
<1>12. \A item \in o.items : Contract!SourceHolds(item.origin, item, o, result)
  <2> SUFFICES ASSUME NEW item \in o.items PROVE Contract!SourceHolds(item.origin, item, o, result)
    OBVIOUS
  <2>1. item.origin \in {"probe", "client_computed"} /\ Contract!ProbeItemHolds(item, result.probe.lists, o.doc)
    BY <1>1, <1>7, <1>8
  <2>2. QED
    BY <1>1, <1>9, <2>1 DEF Contract!SourceHolds
<1>13. QED
  BY <1>7, <1>9, <1>10, <1>11, <1>12 DEF FindingHolds, f

LEMMA FindingsHold ==
  ASSUME NEW result, SoundResult(result), NEW f \in Findings(result), NEW o, Binds(o, f)
  PROVE  FindingHolds(f, o, result)
<1>1. PICK doc \in Judged :
        f \in (IF HitFor(result.hits, doc) # {} THEN RerankedDown(result, doc)
               ELSE {MissFinding(result, doc)})
  BY DEF Findings
<1>2. CASE HitFor(result.hits, doc) # {}
  BY <1>1, <1>2, DownrankingHolds
<1>3. CASE HitFor(result.hits, doc) = {} /\ result.probe \in {NoProbe, FailedProbe}
  <2>1. f = MissFinding(result, doc)
    BY <1>1, <1>3
  <2>2. QED
    BY <1>3, <2>1, UnprobedMissHolds
<1>4. CASE HitFor(result.hits, doc) = {} /\ result.probe \notin {NoProbe, FailedProbe}
  <2>1. PICK lists : CandidateLists(lists) /\ result.probe = AnalysedProbe(lists, result.hits)
    BY <1>4 DEF SoundResult
  <2>2. result.probe.state = "analysed"
    BY <2>1 DEF AnalysedProbe
  <2>3. f = ProbeFinding(result, doc)
    BY <1>1, <1>4, <2>2 DEF MissFinding
  <2>4. QED
    BY <2>1, <2>3, ProbedMissHolds
<1>5. QED
  BY <1>2, <1>3, <1>4

\* What the replay finds in sound results, its contract accepts.
LEMMA ReplayAnswerIsValid ==
  ASSUME NEW results, SoundResults(results)
  PROVE  Contract!ValidReplayResponse(ReplayAnswer(results))
<1> DEFINE r == ReplayAnswer(results)
<1>1. /\ r.results = results
      /\ r.observations = UNION {{Bound(f, i) : f \in Findings(results[i])} : i \in DOMAIN results}
  BY DEF ReplayAnswer
<1> HIDE DEF r
<1>2. \A i \in DOMAIN results : SoundResult(results[i])
  BY DEF SoundResults
<1>3. ASSUME NEW i \in DOMAIN results PROVE Contract!ValidProbe(results[i].probe)
  <2> DEFINE probe == results[i].probe
  <2>1. CASE probe \in {NoProbe, FailedProbe}
    BY <2>1 DEF Contract!ValidProbe, NoProbe, FailedProbe
  <2>2. CASE probe \notin {NoProbe, FailedProbe}
    <3>1. PICK lists : CandidateLists(lists) /\ probe = AnalysedProbe(lists, results[i].hits)
      BY <1>2, <2>2 DEF SoundResult
    <3>2. probe.lists = lists
      BY <3>1 DEF AnalysedProbe
    <3> HIDE DEF probe
    <3>3. QED
      BY <3>1, <3>2 DEF Contract!ValidProbe, Contract!CandidateSignals, CandidateLists, IsInjective, probe
  <2>3. QED
    BY <2>1, <2>2
<1>4. ASSUME NEW o \in r.observations
      PROVE  /\ o.config \in DOMAIN results /\ o.code # "ann_candidate_miss"
             /\ Contract!ValidReplayObservation(o)
             /\ Contract!SourceHolds(o.origin, None, o, results[o.config])
             /\ \A item \in o.items : Contract!SourceHolds(item.origin, item, o, results[o.config])
  <2>1. PICK i \in DOMAIN results : o \in {Bound(f, i) : f \in Findings(results[i])}
    BY <1>1
  <2>2. PICK f \in Findings(results[i]) : o = Bound(f, i)
    BY <2>1
  <2>3. o.config = i /\ Binds(o, f)
    BY <2>2 DEF Bound, Binds
  <2>4. FindingHolds(f, o, results[i])
    BY <1>2, <2>3, FindingsHold
  <2>5. o.code = f.code
    BY <2>3 DEF Binds
  <2>6. QED
    BY <2>3, <2>4, <2>5 DEF FindingHolds
<1>5. Contract!ValidReplayResponse(r)
  BY <1>1, <1>3, <1>4 DEF Contract!ValidReplayResponse
<1>6. QED
  BY <1>5 DEF r

LEMMA SoundResultsAreAcceptable ==
  ASSUME IsReplay, SoundResults(answer)
  PROVE  Acceptable
<1>1. ~IsDiagnosis
  BY DEF IsReplay, IsDiagnosis
<1>2. Composed = ReplayAnswer(answer)
  BY <1>1 DEF Composed
<1>3. QED
  BY <1>1, <1>2, ReplayAnswerIsValid DEF Acceptable

-----------------------------------------------------------------------------
(* The end of a request that nothing disturbed.                            *)

\* A request that is served is one of those considered; and when nothing failed
\* and nobody cancelled it, it ends in an answer if what it holds is sound.
EndsAsItShould ==
  /\ phase # "idle" => request \in Requests
  /\ phase = "ended" /\ resource = "closed" /\ ~failed /\ ~cancelled /\ ~Answered =>
       IF IsDiagnosis THEN answer \in Answers[request] /\ ~Honest(answer) ELSE FALSE

LEMMA EndIsKept ==
  Control /\ AnswersFromItsSnapshot /\ HoldsItsResults /\ EndsAsItShould /\ [Next]_vars
    => EndsAsItShould'
<1> SUFFICES ASSUME Control, AnswersFromItsSnapshot, HoldsItsResults, EndsAsItShould, [Next]_vars
             PROVE  EndsAsItShould'
  OBVIOUS
<1> USE DEF EndsAsItShould
<1>1. CASE Refuse
  BY <1>1 DEF Refuse, Control
<1>2. CASE Begin
  BY <1>2 DEF Begin
<1>3. CASE TaskEnds
  BY <1>3 DEF TaskEnds, Control
<1>4. CASE EmbeddingResumes \/ Connect
  BY <1>4 DEF EmbeddingResumes, Connect, End, StartClose, Control
<1>5. CASE QueryAnswers \/ CallFails \/ CancelCall
  BY <1>5 DEF QueryAnswers, CallFails, CancelCall, StartClose
<1>6. CASE CompareAnswers \/ ProbeAnswers \/ ProbeFails
  <2>1. phase # "idle" /\ request' = request
    BY <1>6 DEF CompareAnswers, ProbeAnswers, ProbeFails
  <2>2. \E results : Probed(results)
    BY <1>6, Zenon DEF CompareAnswers, ProbeAnswers, ProbeFails
  <2>3. phase' \in {"closing", "probing"}
    BY <2>2, ProbingGoesOnOrCloses
  <2>4. QED
    BY <2>1, <2>3
<1>7. CASE CancelDrain
  BY <1>7 DEF CancelDrain
<1>8. CASE CloseResumes
  <2>1. /\ phase = "closing" /\ phase' = "ended" /\ UNCHANGED <<request, answer, cancelled>>
        /\ failed' = (failed \/ task = "broken")
        /\ outcome' = IF cancelled THEN "cancelled"
                      ELSE IF ~failed' /\ Acceptable THEN "answered" ELSE "unavailable"
    BY <1>8 DEF CloseResumes, End
  <2>2. request \in Requests
    BY <2>1
  <2>3. CASE failed' \/ cancelled'
    BY <2>1, <2>2, <2>3
  <2>4. CASE ~failed' /\ ~cancelled' /\ Acceptable
    <3>1. outcome' = "answered"
      BY <2>1, <2>4
    <3>2. QED
      BY <2>1, <2>2, <3>1 DEF Answered
  <2>5. CASE ~failed' /\ ~cancelled' /\ ~Acceptable
    <3>1. ~failed /\ ~cancelled
      BY <2>1, <2>5
    <3>2. request # None /\ request.kind \in {"diagnose", "replay"}
      BY <2>2, AnswersAssumption
    <3>3. IsDiagnosis
      <4>1. IsReplay => SoundResults(answer)
        BY <2>1, <3>1 DEF HoldsItsResults
      <4>2. ~IsReplay
        BY <2>5, <4>1, SoundResultsAreAcceptable
      <4>3. QED
        BY <3>2, <4>2 DEF IsReplay, IsDiagnosis
    <3>4. answer \in Answers[request]
      BY <2>1, <3>1, <3>3 DEF AnswersFromItsSnapshot
    <3>5. IsSnapshot(answer)
      BY <2>2, <3>3, <3>4, AnswersAssumption DEF IsDiagnosis
    <3>6. ~Honest(answer)
      BY <2>5, <3>3, <3>5, HonestAnswersAreAcceptable DEF SoundSnapshot
    <3>7. IsDiagnosis' /\ answer' \in Answers[request'] /\ ~Honest(answer)'
      <4>1. Honest(answer)' = Honest(answer)
        BY <2>1
      <4>2. QED
        BY <2>1, <3>3, <3>4, <3>6, <4>1 DEF IsDiagnosis
    <3>8. QED
      BY <2>1, <2>2, <3>7
  <2>6. QED
    BY <2>3, <2>4, <2>5
<1>9. CASE Reply
  BY <1>9 DEF Reply
<1>10. CASE UNCHANGED vars
  BY <1>10 DEF vars, Answered, IsDiagnosis
<1>11. QED
  BY <1>1, <1>2, <1>3, <1>4, <1>5, <1>6, <1>7, <1>8, <1>9, <1>10 DEF Next

-----------------------------------------------------------------------------
(* The theorems.                                                           *)

\* However often and at whichever awaits a request is cancelled, it ends as
\* cancelled exactly when it was, and owns neither an open provider nor a
\* running task when it ends.
THEOREM CancellationIsHonoured == Spec => []CancelledRequestEndsCancelled
<1>1. Control => CancelledRequestEndsCancelled
  BY DEF Control, CancelledRequestEndsCancelled
<1>2. QED
  BY <1>1, RequestsAreControlled, PTL

\* Whatever lists the provider returns and whatever order it gives to equal
\* scores, what the analysis says of the target's place in their fusion
\* (qualify_rrf) is so: for every cutoff, depth, weight and rank constant.
THEOREM FusionClaimsAreCertain == Spec => []FusionMembershipIsCertain
<1>1. HoldsItsAnswer => FusionMembershipIsCertain
  <2> SUFFICES ASSUME HoldsItsAnswer, IsDiagnosis, answer # None, ~Refuses(answer),
                      NEW e \in Composed.rrfEvidence
               PROVE  HoldsInEveryOrder(answer, e)
    BY DEF FusionMembershipIsCertain, HoldsInEveryOrder
  <2>1. /\ Hybrid(answer.mode)
        /\ \E scope \in Scopes(answer.noFilter) : \E root : e = QualifiedRrf(answer, scope, root)
    <3>1. e \in Analysis(answer).rrfEvidence
      BY DEF Composed, Response
    <3>2. QED
      BY <3>1 DEF Analysis
  <2>2. PICK scope \in Scopes(answer.noFilter) : \E root : e = QualifiedRrf(answer, scope, root)
    BY <2>1
  <2>3. \A role \in DOMAIN answer.lists : answer.lists[role] \in Seq(ToSet(answer.lists[role]))
    BY AnswersAssumption DEF HoldsItsAnswer, IsDiagnosis, IsSnapshot
  <2>4. ValidSnapshot(answer)
    BY DEF Refuses
  <2>5. FusedLists(answer, scope)
    BY <2>1, <2>3, <2>4, SnapshotHasFusedLists
  <2>6. QED
    BY <2>2, <2>5, FusionClaimHolds
<1>2. QED
  BY <1>1, RequestsAreControlled, PTL

\* A replay never warns of another snapshot, nor excuses a finding with one,
\* when its probe saw the lists of the primary query and no scores were equal.
THEOREM WarningsMeanDifferences == Spec => []WarningMeansDifference
<1>1. Init => HoldsItsResults
  BY OutcomeAssumption DEF Init, Idle, HoldsItsResults, IsReplay, Answered
<1>2. Spec => []HoldsItsResults
  <2>1. Spec => []Control
    BY RequestsAreControlled, PTL
  <2>2. QED
    BY <1>1, <2>1, ResultsAreKept, PTL DEF Spec
<1>3. HoldsItsResults => WarningMeansDifference
  <2> SUFFICES ASSUME HoldsItsResults, request # None, request.kind = "replay", Answered,
                      NEW i \in DOMAIN response.results,
                      response.results[i].probe.state = "analysed",
                      \/ response.results[i].probe.warned
                      \/ \E o \in response.observations :
                           o.config = i /\ o.code = "not_observable" /\ o.origin = "client_computed"
               PROVE  \/ response.results[i].probe.lists # response.results[i].source
                      \/ Ties(response.results[i].source)
    BY DEF WarningMeansDifference
  <2>1. SoundResults(answer) /\ response = ReplayAnswer(answer)
    BY DEF HoldsItsResults, IsReplay
  <2>2. /\ response.results = answer
        /\ response.observations =
             UNION {{Bound(f, k) : f \in Findings(answer[k])} : k \in DOMAIN answer}
    BY <2>1 DEF ReplayAnswer
  <2>3. SoundResult(answer[i])
    BY <2>1, <2>2 DEF SoundResults
  <2>4. ASSUME NEW o \in response.observations,
               o.config = i, o.code = "not_observable", o.origin = "client_computed"
        PROVE  \E f \in Findings(answer[i]) : f.code = "not_observable" /\ f.origin = "client_computed"
    <3>1. PICK k \in DOMAIN answer : o \in {Bound(f, k) : f \in Findings(answer[k])}
      BY <2>2
    <3>2. PICK f \in Findings(answer[k]) : o = Bound(f, k)
      BY <3>1
    <3>3. o.config = k /\ o.code = f.code /\ o.origin = f.origin
      BY <3>2 DEF Bound
    <3>4. QED
      BY <2>4, <3>2, <3>3
  <2>5. \/ answer[i].probe.warned
        \/ \E f \in Findings(answer[i]) : f.code = "not_observable" /\ f.origin = "client_computed"
    BY <2>2, <2>4
  <2>6. QED
    BY <2>2, <2>3, <2>5, SoundResultWarns
<1>4. QED
  BY <1>2, <1>3, PTL

\* The findings of an answered diagnostic about its filter name the leaves that
\* alone account for it: those which the search for witnesses
\* (_leaf_witness_paths) comes to are those that some smallest change of the
\* leaves has to touch, for every filter.
THEOREM FindingsAreTheCauses == Spec => []FilterFindingsAreTheCauses
<1>1. Init => AnswersFromItsSnapshot
  BY OutcomeAssumption DEF Init, Idle, AnswersFromItsSnapshot, IsDiagnosis, Answered
<1>2. Spec => []AnswersFromItsSnapshot
  <2>1. Spec => []Control
    BY RequestsAreControlled, PTL
  <2>2. QED
    BY <1>1, <2>1, SnapshotIsKept, PTL DEF Spec
<1>3. AnswersFromItsSnapshot => FilterFindingsAreTheCauses
  <2> SUFFICES ASSUME AnswersFromItsSnapshot, IsDiagnosis, Answered,
                      response.root \in {"false", "unknown"}
               PROVE  ReportedLeaves(response) = Causes(answer)
    BY DEF FilterFindingsAreTheCauses
  <2>1. /\ request \in Requests /\ request.kind = "diagnose" /\ answer \in Answers[request]
        /\ ValidSnapshot(answer) /\ response = Response(answer)
    BY DEF AnswersFromItsSnapshot, IsDiagnosis, Refuses
  <2>2. answer.available /\ Root(answer) \in {"false", "unknown"}
    <3>1. response.root = IF answer.available THEN Root(answer) ELSE None
      BY <2>1 DEF Response, Analysis
    <3>2. QED
      BY <3>1, AnalysisAssumption
  <2>3. answer.filter # None
    BY <2>2, AnalysisAssumption DEF Root
  <2>4. Filtered(answer)
    <3>1. IsFilter(answer.filter)
      BY <2>1, <2>3, AnswersAssumption DEF IsSnapshot
    <3>2. ValidDefinition(answer.filter, answer.schema)
      BY <2>1, <2>3 DEF ValidSnapshot
    <3>3. QED
      BY <2>3, <3>1, <3>2, DefinitionIsATree DEF Filtered
  <2>5. QED
    BY <2>1, <2>2, <2>4, WitnessesAreTheCauses, OnlyFilterObservationsNameLeaves
<1>4. QED
  BY <1>2, <1>3, PTL

\* A replay, and a diagnostic whose provider answered honestly, end in a
\* response unless a step failed or somebody cancelled: whatever the filter, the
\* lists, the cutoffs and the weights are, the analysis, the crosscheck with the
\* rows and the contract of the response (contracts/forensics.py) agree.
THEOREM SoundAnswersAreReported == Spec => []SoundAnswerIsReported
<1>1. Init => HoldsItsResults /\ AnswersFromItsSnapshot /\ EndsAsItShould
  BY OutcomeAssumption DEF Init, Idle, HoldsItsResults, AnswersFromItsSnapshot, EndsAsItShould,
                           IsDiagnosis, IsReplay, Answered
<1>2. Spec => [](Control /\ HoldsItsResults /\ AnswersFromItsSnapshot /\ EndsAsItShould)
  <2>1. Spec => []Control
    BY RequestsAreControlled, PTL
  <2>2. QED
    BY <1>1, <2>1, ResultsAreKept, SnapshotIsKept, EndIsKept, PTL DEF Spec
<1>3. EndsAsItShould => SoundAnswerIsReported
  BY DEF EndsAsItShould, SoundAnswerIsReported
<1>4. QED
  BY <1>2, <1>3, PTL

=============================================================================
