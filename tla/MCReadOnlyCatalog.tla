------------------------- MODULE MCReadOnlyCatalog -------------------------
(***************************************************************************)
(* One run of two configs over two queries, read by a view or by a gate    *)
(* with one of three policies.  Thresholds and metrics are steps of 1/2.   *)
(***************************************************************************)
EXTENDS ReadOnlyCatalog, TLC

\* The default policy (every query is paired), the same with one pair asked
\* for, and one that tolerates a failure and a lower mean.
MCPolicies ==
  { [minDelta |-> 0, maxQueryDrop |-> 1, maxErrorRate |-> 0, minPaired |-> 2],
    [minDelta |-> 0, maxQueryDrop |-> 1, maxErrorRate |-> 0, minPaired |-> 1],
    [minDelta |-> -1, maxQueryDrop |-> 1, maxErrorRate |-> 1, minPaired |-> 1] }

\* No liveness is checked, and nothing tells the two queries apart.
MCSymmetry == Permutations(Queries)

=============================================================================
