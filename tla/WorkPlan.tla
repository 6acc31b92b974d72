------------------------------ MODULE WorkPlan ------------------------------
(***************************************************************************)
(* The order in which an evaluation visits its (config, query) attempts:   *)
(* _interleaved_work_items of application/evaluations.py.  The queries     *)
(* come shuffled by the seed of the run, so any order of them is an input. *)
(***************************************************************************)
LOCAL INSTANCE Integers
LOCAL INSTANCE Sequences

\* Query by query; the configs of query number k start k places further on,
\* so no config is always measured first.
InterleavedWorkItems(queries, configs) ==
  LET n == Len(configs)
  IN  [k \in 1..(Len(queries) * n) |->
        LET query_index == (k - 1) \div n
            position == (k - 1) % n
        IN  <<configs[((position + query_index) % n) + 1],
              queries[query_index + 1]>>]

=============================================================================
