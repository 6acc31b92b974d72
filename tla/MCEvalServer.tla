---------------------------- MODULE MCEvalServer ----------------------------
(***************************************************************************)
(* EvalServer with two runs of one config over one query.                  *)
(***************************************************************************)
EXTENDS EvalServer, WorkPlan

CONSTANTS c1, q1

MCOneItem == InterleavedWorkItems(<<q1>>, <<c1>>)

=============================================================================
