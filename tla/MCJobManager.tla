---------------------------- MODULE MCJobManager ----------------------------
(***************************************************************************)
(* JobManager with one run of two configs over two queries: four items, at *)
(* most two of them in flight.                                             *)
(***************************************************************************)
EXTENDS JobManager, WorkPlan

CONSTANTS c1, c2, q1, q2

MCWorkItems == InterleavedWorkItems(<<q1, q2>>, <<c1, c2>>)

=============================================================================
