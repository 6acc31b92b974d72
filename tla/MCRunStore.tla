----------------------------- MODULE MCRunStore -----------------------------
(***************************************************************************)
(* RunStore on one run of two configs over two queries: four attempts, so  *)
(* that an outcome may complete a query, or only add to one.               *)
(***************************************************************************)
EXTENDS RunStore
=============================================================================
