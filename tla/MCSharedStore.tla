---------------------------- MODULE MCSharedStore ----------------------------
(***************************************************************************)
(* One server beside one command, over two runs of one attempt.            *)
(***************************************************************************)
EXTENDS SharedStore
=============================================================================
