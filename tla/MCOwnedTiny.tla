----------------------------- MODULE MCOwnedTiny -----------------------------
(***************************************************************************)
(* The receipt with two batches and as many faults as the cfg allows.      *)
(***************************************************************************)
EXTENDS OwnedTiny
=============================================================================
