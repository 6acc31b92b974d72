---------------------------- MODULE MCIngestion ----------------------------
(***************************************************************************)
(* Ingestion with three documents, one to a batch, in waves of two.        *)
(***************************************************************************)
EXTENDS Ingestion
=============================================================================
