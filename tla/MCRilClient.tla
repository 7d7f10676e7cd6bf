------------------------------ MODULE MCRilClient ------------------------------
(* Model values for RilClient. *)
EXTENDS RilClient, TLC

CONSTANTS t1

=============================================================================
