------------------------------ MODULE MCRedic ------------------------------
(* Small instances of Redic for TLC. *)
EXTENDS Redic, TLC
=============================================================================
