------------------------------ MODULE MCPotty ------------------------------
(* Small instances of Potty for TLC. *)
EXTENDS Potty
=============================================================================
