------------------------------ MODULE MCSewer ------------------------------
(* Small instances of Sewer for TLC. *)
EXTENDS Sewer
=============================================================================
