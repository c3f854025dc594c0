------------------------------ MODULE MCHector ------------------------------
(***************************************************************************)
(* A capacity of three grows to six, and shrinks to one and grows to two:  *)
(* a vector is reallocated in both directions, at lengths that leave room  *)
(* and at ones that do not.  Pages hold three bytes, so that the vector    *)
(* and other allocations share, overflow and exceed them.                  *)
(***************************************************************************)
EXTENDS Hector, TLC

Symmetry == Permutations(Items)
=============================================================================
