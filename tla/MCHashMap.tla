----------------------------- MODULE MCHashMap -----------------------------
(***************************************************************************)
(* A table of four slots with chains of two.  a, b and c share a chain in  *)
(* the small table, and the chain of d wraps around into theirs; the first *)
(* doubling separates b from a and c, and the second c from a.             *)
(***************************************************************************)
EXTENDS HashMap

CONSTANTS a, b, c, d

MCHash == [k \in Keys |-> CASE k = a -> 0 [] k = b -> 4 [] k = c -> 8 [] k = d -> 3]
=============================================================================
