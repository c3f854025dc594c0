------------------------------ MODULE Vector ------------------------------
(***************************************************************************)
(* What a hector promises: a sequence of items that grows at its end and   *)
(* from which any stretch can be cut out.                                  *)
(***************************************************************************)
EXTENDS Integers, Sequences

CONSTANT Items

VARIABLE items

Init == items = <<>>

Push(x) == items' = Append(items, x)

Splice(n, count) ==
  items' = SubSeq(items, 1, n) \o SubSeq(items, n + count + 1, Len(items))

Clear == items' = <<>>

Next ==
  \/ \E x \in Items : Push(x)
  \/ \E n \in 0 .. Len(items) : \E count \in 0 .. Len(items) - n : Splice(n, count)
  \/ Clear

Spec == Init /\ [][Next]_items
=============================================================================
