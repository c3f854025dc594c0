---------------------------- MODULE BoundedQueue ----------------------------
(***************************************************************************)
(* What a sewer promises its users: a FIFO of at most Cap messages.  A     *)
(* message that was put is taken exactly once, in the order of the puts.   *)
(***************************************************************************)
EXTENDS Naturals, Sequences

CONSTANTS
  Messages,   \* what producers may put
  Cap         \* the capacity given to sewer_create

VARIABLES
  queue,      \* the messages that were put and not yet taken
  consumed    \* the messages taken so far, oldest first

vars == <<queue, consumed>>

Init == queue = <<>> /\ consumed = <<>>

Put(m) ==
  /\ Len(queue) < Cap
  /\ queue' = Append(queue, m)
  /\ UNCHANGED consumed

Take ==
  /\ queue # <<>>
  /\ consumed' = Append(consumed, Head(queue))
  /\ queue' = Tail(queue)

Next == (\E m \in Messages : Put(m)) \/ Take

Spec == Init /\ [][Next]_vars
=============================================================================
