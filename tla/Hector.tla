------------------------------- MODULE Hector -------------------------------
(***************************************************************************)
(* The growable vector (aids.c): RESP arrays and the waste of the potty    *)
(* are vectors in an arena, the potty's queue of flush jobs is one on the  *)
(* heap.  The vector is created, used and given up again and again, and    *)
(* shares its arena with other allocations.  An item takes one byte.       *)
(***************************************************************************)
EXTENDS Arena

CONSTANTS
  Items,       \* what is stored
  Garbage,     \* what memory holds that nobody wrote
  InitSizes,   \* the init_size of hector_create
  StructSize,  \* sizeof(Hector)
  Sizes,       \* the sizes other code asks of the arena
  MaxLength    \* bound: items in the vector

ASSUME HectorAssumption ==
  /\ Garbage \notin Items
  /\ InitSizes \subseteq Nat \ {0}
  /\ StructSize \in Nat /\ Sizes \subseteq Nat
  /\ MaxLength \in Nat

VARIABLES
  exists,      \* between hector_create and the end of the vector
  in_arena,    \* hec->arena != NULL
  length,      \* hec->length
  capacity,    \* hec->capacity
  mem,         \* hec->mem
  overran      \* whether some call touched memory beyond the capacity

hector == <<exists, in_arena, length, capacity, mem, overran>>
vars   == <<arenaVars, hector>>

NoMem == [i \in 0 .. -1 |-> Garbage]

Init ==
  /\ arena_create
  /\ exists = FALSE /\ in_arena = FALSE
  /\ length = 0 /\ capacity = 0 /\ mem = NoMem
  /\ overran = FALSE

(* A vector on the heap and an arena do not meet.  To bound the states,    *)
(* the former is only made while the arena is as new, and the arena rests  *)
(* while it is there.                                                      *)
hector_create(arena, init_size) ==
  /\ ~exists
  /\ arena \/ (Len(pages) = 1 /\ regions = <<>>)
  /\ exists' = TRUE
  /\ in_arena' = arena
  /\ length' = 0
  /\ capacity' = init_size
  /\ mem' = [i \in 0 .. init_size - 1 |-> Garbage]
  /\ IF arena THEN arena_alloc_both(StructSize, init_size) ELSE UNCHANGED arenaVars
  /\ UNCHANGED overran

(* hector_resize: m with room for n items, of which the first kept ones    *)
(* were copied.  The arena's memcpy copies the items, realloc everything.  *)
Resized(m, kept, n) ==
  [i \in 0 .. n - 1 |-> IF i < kept THEN m[i] ELSE Garbage]

hector_resize(m, len, n) ==
  /\ capacity' = n
  /\ mem' = Resized(m, IF in_arena THEN len ELSE capacity, n)
  /\ IF in_arena THEN arena_alloc(n) ELSE UNCHANGED arenaVars

PushInPlace(x) ==
  /\ capacity # length
  /\ mem' = [mem EXCEPT ![length] = x]
  /\ UNCHANGED <<capacity, arenaVars>>

PushGrowing(x) ==
  /\ capacity = length
  /\ capacity' = capacity * 2
  /\ mem' = [Resized(mem, length, capacity * 2) EXCEPT ![length] = x]
  /\ IF in_arena THEN arena_alloc(capacity * 2) ELSE UNCHANGED arenaVars

hector_push(x) ==
  /\ exists
  /\ length < MaxLength
  /\ PushInPlace(x) \/ PushGrowing(x)
  /\ length' = length + 1
  /\ UNCHANGED <<exists, in_arena, overran>>

(* m and len are what the caller left. *)
ShrinkTooFar(m, len) ==
  IF len < capacity \div 2
  THEN hector_resize(m, len, capacity \div 3)
  ELSE capacity' = capacity /\ mem' = m /\ UNCHANGED arenaVars

try_shrink(m, len) ==
  IF len < capacity \div 3
  THEN hector_resize(m, len, capacity \div 2)
  ELSE capacity' = capacity /\ mem' = m /\ UNCHANGED arenaVars

(* Nothing in the program pops, and a pop of an empty vector is an error   *)
(* of its caller.                                                          *)
hector_pop ==
  /\ exists
  /\ length > 0
  /\ length' = length - 1
  /\ try_shrink(mem, length - 1)
  /\ UNCHANGED <<exists, in_arena, overran>>

MovedOneShort(n, count) ==
  [i \in 0 .. capacity - 1 |->
     IF i >= n /\ i < length - count - 1 THEN mem[i + count] ELSE mem[i]]

(* memmove of length - n + count items; what it reads beyond the capacity  *)
(* is not the vector's, and what it writes there is not in mem.            *)
Moved(n, count) ==
  [i \in 0 .. capacity - 1 |->
     IF i >= n /\ i < length + count
     THEN IF i + count < capacity THEN mem[i + count] ELSE Garbage
     ELSE mem[i]]

SpliceRefused(n, count) ==
  /\ n + count > capacity \/ count = 0
  /\ UNCHANGED <<length, capacity, mem, overran, arenaVars>>

(* The caller names items that are there: n + count <= length. *)
SpliceOut(n, count) ==
  /\ count > 0
  /\ n + count <= length
  /\ length' = length - count
  /\ IF n = length - count
     THEN try_shrink(mem, length - count) /\ UNCHANGED overran
     ELSE /\ try_shrink(Moved(n, count), length - count)
          /\ overran' = (overran \/ length + 2 * count > capacity)

hector_splice(n, count) ==
  /\ exists
  /\ SpliceRefused(n, count) \/ SpliceOut(n, count)
  /\ UNCHANGED <<exists, in_arena>>

hector_destroy ==
  /\ exists
  /\ ~in_arena
  /\ exists' = FALSE /\ length' = 0 /\ capacity' = 0 /\ mem' = NoMem
  /\ UNCHANGED <<in_arena, overran, arenaVars>>

(* Other code allocates from the arena. *)
OtherAlloc(size) ==
  /\ exists => in_arena
  /\ arena_alloc(size)
  /\ UNCHANGED hector

(* The end of a command: with the arena its vector is gone. *)
EndCommand ==
  /\ exists => in_arena
  /\ arena_reset
  /\ exists' = FALSE /\ length' = 0 /\ capacity' = 0 /\ mem' = NoMem
  /\ UNCHANGED <<in_arena, overran>>

Next ==
  \/ \E arena \in BOOLEAN : \E n \in InitSizes : hector_create(arena, n)
  \/ \E x \in Items : hector_push(x)
  \/ hector_pop
  \/ \E n, count \in 0 .. MaxLength : hector_splice(n, count)
  \/ hector_destroy
  \/ \E size \in Sizes : OtherAlloc(size)
  \/ EndCommand

Spec == Init /\ [][Next]_vars

-----------------------------------------------------------------------------
(* The items fit the capacity, and the capacity is the memory there is: it *)
(* never falls to zero, where a push could not double it any more.         *)
TypeOK ==
  /\ ArenaTypeOK
  /\ exists \in BOOLEAN /\ in_arena \in BOOLEAN /\ overran \in BOOLEAN
  /\ length \in 0 .. MaxLength
  /\ capacity \in Nat
  /\ length <= capacity
  /\ exists <=> capacity > 0
  /\ mem \in [0 .. capacity - 1 -> Items \cup {Garbage}]

(* What hector_get answers for 0, 1, ... *)
Contents == [i \in 1 .. length |-> mem[i - 1]]

V == INSTANCE Vector WITH items <- Contents

(* Through every doubling, halving and cut the vector is the sequence of   *)
(* the items pushed and not cut out, and never shows memory nobody wrote.  *)
ImplementsVector == V!Spec

(* aids.h calls hector "a basic vector implementation"; potty.h calls      *)
(* flush_jobs the "queue of pending flush batches".  Taking a batch out    *)
(* must not touch memory that is not the vector's.                         *)
TouchesOwnMemory == ~overran
=============================================================================
