------------------------------ MODULE HashMap ------------------------------
(***************************************************************************)
(* The open-addressing hash map that holds the tank's data (hashmap.c).    *)
(* A key lives in one of the MAX_CHAIN_LENGTH slots from its hash on; a    *)
(* removed slot is simply free again.                                      *)
(***************************************************************************)
EXTENDS Integers, FiniteSets, Sequences

CONSTANTS
  Keys, Values,
  hash_int,          \* the mixed CRC of each key, before the modulo
  INITIAL_SIZE,      \* 256 in the code
  MAX_CHAIN_LENGTH,  \* 8 in the code
  Free,              \* a slot with in_use == 0
  MISSING            \* MAP_MISSING

Items == [key : Keys, value : Values]

ASSUME HashMapAssumption ==
  /\ INITIAL_SIZE \in Nat \ {0, 1}
  /\ MAX_CHAIN_LENGTH \in 1 .. INITIAL_SIZE
  /\ hash_int \in [Keys -> Nat]
  /\ Free \notin Items
  /\ MISSING \notin Values

MAP_FULL == -2

VARIABLES
  m,          \* hashmap_map: table_size, size and data
  putting,    \* the item that hashmap_put was called with, while it runs
  rehashes,   \* the calls of hashmap_rehash under way, the innermost first:
              \* curr, old_size and i of each
  expected,   \* what the calls so far should have left in the map
  removed     \* whether any key was ever removed

vars == <<m, putting, rehashes, expected, removed>>

EmptyMap(table_size) ==
  [table_size |-> table_size, size |-> 0, data |-> [i \in 0 .. table_size - 1 |-> Free]]

Init ==
  /\ m = EmptyMap(INITIAL_SIZE)
  /\ putting = {} /\ rehashes = <<>>
  /\ expected = [k \in Keys |-> MISSING]
  /\ removed = FALSE

(* the slot that the i-th step of a probe for key looks at *)
Probe(map, key, i) == (hash_int[key] + i) % map.table_size

Chain == 0 .. MAX_CHAIN_LENGTH - 1

Holds(map, key, i) ==
  LET slot == map.data[Probe(map, key, i)] IN slot # Free /\ slot.key = key

First(S) == CHOOSE i \in S : \A j \in S : i <= j

HashSkippingMatches(map, key) ==
  LET usable == {i \in Chain : map.data[Probe(map, key, i)] = Free}
  IN  IF map.size >= map.table_size \div 2 \/ usable = {}
      THEN MAP_FULL
      ELSE Probe(map, key, First(usable))

hashmap_hash(map, key) ==
  LET usable == {i \in Chain : map.data[Probe(map, key, i)] = Free \/ Holds(map, key, i)}
  IN  IF map.size >= map.table_size \div 2 \/ usable = {}
      THEN MAP_FULL
      ELSE Probe(map, key, First(usable))

hashmap_get(map, key) ==
  LET found == {i \in Chain : Holds(map, key, i)}
  IN  IF found = {} THEN MISSING ELSE map.data[Probe(map, key, First(found))].value

RemoveCountingAlways(map, key) ==
  LET found == {i \in Chain : Holds(map, key, i)}
  IN  IF found = {}
      THEN [map EXCEPT !.size = @ - 1]
      ELSE [map EXCEPT !.size = @ - 1, !.data[Probe(map, key, First(found))] = Free]

RemoveKeepingSize(map, key) ==
  LET found == {i \in Chain : Holds(map, key, i)}
  IN  IF found = {}
      THEN map
      ELSE [map EXCEPT !.data[Probe(map, key, First(found))] = Free]

hashmap_remove(map, key) ==
  LET found == {i \in Chain : Holds(map, key, i)}
  IN  IF found = {}
      THEN map
      ELSE [map EXCEPT !.size = @ - 1, !.data[Probe(map, key, First(found))] = Free]

(***************************************************************************)
(* hashmap_put looks for a slot until there is one: for each time there is *)
(* none the table is doubled by hashmap_rehash, which puts the items of    *)
(* the old array one by one, and may find the doubled table too small too. *)
(***************************************************************************)
hashmap_put(key, value) ==
  /\ putting = {}
  /\ putting' = {[key |-> key, value |-> value]}
  /\ expected' = [expected EXCEPT ![key] = value]
  /\ UNCHANGED <<m, rehashes, removed>>

(* The item of the innermost hashmap_put. *)
BeingPut ==
  IF rehashes = <<>>
  THEN putting
  ELSE LET r == rehashes[1]
       IN  {r.curr[i] : i \in {r.i} \cap 0 .. r.old_size - 1} \ {Free}

Stored(map, index, item) ==
  [map EXCEPT !.size = IF map.data[index] = Free THEN @ + 1 ELSE @, !.data[index] = item]

Advanced == [rehashes EXCEPT ![1].i = @ + 1]

(* The end of a hashmap_put: the caller's, or one of a rehash's loop. *)
PutStores ==
  /\ \E item \in BeingPut :
       LET index == hashmap_hash(m, item.key)
       IN  index # MAP_FULL /\ m' = Stored(m, index, item)
  /\ IF rehashes = <<>>
     THEN putting' = {} /\ UNCHANGED rehashes
     ELSE rehashes' = Advanced /\ UNCHANGED putting
  /\ UNCHANGED <<expected, removed>>

RehashBegins ==
  /\ \E item \in BeingPut : hashmap_hash(m, item.key) = MAP_FULL
  /\ m' = EmptyMap(2 * m.table_size)
  /\ rehashes' = <<[curr |-> m.data, old_size |-> m.table_size, i |-> 0]>> \o rehashes
  /\ UNCHANGED <<putting, expected, removed>>

RehashSkips ==
  /\ rehashes # <<>>
  /\ rehashes[1].i < rehashes[1].old_size
  /\ rehashes[1].curr[rehashes[1].i] = Free
  /\ rehashes' = Advanced
  /\ UNCHANGED <<m, putting, expected, removed>>

RehashReturnsEarly ==
  /\ rehashes # <<>>
  /\ rehashes[1].i + 1 >= rehashes[1].old_size
  /\ rehashes' = Tail(rehashes)
  /\ UNCHANGED <<m, putting, expected, removed>>

RehashReturns ==
  /\ rehashes # <<>>
  /\ rehashes[1].i = rehashes[1].old_size
  /\ rehashes' = Tail(rehashes)
  /\ UNCHANGED <<m, putting, expected, removed>>

RemoveKey(key) ==
  /\ putting = {}
  /\ m' = hashmap_remove(m, key)
  /\ expected' = [expected EXCEPT ![key] = MISSING]
  /\ removed' = TRUE
  /\ UNCHANGED <<putting, rehashes>>

Next ==
  \/ \E key \in Keys, value \in Values : hashmap_put(key, value)
  \/ PutStores
  \/ RehashBegins
  \/ RehashSkips
  \/ RehashReturns
  \/ \E key \in Keys : RemoveKey(key)

Spec == Init /\ [][Next]_vars

-----------------------------------------------------------------------------
Slots  == 0 .. m.table_size - 1
InUse  == {i \in Slots : m.data[i] # Free}

TypeOK ==
  /\ m \in [table_size : Nat \ {0}, size : Nat, data : [Slots -> Items \cup {Free}]]
  /\ putting \in SUBSET Items
  /\ \A n \in DOMAIN rehashes :
       /\ rehashes[n].i \in 0 .. rehashes[n].old_size
       /\ rehashes[n].curr \in [0 .. rehashes[n].old_size - 1 -> Items \cup {Free}]
  /\ expected \in [Keys -> Values \cup {MISSING}]
  /\ removed \in BOOLEAN

(* size counts the used slots and stays at most half of the table,         *)
(* through overwrites, removals and nested rehashes, so a probe always     *)
(* ends and the growth test means what it says.                            *)
SizeCounts ==
  /\ m.size = Cardinality(InUse)
  /\ m.size <= m.table_size \div 2

(* No key is lost: whatever was put and not removed since is found, with   *)
(* some value, also after other keys of its chain were removed and after   *)
(* the table grew.                                                         *)
NoKeyLost ==
  putting = {} => \A k \in Keys : expected[k] # MISSING => hashmap_get(m, k) # MISSING

(* When hashmap_put returns, hashmap_get of the key finds the value.       *)
PutIsVisible ==
  [][\A item \in putting : putting' = {} => hashmap_get(m', item.key) = item.value]_vars

(* Until a key is removed the map is a map: every get answers the latest   *)
(* put, whatever the table went through.                                   *)
GetsLatest ==
  putting = {} /\ ~removed => \A k \in Keys : hashmap_get(m, k) = expected[k]

(* hashmap.h: "Remove an element from the hashmap".  After hashmap_remove  *)
(* the key is gone.                                                        *)
RemoveRemoves ==
  [][\A k \in Keys : RemoveKey(k) => hashmap_get(m', k) = MISSING]_vars
=============================================================================
