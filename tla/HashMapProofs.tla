--------------------------- MODULE HashMapProofs ---------------------------
(***************************************************************************)
(* Proofs about the hash map, for every set of keys and values, every hash *)
(* function, every table size and chain length, and any nesting of         *)
(* rehashes: its type invariant, that size counts the used slots, that no  *)
(* key is lost, that a put is visible when it returns, and that until a    *)
(* key is removed every get answers the latest put.                        *)
(***************************************************************************)
EXTENDS HashMap, FiniteSetTheorems, WellFoundedInduction, TLAPS

(* The array of a table of n slots, the table, and a call of               *)
(* hashmap_rehash.                                                         *)
Arrays(n) == [0 .. n - 1 -> Items \cup {Free}]

IsMap(map) ==
  map \in [table_size : Nat \ {0}, size : Nat, data : Arrays(map.table_size)]

Frames ==
  UNION {[curr : Arrays(n), old_size : {n}, i : 0 .. n] : n \in Nat}

TypeInv ==
  /\ IsMap(m)
  /\ putting \in SUBSET Items
  /\ \A p, q \in putting : p = q
  /\ rehashes \in Seq(Frames)
  /\ putting = {} => rehashes = <<>>
  /\ expected \in [Keys -> Values \cup {MISSING}]
  /\ removed \in BOOLEAN

(* The items in a table, and those that the loops of the rehashes under    *)
(* way have still to put.                                                  *)
Used(map) == {map.data[s] : s \in 0 .. map.table_size - 1} \ {Free}

Remaining(r) == {r.curr[j] : j \in r.i .. r.old_size - 1} \ {Free}

Pending(rs) == UNION {Remaining(rs[n]) : n \in DOMAIN rs}

Stock == Used(m) \cup Pending(rehashes)

(* Every item is in a slot of its key's chain. *)
Placed(map) ==
  \A s \in 0 .. map.table_size - 1 :
    map.data[s] # Free => \E i \in Chain : s = Probe(map, map.data[s].key, i)

(* A key that should be in the map is in its table, in an array that is    *)
(* being rehashed, or about to be put.                                     *)
Held ==
  \A k \in Keys : expected[k] # MISSING =>
    \E item \in Stock \cup putting : item.key = k

(* What holds until a key is removed.  The item in a slot is where         *)
(* hashmap_hash looks first: no slot before it on its chain is free, and   *)
(* no other slot has its key.                                              *)
Tight(map) ==
  /\ \A s \in 0 .. map.table_size - 1 : map.data[s] # Free =>
       \E i \in Chain :
         /\ s = Probe(map, map.data[s].key, i)
         /\ \A j \in Chain : j < i => map.data[Probe(map, map.data[s].key, j)] # Free
  /\ \A s, t \in 0 .. map.table_size - 1 :
       map.data[s] # Free /\ map.data[t] # Free /\ map.data[s].key = map.data[t].key => s = t

(* Every item has the expected value, but for old items of the key that is *)
(* being put.                                                              *)
Current ==
  /\ \A item \in Stock :
       (\A p \in putting : p.key # item.key) => item.value = expected[item.key]
  /\ \A p \in putting : p.value = expected[p.key]

IInv ==
  /\ TypeInv
  /\ SizeCounts
  /\ Placed(m)
  /\ Held
  /\ ~removed => Tight(m) /\ Current

-----------------------------------------------------------------------------
(* A set of numbers that is not empty has a least one, and First finds it. *)
LEMMA FirstIsLeast ==
  ASSUME NEW S, S \subseteq Nat, S # {}
  PROVE  First(S) \in S /\ \A j \in S : First(S) <= j
  <1> DEFINE R == OpToRel(<, Nat)
  <1>1. \A x, y \in Nat : <<x, y>> \in R <=> x < y
    BY DEF OpToRel
  <1>2. IsWellFoundedOn(R, Nat)
    BY NatLessThanWellFounded
  <1> HIDE DEF R
  <1>3. PICK x \in S : \A y \in S : ~(<<y, x>> \in R)
    BY <1>2, WFMin
  <1>4. \A y \in S : x <= y
    <2> SUFFICES ASSUME NEW y \in S PROVE x <= y
      OBVIOUS
    <2>1. x \in Nat /\ y \in Nat /\ ~(<<y, x>> \in R)
      BY <1>3
    <2>2. ~(y < x)
      BY <1>1, <2>1
    <2> QED BY <2>1, <2>2
  <1> QED BY <1>4, Zenon DEF First

LEMMA ChainNat == Chain \subseteq Nat
  BY HashMapAssumption DEF Chain

(* The table's fields. *)
LEMMA MapFields ==
  ASSUME NEW map, IsMap(map)
  PROVE  /\ map.table_size \in Nat /\ map.table_size > 0
         /\ map.size \in Nat
         /\ map.data \in Arrays(map.table_size)
         /\ \A s \in 0 .. map.table_size - 1 : map.data[s] \in Items \cup {Free}
  BY DEF IsMap, Arrays

(* A probe stays inside the table: the chain wraps around. *)
LEMMA ProbeIn ==
  ASSUME NEW map, IsMap(map), NEW k \in Keys, NEW i \in Chain
  PROVE  Probe(map, k, i) \in 0 .. map.table_size - 1
  <1>1. hash_int[k] + i \in Nat
    BY HashMapAssumption, ChainNat
  <1>2. \A x \in Nat, n \in Nat : n > 0 => x % n \in 0 .. n - 1
    OBVIOUS
  <1> QED BY <1>1, <1>2, MapFields DEF Probe

LEMMA ItemFields == \A item \in Items : item.key \in Keys /\ item.value \in Values /\ item # Free
  BY HashMapAssumption DEF Items

(* What an i-th step of a probe looks for. *)
Usable(map, k, i) == map.data[Probe(map, k, i)] = Free \/ Holds(map, k, i)

(* The slot hashmap_hash returns: the first usable one of the chain. *)
LEMMA HashFinds ==
  ASSUME NEW map, IsMap(map), NEW k \in Keys, hashmap_hash(map, k) # MAP_FULL
  PROVE  /\ map.size < map.table_size \div 2
         /\ \E i \in Chain :
              /\ hashmap_hash(map, k) = Probe(map, k, i)
              /\ Usable(map, k, i)
              /\ \A j \in Chain : j < i => ~Usable(map, k, j)
  <1> DEFINE usable == {i \in Chain : Usable(map, k, i)}
  <1>1. usable = {i \in Chain : map.data[Probe(map, k, i)] = Free \/ Holds(map, k, i)}
    BY DEF Usable
  <1>2. ~(map.size >= map.table_size \div 2) /\ usable # {}
        /\ hashmap_hash(map, k) = Probe(map, k, First(usable))
    BY <1>1, Zenon DEF hashmap_hash
  <1>3. First(usable) \in usable /\ \A j \in usable : First(usable) <= j
    BY <1>2, ChainNat, FirstIsLeast
  <1>4. map.size < map.table_size \div 2
    BY <1>2, MapFields
  <1>5. \A j \in Chain : j < First(usable) => ~Usable(map, k, j)
    <2> SUFFICES ASSUME NEW j \in Chain, j < First(usable), Usable(map, k, j) PROVE FALSE
      OBVIOUS
    <2>1. j \in usable
      OBVIOUS
    <2> HIDE DEF usable
    <2>2. First(usable) <= j
      BY <1>3, <2>1
    <2>3. First(usable) \in Nat /\ j \in Nat
      BY <1>3, ChainNat DEF usable
    <2> QED BY <2>2, <2>3
  <1> HIDE DEF usable
  <1>6. First(usable) \in Chain /\ Usable(map, k, First(usable))
    BY <1>3 DEF usable
  <1> QED BY <1>2, <1>4, <1>5, <1>6

(* hashmap_get answers the first item of its key on the chain. *)
LEMMA GetFinds ==
  ASSUME NEW map, NEW k
  PROVE  \/ /\ \A i \in Chain : ~Holds(map, k, i)
            /\ hashmap_get(map, k) = MISSING
         \/ \E i \in Chain :
              /\ Holds(map, k, i)
              /\ \A j \in Chain : j < i => ~Holds(map, k, j)
              /\ hashmap_get(map, k) = map.data[Probe(map, k, i)].value
  <1> DEFINE found == {i \in Chain : Holds(map, k, i)}
  <1>1. CASE found = {}
    BY <1>1 DEF hashmap_get
  <1>2. CASE found # {}
    <2>1. First(found) \in found /\ \A j \in found : First(found) <= j
      BY <1>2, ChainNat, FirstIsLeast
    <2>2. hashmap_get(map, k) = map.data[Probe(map, k, First(found))].value
      BY <1>2, Zenon DEF hashmap_get
    <2>3. \A j \in Chain : j < First(found) => ~Holds(map, k, j)
      <3> SUFFICES ASSUME NEW j \in Chain, j < First(found), Holds(map, k, j) PROVE FALSE
        OBVIOUS
      <3>1. j \in found
        OBVIOUS
      <3> HIDE DEF found
      <3>2. First(found) <= j
        BY <2>1, <3>1
      <3>3. First(found) \in Nat /\ j \in Nat
        BY <2>1, ChainNat DEF found
      <3> QED BY <3>2, <3>3
    <2> HIDE DEF found
    <2>4. First(found) \in Chain /\ Holds(map, k, First(found))
      BY <2>1 DEF found
    <2> QED BY <2>2, <2>3, <2>4
  <1> QED BY <1>1, <1>2

(* hashmap_remove frees one slot that holds the key, if there is any. *)
Freed(map, s) == [map EXCEPT !.size = @ - 1, !.data[s] = Free]

LEMMA RemoveFrees ==
  ASSUME NEW map, NEW k
  PROVE  \/ hashmap_remove(map, k) = map
         \/ \E i \in Chain : Holds(map, k, i) /\ hashmap_remove(map, k) = Freed(map, Probe(map, k, i))
  <1> DEFINE found == {i \in Chain : Holds(map, k, i)}
  <1>1. CASE found = {}
    BY <1>1 DEF hashmap_remove
  <1>2. CASE found # {}
    <2>1. First(found) \in found
      BY <1>2, ChainNat, FirstIsLeast
    <2>2. hashmap_remove(map, k) = Freed(map, Probe(map, k, First(found)))
      BY <1>2, Zenon DEF hashmap_remove, Freed
    <2> HIDE DEF found
    <2>3. First(found) \in Chain /\ Holds(map, k, First(found))
      BY <2>1 DEF found
    <2> QED BY <2>2, <2>3
  <1> QED BY <1>1, <1>2

-----------------------------------------------------------------------------
(* map2 is map with another content of slot s. *)
Differs(map, map2, s) ==
  /\ IsMap(map) /\ IsMap(map2)
  /\ map2.table_size = map.table_size
  /\ s \in 0 .. map.table_size - 1
  /\ \A t \in 0 .. map.table_size - 1 : t # s => map2.data[t] = map.data[t]

(* A table with its size and one slot changed. *)
Changed(map, y, s, x) == [map EXCEPT !.size = y, !.data[s] = x]

LEMMA MapExcept ==
  ASSUME NEW map, IsMap(map), NEW y \in Nat,
         NEW s \in 0 .. map.table_size - 1, NEW x \in Items \cup {Free},
         NEW r, r = Changed(map, y, s, x)
  PROVE  Differs(map, r, s) /\ r.data[s] = x /\ r.size = y
  <1> DEFINE X == Items \cup {Free}
  <1>0. \E n \in Nat, z \in Nat : \E d : map = [table_size |-> n, size |-> z, data |-> d]
    BY DEF IsMap
  <1>a. PICK n \in Nat, z \in Nat : \E d : map = [table_size |-> n, size |-> z, data |-> d]
    BY <1>0
  <1>1. PICK d : map = [table_size |-> n, size |-> z, data |-> d]
    BY <1>a
  <1>2. map.table_size = n /\ map.size = z /\ map.data = d
    BY <1>1
  <1>3. d \in [0 .. n - 1 -> X] /\ n > 0 /\ x \in X /\ s \in 0 .. n - 1
    BY <1>2, MapFields DEF Arrays
  <1> HIDE DEF X
  <1>4. r.table_size = n /\ r.size = y /\ r.data = [d EXCEPT ![s] = x]
    BY <1>1, <1>3 DEF Changed
  <1>5. r \in [table_size : Nat, size : Nat, data : [0 .. n - 1 -> X]]
    BY <1>1, <1>3 DEF Changed
  <1>6. IsMap(r)
    BY <1>3, <1>4, <1>5 DEF IsMap, Arrays, X
  <1>7. r.data[s] = x /\ \A t \in 0 .. n - 1 : t # s => r.data[t] = d[t]
    BY <1>3, <1>4
  <1> QED BY <1>2, <1>3, <1>4, <1>6, <1>7 DEF Differs

LEMMA StoredDiffers ==
  ASSUME NEW map, IsMap(map), NEW s \in 0 .. map.table_size - 1, NEW item \in Items
  PROVE  /\ Differs(map, Stored(map, s, item), s)
         /\ Stored(map, s, item).data[s] = item
         /\ Stored(map, s, item).size = IF map.data[s] = Free THEN map.size + 1 ELSE map.size
  <1> DEFINE y == IF map.data[s] = Free THEN map.size + 1 ELSE map.size
             r == Stored(map, s, item)
  <1>1. y \in Nat
    BY MapFields
  <1>2. r = Changed(map, y, s, item)
    BY Zenon DEF Stored, Changed
  <1>3. item \in Items \cup {Free}
    OBVIOUS
  <1> HIDE DEF y, r
  <1>4. Differs(map, r, s) /\ r.data[s] = item /\ r.size = y
    BY <1>1, <1>2, <1>3, MapExcept
  <1> QED BY <1>4 DEF y, r

LEMMA FreedDiffers ==
  ASSUME NEW map, IsMap(map), NEW s \in 0 .. map.table_size - 1, map.size > 0
  PROVE  /\ Differs(map, Freed(map, s), s)
         /\ Freed(map, s).data[s] = Free
         /\ Freed(map, s).size = map.size - 1
  <1> DEFINE y == map.size - 1
             r == Freed(map, s)
  <1>1. y \in Nat
    BY MapFields
  <1>2. r = Changed(map, y, s, Free)
    BY Zenon DEF Freed, Changed
  <1>3. Free \in Items \cup {Free}
    OBVIOUS
  <1> HIDE DEF y, r
  <1>4. Differs(map, r, s) /\ r.data[s] = Free /\ r.size = y
    BY <1>1, <1>2, <1>3, MapExcept
  <1> QED BY <1>4 DEF y, r

LEMMA EmptyIsMap ==
  ASSUME NEW n \in Nat, n > 0
  PROVE  /\ IsMap(EmptyMap(n))
         /\ EmptyMap(n).table_size = n /\ EmptyMap(n).size = 0
         /\ \A s \in 0 .. n - 1 : EmptyMap(n).data[s] = Free
  BY DEF EmptyMap, IsMap, Arrays

(* A probe does not depend on the content. *)
LEMMA SameProbe ==
  ASSUME NEW map, NEW map2, map2.table_size = map.table_size
  PROVE  \A k, i : Probe(map2, k, i) = Probe(map, k, i)
  BY DEF Probe

-----------------------------------------------------------------------------
(* The used slots of a table, and how their number changes with one slot. *)
Using(map) == {s \in 0 .. map.table_size - 1 : map.data[s] # Free}

LEMMA UsingFinite ==
  ASSUME NEW map, IsMap(map)
  PROVE  IsFiniteSet(Using(map)) /\ Cardinality(Using(map)) \in Nat
  <1>1. IsFiniteSet(0 .. map.table_size - 1)
    BY MapFields, FS_Interval
  <1>2. IsFiniteSet(Using(map))
    BY <1>1, FS_Subset DEF Using
  <1> QED BY <1>2, FS_CardinalityType

LEMMA Counting ==
  ASSUME NEW map, NEW map2, NEW s, Differs(map, map2, s)
  PROVE  Cardinality(Using(map2)) =
           Cardinality(Using(map)) + (IF map2.data[s] # Free THEN 1 ELSE 0)
                                   - (IF map.data[s] # Free THEN 1 ELSE 0)
  <1> DEFINE A == Using(map)
             B == Using(map2)
  <1>1. IsFiniteSet(A) /\ Cardinality(A) \in Nat
    BY UsingFinite DEF Differs
  <1>2. s \in A <=> map.data[s] # Free
    BY DEF Differs, Using
  <1>3. CASE map2.data[s] # Free
    <2>1. B = A \cup {s}
      BY <1>3 DEF Differs, Using
    <2> HIDE DEF A, B
    <2>2. Cardinality(B) = IF s \in A THEN Cardinality(A) ELSE Cardinality(A) + 1
      BY <1>1, <2>1, FS_AddElement
    <2> QED BY <1>1, <1>2, <1>3, <2>2 DEF A, B
  <1>4. CASE map2.data[s] = Free
    <2>1. B = A \ {s}
      BY <1>4 DEF Differs, Using
    <2> HIDE DEF A, B
    <2>2. Cardinality(B) = IF s \in A THEN Cardinality(A) - 1 ELSE Cardinality(A)
      BY <1>1, <2>1, FS_RemoveElement
    <2> QED BY <1>1, <1>2, <1>4, <2>2 DEF A, B
  <1> QED BY <1>3, <1>4

(* The items of a table with one slot changed. *)
LEMMA UsedDiffers ==
  ASSUME NEW map, NEW map2, NEW s, Differs(map, map2, s)
  PROVE  /\ \A item \in Used(map2) : item \in Used(map) \/ item = map2.data[s]
         /\ \A item \in Used(map) : item \in Used(map2) \/ item = map.data[s]
         /\ map2.data[s] # Free => map2.data[s] \in Used(map2)
  BY DEF Differs, Used

LEMMA UsedItems ==
  ASSUME NEW map, IsMap(map)
  PROVE  Used(map) \subseteq Items
  BY MapFields DEF Used

(* Probes of a table with one slot changed. *)
LEMMA DiffersProbe ==
  ASSUME NEW map, NEW map2, NEW s, Differs(map, map2, s), NEW k \in Keys, NEW i \in Chain
  PROVE  /\ Probe(map2, k, i) = Probe(map, k, i)
         /\ Probe(map, k, i) \in 0 .. map.table_size - 1
         /\ Probe(map, k, i) # s => map2.data[Probe(map2, k, i)] = map.data[Probe(map, k, i)]
  <1>1. Probe(map2, k, i) = Probe(map, k, i)
    BY SameProbe DEF Differs
  <1>2. Probe(map, k, i) \in 0 .. map.table_size - 1
    BY ProbeIn DEF Differs
  <1> QED BY <1>1, <1>2 DEF Differs

-----------------------------------------------------------------------------
(* map2 is map after item was stored in slot s, the i-th of its chain.     *)
Puts(map, map2, item, s, i) ==
  /\ Differs(map, map2, s)
  /\ item \in Items /\ map2.data[s] = item
  /\ map2.size = IF map.data[s] = Free THEN map.size + 1 ELSE map.size
  /\ map.size < map.table_size \div 2
  /\ i \in Chain /\ s = Probe(map, item.key, i)
  /\ map.data[s] = Free \/ map.data[s].key = item.key
  /\ \A j \in Chain : j < i =>
       map.data[Probe(map, item.key, j)] # Free /\ map.data[Probe(map, item.key, j)].key # item.key

LEMMA StoredPuts ==
  ASSUME NEW map, IsMap(map), NEW item \in Items, hashmap_hash(map, item.key) # MAP_FULL
  PROVE  \E i \in Chain :
           Puts(map, Stored(map, hashmap_hash(map, item.key), item), item, hashmap_hash(map, item.key), i)
  <1> DEFINE k == item.key
             s == hashmap_hash(map, k)
             map2 == Stored(map, s, item)
  <1>1. k \in Keys
    BY ItemFields
  <1>2. /\ map.size < map.table_size \div 2
        /\ \E i \in Chain :
              /\ s = Probe(map, k, i)
              /\ Usable(map, k, i)
              /\ \A j \in Chain : j < i => ~Usable(map, k, j)
    BY <1>1, HashFinds
  <1>3. PICK i \in Chain :
              /\ s = Probe(map, k, i)
              /\ Usable(map, k, i)
              /\ \A j \in Chain : j < i => ~Usable(map, k, j)
    BY <1>2
  <1> HIDE DEF k, s
  <1>4. s \in 0 .. map.table_size - 1
    BY <1>1, <1>3, ProbeIn
  <1>5. /\ Differs(map, map2, s) /\ map2.data[s] = item
        /\ map2.size = IF map.data[s] = Free THEN map.size + 1 ELSE map.size
    BY <1>4, StoredDiffers
  <1> HIDE DEF map2
  <1>6. map.data[s] = Free \/ map.data[s].key = k
    BY <1>3 DEF Usable, Holds
  <1>7. \A j \in Chain : j < i => map.data[Probe(map, k, j)] # Free /\ map.data[Probe(map, k, j)].key # k
    BY <1>3 DEF Usable, Holds
  <1>8. Puts(map, map2, item, s, i)
    BY <1>2, <1>3, <1>5, <1>6, <1>7 DEF Puts, k
  <1> QED BY <1>8 DEF map2, s, k

(* The count stays right, and within half of the table. *)
LEMMA PutsCount ==
  ASSUME NEW map, NEW map2, NEW item, NEW s, NEW i, Puts(map, map2, item, s, i),
         map.size = Cardinality(Using(map))
  PROVE  map2.size = Cardinality(Using(map2)) /\ map2.size <= map2.table_size \div 2
  <1>1. item # Free /\ map.size \in Nat /\ map.table_size \in Nat
    BY ItemFields, MapFields DEF Puts, Differs
  <1>2. Cardinality(Using(map2)) = map.size + 1 - (IF map.data[s] # Free THEN 1 ELSE 0)
    BY <1>1, Counting DEF Puts
  <1> QED BY <1>1, <1>2 DEF Puts, Differs

(* Every item is still on its chain. *)
LEMMA PutsPlaced ==
  ASSUME NEW map, NEW map2, NEW item, NEW s, NEW i, Puts(map, map2, item, s, i), Placed(map)
  PROVE  Placed(map2)
  <1> SUFFICES ASSUME NEW t \in 0 .. map2.table_size - 1, map2.data[t] # Free
               PROVE  \E j \in Chain : t = Probe(map2, map2.data[t].key, j)
    BY DEF Placed
  <1>1. \A k, j : Probe(map2, k, j) = Probe(map, k, j)
    BY SameProbe DEF Puts, Differs
  <1>2. CASE t = s
    BY <1>1, <1>2 DEF Puts
  <1>3. CASE t # s
    BY <1>1, <1>3 DEF Puts, Differs, Placed
  <1> QED BY <1>2, <1>3

(* A get of the key finds the item. *)
LEMMA PutsVisible ==
  ASSUME NEW map, NEW map2, NEW item, NEW s, NEW i, Puts(map, map2, item, s, i)
  PROVE  hashmap_get(map2, item.key) = item.value
  <1> DEFINE k == item.key
  <1>1. k \in Keys /\ item # Free /\ i \in Chain /\ s = Probe(map2, k, i) /\ map2.data[s] = item
    BY ItemFields, SameProbe DEF Puts, Differs
  <1>2. Holds(map2, k, i)
    BY <1>1 DEF Holds
  <1>3. \A j \in Chain : j < i => ~Holds(map2, k, j)
    <2> SUFFICES ASSUME NEW j \in Chain, j < i PROVE ~Holds(map2, k, j)
      OBVIOUS
    <2>1. map.data[Probe(map, k, j)] # Free /\ map.data[Probe(map, k, j)].key # k
      BY DEF Puts
    <2>2. Probe(map, k, j) # s
      BY <2>1 DEF Puts
    <2>3. map2.data[Probe(map2, k, j)] = map.data[Probe(map, k, j)]
      BY <1>1, <2>2, DiffersProbe DEF Puts
    <2> QED BY <2>1, <2>3 DEF Holds
  <1>4. PICK j \in Chain :
              /\ Holds(map2, k, j)
              /\ \A l \in Chain : l < j => ~Holds(map2, k, l)
              /\ hashmap_get(map2, k) = map2.data[Probe(map2, k, j)].value
    BY <1>1, <1>2, GetFinds
  <1>5. j = i
    <2>1. ~(j < i) /\ ~(i < j)
      BY <1>1, <1>2, <1>3, <1>4
    <2>2. i \in Nat /\ j \in Nat
      BY <1>1, ChainNat
    <2> QED BY <2>1, <2>2
  <1> QED BY <1>1, <1>4, <1>5

(* Without removals the item is stored over the one of its key, if there   *)
(* is any: that one has no free slot before it.                            *)
LEMMA PutsTight ==
  ASSUME NEW map, NEW map2, NEW item, NEW s, NEW i, Puts(map, map2, item, s, i), Tight(map)
  PROVE  Tight(map2)
  <1> DEFINE S == 0 .. map.table_size - 1
  <1>0. /\ item # Free /\ map2.data[s] = item /\ s \in S /\ i \in Chain
        /\ s = Probe(map, item.key, i) /\ map2.table_size = map.table_size
        /\ \A t \in S : t # s => map2.data[t] = map.data[t]
    BY ItemFields DEF Puts, Differs
  <1>1. \A k, j : Probe(map2, k, j) = Probe(map, k, j)
    BY <1>0, SameProbe
  <1>2. \A t \in S : map2.data[t] = Free => map.data[t] = Free
    BY <1>0
  <1>3. \A t \in S : map2.data[t] # Free => map2.data[t].key \in Keys
    BY ItemFields, MapFields DEF Puts, Differs
  <1>4. \A k \in Keys, j \in Chain : Probe(map, k, j) \in S
    BY ProbeIn DEF Puts, Differs
  <1>5. ASSUME NEW t \in S, map2.data[t] # Free
        PROVE  \E l \in Chain :
                 /\ t = Probe(map2, map2.data[t].key, l)
                 /\ \A j \in Chain : j < l => map2.data[Probe(map2, map2.data[t].key, j)] # Free
    <2>1. PICK l \in Chain :
                 /\ t = Probe(map, map2.data[t].key, l)
                 /\ \A j \in Chain : j < l => map.data[Probe(map, map2.data[t].key, j)] # Free
      <3>1. CASE t = s
        BY <1>0, <3>1 DEF Puts
      <3>2. CASE t # s
        BY <1>0, <1>5, <3>2 DEF Tight
      <3> QED BY <3>1, <3>2
    <2>2. \A j \in Chain : j < l => map2.data[Probe(map2, map2.data[t].key, j)] # Free
      BY <1>1, <1>2, <1>3, <1>4, <1>5, <2>1
    <2> QED BY <1>1, <2>1, <2>2
  <1>6. ASSUME NEW t \in S, t # s, map2.data[t] # Free, map2.data[t].key = item.key
        PROVE  FALSE
    <2>1. map.data[t] # Free /\ map.data[t].key = item.key
      BY <1>0, <1>6
    <2>2. PICK l \in Chain :
                 /\ t = Probe(map, item.key, l)
                 /\ \A j \in Chain : j < l => map.data[Probe(map, item.key, j)] # Free
      BY <2>1 DEF Tight
    <2>3. ~(l < i)
      BY <2>1, <2>2 DEF Puts
    <2>4. l # i /\ l \in Nat /\ i \in Nat
      BY <1>0, <1>6, <2>2, ChainNat
    <2>5. i < l
      BY <2>3, <2>4
    <2>6. map.data[s] # Free
      BY <1>0, <2>2, <2>5
    <2>7. map.data[s].key = item.key
      BY <2>6 DEF Puts
    <2> QED BY <1>0, <1>6, <2>1, <2>6, <2>7 DEF Tight
  <1>7. ASSUME NEW t \in S, NEW u \in S, map2.data[t] # Free, map2.data[u] # Free,
               map2.data[t].key = map2.data[u].key
        PROVE  t = u
    <2>1. CASE t = s
      BY <1>0, <1>6, <1>7, <2>1
    <2>2. CASE u = s
      BY <1>0, <1>6, <1>7, <2>2
    <2>3. CASE t # s /\ u # s
      BY <1>0, <1>7, <2>3 DEF Tight
    <2> QED BY <2>1, <2>2, <2>3
  <1> QED BY <1>0, <1>5, <1>7 DEF Tight

(* What becomes of the items. *)
LEMMA PutsItems ==
  ASSUME NEW map, NEW map2, NEW item, NEW s, NEW i, Puts(map, map2, item, s, i)
  PROVE  /\ item \in Used(map2)
         /\ \A x \in Used(map2) : x \in Used(map) \/ x = item
         /\ \A x \in Used(map) : x \in Used(map2) \/ x.key = item.key
         /\ Tight(map2) => \A x \in Used(map2) : x.key = item.key => x = item
  <1>1. Differs(map, map2, s) /\ map2.data[s] = item /\ item # Free
    BY ItemFields DEF Puts
  <1>2. \A x \in Used(map) : x = map.data[s] => x.key = item.key
    BY DEF Puts, Used
  <1>3. ASSUME Tight(map2), NEW x \in Used(map2), x.key = item.key
        PROVE  x = item
    <2>1. PICK t \in 0 .. map2.table_size - 1 : x = map2.data[t] /\ x # Free
      BY DEF Used
    <2>2. s \in 0 .. map2.table_size - 1
      BY <1>1 DEF Differs
    <2>3. t = s
      BY <1>1, <1>3, <2>1, <2>2 DEF Tight
    <2> QED BY <1>1, <2>1, <2>3
  <1> QED BY <1>1, <1>2, <1>3, UsedDiffers

(* An empty table. *)
LEMMA EmptyFacts ==
  ASSUME NEW n \in Nat, n > 0
  PROVE  /\ Used(EmptyMap(n)) = {} /\ Placed(EmptyMap(n)) /\ Tight(EmptyMap(n))
         /\ Cardinality(Using(EmptyMap(n))) = 0
  <1> DEFINE map == EmptyMap(n)
  <1>1. map.table_size = n /\ \A s \in 0 .. n - 1 : map.data[s] = Free
    BY EmptyIsMap
  <1> HIDE DEF map
  <1>2. Used(map) = {} /\ Using(map) = {}
    BY <1>1 DEF Used, Using
  <1>3. Placed(map) /\ Tight(map)
    BY <1>1 DEF Placed, Tight
  <1> QED BY <1>2, <1>3, FS_EmptySet DEF map

-----------------------------------------------------------------------------
(* The rehashes under way: beginning one, and stepping and leaving the     *)
(* innermost.                                                              *)
LEMMA FrameFields ==
  \A r \in Frames :
    /\ r.old_size \in Nat /\ r.i \in 0 .. r.old_size
    /\ r.curr \in Arrays(r.old_size)
    /\ \A j \in 0 .. r.old_size - 1 : r.curr[j] \in Items \cup {Free}
  BY DEF Frames, Arrays

LEMMA RemainingItems == \A r \in Frames : Remaining(r) \subseteq Items
  BY FrameFields DEF Remaining

LEMMA PendingItems ==
  ASSUME NEW rs \in Seq(Frames)
  PROVE  Pending(rs) \subseteq Items
  BY RemainingItems DEF Pending

LEMMA PendingPush ==
  ASSUME NEW rs \in Seq(Frames), NEW r \in Frames
  PROVE  /\ <<r>> \o rs \in Seq(Frames)
         /\ Pending(<<r>> \o rs) = Remaining(r) \cup Pending(rs)
  <1> DEFINE q == <<r>> \o rs
  <1>1. q \in Seq(Frames) /\ Len(q) = Len(rs) + 1 /\ q[1] = r
    OBVIOUS
  <1>2. \A n \in DOMAIN rs : n + 1 \in DOMAIN q /\ q[n + 1] = rs[n]
    OBVIOUS
  <1>3. \A n \in DOMAIN q : n = 1 \/ (n - 1 \in DOMAIN rs /\ q[n] = rs[n - 1])
    OBVIOUS
  <1>4. 1 \in DOMAIN q
    BY <1>1
  <1> HIDE DEF q
  <1>5. Pending(q) = Remaining(r) \cup Pending(rs)
    <2>1. ASSUME NEW x \in Pending(q)
          PROVE  x \in Remaining(r) \cup Pending(rs)
      <3>1. PICK n \in DOMAIN q : x \in Remaining(q[n])
        BY DEF Pending
      <3> QED BY <1>1, <1>3, <3>1 DEF Pending
    <2>2. Remaining(r) \subseteq Pending(q)
      BY <1>1, <1>4 DEF Pending
    <2>3. ASSUME NEW x \in Pending(rs)
          PROVE  x \in Pending(q)
      <3>1. PICK n \in DOMAIN rs : x \in Remaining(rs[n])
        BY DEF Pending
      <3>2. n + 1 \in DOMAIN q /\ x \in Remaining(q[n + 1])
        BY <1>2, <3>1
      <3> QED BY <3>2 DEF Pending
    <2> QED BY <2>1, <2>2, <2>3
  <1> QED BY <1>1, <1>5 DEF q

LEMMA PendingTail ==
  ASSUME NEW rs \in Seq(Frames), rs # <<>>
  PROVE  /\ rs[1] \in Frames
         /\ Tail(rs) \in Seq(Frames)
         /\ Pending(rs) = Remaining(rs[1]) \cup Pending(Tail(rs))
  <1> DEFINE q == Tail(rs)
  <1>1. q \in Seq(Frames) /\ 1 \in DOMAIN rs /\ rs[1] \in Frames
    OBVIOUS
  <1>2. \A n \in DOMAIN q : n + 1 \in DOMAIN rs /\ rs[n + 1] = q[n]
    OBVIOUS
  <1>3. \A n \in DOMAIN rs : n = 1 \/ (n - 1 \in DOMAIN q /\ q[n - 1] = rs[n])
    OBVIOUS
  <1> HIDE DEF q
  <1>4. Pending(rs) = Remaining(rs[1]) \cup Pending(q)
    BY <1>1, <1>2, <1>3 DEF Pending
  <1> QED BY <1>1, <1>4 DEF q

LEMMA FrameStep ==
  ASSUME NEW r \in Frames, r.i < r.old_size
  PROVE  /\ [r EXCEPT !.i = @ + 1] \in Frames
         /\ r.i \in 0 .. r.old_size - 1
         /\ Remaining(r) = Remaining([r EXCEPT !.i = @ + 1]) \cup ({r.curr[r.i]} \ {Free})
  <1>1. PICK n \in Nat : r \in [curr : Arrays(n), old_size : {n}, i : 0 .. n]
    BY DEF Frames
  <1> DEFINE q == [r EXCEPT !.i = @ + 1]
  <1>2. q.i = r.i + 1 /\ q.old_size = r.old_size /\ q.curr = r.curr
    BY <1>1
  <1>3. q \in [curr : Arrays(n), old_size : {n}, i : 0 .. n]
    BY <1>1
  <1>4. r.i \in 0 .. r.old_size - 1 /\ r.old_size \in Nat
    BY <1>1
  <1> HIDE DEF q
  <1>5. r.i .. r.old_size - 1 = (q.i .. q.old_size - 1) \cup {r.i}
    BY <1>2, <1>4
  <1>6. Remaining(r) = Remaining(q) \cup ({r.curr[r.i]} \ {Free})
    BY <1>2, <1>5 DEF Remaining
  <1>7. q \in Frames
    BY <1>3 DEF Frames
  <1> QED BY <1>4, <1>6, <1>7 DEF q

LEMMA PendingStep ==
  ASSUME NEW rs \in Seq(Frames), rs # <<>>, rs[1].i < rs[1].old_size
  PROVE  /\ [rs EXCEPT ![1].i = @ + 1] \in Seq(Frames)
         /\ Pending(rs) = Pending([rs EXCEPT ![1].i = @ + 1]) \cup ({rs[1].curr[rs[1].i]} \ {Free})
  <1> DEFINE r == rs[1]
             t == [r EXCEPT !.i = @ + 1]
             q == [rs EXCEPT ![1].i = @ + 1]
  <1>1. r \in Frames /\ 1 \in DOMAIN rs
    OBVIOUS
  <1>2. t \in Frames /\ Remaining(r) = Remaining(t) \cup ({r.curr[r.i]} \ {Free})
    BY <1>1, FrameStep
  <1>3. q = [rs EXCEPT ![1] = t]
    BY <1>1
  <1> HIDE DEF q, t
  <1>4. q \in Seq(Frames) /\ DOMAIN q = DOMAIN rs /\ q[1] = t /\ \A n \in DOMAIN rs : n # 1 => q[n] = rs[n]
    BY <1>1, <1>2, <1>3
  <1> HIDE DEF r
  <1>5. Pending(rs) = Pending(q) \cup ({r.curr[r.i]} \ {Free})
    BY <1>1, <1>2, <1>4 DEF Pending, r
  <1> QED BY <1>4, <1>5 DEF q, r

-----------------------------------------------------------------------------
(* The invariant is preserved by each action.  First what the actions do   *)
(* to the items.                                                           *)
LEMMA StockItems ==
  ASSUME TypeInv
  PROVE  Stock \subseteq Items
  BY UsedItems, PendingItems DEF TypeInv, Stock

(* The rehashes' own steps leave the items alone. *)
LEMMA SameStock ==
  ASSUME IInv, TypeInv', Stock' = Stock, SizeCounts', Placed(m)', Tight(m) => Tight(m)',
         UNCHANGED <<putting, expected, removed>>
  PROVE  IInv'
  <1>1. Held'
    BY DEF IInv, Held
  <1>2. ~removed' => Current'
    BY DEF IInv, Current
  <1> QED BY <1>1, <1>2 DEF IInv

LEMMA CallStep ==
  ASSUME IInv, NEW key \in Keys, NEW value \in Values, hashmap_put(key, value)
  PROVE  IInv'
  <1> DEFINE item == [key |-> key, value |-> value]
  <1> USE DEF hashmap_put
  <1>1. item \in Items /\ putting = {} /\ putting' = {item} /\ item.key = key /\ item.value = value
    BY DEF Items
  <1>2. TypeInv'
    BY <1>1 DEF IInv, TypeInv
  <1>3. Stock' = Stock
    BY DEF Stock
  <1>4. SizeCounts' /\ Placed(m)' /\ (~removed' => Tight(m)')
    BY DEF IInv, SizeCounts, InUse, Slots
  <1>5. expected \in [Keys -> Values \cup {MISSING}]
        /\ expected'[key] = value /\ \A k \in Keys : k # key => expected'[k] = expected[k]
    BY DEF IInv, TypeInv
  <1> HIDE DEF item
  <1>6. Held'
    <2> SUFFICES ASSUME NEW k \in Keys, expected'[k] # MISSING
                 PROVE  \E x \in Stock' \cup putting' : x.key = k
      BY DEF Held
    <2>1. CASE k = key
      BY <1>1, <2>1
    <2>2. CASE k # key
      BY <1>1, <1>3, <1>5, <2>2 DEF IInv, Held
    <2> QED BY <2>1, <2>2
  <1>7. ASSUME ~removed'
        PROVE  Current'
    <2>1. \A x \in Stock : x.key \in Keys /\ x.value = expected[x.key]
      BY <1>1, <1>7, StockItems, ItemFields DEF IInv, Current
    <2> QED BY <1>1, <1>3, <1>5, <2>1 DEF Current
  <1> QED BY <1>2, <1>4, <1>6, <1>7 DEF IInv

LEMMA BeginStep ==
  ASSUME IInv, RehashBegins
  PROVE  IInv'
  <1> USE DEF RehashBegins
  <1> DEFINE n == m.table_size
             r == [curr |-> m.data, old_size |-> m.table_size, i |-> 0]
  <1>1. IsMap(m) /\ n \in Nat /\ n > 0 /\ m.data \in Arrays(n) /\ rehashes \in Seq(Frames)
    BY MapFields DEF IInv, TypeInv
  <1>2. r \in Frames
    BY <1>1 DEF Frames
  <1>3. 2 * n \in Nat /\ 2 * n > 0 /\ m' = EmptyMap(2 * n)
    BY <1>1
  <1>4. Remaining(r) = Used(m)
    BY <1>1 DEF Remaining, Used
  <1>5. rehashes' \in Seq(Frames) /\ Pending(rehashes') = Used(m) \cup Pending(rehashes)
    BY <1>1, <1>2, <1>4, PendingPush
  <1>6. /\ IsMap(m') /\ m'.table_size = 2 * n /\ m'.size = 0
        /\ Used(m') = {} /\ Placed(m') /\ Tight(m') /\ Cardinality(Using(m')) = 0
    BY <1>3, EmptyIsMap, EmptyFacts
  <1>7. putting # {}
    BY DEF IInv, TypeInv, BeingPut
  <1>8. TypeInv'
    BY <1>5, <1>6, <1>7 DEF IInv, TypeInv
  <1>9. Stock' = Stock
    BY <1>5, <1>6 DEF Stock
  <1>10. SizeCounts'
    <2>1. 0 <= (2 * n) \div 2
      BY <1>1
    <2> QED BY <1>6, <2>1 DEF SizeCounts, InUse, Slots, Using
  <1> QED BY <1>6, <1>8, <1>9, <1>10, SameStock

LEMMA SkipStep ==
  ASSUME IInv, RehashSkips
  PROVE  IInv'
  <1> USE DEF RehashSkips, Advanced
  <1>1. rehashes \in Seq(Frames) /\ rehashes # <<>> /\ rehashes[1].i < rehashes[1].old_size
    BY DEF IInv, TypeInv
  <1>2. rehashes' \in Seq(Frames)
        /\ Pending(rehashes) = Pending(rehashes') \cup ({rehashes[1].curr[rehashes[1].i]} \ {Free})
    BY <1>1, PendingStep
  <1>3. Stock' = Stock
    BY <1>2 DEF Stock
  <1>4. TypeInv'
    BY <1>1, <1>2 DEF IInv, TypeInv
  <1>5. SizeCounts' /\ Placed(m)' /\ (Tight(m) => Tight(m)')
    BY DEF IInv, SizeCounts, InUse, Slots
  <1> QED BY <1>3, <1>4, <1>5, SameStock

LEMMA ReturnStep ==
  ASSUME IInv, RehashReturns
  PROVE  IInv'
  <1> USE DEF RehashReturns
  <1>1. rehashes \in Seq(Frames) /\ rehashes # <<>> /\ rehashes[1].i = rehashes[1].old_size
    BY DEF IInv, TypeInv
  <1>2. /\ rehashes[1] \in Frames /\ rehashes' \in Seq(Frames)
        /\ Pending(rehashes) = Remaining(rehashes[1]) \cup Pending(rehashes')
    BY <1>1, PendingTail
  <1>3. Remaining(rehashes[1]) = {}
    BY <1>1, <1>2, FrameFields DEF Remaining
  <1>4. Stock' = Stock
    BY <1>2, <1>3 DEF Stock
  <1>5. TypeInv'
    BY <1>1, <1>2 DEF IInv, TypeInv
  <1>6. SizeCounts' /\ Placed(m)' /\ (Tight(m) => Tight(m)')
    BY DEF IInv, SizeCounts, InUse, Slots
  <1> QED BY <1>4, <1>5, <1>6, SameStock

(* The item of the innermost hashmap_put, and the two ways it ends. *)
LEMMA PutsOne ==
  ASSUME IInv, PutStores
  PROVE  \E item \in Items :
           /\ \E s, i : Puts(m, m', item, s, i)
           /\ \/ /\ rehashes = <<>> /\ rehashes' = <<>>
                 /\ putting = {item} /\ putting' = {}
              \/ /\ rehashes # <<>> /\ putting # {} /\ putting' = putting
                 /\ rehashes' \in Seq(Frames)
                 /\ Pending(rehashes) = Pending(rehashes') \cup {item}
  <1> USE DEF PutStores
  <1>1. PICK item \in BeingPut :
          hashmap_hash(m, item.key) # MAP_FULL /\ m' = Stored(m, hashmap_hash(m, item.key), item)
    OBVIOUS
  <1>2. IsMap(m) /\ putting \subseteq Items /\ rehashes \in Seq(Frames)
    BY DEF IInv, TypeInv
  <1>3. CASE rehashes = <<>>
    <2>1. item \in putting /\ putting = {item} /\ item \in Items
      BY <1>3 DEF BeingPut, IInv, TypeInv
    <2>2. PICK i : Puts(m, m', item, hashmap_hash(m, item.key), i)
      BY <1>1, <1>2, <2>1, StoredPuts
    <2> QED BY <1>3, <2>1, <2>2
  <1>4. CASE rehashes # <<>>
    <2> DEFINE r == rehashes[1]
    <2>1. r \in Frames
      BY <1>2, <1>4
    <2>2. r.i < r.old_size /\ item = r.curr[r.i] /\ item # Free /\ r.i \in 0 .. r.old_size - 1
      BY <1>4, <2>1, FrameFields DEF BeingPut
    <2>3. item \in Items
      BY <2>1, <2>2, FrameFields
    <2>4. PICK i : Puts(m, m', item, hashmap_hash(m, item.key), i)
      BY <1>1, <1>2, <2>3, StoredPuts
    <2>5. rehashes' \in Seq(Frames) /\ Pending(rehashes) = Pending(rehashes') \cup {item}
      BY <1>2, <1>4, <2>2, PendingStep DEF Advanced
    <2>6. putting # {}
      BY <1>4 DEF IInv, TypeInv
    <2> QED BY <1>4, <2>3, <2>4, <2>5, <2>6
  <1> QED BY <1>3, <1>4

LEMMA StoreStep ==
  ASSUME IInv, PutStores
  PROVE  IInv'
  <1>1. PICK item \in Items :
           /\ \E s, i : Puts(m, m', item, s, i)
           /\ \/ /\ rehashes = <<>> /\ rehashes' = <<>>
                 /\ putting = {item} /\ putting' = {}
              \/ /\ rehashes # <<>> /\ putting # {} /\ putting' = putting
                 /\ rehashes' \in Seq(Frames)
                 /\ Pending(rehashes) = Pending(rehashes') \cup {item}
    BY PutsOne
  <1>p. PICK s, i : Puts(m, m', item, s, i)
    BY <1>1
  <1>2. expected' = expected /\ removed' = removed
    BY DEF PutStores
  <1> DEFINE map2 == m'
  <1>3. IsMap(map2) /\ Puts(m, map2, item, s, i)
    BY <1>p DEF Puts, Differs
  <1> HIDE DEF map2
  <1>4. map2.size = Cardinality(Using(map2)) /\ map2.size <= map2.table_size \div 2
    <2>1. m.size = Cardinality(Using(m))
      BY DEF IInv, SizeCounts, InUse, Slots, Using
    <2> QED BY <1>3, <2>1, PutsCount
  <1>5. SizeCounts'
    BY <1>4 DEF SizeCounts, InUse, Slots, Using, map2
  <1>6. Placed(map2) /\ (Tight(m) => Tight(map2))
    BY <1>3, PutsPlaced, PutsTight DEF IInv
  <1>7. /\ item \in Used(map2)
        /\ \A x \in Used(map2) : x \in Used(m) \/ x = item
        /\ \A x \in Used(m) : x \in Used(map2) \/ x.key = item.key
        /\ Tight(map2) => \A x \in Used(map2) : x.key = item.key => x = item
    BY <1>3, PutsItems
  <1>8. TypeInv'
    BY <1>1, <1>2, <1>3 DEF IInv, TypeInv, map2
  <1>9. Stock' = Used(map2) \cup Pending(rehashes')
    BY DEF Stock, map2
  <1>10. \A x \in Stock \cup putting :
           x \in Stock' \cup putting' \/ (x.key = item.key /\ item \in Stock')
    BY <1>1, <1>7, <1>9 DEF Stock
  <1>11. Held'
    BY <1>2, <1>10 DEF IInv, Held
  <1>12. ASSUME ~removed
         PROVE  Current'
    <2>1. Tight(map2) /\ Current
      BY <1>6, <1>12 DEF IInv
    <2>2. CASE rehashes = <<>>
      <3>1. Stock' = Used(map2) /\ putting = {item} /\ putting' = {}
        BY <1>1, <1>9, <2>2 DEF Pending
      <3>2. ASSUME NEW x \in Used(map2)
            PROVE  x.value = expected[x.key]
        <4>1. CASE x = item
          BY <2>1, <3>1, <4>1 DEF Current
        <4>2. CASE x # item
          <5>1. x \in Used(m) /\ x.key # item.key
            BY <1>7, <2>1, <4>2
          <5> QED BY <2>1, <3>1, <5>1 DEF Current, Stock
        <4> QED BY <4>1, <4>2
      <3> QED BY <1>2, <3>1, <3>2 DEF Current
    <2>3. CASE rehashes # <<>>
      <3>1. putting' = putting /\ Pending(rehashes) = Pending(rehashes') \cup {item}
        BY <1>1, <2>3
      <3>2. Stock' \subseteq Stock
        BY <1>7, <1>9, <3>1 DEF Stock
      <3> QED BY <1>2, <2>1, <3>1, <3>2 DEF Current
    <2> QED BY <2>2, <2>3
  <1> QED BY <1>2, <1>5, <1>6, <1>8, <1>11, <1>12 DEF IInv, map2

LEMMA RemoveStep ==
  ASSUME IInv, NEW key \in Keys, RemoveKey(key)
  PROVE  IInv'
  <1> USE DEF RemoveKey
  <1>1. /\ IsMap(m) /\ rehashes = <<>> /\ rehashes' = <<>> /\ putting = {} /\ putting' = {}
        /\ removed' = TRUE
    BY DEF IInv, TypeInv
  <1>2. /\ expected' \in [Keys -> Values \cup {MISSING}] /\ expected'[key] = MISSING
        /\ \A k \in Keys : k # key => expected'[k] = expected[k]
    BY DEF IInv, TypeInv
  <1>3. Stock = Used(m) /\ Stock' = Used(m')
    BY <1>1 DEF Stock, Pending
  <1>4. CASE m' = m
    <2>1. TypeInv' /\ SizeCounts' /\ Placed(m')
      BY <1>1, <1>2, <1>4 DEF IInv, TypeInv, SizeCounts, InUse, Slots
    <2>2. Held'
      BY <1>1, <1>2, <1>3, <1>4 DEF IInv, Held
    <2> QED BY <1>1, <2>1, <2>2 DEF IInv
  <1>5. CASE \E i \in Chain : Holds(m, key, i) /\ m' = Freed(m, Probe(m, key, i))
    <2>1. PICK i \in Chain : Holds(m, key, i) /\ m' = Freed(m, Probe(m, key, i))
      BY <1>5
    <2> DEFINE s == Probe(m, key, i)
               map2 == m'
    <2>2. s \in 0 .. m.table_size - 1 /\ m.data[s] # Free /\ m.data[s].key = key
      BY <1>1, <2>1, ProbeIn DEF Holds
    <2>3. map2 = Freed(m, s)
      BY <2>1
    <2> HIDE DEF s, map2
    <2>4. m.size = Cardinality(Using(m)) /\ s \in Using(m) /\ m.size <= m.table_size \div 2
      BY <2>2 DEF IInv, SizeCounts, InUse, Slots, Using
    <2>5. m.size > 0
      <3>1. IsFiniteSet(Using(m)) /\ Cardinality(Using(m)) \in Nat /\ Using(m) # {}
        BY <1>1, <2>4, UsingFinite
      <3>2. Cardinality(Using(m)) # 0
        BY <3>1, FS_EmptySet
      <3> QED BY <2>4, <3>1, <3>2
    <2>6. Differs(m, map2, s) /\ map2.data[s] = Free /\ map2.size = m.size - 1
      BY <1>1, <2>2, <2>3, <2>5, FreedDiffers
    <2>7. map2.size = Cardinality(Using(map2)) /\ map2.size <= map2.table_size \div 2
      <3>1. Cardinality(Using(map2)) = Cardinality(Using(m)) - 1 /\ Cardinality(Using(m)) \in Nat
        BY <1>1, <2>2, <2>6, Counting, UsingFinite
      <3>2. m.table_size \div 2 \in Int /\ map2.table_size = m.table_size
        BY <1>1, <2>6, MapFields DEF Differs
      <3> QED BY <2>4, <2>6, <3>1, <3>2
    <2>8. Placed(map2)
      BY <2>6, SameProbe DEF IInv, Placed, Differs
    <2>9. TypeInv'
      BY <1>1, <1>2, <2>6 DEF IInv, TypeInv, Differs, map2
    <2>10. \A x \in Used(m) : x \in Used(map2) \/ x.key = key
      BY <2>2, <2>6, UsedDiffers
    <2>11. Held'
      BY <1>1, <1>2, <1>3, <2>10 DEF IInv, Held, map2
    <2>12. SizeCounts'
      BY <2>7 DEF SizeCounts, InUse, Slots, Using, map2
    <2> QED BY <1>1, <2>8, <2>9, <2>11, <2>12 DEF IInv, map2
  <1> QED BY <1>4, <1>5, RemoveFrees

LEMMA InitIInv == Init => IInv
  <1> SUFFICES ASSUME Init PROVE IInv
    OBVIOUS
  <1> USE DEF Init
  <1>1. INITIAL_SIZE \in Nat /\ INITIAL_SIZE > 0
    BY HashMapAssumption
  <1>2. /\ IsMap(m) /\ m.table_size = INITIAL_SIZE /\ m.size = 0
        /\ Used(m) = {} /\ Placed(m) /\ Tight(m) /\ Cardinality(Using(m)) = 0
    BY <1>1, EmptyIsMap, EmptyFacts
  <1>3. TypeInv
    <2>1. rehashes \in Seq(Frames)
      OBVIOUS
    <2>2. expected \in [Keys -> Values \cup {MISSING}]
      OBVIOUS
    <2>3. removed \in BOOLEAN
      OBVIOUS
    <2> QED BY <1>2, <2>1, <2>2, <2>3 DEF TypeInv
  <1>4. SizeCounts
    <2>1. 0 <= INITIAL_SIZE \div 2
      BY <1>1
    <2> QED BY <1>2, <2>1 DEF SizeCounts, InUse, Slots, Using
  <1>5. Held
    BY DEF Held
  <1>6. Current
    BY <1>2 DEF Current, Stock, Pending
  <1> QED BY <1>2, <1>3, <1>4, <1>5, <1>6 DEF IInv

LEMMA NextIInv == IInv /\ [Next]_vars => IInv'
  <1> SUFFICES ASSUME IInv, [Next]_vars PROVE IInv'
    OBVIOUS
  <1>1. CASE UNCHANGED vars
    BY <1>1 DEF vars, IInv, TypeInv, SizeCounts, InUse, Slots, Held, Current, Stock
  <1>2. CASE \E key \in Keys, value \in Values : hashmap_put(key, value)
    BY <1>2, CallStep
  <1>3. CASE \E key \in Keys : RemoveKey(key)
    BY <1>3, RemoveStep
  <1> QED BY <1>1, <1>2, <1>3, StoreStep, BeginStep, SkipStep, ReturnStep DEF Next

(* The invariant of the hash map. *)
THEOREM HashMapInvariant == Spec => []IInv
  BY InitIInv, NextIInv, PTL DEF Spec

(* Every table and every array under rehash has the type that the code     *)
(* gives it, at any depth of nested rehashes.                              *)
THEOREM HashMapTypeOK == Spec => []TypeOK
  <1>1. IInv => TypeOK
    <2> SUFFICES ASSUME IInv PROVE TypeOK
      OBVIOUS
    <2>1. m \in [table_size : Nat \ {0}, size : Nat, data : [Slots -> Items \cup {Free}]]
      BY DEF IInv, TypeInv, IsMap, Arrays, Slots
    <2>2. ASSUME NEW n \in DOMAIN rehashes
          PROVE  /\ rehashes[n].i \in 0 .. rehashes[n].old_size
                 /\ rehashes[n].curr \in [0 .. rehashes[n].old_size - 1 -> Items \cup {Free}]
      <3>1. rehashes[n] \in Frames
        BY DEF IInv, TypeInv
      <3> QED BY <3>1, FrameFields DEF Arrays
    <2> QED BY <2>1, <2>2 DEF IInv, TypeInv, TypeOK
  <1> QED BY <1>1, HashMapInvariant, PTL

(* m->size is the number of used slots and at most half of the table,      *)
(* whatever was put, overwritten, removed and rehashed.                    *)
THEOREM HashMapSizeCounts == Spec => []SizeCounts
  <1>1. IInv => SizeCounts
    BY DEF IInv
  <1> QED BY <1>1, HashMapInvariant, PTL

(* Between calls, an item of the table is where a get of its key looks. *)
LEMMA ItemIsHeld ==
  ASSUME IInv, NEW x \in Used(m)
  PROVE  x.key \in Keys /\ \E i \in Chain : Holds(m, x.key, i)
  <1>1. IsMap(m) /\ Placed(m)
    BY DEF IInv, TypeInv
  <1>2. PICK s \in 0 .. m.table_size - 1 : x = m.data[s] /\ x # Free
    BY DEF Used
  <1>3. PICK i \in Chain : s = Probe(m, x.key, i)
    BY <1>1, <1>2 DEF Placed
  <1>4. Holds(m, x.key, i)
    BY <1>2, <1>3 DEF Holds
  <1>5. x.key \in Keys
    BY <1>1, UsedItems, ItemFields
  <1> QED BY <1>4, <1>5

LEMMA HeldIsItem ==
  ASSUME IInv, NEW k \in Keys, NEW i \in Chain, Holds(m, k, i)
  PROVE  m.data[Probe(m, k, i)] \in Used(m) /\ m.data[Probe(m, k, i)].key = k
  <1>1. Probe(m, k, i) \in 0 .. m.table_size - 1
    BY ProbeIn DEF IInv, TypeInv
  <1> QED BY <1>1 DEF Holds, Used

LEMMA BetweenCalls ==
  ASSUME IInv, putting = {}
  PROVE  /\ Stock = Used(m) /\ Stock \subseteq Items
         /\ \A k \in Keys : expected[k] # MISSING => \E i \in Chain : Holds(m, k, i)
  <1>1. Stock = Used(m)
    BY DEF IInv, TypeInv, Stock, Pending
  <1>2. Stock \subseteq Items
    BY StockItems DEF IInv
  <1>3. \A k \in Keys : expected[k] # MISSING => \E i \in Chain : Holds(m, k, i)
    BY <1>1, ItemIsHeld DEF IInv, Held
  <1> QED BY <1>1, <1>2, <1>3

(* A key that was put and not removed since is found: neither a rehash     *)
(* nested in another nor a removal on its chain loses it.                  *)
THEOREM HashMapNoKeyLost == Spec => []NoKeyLost
  <1>1. IInv => NoKeyLost
    <2> SUFFICES ASSUME IInv, putting = {}, NEW k \in Keys, expected[k] # MISSING
                 PROVE  hashmap_get(m, k) # MISSING
      BY DEF NoKeyLost
    <2>1. \E i \in Chain : Holds(m, k, i)
      BY BetweenCalls
    <2>2. PICK i \in Chain : Holds(m, k, i) /\ hashmap_get(m, k) = m.data[Probe(m, k, i)].value
      BY <2>1, GetFinds
    <2>3. m.data[Probe(m, k, i)] \in Items
      BY <2>2, HeldIsItem, BetweenCalls
    <2> QED BY <2>2, <2>3, ItemFields, HashMapAssumption
  <1> QED BY <1>1, HashMapInvariant, PTL

(* Until a key is removed, every get between two calls answers the latest  *)
(* put of its key, and MISSING for a key never put.                        *)
THEOREM HashMapGetsLatest == Spec => []GetsLatest
  <1>1. IInv => GetsLatest
    <2> SUFFICES ASSUME IInv, putting = {}, ~removed, NEW k \in Keys
                 PROVE  hashmap_get(m, k) = expected[k]
      BY DEF GetsLatest
    <2>1. CASE \A i \in Chain : ~Holds(m, k, i)
      BY <2>1, GetFinds, BetweenCalls
    <2>2. CASE \E i \in Chain : Holds(m, k, i)
      <3>1. PICK i \in Chain : Holds(m, k, i) /\ hashmap_get(m, k) = m.data[Probe(m, k, i)].value
        BY <2>2, GetFinds
      <3>2. m.data[Probe(m, k, i)] \in Stock /\ m.data[Probe(m, k, i)].key = k
        BY <3>1, HeldIsItem, BetweenCalls
      <3> QED BY <3>1, <3>2 DEF IInv, Current
    <2> QED BY <2>1, <2>2
  <1> QED BY <1>1, HashMapInvariant, PTL

(* When hashmap_put returns, a get of the key answers its value, also      *)
(* where removals left a second item of the key further down the chain.    *)
THEOREM HashMapPutIsVisible == Spec => PutIsVisible
  <1>1. IInv /\ [Next]_vars =>
          [\A item \in putting : putting' = {} => hashmap_get(m', item.key) = item.value]_vars
    <2> SUFFICES ASSUME IInv, Next, NEW x \in putting, putting' = {}
                 PROVE  hashmap_get(m', x.key) = x.value
      OBVIOUS
    <2>1. PutStores
      BY DEF Next, hashmap_put, RehashBegins, RehashSkips, RehashReturns, RemoveKey
    <2>2. PICK item \in Items :
            (\E s, i : Puts(m, m', item, s, i)) /\ (putting = {item} \/ putting' = putting)
      BY <2>1, PutsOne
    <2>3. x = item
      BY <2>2
    <2> QED BY <2>2, <2>3, PutsVisible
  <1> QED BY <1>1, HashMapInvariant, PTL DEF Spec, PutIsVisible

=============================================================================
