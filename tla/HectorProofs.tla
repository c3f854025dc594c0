---------------------------- MODULE HectorProofs ----------------------------
(***************************************************************************)
(* The arena and the vector for every page size, capacity, item and bound: *)
(* allocations never overlap, the arena stops growing, the capacity never  *)
(* vanishes, and the vector implements Vector.                             *)
(***************************************************************************)
EXTENDS Hector, SequenceTheorems, FiniteSetTheorems, TLAPS

Pages == [data : Nat, size : Nat, current : Nat]

PagesOK(ps) ==
  /\ ps \in Seq(Pages)
  /\ \A i \in 1 .. Len(ps) : ps[i].current <= ps[i].size /\ ps[i].size <= ps[i].data

(* Regions end where their page is filled to: the next one begins there.   *)
RegionOK(ps, r) ==
  /\ r \in [page : 1 .. Len(ps), from : Nat, upto : Nat]
  /\ r.from <= r.upto
  /\ r.upto <= ps[r.page].current

Apart(q, r) == q.page = r.page => q.upto <= r.from \/ r.upto <= q.from

ArenaOK(ps, rs) ==
  /\ PagesOK(ps)
  /\ rs \in Seq([page : Nat, from : Nat, upto : Nat])
  /\ \A k \in 1 .. Len(rs) : RegionOK(ps, rs[k])
  /\ \A k \in 1 .. Len(rs) : \A l \in 1 .. k - 1 : Apart(rs[l], rs[k])

ArenaInv == ArenaOK(pages, regions)

LEMMA PageFields == \A p \in Pages : p.data \in Nat /\ p.size \in Nat /\ p.current \in Nat
BY DEF Pages

LEMMA PageNumbers ==
  ASSUME NEW ps \in Seq(Pages), NEW j \in 1 .. Len(ps)
  PROVE  ps[j].data \in Nat /\ ps[j].size \in Nat /\ ps[j].current \in Nat
<1>1. ps[j] \in Pages
  BY ElementOfSeq
<1> QED BY <1>1, PageFields

(* One more allocation keeps the regions in their pages and apart. *)
LEMMA AllocPages ==
  ASSUME NEW ps, PagesOK(ps), NEW size \in Nat, NEW i, FirstFit(ps, size, i)
  PROVE  /\ PagesOK(AllocAt(ps, i, size))
         /\ Len(AllocAt(ps, i, size)) = IF i <= Len(ps) THEN Len(ps) ELSE Len(ps) + 1
         /\ \A j \in 1 .. Len(ps) : AllocAt(ps, i, size)[j].current >= ps[j].current
         /\ RegionOK(AllocAt(ps, i, size), RegionAt(ps, i, size))
<1> DEFINE qs == AllocAt(ps, i, size)
<1>1. ps \in Seq(Pages) /\ Len(ps) \in Nat /\ i \in 1 .. Len(ps) + 1
  BY DEF PagesOK, FirstFit
<1>2. CASE i <= Len(ps)
  <2>1. Fits(ps, i, size) /\ i \in 1 .. Len(ps)
    BY <1>1, <1>2 DEF FirstFit
  <2> DEFINE p == [ps[i] EXCEPT !.current = @ + size]
  <2>2. qs = [ps EXCEPT ![i] = p]
    BY <1>2 DEF AllocAt
  <2>3. ps[i] \in Pages
    BY <1>1, <2>1
  <2>a. p \in Pages
    BY <2>3 DEF Pages
  <2> HIDE DEF p
  <2>4. qs \in Seq(Pages) /\ Len(qs) = Len(ps)
    BY <1>1, <2>1, <2>2, <2>a, ExceptSeq
  <2>6. \A j \in 1 .. Len(ps) : qs[j] = IF j = i THEN p ELSE ps[j]
    BY <1>1, <2>1, <2>2, <2>a, ExceptSeq
  <2>5. qs[i] = [ps[i] EXCEPT !.current = @ + size]
    BY <2>1, <2>6 DEF p
  <2>7. /\ qs[i].current = ps[i].current + size
        /\ qs[i].size = ps[i].size /\ qs[i].data = ps[i].data
    BY <2>3, <2>5 DEF Pages
  <2>b. qs[i].current <= qs[i].size /\ qs[i].size <= qs[i].data
    BY <1>1, <2>1, <2>7, PageNumbers DEF PagesOK, Fits
  <2>8. PagesOK(qs)
    BY <2>4, <2>6, <2>b DEF PagesOK
  <2>9. \A j \in 1 .. Len(ps) : ps[j] \in Pages
    BY <1>1
  <2>10. \A j \in 1 .. Len(ps) : qs[j].current >= ps[j].current
    BY <2>6, <2>7, <2>9, SMTT(30) DEF Pages
  <2>11. RegionOK(qs, RegionAt(ps, i, size))
    BY <1>2, <2>1, <2>3, <2>4, <2>7, SMTT(30) DEF RegionOK, RegionAt, Region, Pages
  <2> QED BY <1>2, <2>4, <2>8, <2>10, <2>11
<1>3. CASE i = Len(ps) + 1
  <2>1. PICK b \in Nat : size <= b /\ qs = Append(ps, [data |-> b, size |-> size, current |-> size])
    <3> DEFINE b == IF size > PageSize THEN size ELSE PageSize
    <3>1. b \in Nat /\ size <= b
      <4>1. PageSize \in Nat
        BY ArenaAssumption
      <4> QED BY <4>1
    <3>2. qs = Append(ps, [data |-> b, size |-> size, current |-> size])
      BY <1>1, <1>3 DEF AllocAt, NewPage
    <3> HIDE DEF b
    <3> QED BY <3>1, <3>2
  <2>2. [data |-> b, size |-> size, current |-> size] \in Pages
    BY <2>1 DEF Pages
  <2>3. qs \in Seq(Pages) /\ Len(qs) = Len(ps) + 1
    BY <1>1, <2>1, <2>2
  <2>4. /\ \A j \in 1 .. Len(ps) : qs[j] = ps[j]
        /\ qs[Len(ps) + 1] = [data |-> b, size |-> size, current |-> size]
    BY <1>1, <2>1, <2>2
  <2>5. PagesOK(qs)
    BY <1>1, <2>1, <2>3, <2>4 DEF PagesOK
  <2>6. \A j \in 1 .. Len(ps) : ps[j] \in Pages
    BY <1>1
  <2>7. \A j \in 1 .. Len(ps) : qs[j].current >= ps[j].current
    BY <2>4, <2>6 DEF Pages
  <2>8. RegionOK(qs, RegionAt(ps, i, size))
    BY <1>1, <1>3, <2>3, <2>4 DEF RegionOK, RegionAt, Region
  <2> QED BY <1>1, <1>3, <2>3, <2>5, <2>7, <2>8
<1> QED BY <1>1, <1>2, <1>3

LEMMA AllocOK ==
  ASSUME NEW ps, NEW rs, ArenaOK(ps, rs), NEW size \in Nat, NEW i, FirstFit(ps, size, i)
  PROVE  ArenaOK(AllocAt(ps, i, size), Append(rs, RegionAt(ps, i, size)))
<1> DEFINE qs == AllocAt(ps, i, size)
           r  == RegionAt(ps, i, size)
           Regions == [page : Nat, from : Nat, upto : Nat]
           ts == Append(rs, r)
<1>1. PagesOK(ps) /\ rs \in Seq(Regions) /\ ps \in Seq(Pages) /\ i \in 1 .. Len(ps) + 1
  BY DEF ArenaOK, PagesOK, FirstFit
<1>2. /\ PagesOK(qs)
      /\ Len(qs) = IF i <= Len(ps) THEN Len(ps) ELSE Len(ps) + 1
      /\ \A j \in 1 .. Len(ps) : qs[j].current >= ps[j].current
      /\ RegionOK(qs, r)
  BY <1>1, AllocPages
<1>3. Len(ps) \in Nat /\ Len(rs) \in Nat /\ Len(qs) \in Nat /\ Len(ps) <= Len(qs)
  BY <1>1, <1>2 DEF PagesOK
<1>4. r \in Regions
  BY <1>2, <1>3 DEF RegionOK
<1>5. /\ ts \in Seq(Regions) /\ Len(ts) = Len(rs) + 1
      /\ \A k \in 1 .. Len(rs) : ts[k] = rs[k]
      /\ ts[Len(rs) + 1] = r
  BY <1>1, <1>4
<1>6. \A j \in 1 .. Len(ps) : ps[j].current \in Nat /\ qs[j].current \in Nat
  <2>1. qs \in Seq(Pages)
    BY <1>2 DEF PagesOK
  <2> QED BY <1>1, <1>3, <2>1, PageNumbers
<1>7. \A k \in 1 .. Len(rs) : RegionOK(ps, rs[k])
  BY DEF ArenaOK
<1>8. ASSUME NEW k \in 1 .. Len(rs) PROVE RegionOK(qs, rs[k])
  <2> DEFINE q == rs[k]
  <2>1. q \in [page : 1 .. Len(ps), from : Nat, upto : Nat] /\ q.from <= q.upto
          /\ q.upto <= ps[q.page].current
    BY <1>7 DEF RegionOK
  <2> HIDE DEF q
  <2>2. q \in [page : 1 .. Len(qs), from : Nat, upto : Nat] /\ q.page \in 1 .. Len(ps)
          /\ q.upto \in Nat
    BY <1>3, <2>1
  <2>3. q.upto <= qs[q.page].current
    BY <1>2, <1>6, <2>1, <2>2
  <2>4. RegionOK(qs, q)
    BY <2>1, <2>2, <2>3 DEF RegionOK
  <2> QED BY <2>4 DEF q
<1>9. \A k \in 1 .. Len(ts) : RegionOK(qs, ts[k])
  BY <1>2, <1>3, <1>5, <1>8
<1>10. ASSUME NEW l \in 1 .. Len(rs) PROVE Apart(rs[l], r)
  <2>1. RegionOK(ps, rs[l])
    BY <1>7
  <2>2. r.page = i /\ r.from = IF i <= Len(ps) THEN ps[i].current ELSE 0
    BY DEF RegionAt, Region
  <2> QED BY <1>1, <1>3, <2>1, <2>2, SMTT(30) DEF Apart, RegionOK
<1>11. \A k \in 1 .. Len(ts) : \A l \in 1 .. k - 1 : Apart(ts[l], ts[k])
  <2> SUFFICES ASSUME NEW k \in 1 .. Len(ts), NEW l \in 1 .. k - 1 PROVE Apart(ts[l], ts[k])
    OBVIOUS
  <2>1. CASE k = Len(rs) + 1
    BY <1>3, <1>5, <1>10, <2>1
  <2>2. CASE k \in 1 .. Len(rs)
    BY <1>3, <1>5, <2>2 DEF ArenaOK
  <2>3. k \in 1 .. Len(rs) + 1
    BY <1>5
  <2> QED BY <1>3, <2>1, <2>2, <2>3
<1> QED BY <1>2, <1>5, <1>9, <1>11 DEF ArenaOK

LEMMA AllocStep ==
  ASSUME ArenaInv, NEW size \in Nat, arena_alloc(size)
  PROVE  ArenaInv'
<1>1. PICK i \in 1 .. Len(pages) + 1 :
        /\ FirstFit(pages, size, i)
        /\ pages' = AllocAt(pages, i, size)
        /\ regions' = Append(regions, RegionAt(pages, i, size))
  BY DEF arena_alloc
<1>2. ArenaOK(pages', regions')
  BY <1>1, AllocOK DEF ArenaInv
<1> QED BY <1>2 DEF ArenaInv, ArenaOK, PagesOK, RegionOK, Apart

LEMMA AllocBothStep ==
  ASSUME ArenaInv, NEW a \in Nat, NEW b \in Nat, arena_alloc_both(a, b)
  PROVE  ArenaInv'
<1>1. PICK i \in 1 .. Len(pages) + 1 :
        /\ FirstFit(pages, a, i)
        /\ \E j \in 1 .. Len(AllocAt(pages, i, a)) + 1 :
             /\ FirstFit(AllocAt(pages, i, a), b, j)
             /\ pages' = AllocAt(AllocAt(pages, i, a), j, b)
             /\ regions' = Append(Append(regions, RegionAt(pages, i, a)),
                                  RegionAt(AllocAt(pages, i, a), j, b))
  BY DEF arena_alloc_both
<1>2. ArenaOK(AllocAt(pages, i, a), Append(regions, RegionAt(pages, i, a)))
  BY <1>1, AllocOK DEF ArenaInv
<1>3. ArenaOK(pages', regions')
  BY <1>1, <1>2, AllocOK
<1> QED BY <1>3 DEF ArenaInv, ArenaOK, PagesOK, RegionOK, Apart

LEMMA ResetStep ==
  ASSUME ArenaInv, arena_reset
  PROVE  ArenaInv'
<1>1. pages \in Seq(Pages) /\ regions' = <<>>
  BY DEF ArenaInv, ArenaOK, PagesOK, arena_reset
<1>2. \A i \in 1 .. Len(pages) : pages[i] \in Pages
  BY <1>1
<1>3. \A i \in 1 .. Len(pages) : [pages[i] EXCEPT !.current = 0] \in Pages
  BY <1>2 DEF Pages
<1>4. pages' \in Seq(Pages) /\ Len(pages') = Len(pages)
  BY <1>1, <1>3 DEF arena_reset
<1>5. \A i \in 1 .. Len(pages) :
        pages'[i].current = 0 /\ pages'[i].size = pages[i].size /\ pages'[i].data = pages[i].data
  BY <1>1, <1>2 DEF arena_reset, Pages
<1>6. PagesOK(pages')
  <2>1. \A i \in 1 .. Len(pages) : pages[i].size <= pages[i].data /\ pages[i].size >= 0
    BY <1>1, PageNumbers DEF ArenaInv, ArenaOK, PagesOK
  <2> QED BY <1>1, <1>4, <1>5, <2>1 DEF PagesOK
<1> QED BY <1>1, <1>6 DEF ArenaInv, ArenaOK, PagesOK

-----------------------------------------------------------------------------
Cells == Items \cup {Garbage}

HectorOK ==
  /\ exists \in BOOLEAN /\ in_arena \in BOOLEAN /\ overran \in BOOLEAN
  /\ length \in 0 .. MaxLength
  /\ capacity \in Nat
  /\ length <= capacity
  /\ exists <=> capacity > 0
  /\ mem \in [0 .. capacity - 1 -> Cells]

(* The memory after a reallocation holds what was kept. *)
LEMMA ResizedMem ==
  ASSUME NEW c \in Nat, NEW m \in [0 .. c - 1 -> Cells],
         NEW kept \in 0 .. c, NEW n \in Nat
  PROVE  /\ Resized(m, kept, n) \in [0 .. n - 1 -> Cells]
         /\ \A i \in 0 .. n - 1 : i < kept => Resized(m, kept, n)[i] = m[i]
BY DEF Resized, Cells

LEMMA ShrinkStep ==
  ASSUME HectorOK, exists, ArenaInv,
         NEW m \in [0 .. capacity - 1 -> Cells], NEW len \in Nat, len <= capacity,
         try_shrink(m, len)
  PROVE  /\ capacity' \in Nat /\ capacity' > 0 /\ len <= capacity'
         /\ mem' \in [0 .. capacity' - 1 -> Cells]
         /\ \A i \in 0 .. len - 1 : mem'[i] = m[i]
         /\ ArenaInv'
<1>1. capacity \in Nat /\ capacity > 0
  BY DEF HectorOK
<1>2. CASE len < capacity \div 3
  <2> DEFINE n == capacity \div 2
             kept == IF in_arena THEN len ELSE capacity
  <2>1. n \in Nat /\ n > 0 /\ len < n /\ n <= capacity
    BY <1>1, <1>2
  <2>2. hector_resize(m, len, n)
    BY <1>2 DEF try_shrink
  <2> HIDE DEF n
  <2>3. kept \in 0 .. capacity /\ len <= kept
    BY <1>1
  <2>4. /\ capacity' = n
        /\ mem' = Resized(m, kept, n)
        /\ IF in_arena THEN arena_alloc(n) ELSE UNCHANGED arenaVars
    BY <2>2 DEF hector_resize
  <2> HIDE DEF kept
  <2>5. /\ mem' \in [0 .. n - 1 -> Cells]
        /\ \A i \in 0 .. n - 1 : i < kept => mem'[i] = m[i]
    BY <1>1, <2>1, <2>3, <2>4, ResizedMem
  <2>6. ArenaInv'
    <3>1. CASE in_arena
      BY <2>1, <2>4, <3>1, AllocStep
    <3>2. CASE ~in_arena
      BY <2>4, <3>2 DEF arenaVars, ArenaInv, ArenaOK, PagesOK, RegionOK, Apart
    <3> QED BY <3>1, <3>2
  <2>7. \A i \in 0 .. len - 1 : mem'[i] = m[i]
    BY <1>1, <2>1, <2>3, <2>5
  <2> QED BY <2>1, <2>4, <2>5, <2>6, <2>7
<1>3. CASE ~(len < capacity \div 3)
  <2>1. capacity' = capacity /\ mem' = m /\ UNCHANGED arenaVars
    BY <1>3 DEF try_shrink
  <2>2. ArenaInv'
    BY <2>1 DEF arenaVars, ArenaInv, ArenaOK, PagesOK, RegionOK, Apart
  <2> QED BY <1>1, <2>1, <2>2
<1> QED BY <1>2, <1>3

(* A push fills the next cell and keeps the ones before. *)
LEMMA PushStep ==
  ASSUME HectorOK, ArenaInv, NEW x \in Items, hector_push(x)
  PROVE  /\ capacity' \in Nat /\ capacity' > 0 /\ length' = length + 1 /\ length' <= capacity'
         /\ length' \in 0 .. MaxLength
         /\ mem' \in [0 .. capacity' - 1 -> Cells]
         /\ mem'[length] = x
         /\ \A i \in 0 .. length - 1 : mem'[i] = mem[i]
         /\ ArenaInv'
<1>1. /\ capacity \in Nat /\ capacity > 0 /\ length \in Nat /\ length <= capacity
      /\ mem \in [0 .. capacity - 1 -> Cells] /\ x \in Cells /\ length' = length + 1
      /\ length' \in 0 .. MaxLength
  BY HectorAssumption DEF HectorOK, hector_push, Cells
<1>2. CASE PushInPlace(x)
  <2>1. capacity # length /\ mem' = [mem EXCEPT ![length] = x] /\ capacity' = capacity
          /\ UNCHANGED arenaVars
    BY <1>2 DEF PushInPlace
  <2>2. ArenaInv'
    BY <2>1 DEF arenaVars, ArenaInv, ArenaOK, PagesOK, RegionOK, Apart
  <2> QED BY <1>1, <2>1, <2>2
<1>3. CASE PushGrowing(x)
  <2> DEFINE n == capacity * 2
             m == Resized(mem, length, n)
  <2>1. n \in Nat /\ n > length /\ length \in 0 .. n - 1 /\ length \in 0 .. capacity
    BY <1>1
  <2>2. /\ capacity = length
        /\ capacity' = n
        /\ mem' = [m EXCEPT ![length] = x]
        /\ IF in_arena THEN arena_alloc(n) ELSE UNCHANGED arenaVars
    BY <1>3 DEF PushGrowing
  <2>3. /\ m \in [0 .. n - 1 -> Cells]
        /\ \A i \in 0 .. n - 1 : i < length => m[i] = mem[i]
    BY <1>1, <2>1, ResizedMem
  <2>4. ArenaInv'
    <3>1. CASE in_arena
      BY <2>1, <2>2, <3>1, AllocStep
    <3>2. CASE ~in_arena
      BY <2>2, <3>2 DEF arenaVars, ArenaInv, ArenaOK, PagesOK, RegionOK, Apart
    <3> QED BY <3>1, <3>2
  <2> HIDE DEF n, m
  <2> QED BY <1>1, <2>1, <2>2, <2>3, <2>4
<1> QED BY <1>2, <1>3 DEF hector_push

(* The move closes the gap, however much further it reaches. *)
LEMMA MovedMem ==
  ASSUME HectorOK, NEW n \in Nat, NEW count \in Nat, count > 0, n + count <= length
  PROVE  /\ Moved(n, count) \in [0 .. capacity - 1 -> Cells]
         /\ \A i \in 0 .. length - count - 1 :
              Moved(n, count)[i] = IF i < n THEN mem[i] ELSE mem[i + count]
<1>1. /\ capacity \in Nat /\ length \in Nat /\ length <= capacity
      /\ mem \in [0 .. capacity - 1 -> Cells] /\ Garbage \in Cells
  BY DEF HectorOK, Cells
<1>2. Moved(n, count) \in [0 .. capacity - 1 -> Cells]
  BY <1>1 DEF Moved
<1>3. ASSUME NEW i \in 0 .. length - count - 1
      PROVE  Moved(n, count)[i] = IF i < n THEN mem[i] ELSE mem[i + count]
  <2>1. i \in 0 .. capacity - 1 /\ i + count < capacity /\ i < length + count
    BY <1>1
  <2> QED BY <1>1, <2>1 DEF Moved
<1> QED BY <1>2, <1>3

(* What a cut leaves. *)
LEMMA SpliceStep ==
  ASSUME HectorOK, ArenaInv, exists, NEW n \in Nat, NEW count \in Nat, SpliceOut(n, count)
  PROVE  /\ count > 0 /\ n + count <= length
         /\ length' = length - count
         /\ overran' \in BOOLEAN
         /\ capacity' \in Nat /\ capacity' > 0 /\ length' <= capacity'
         /\ mem' \in [0 .. capacity' - 1 -> Cells]
         /\ \A i \in 0 .. length' - 1 :
              mem'[i] = IF i < n THEN mem[i] ELSE mem[i + count]
         /\ ArenaInv'
<1>1. count > 0 /\ n + count <= length /\ length' = length - count
  BY DEF SpliceOut
<1>2. /\ capacity \in Nat /\ length \in Nat /\ length <= capacity
      /\ length - count \in Nat /\ length - count <= capacity
      /\ mem \in [0 .. capacity - 1 -> Cells] /\ overran \in BOOLEAN
  BY <1>1 DEF HectorOK
<1>3. CASE n = length - count
  <2>1. try_shrink(mem, length - count) /\ UNCHANGED overran
    BY <1>3 DEF SpliceOut
  <2>2. /\ capacity' \in Nat /\ capacity' > 0 /\ length - count <= capacity'
        /\ mem' \in [0 .. capacity' - 1 -> Cells]
        /\ \A i \in 0 .. length - count - 1 : mem'[i] = mem[i]
        /\ ArenaInv'
    BY <1>2, <2>1, ShrinkStep
  <2>3. overran' \in BOOLEAN
    BY <1>2, <2>1
  <2>4. \A i \in 0 .. length' - 1 : mem'[i] = IF i < n THEN mem[i] ELSE mem[i + count]
    <3> SUFFICES ASSUME NEW i \in 0 .. length' - 1
                 PROVE  mem'[i] = IF i < n THEN mem[i] ELSE mem[i + count]
      OBVIOUS
    <3>1. length' = n /\ i \in 0 .. length - count - 1 /\ i < n
      BY <1>1, <1>2, <1>3
    <3> QED BY <2>2, <3>1
  <2> QED BY <1>1, <2>2, <2>3, <2>4
<1>4. CASE n # length - count
  <2> DEFINE m == Moved(n, count)
  <2>1. /\ try_shrink(m, length - count)
        /\ overran' = (overran \/ length + 2 * count > capacity)
    BY <1>4 DEF SpliceOut
  <2>2. /\ m \in [0 .. capacity - 1 -> Cells]
        /\ \A i \in 0 .. length - count - 1 :
             m[i] = IF i < n THEN mem[i] ELSE mem[i + count]
    BY <1>1, MovedMem
  <2> HIDE DEF m
  <2>3. /\ capacity' \in Nat /\ capacity' > 0 /\ length - count <= capacity'
        /\ mem' \in [0 .. capacity' - 1 -> Cells]
        /\ \A i \in 0 .. length - count - 1 : mem'[i] = m[i]
        /\ ArenaInv'
    BY <1>2, <2>1, <2>2, ShrinkStep
  <2>4. overran' \in BOOLEAN
    BY <2>1
  <2> QED BY <1>1, <1>2, <2>2, <2>3, <2>4
<1> QED BY <1>3, <1>4

-----------------------------------------------------------------------------
IInv == ArenaInv /\ HectorOK

(* No vector, no memory. *)
LEMMA NoVector ==
  ASSUME NEW e, NEW l, NEW c, NEW m, e = FALSE, l = 0, c = 0, m = NoMem
  PROVE  /\ l \in 0 .. MaxLength /\ c \in Nat /\ l <= c
         /\ e \in BOOLEAN /\ (e <=> c > 0)
         /\ m \in [0 .. c - 1 -> Cells]
<1>1. MaxLength \in Nat
  BY HectorAssumption
<1>2. 0 .. c - 1 = 0 .. -1
  OBVIOUS
<1>3. m \in [0 .. c - 1 -> Cells]
  BY <1>2 DEF NoMem, Cells
<1>4. ~(c > 0)
  OBVIOUS
<1>5. e \in BOOLEAN /\ (e <=> c > 0)
  BY <1>4
<1>6. l \in 0 .. MaxLength /\ c \in Nat /\ l <= c
  BY <1>1
<1> QED BY <1>3, <1>5, <1>6

LEMMA InitIInv == Init => IInv
<1> SUFFICES ASSUME Init PROVE IInv
  OBVIOUS
<1>1. ArenaInv
  <2>1. PageSize \in Nat
    BY ArenaAssumption
  <2>2. pages = <<[data |-> PageSize, size |-> PageSize, current |-> 0]>> /\ regions = <<>>
    BY DEF Init, arena_create, Page
  <2>3. [data |-> PageSize, size |-> PageSize, current |-> 0] \in Pages
    BY <2>1 DEF Pages
  <2>4. pages \in Seq(Pages) /\ Len(pages) = 1
          /\ pages[1] = [data |-> PageSize, size |-> PageSize, current |-> 0]
    BY <2>2, <2>3
  <2>5. PagesOK(pages)
    BY <2>1, <2>4 DEF PagesOK
  <2> QED BY <2>2, <2>5 DEF ArenaInv, ArenaOK
<1>2. HectorOK
  BY NoVector DEF Init, HectorOK
<1> QED BY <1>1, <1>2 DEF IInv

(* Every operation keeps the invariant. *)
LEMMA NextIInv == IInv /\ [Next]_vars => IInv'
<1> SUFFICES ASSUME IInv, [Next]_vars PROVE IInv'
  OBVIOUS
<1>0. ArenaInv /\ HectorOK
  BY DEF IInv
<1>1. ASSUME NEW arena \in BOOLEAN, NEW n \in InitSizes, hector_create(arena, n) PROVE IInv'
  <2>1. n \in Nat /\ n > 0 /\ StructSize \in Nat
    BY HectorAssumption
  <2>2. ArenaInv'
    <3>1. CASE arena
      BY <1>0, <1>1, <2>1, <3>1, AllocBothStep DEF hector_create
    <3>2. CASE ~arena
      BY <1>0, <1>1, <3>2 DEF hector_create, arenaVars, ArenaInv, ArenaOK, PagesOK, RegionOK, Apart
    <3> QED BY <3>1, <3>2
  <2>3. /\ exists' = TRUE /\ in_arena' = arena /\ length' = 0 /\ capacity' = n
        /\ mem' = [i \in 0 .. n - 1 |-> Garbage] /\ overran' = overran
    BY <1>1 DEF hector_create
  <2>4. mem' \in [0 .. n - 1 -> Cells]
    BY <2>3 DEF Cells
  <2>5. exists' \in BOOLEAN /\ in_arena' \in BOOLEAN /\ overran' \in BOOLEAN
    BY <1>0, <2>3 DEF HectorOK
  <2>6. HectorOK'
    BY <2>1, <2>3, <2>4, <2>5, HectorAssumption DEF HectorOK
  <2> QED BY <2>2, <2>6 DEF IInv
<1>2. ASSUME NEW x \in Items, hector_push(x) PROVE IInv'
  <2>1. exists /\ exists' = exists /\ in_arena' = in_arena /\ overran' = overran
    BY <1>2 DEF hector_push
  <2>2. exists' \in BOOLEAN /\ in_arena' \in BOOLEAN /\ overran' \in BOOLEAN
    BY <1>0, <2>1 DEF HectorOK
  <2>3. HectorOK'
    BY <1>0, <1>2, <2>1, <2>2, PushStep DEF HectorOK
  <2> QED BY <1>0, <1>2, <2>3, PushStep DEF IInv
<1>3. ASSUME hector_pop PROVE IInv'
  <2>1. /\ exists /\ length > 0 /\ length' = length - 1 /\ try_shrink(mem, length - 1)
        /\ exists' = exists /\ in_arena' = in_arena /\ overran' = overran
    BY <1>3 DEF hector_pop
  <2>2. length \in 0 .. MaxLength /\ length - 1 \in Nat /\ length - 1 <= capacity
          /\ mem \in [0 .. capacity - 1 -> Cells]
    BY <1>0, <2>1, HectorAssumption DEF HectorOK
  <2>3. /\ capacity' \in Nat /\ capacity' > 0 /\ length - 1 <= capacity'
        /\ mem' \in [0 .. capacity' - 1 -> Cells]
        /\ ArenaInv'
    BY <1>0, <2>1, <2>2, ShrinkStep
  <2>4. exists' \in BOOLEAN /\ in_arena' \in BOOLEAN /\ overran' \in BOOLEAN
    BY <1>0, <2>1 DEF HectorOK
  <2>5. length' \in 0 .. MaxLength /\ length' <= capacity'
    BY <2>1, <2>2, <2>3, HectorAssumption
  <2>6. HectorOK'
    BY <2>1, <2>3, <2>4, <2>5 DEF HectorOK
  <2> QED BY <2>3, <2>6 DEF IInv
<1>4. ASSUME NEW n \in 0 .. MaxLength, NEW count \in 0 .. MaxLength, hector_splice(n, count)
      PROVE  IInv'
  <2>1. exists /\ exists' = exists /\ in_arena' = in_arena
    BY <1>4 DEF hector_splice
  <2>2. CASE SpliceRefused(n, count)
    <3>1. UNCHANGED <<length, capacity, mem, overran, arenaVars>>
      BY <2>2 DEF SpliceRefused
    <3>2. ArenaInv'
      BY <1>0, <3>1 DEF arenaVars, ArenaInv, ArenaOK, PagesOK, RegionOK, Apart
    <3>3. HectorOK'
      BY <1>0, <2>1, <3>1 DEF HectorOK
    <3> QED BY <3>2, <3>3 DEF IInv
  <2>3. CASE SpliceOut(n, count)
    <3>1. n \in Nat /\ count \in Nat
      BY HectorAssumption
    <3>2. /\ count > 0 /\ n + count <= length
          /\ length' = length - count
          /\ overran' \in BOOLEAN
          /\ capacity' \in Nat /\ capacity' > 0 /\ length' <= capacity'
          /\ mem' \in [0 .. capacity' - 1 -> Cells]
          /\ ArenaInv'
      BY <1>0, <2>1, <2>3, <3>1, SpliceStep
    <3>3. exists' \in BOOLEAN /\ in_arena' \in BOOLEAN
      BY <1>0, <2>1 DEF HectorOK
    <3>4. length' \in 0 .. MaxLength
      BY <1>0, <3>1, <3>2, HectorAssumption DEF HectorOK
    <3>5. HectorOK'
      BY <2>1, <3>2, <3>3, <3>4 DEF HectorOK
    <3> QED BY <3>2, <3>5 DEF IInv
  <2> QED BY <1>4, <2>2, <2>3 DEF hector_splice
<1>5. ASSUME hector_destroy PROVE IInv'
  <2>1. ArenaInv'
    BY <1>0, <1>5 DEF hector_destroy, arenaVars, ArenaInv, ArenaOK, PagesOK, RegionOK, Apart
  <2>2. HectorOK'
    <3>1. /\ exists' = FALSE /\ length' = 0 /\ capacity' = 0 /\ mem' = NoMem
          /\ in_arena' = in_arena /\ overran' = overran
      BY <1>5 DEF hector_destroy
    <3>2. in_arena' \in BOOLEAN /\ overran' \in BOOLEAN
      BY <1>0, <3>1 DEF HectorOK
    <3> QED BY <3>1, <3>2, NoVector DEF HectorOK
  <2> QED BY <2>1, <2>2 DEF IInv
<1>6. ASSUME NEW size \in Sizes, OtherAlloc(size) PROVE IInv'
  <2>1. ArenaInv'
    BY <1>0, <1>6, AllocStep, HectorAssumption DEF OtherAlloc
  <2>2. HectorOK'
    BY <1>0, <1>6 DEF OtherAlloc, hector, HectorOK
  <2> QED BY <2>1, <2>2 DEF IInv
<1>7. ASSUME EndCommand PROVE IInv'
  <2>1. ArenaInv'
    BY <1>0, <1>7, ResetStep DEF EndCommand
  <2>2. HectorOK'
    <3>1. /\ exists' = FALSE /\ length' = 0 /\ capacity' = 0 /\ mem' = NoMem
          /\ in_arena' = in_arena /\ overran' = overran
      BY <1>7 DEF EndCommand
    <3>2. in_arena' \in BOOLEAN /\ overran' \in BOOLEAN
      BY <1>0, <3>1 DEF HectorOK
    <3> QED BY <3>1, <3>2, NoVector DEF HectorOK
  <2> QED BY <2>1, <2>2 DEF IInv
<1>8. ASSUME UNCHANGED vars PROVE IInv'
  <2>1. ArenaInv'
    BY <1>0, <1>8 DEF vars, arenaVars, ArenaInv, ArenaOK, PagesOK, RegionOK, Apart
  <2>2. HectorOK'
    BY <1>0, <1>8 DEF vars, hector, HectorOK
  <2> QED BY <2>1, <2>2 DEF IInv
<1> QED BY <1>1, <1>2, <1>3, <1>4, <1>5, <1>6, <1>7, <1>8 DEF Next

(* The invariant of the arena and the vector: pages are filled in order,   *)
(* regions end before the fill mark, the items fit the capacity.           *)
THEOREM HectorInvariant == Spec => []IInv
BY InitIInv, NextIInv, PTL DEF Spec

(* Length, capacity and memory agree, and the capacity of a vector never   *)
(* becomes zero (aids.c).                                                  *)
THEOREM HectorTypeOK == Spec => []TypeOK
<1>1. IInv => TypeOK
  <2> SUFFICES ASSUME IInv PROVE TypeOK
    OBVIOUS
  <2>1. pages \in Seq([data : Nat, size : Nat, current : Nat])
    BY DEF IInv, ArenaInv, ArenaOK, PagesOK, Pages
  <2>2. regions \in Seq([page : 1 .. Len(pages), from : Nat, upto : Nat])
    <3> DEFINE R == [page : 1 .. Len(pages), from : Nat, upto : Nat]
    <3>1. regions \in Seq([page : Nat, from : Nat, upto : Nat])
      BY DEF IInv, ArenaInv, ArenaOK
    <3>2. \A k \in 1 .. Len(regions) : regions[k] \in R
      BY DEF IInv, ArenaInv, ArenaOK, RegionOK
    <3>3. Len(regions) \in Nat /\ DOMAIN regions = 1 .. Len(regions)
            /\ regions = [k \in 1 .. Len(regions) |-> regions[k]]
      BY <3>1, LenProperties
    <3> HIDE DEF R
    <3>4. regions \in Seq(R)
      BY <3>2, <3>3
    <3> QED BY <3>4 DEF R
  <2> QED BY <2>1, <2>2 DEF TypeOK, ArenaTypeOK, IInv, HectorOK, Cells
<1> QED BY <1>1, HectorInvariant, PTL

(* arena_alloc never hands out memory twice between two resets, nor beyond *)
(* what malloc gave, for every page size and every sequence of requests.   *)
THEOREM ArenaAllocsDisjoint == Spec => []AllocsDisjoint
<1>1. IInv => AllocsDisjoint
  <2> SUFFICES ASSUME IInv, NEW k \in 1 .. Len(regions)
               PROVE  /\ regions[k].upto <= pages[regions[k].page].data
                      /\ \A l \in 1 .. k - 1 : Apart(regions[l], regions[k])
    BY DEF AllocsDisjoint, Apart
  <2>1. RegionOK(pages, regions[k]) /\ PagesOK(pages)
    BY DEF IInv, ArenaInv, ArenaOK
  <2> DEFINE i == regions[k].page
  <2>2. i \in 1 .. Len(pages) /\ regions[k].upto \in Nat /\ regions[k].upto <= pages[i].current
    BY <2>1 DEF RegionOK
  <2>3. pages[i].current <= pages[i].size /\ pages[i].size <= pages[i].data
          /\ pages[i].current \in Nat /\ pages[i].size \in Nat /\ pages[i].data \in Nat
    BY <2>1, <2>2, PageNumbers DEF PagesOK
  <2>4. regions[k].upto <= pages[i].data
    BY <2>2, <2>3, SMTT(30)
  <2> QED BY <2>4 DEF IInv, ArenaInv, ArenaOK
<1> QED BY <1>1, HectorInvariant, PTL

-----------------------------------------------------------------------------
(* The pages of a size, other than the first. *)
OfSize(ps, s) == {j \in 2 .. Len(ps) : ps[j].size = s}

(* A page with something in it was allocated from since the last reset.   *)
UsedOK(ps, rs) ==
  \A j \in 1 .. Len(ps) : ps[j].current > 0 => \E k \in 1 .. Len(rs) : rs[k].page = j

(* No more pages of a size exist than allocations fit between two resets. *)
GrowthOK(ps, rs) ==
  /\ UsedOK(ps, rs)
  /\ \A s \in Nat : Cardinality(OfSize(ps, s)) <= MaxAllocs

GrowthInv == GrowthOK(pages, regions)

(* Pages in use are no more than regions: each has one of its own.         *)
LEMMA UsedBound ==
  ASSUME NEW ps, NEW rs, ArenaOK(ps, rs), UsedOK(ps, rs), NEW U \in SUBSET (1 .. Len(ps)),
         \A j \in U : ps[j].current > 0
  PROVE  IsFiniteSet(U) /\ Cardinality(U) <= Len(rs)
<1> DEFINE T == 1 .. Len(rs)
           f == [j \in U |-> CHOOSE k \in T : rs[k].page = j]
<1>1. Len(rs) \in Nat
  BY DEF ArenaOK
<1>2. \A j \in U : f[j] \in T /\ rs[f[j]].page = j
  BY DEF UsedOK
<1>3. f \in Injection(U, T)
  <2>1. f \in [U -> T]
    BY <1>2
  <2>2. \A i, j \in U : f[i] = f[j] => i = j
    <3> HIDE DEF f
    <3> QED BY <1>2
  <2> HIDE DEF f
  <2> QED BY <2>1, <2>2 DEF Injection, IsInjective
<1>4. IsFiniteSet(T) /\ Cardinality(T) = Len(rs)
  BY <1>1, FS_Interval
<1> HIDE DEF T, f
<1> QED BY <1>3, <1>4, FS_Injection

(* A new page of a size means that all pages of that size are in use. *)
LEMMA AllocGrowth ==
  ASSUME NEW ps, NEW rs, ArenaOK(ps, rs), GrowthOK(ps, rs), Len(rs) < MaxAllocs,
         NEW size \in Nat, NEW i, FirstFit(ps, size, i)
  PROVE  GrowthOK(AllocAt(ps, i, size), Append(rs, RegionAt(ps, i, size)))
<1> DEFINE qs == AllocAt(ps, i, size)
           r  == RegionAt(ps, i, size)
           ts == Append(rs, r)
           Regions == [page : Nat, from : Nat, upto : Nat]
<1>1. /\ PagesOK(ps) /\ rs \in Seq(Regions) /\ ps \in Seq(Pages) /\ i \in 1 .. Len(ps) + 1
      /\ Len(ps) \in Nat /\ Len(rs) \in Nat
  BY DEF ArenaOK, PagesOK, FirstFit
<1>2. r \in Regions /\ r.page = i
  <2>1. RegionOK(qs, r) /\ PagesOK(qs)
    BY <1>1, AllocPages
  <2>2. Len(qs) \in Nat
    BY <2>1 DEF PagesOK
  <2> QED BY <2>1, <2>2 DEF RegionOK, RegionAt, Region
<1> HIDE DEF r
<1>3. /\ ts \in Seq(Regions) /\ Len(ts) = Len(rs) + 1
      /\ \A k \in 1 .. Len(rs) : ts[k] = rs[k]
      /\ ts[Len(rs) + 1] = r
  BY <1>1, <1>2
<1> HIDE DEF ts
<1>4. ASSUME NEW j \in 1 .. Len(ps), ps[j].current > 0
      PROVE  \E k \in 1 .. Len(ts) : ts[k].page = j
  <2>1. PICK k \in 1 .. Len(rs) : rs[k].page = j
    BY <1>4 DEF GrowthOK, UsedOK
  <2>2. k \in 1 .. Len(ts)
    BY <1>1, <1>3, <2>1
  <2>3. ts[k].page = j
    BY <1>3, <2>1
  <2> QED BY <2>2, <2>3
<1>5. \E k \in 1 .. Len(ts) : ts[k].page = i
  <2>1. Len(rs) + 1 \in 1 .. Len(ts)
    BY <1>1, <1>3
  <2> QED BY <1>2, <1>3, <2>1
<1>6. ASSUME i <= Len(ps)
      PROVE  GrowthOK(qs, ts)
  <2>1. i \in 1 .. Len(ps) /\ ps[i] \in Pages
    BY <1>1, <1>6, ElementOfSeq
  <2> DEFINE p == [ps[i] EXCEPT !.current = @ + size]
  <2>2. p \in Pages /\ p.size = ps[i].size
    BY <2>1 DEF Pages
  <2>3. qs = [ps EXCEPT ![i] = p]
    BY <1>6 DEF AllocAt
  <2> HIDE DEF p
  <2>4. Len(qs) = Len(ps) /\ \A j \in 1 .. Len(ps) : qs[j] = IF j = i THEN p ELSE ps[j]
    BY <1>1, <2>1, <2>2, <2>3, ExceptSeq
  <2> HIDE DEF qs
  <2>5. UsedOK(qs, ts)
    BY <1>4, <1>5, <2>1, <2>4 DEF UsedOK
  <2>6. \A s : OfSize(qs, s) = OfSize(ps, s)
    BY <2>2, <2>4 DEF OfSize
  <2> QED BY <2>5, <2>6 DEF GrowthOK
<1>7. ASSUME i = Len(ps) + 1
      PROVE  GrowthOK(qs, ts)
  <2> DEFINE n == Len(ps) + 1
  <2>1. PICK b : qs = Append(ps, [data |-> b, size |-> size, current |-> size]) /\ b \in Nat
    <3>1. PageSize \in Nat
      BY ArenaAssumption
    <3> DEFINE b == IF size > PageSize THEN size ELSE PageSize
    <3>2. b \in Nat
      BY <3>1
    <3>3. qs = Append(ps, [data |-> b, size |-> size, current |-> size])
      BY <1>1, <1>7 DEF AllocAt, NewPage
    <3> HIDE DEF b
    <3> QED BY <3>2, <3>3
  <2>2. [data |-> b, size |-> size, current |-> size] \in Pages
    BY <2>1 DEF Pages
  <2>3. /\ Len(qs) = n /\ (\A j \in 1 .. Len(ps) : qs[j] = ps[j])
        /\ qs[n].size = size
    BY <1>1, <2>1, <2>2
  <2> HIDE DEF qs
  <2>4. UsedOK(qs, ts)
    <3> SUFFICES ASSUME NEW j \in 1 .. Len(qs), qs[j].current > 0
                 PROVE  \E k \in 1 .. Len(ts) : ts[k].page = j
      BY DEF UsedOK
    <3>1. j \in 1 .. Len(ps) \/ j = i
      BY <1>1, <1>7, <2>3
    <3> QED BY <1>4, <1>5, <2>3, <3>1
  <2>5. ASSUME NEW s \in Nat
        PROVE  Cardinality(OfSize(qs, s)) <= MaxAllocs
    <3>1. CASE s # size
      <4>1. OfSize(qs, s) = OfSize(ps, s)
        BY <1>1, <2>3, <3>1 DEF OfSize
      <4> QED BY <4>1 DEF GrowthOK
    <3>2. CASE s = size
      <4> DEFINE U == OfSize(ps, s)
      <4>1. ASSUME NEW j \in U
            PROVE  j \in 1 .. Len(ps) /\ ps[j].current > 0
        <5>1. j \in 1 .. Len(ps) /\ ps[j].size = size
          BY <1>1, <3>2 DEF OfSize
        <5>2. ~Fits(ps, j, size) /\ ps[j].current \in Nat
          BY <1>1, <1>7, <5>1, PageNumbers DEF FirstFit
        <5> QED BY <5>1, <5>2 DEF Fits
      <4> HIDE DEF U
      <4>2. IsFiniteSet(U) /\ Cardinality(U) <= Len(rs)
        BY <4>1, UsedBound DEF GrowthOK
      <4>3. OfSize(qs, s) \subseteq U \cup {n}
        BY <1>1, <2>3 DEF OfSize, U
      <4> HIDE DEF n
      <4>4. IsFiniteSet(U \cup {n}) /\ Cardinality(U \cup {n}) <= Len(rs) + 1
        <5>1. Cardinality(U) \in Nat
          BY <4>2, FS_CardinalityType
        <5>2. /\ IsFiniteSet(U \cup {n})
              /\ Cardinality(U \cup {n}) = IF n \in U THEN Cardinality(U) ELSE Cardinality(U) + 1
          BY <4>2, FS_AddElement
        <5> QED BY <1>1, <4>2, <5>1, <5>2
      <4> DEFINE C == OfSize(qs, s)
                 D == U \cup {n}
      <4>5. /\ Cardinality(C) <= Cardinality(D)
            /\ Cardinality(C) \in Nat /\ Cardinality(D) \in Nat
        <5>1. C \subseteq D /\ IsFiniteSet(D)
          BY <4>3, <4>4
        <5> HIDE DEF C, D
        <5> QED BY <5>1, FS_Subset, FS_CardinalityType
      <4>6. MaxAllocs \in Nat
        BY ArenaAssumption
      <4> HIDE DEF C, D
      <4>7. Cardinality(C) <= MaxAllocs
        <5>1. Cardinality(D) <= Len(rs) + 1
          BY <4>4 DEF D
        <5> QED BY <1>1, <4>5, <4>6, <5>1
      <4> QED BY <4>7 DEF C
    <3> QED BY <3>1, <3>2
  <2> QED BY <2>4, <2>5 DEF GrowthOK
<1> HIDE DEF qs
<1>8. i <= Len(ps) \/ i = Len(ps) + 1
  BY <1>1
<1>9. GrowthOK(qs, ts)
  BY <1>6, <1>7, <1>8
<1> QED BY <1>9 DEF r, ts, qs

(* What a step does to the arena. *)
LEMMA ArenaMoves ==
  ASSUME IInv, [Next]_vars
  PROVE  \/ UNCHANGED arenaVars
         \/ \E size \in Nat : arena_alloc(size)
         \/ \E a, b \in Nat : arena_alloc_both(a, b)
         \/ arena_reset
<1>0. capacity \in Nat /\ StructSize \in Nat /\ InitSizes \subseteq Nat /\ Sizes \subseteq Nat
  BY HectorAssumption DEF IInv, HectorOK
<1>1. ASSUME NEW ms, NEW len, try_shrink(ms, len)
      PROVE  UNCHANGED arenaVars \/ \E size \in Nat : arena_alloc(size)
  <2>1. capacity \div 2 \in Nat
    BY <1>0
  <2> QED BY <1>1, <2>1 DEF try_shrink, hector_resize
<1>2. CASE \E arena \in BOOLEAN : \E n \in InitSizes : hector_create(arena, n)
  BY <1>0, <1>2 DEF hector_create
<1>3. CASE \E x \in Items : hector_push(x)
  <2>1. capacity * 2 \in Nat
    BY <1>0
  <2> QED BY <1>3, <2>1 DEF hector_push, PushInPlace, PushGrowing
<1>4. CASE hector_pop
  BY <1>1, <1>4 DEF hector_pop
<1>5. CASE \E n, count \in 0 .. MaxLength : hector_splice(n, count)
  BY <1>1, <1>5 DEF hector_splice, SpliceRefused, SpliceOut
<1>6. CASE hector_destroy
  BY <1>6 DEF hector_destroy
<1>7. CASE \E size \in Sizes : OtherAlloc(size)
  BY <1>0, <1>7 DEF OtherAlloc
<1>8. CASE EndCommand
  BY <1>8 DEF EndCommand
<1>9. CASE UNCHANGED vars
  BY <1>9 DEF vars
<1> QED BY <1>2, <1>3, <1>4, <1>5, <1>6, <1>7, <1>8, <1>9 DEF Next

(* Every step preserves the bound. *)
LEMMA GrowthStep == IInv /\ GrowthInv /\ [Next]_vars => GrowthInv'
<1> SUFFICES ASSUME IInv, GrowthInv, [Next]_vars PROVE GrowthOK(pages', regions')
  BY DEF GrowthInv, GrowthOK, UsedOK, OfSize
<1>0. ArenaOK(pages, regions) /\ GrowthOK(pages, regions) /\ Len(regions) \in Nat
  BY DEF IInv, ArenaInv, ArenaOK, GrowthInv
<1>1. CASE UNCHANGED arenaVars
  BY <1>0, <1>1 DEF arenaVars
<1>2. CASE \E size \in Nat : arena_alloc(size)
  <2>1. PICK size \in Nat, i \in 1 .. Len(pages) + 1 :
          /\ Len(regions) < MaxAllocs
          /\ FirstFit(pages, size, i)
          /\ pages' = AllocAt(pages, i, size)
          /\ regions' = Append(regions, RegionAt(pages, i, size))
    BY <1>2 DEF arena_alloc
  <2> QED BY <1>0, <2>1, AllocGrowth
<1>3. CASE \E a, b \in Nat : arena_alloc_both(a, b)
  <2>1. PICK a \in Nat, b \in Nat, i \in 1 .. Len(pages) + 1 :
          /\ Len(regions) + 1 < MaxAllocs
          /\ FirstFit(pages, a, i)
          /\ \E j \in 1 .. Len(AllocAt(pages, i, a)) + 1 :
               /\ FirstFit(AllocAt(pages, i, a), b, j)
               /\ pages' = AllocAt(AllocAt(pages, i, a), j, b)
               /\ regions' = Append(Append(regions, RegionAt(pages, i, a)),
                                    RegionAt(AllocAt(pages, i, a), j, b))
    BY <1>3 DEF arena_alloc_both
  <2> DEFINE ps == AllocAt(pages, i, a)
             rs == Append(regions, RegionAt(pages, i, a))
  <2>2. PICK j : /\ FirstFit(ps, b, j)
                 /\ pages' = AllocAt(ps, j, b)
                 /\ regions' = Append(rs, RegionAt(ps, j, b))
    BY <2>1
  <2>3. Len(regions) < MaxAllocs
    BY <1>0, <2>1, ArenaAssumption
  <2>4. ArenaOK(ps, rs) /\ GrowthOK(ps, rs)
    BY <1>0, <2>1, <2>3, AllocOK, AllocGrowth
  <2>5. Len(rs) < MaxAllocs
    <3>1. Len(rs) = Len(regions) + 1
      BY <1>0 DEF ArenaOK
    <3> QED BY <2>1, <3>1
  <2> HIDE DEF ps, rs
  <2> QED BY <2>1, <2>2, <2>4, <2>5, AllocGrowth
<1>4. CASE arena_reset
  <2>1. pages \in Seq(Pages) /\ \A i \in 1 .. Len(pages) : pages[i] \in Pages
    BY <1>0 DEF ArenaOK, PagesOK
  <2>2. /\ Len(pages') = Len(pages)
        /\ \A i \in 1 .. Len(pages) : pages'[i].current = 0 /\ pages'[i].size = pages[i].size
    <3>1. \A i \in 1 .. Len(pages) : [pages[i] EXCEPT !.current = 0] \in Pages
      BY <2>1 DEF Pages
    <3>2. pages' \in Seq(Pages) /\ Len(pages') = Len(pages)
      BY <1>4, <2>1, <3>1 DEF arena_reset
    <3>3. \A i \in 1 .. Len(pages) :
            pages'[i].current = 0 /\ pages'[i].size = pages[i].size
      BY <1>4, <2>1 DEF arena_reset, Pages
    <3> QED BY <3>2, <3>3
  <2> DEFINE ps == pages'
  <2>3. UsedOK(ps, regions')
    BY <2>2 DEF UsedOK
  <2>4. \A s : OfSize(ps, s) = OfSize(pages, s)
    BY <2>2 DEF OfSize
  <2> HIDE DEF ps
  <2>5. GrowthOK(ps, regions')
    BY <1>0, <2>3, <2>4 DEF GrowthOK
  <2> QED BY <2>5 DEF ps
<1> QED BY <1>1, <1>2, <1>3, <1>4, ArenaMoves

(* At first there is only the first page. *)
LEMMA InitGrowth == Init => GrowthInv
<1> SUFFICES ASSUME Init PROVE GrowthInv
  OBVIOUS
<1>1. Len(pages) = 1 /\ pages[1].current = 0
  BY DEF Init, arena_create, Page
<1>2. UsedOK(pages, regions)
  BY <1>1 DEF UsedOK
<1>3. \A s : OfSize(pages, s) = {}
  BY <1>1 DEF OfSize
<1>4. MaxAllocs \in Nat /\ Cardinality({}) = 0
  BY ArenaAssumption, FS_EmptySet
<1> QED BY <1>2, <1>3, <1>4 DEF GrowthInv, GrowthOK

(* The arena of a connection stops growing, for every page size, sequence  *)
(* of requests and number of commands: a page is only added when every     *)
(* page of its size holds something of the command being served.           *)
THEOREM ArenaGrowthBounded == Spec => []ArenaStopsGrowing
<1>1. IInv /\ GrowthInv => ArenaStopsGrowing
  <2> SUFFICES ASSUME IInv, GrowthInv, NEW k \in 2 .. Len(pages)
               PROVE  Cardinality({i \in 2 .. Len(pages) : pages[i].size = pages[k].size}) <= MaxAllocs
    BY DEF ArenaStopsGrowing
  <2>1. pages[k].size \in Nat
    <3>1. pages \in Seq(Pages) /\ k \in 1 .. Len(pages)
      BY DEF IInv, ArenaInv, ArenaOK, PagesOK
    <3> QED BY <3>1, PageNumbers
  <2>2. Cardinality(OfSize(pages, pages[k].size)) <= MaxAllocs
    BY <2>1 DEF GrowthInv, GrowthOK
  <2> QED BY <2>2 DEF OfSize
<1>2. Spec => []GrowthInv
  BY HectorInvariant, InitGrowth, GrowthStep, PTL DEF Spec
<1> QED BY <1>1, <1>2, HectorInvariant, PTL

-----------------------------------------------------------------------------
(* What the items of a memory are as a sequence. *)
LEMMA ItemsOf ==
  ASSUME NEW c \in Nat, NEW len \in Nat, len <= c, NEW m \in [0 .. c - 1 -> Cells], NEW s,
         s = [i \in 1 .. len |-> m[i - 1]]
  PROVE  /\ s \in Seq(Cells)
         /\ Len(s) = len
         /\ \A i \in 1 .. len : s[i] = m[i - 1]
<1>1. \A i \in 1 .. len : m[i - 1] \in Cells
  OBVIOUS
<1> QED BY <1>1

LEMMA ContentsSeq ==
  ASSUME HectorOK
  PROVE  /\ Contents \in Seq(Cells)
         /\ Len(Contents) = length
         /\ \A i \in 1 .. length : Contents[i] = mem[i - 1]
<1>1. capacity \in Nat /\ length \in Nat /\ length <= capacity /\ mem \in [0 .. capacity - 1 -> Cells]
  BY HectorAssumption DEF HectorOK
<1>2. Contents = [i \in 1 .. length |-> mem[i - 1]]
  BY DEF Contents
<1> QED BY <1>1, <1>2, ItemsOf

(* Cutting count items behind the first n of s. *)
LEMMA CutSeq ==
  ASSUME NEW S, NEW s \in Seq(S), NEW n \in Nat, NEW count \in Nat, n + count <= Len(s),
         NEW t \in Seq(S), Len(t) = Len(s) - count,
         \A i \in 1 .. Len(t) : t[i] = IF i <= n THEN s[i] ELSE s[i + count]
  PROVE  t = SubSeq(s, 1, n) \o SubSeq(s, n + count + 1, Len(s))
<1> DEFINE a == SubSeq(s, 1, n)
           b == SubSeq(s, n + count + 1, Len(s))
<1>0. Len(s) \in Nat /\ \A i \in 1 .. Len(s) : s[i] \in S
  BY ElementOfSeq, LenProperties
<1>1. a \in Seq(S) /\ Len(a) = n /\ \A i \in 1 .. n : a[i] = s[i]
  <2>1. \A i \in 1 .. n : s[i] \in S
    BY <1>0
  <2>2. /\ a \in Seq(S)
        /\ Len(a) = IF 1 <= n THEN n - 1 + 1 ELSE 0
        /\ \A i \in 1 .. n - 1 + 1 : a[i] = s[1 + i - 1]
    BY <2>1, SubSeqProperties
  <2> HIDE DEF a
  <2> QED BY <2>2
<1>2. /\ b \in Seq(S) /\ Len(b) = Len(s) - count - n
      /\ \A i \in 1 .. Len(s) - count - n : b[i] = s[n + count + i]
  <2>1. \A i \in n + count + 1 .. Len(s) : s[i] \in S
    BY <1>0
  <2>2. /\ b \in Seq(S)
        /\ Len(b) = IF n + count + 1 <= Len(s) THEN Len(s) - (n + count + 1) + 1 ELSE 0
        /\ \A i \in 1 .. Len(s) - (n + count + 1) + 1 : b[i] = s[(n + count + 1) + i - 1]
    BY <1>0, <2>1, SubSeqProperties
  <2> HIDE DEF b
  <2>3. Len(b) = Len(s) - count - n
    <3>1. CASE n + count + 1 <= Len(s)
      BY <1>0, <2>2, <3>1
    <3>2. CASE ~(n + count + 1 <= Len(s))
      <4>1. Len(s) - count - n = 0
        BY <1>0, <3>2
      <4> QED BY <2>2, <3>2, <4>1
    <3> QED BY <3>1, <3>2
  <2>4. ASSUME NEW i \in 1 .. Len(s) - count - n PROVE b[i] = s[n + count + i]
    <3>1. i \in 1 .. Len(s) - (n + count + 1) + 1 /\ (n + count + 1) + i - 1 = n + count + i
      BY <1>0
    <3> QED BY <2>2, <3>1
  <2> QED BY <2>2, <2>3, <2>4
<1> HIDE DEF a, b
<1>3. /\ a \o b \in Seq(S)
      /\ Len(a \o b) = Len(a) + Len(b)
      /\ \A i \in 1 .. Len(a) + Len(b) : (a \o b)[i] = IF i <= Len(a) THEN a[i] ELSE b[i - Len(a)]
  <2>1. a \in Seq(S) /\ b \in Seq(S)
    BY <1>1, <1>2
  <2> QED BY <2>1, ConcatProperties
<1>4. Len(t) = Len(a \o b)
  BY <1>0, <1>1, <1>2, <1>3
<1>5. ASSUME NEW i \in 1 .. Len(t) PROVE t[i] = (a \o b)[i]
  <2>0. Len(t) \in Nat /\ Len(t) = Len(s) - count /\ Len(a) + Len(b) = Len(t) /\ Len(a) = n
    BY <1>0, <1>1, <1>2
  <2>1. CASE i <= n
    <3>1. (a \o b)[i] = a[i] /\ i \in 1 .. n
      BY <1>3, <2>0, <2>1
    <3> QED BY <1>1, <2>1, <3>1
  <2>2. CASE ~(i <= n)
    <3>1. i - n \in 1 .. Len(s) - count - n /\ n + count + (i - n) = i + count
      BY <1>0, <2>0, <2>2
    <3>2. (a \o b)[i] = b[i - n]
      BY <1>3, <2>0, <2>2
    <3>3. b[i - n] = s[i + count]
      BY <1>2, <3>1
    <3> QED BY <2>2, <3>2, <3>3
  <2> QED BY <2>1, <2>2
<1>6. t = a \o b
  BY <1>3, <1>4, <1>5, SeqEqual
<1> QED BY <1>6 DEF a, b

(* The vector's steps are steps of Vector. *)
LEMMA VectorStep == IInv /\ IInv' /\ [Next]_vars => [V!Next]_Contents
<1> SUFFICES ASSUME IInv, IInv', [Next]_vars PROVE [V!Next]_Contents
  OBVIOUS
<1>0. HectorOK /\ HectorOK' /\ ArenaInv
  BY DEF IInv
<1>a. length \in Nat /\ capacity \in Nat /\ length <= capacity /\ mem \in [0 .. capacity - 1 -> Cells]
  BY <1>0, HectorAssumption DEF HectorOK
<1>b. length' \in Nat /\ capacity' \in Nat /\ length' <= capacity'
        /\ mem' \in [0 .. capacity' - 1 -> Cells]
  <2>1. /\ length' \in 0 .. MaxLength /\ capacity' \in Nat /\ length' <= capacity'
        /\ mem' \in [0 .. capacity' - 1 -> Cells]
    BY <1>0 DEF HectorOK
  <2> DEFINE l == length'
  <2>2. l \in 0 .. MaxLength
    BY <2>1
  <2> HIDE DEF l
  <2>3. l \in Nat
    BY <2>2, HectorAssumption
  <2> QED BY <2>1, <2>3 DEF l
<1>c. Contents = [i \in 1 .. length |-> mem[i - 1]] /\ Contents' = [i \in 1 .. length' |-> mem'[i - 1]]
  BY DEF Contents
<1>d. /\ Contents \in Seq(Cells) /\ Len(Contents) = length
      /\ \A i \in 1 .. length : Contents[i] = mem[i - 1]
  BY <1>0, ContentsSeq
<1>f. /\ Contents' \in Seq(Cells) /\ Len(Contents') = length'
      /\ \A i \in 1 .. length' : Contents'[i] = mem'[i - 1]
  <2> DEFINE t == Contents'
             l == length'
             m == mem'
             c == capacity'
  <2>1. t = [i \in 1 .. l |-> m[i - 1]]
    BY <1>c
  <2>2. c \in Nat /\ l \in Nat /\ l <= c /\ m \in [0 .. c - 1 -> Cells]
    BY <1>b
  <2> HIDE DEF t, l, m, c
  <2>3. /\ t \in Seq(Cells) /\ Len(t) = l
        /\ \A i \in 1 .. l : t[i] = m[i - 1]
    BY <2>1, <2>2, ItemsOf
  <2> QED BY <2>3 DEF t, l, m
<1>e. length' = 0 => V!Clear
  BY <1>c DEF V!Clear
<1>1. ASSUME NEW arena \in BOOLEAN, NEW n \in InitSizes, hector_create(arena, n)
      PROVE  V!Next
  BY <1>1, <1>e DEF hector_create, V!Next
<1>2. ASSUME NEW x \in Items, hector_push(x) PROVE V!Next
  <2>1. /\ length' = length + 1 /\ mem'[length] = x
        /\ \A i \in 0 .. length - 1 : mem'[i] = mem[i]
    BY <1>0, <1>2, PushStep
  <2>2. x \in Cells
    BY DEF Cells
  <2>3. Contents' = Append(Contents, x)
    <3> DEFINE s == Contents
               t == Contents'
               u == Append(Contents, x)
    <3>1. /\ s \in Seq(Cells) /\ Len(s) = length
          /\ \A i \in 1 .. length : s[i] = mem[i - 1]
      BY <1>d
    <3>2. /\ t \in Seq(Cells) /\ Len(t) = length + 1
          /\ \A i \in 1 .. length + 1 : t[i] = mem'[i - 1]
      BY <1>f, <2>1
    <3>3. /\ u \in Seq(Cells) /\ Len(u) = length + 1
          /\ \A i \in 1 .. length : u[i] = s[i]
          /\ u[length + 1] = x
      BY <2>2, <3>1, AppendProperties
    <3> HIDE DEF s, t, u
    <3>4. ASSUME NEW i \in 1 .. length + 1 PROVE t[i] = u[i]
      <4>1. CASE i = length + 1
        <5>1. t[i] = mem'[length]
          BY <1>a, <3>2, <4>1
        <5> QED BY <2>1, <3>3, <4>1, <5>1
      <4>2. CASE i # length + 1
        <5>1. i \in 1 .. length /\ i - 1 \in 0 .. length - 1
          BY <1>a, <4>2
        <5>2. t[i] = mem[i - 1]
          BY <2>1, <3>2, <5>1
        <5> QED BY <3>1, <3>3, <5>1, <5>2
      <4> QED BY <4>1, <4>2
    <3>5. t = u
      BY <3>2, <3>3, <3>4, SeqEqual
    <3> QED BY <3>5 DEF t, u
  <2> QED BY <2>3 DEF V!Next, V!Push
<1>3. ASSUME NEW n \in Nat, NEW count \in Nat, n + count <= length, length' = length - count,
             \A i \in 0 .. length' - 1 : mem'[i] = IF i < n THEN mem[i] ELSE mem[i + count]
      PROVE  V!Next
  <2> DEFINE s == Contents
             t == Contents'
  <2>1. /\ s \in Seq(Cells) /\ Len(s) = length
        /\ \A i \in 1 .. length : s[i] = mem[i - 1]
    BY <1>d
  <2>a. /\ t \in Seq(Cells) /\ Len(t) = length'
        /\ \A i \in 1 .. length' : t[i] = mem'[i - 1]
    BY <1>f
  <2> HIDE DEF s, t
  <2>b. ASSUME NEW i \in 1 .. Len(t) PROVE t[i] = IF i <= n THEN s[i] ELSE s[i + count]
    <3>1. t[i] = mem'[i - 1] /\ i - 1 \in 0 .. length' - 1
      BY <1>b, <2>a
    <3>2. CASE i <= n
      <4>1. i \in 1 .. length /\ i - 1 < n
        BY <1>3, <1>a, <2>a, <3>2
      <4> QED BY <1>3, <2>1, <3>1, <3>2, <4>1
    <3>3. CASE ~(i <= n)
      <4>1. i + count \in 1 .. length /\ ~(i - 1 < n) /\ (i + count) - 1 = (i - 1) + count
        BY <1>3, <1>a, <1>b, <2>a, <3>3
      <4>2. t[i] = mem[(i + count) - 1]
        BY <1>3, <3>1, <4>1
      <4> QED BY <2>1, <3>3, <4>1, <4>2
    <3> QED BY <3>2, <3>3
  <2>c. n + count <= Len(s) /\ Len(t) = Len(s) - count
    BY <1>3, <2>1, <2>a
  <2>2. Len(s) = length /\ t = SubSeq(s, 1, n) \o SubSeq(s, n + count + 1, Len(s))
    BY <1>3, <2>1, <2>a, <2>b, <2>c, CutSeq
  <2>3. n \in 0 .. Len(s) /\ count \in 0 .. Len(s) - n
    BY <1>3, <1>a, <2>2
  <2>4. /\ Contents' = SubSeq(Contents, 1, n) \o SubSeq(Contents, n + count + 1, Len(Contents))
        /\ n \in 0 .. Len(Contents) /\ count \in 0 .. Len(Contents) - n
    BY <2>2, <2>3 DEF s, t
  <2> QED BY <2>4 DEF V!Next, V!Splice
<1>4. ASSUME hector_pop PROVE V!Next
  <2>1. exists /\ length > 0 /\ length' = length - 1 /\ try_shrink(mem, length - 1)
    BY <1>4 DEF hector_pop
  <2>2. length - 1 \in Nat /\ length - 1 <= capacity /\ 1 \in Nat /\ (length - 1) + 1 <= length
    BY <1>a, <2>1
  <2>3. \A i \in 0 .. (length - 1) - 1 : mem'[i] = mem[i]
    BY <1>0, <1>a, <2>1, <2>2, ShrinkStep
  <2>4. ASSUME NEW i \in 0 .. length' - 1
        PROVE  mem'[i] = IF i < length - 1 THEN mem[i] ELSE mem[i + 1]
    <3>1. i \in 0 .. (length - 1) - 1 /\ i < length - 1
      BY <1>a, <2>1
    <3> QED BY <2>3, <3>1
  <2> QED BY <1>3, <2>1, <2>2, <2>4
<1>5. ASSUME NEW n \in 0 .. MaxLength, NEW count \in 0 .. MaxLength, hector_splice(n, count)
      PROVE  [V!Next]_Contents
  <2>1. CASE SpliceRefused(n, count)
    BY <2>1 DEF SpliceRefused, Contents
  <2>2. CASE SpliceOut(n, count)
    <3>1. n \in Nat /\ count \in Nat /\ exists
      BY <1>5, HectorAssumption DEF hector_splice
    <3>2. /\ n + count <= length /\ length' = length - count
          /\ \A i \in 0 .. length' - 1 : mem'[i] = IF i < n THEN mem[i] ELSE mem[i + count]
      BY <1>0, <2>2, <3>1, SpliceStep
    <3> QED BY <1>3, <3>1, <3>2
  <2> QED BY <1>5, <2>1, <2>2 DEF hector_splice
<1>6. ASSUME hector_destroy PROVE V!Next
  BY <1>6, <1>e DEF hector_destroy, V!Next
<1>7. ASSUME NEW size \in Sizes, OtherAlloc(size) PROVE UNCHANGED Contents
  BY <1>7 DEF OtherAlloc, hector, Contents
<1>8. ASSUME EndCommand PROVE V!Next
  BY <1>8, <1>e DEF EndCommand, V!Next
<1>9. ASSUME UNCHANGED vars PROVE UNCHANGED Contents
  BY <1>9 DEF vars, hector, Contents
<1> QED BY <1>1, <1>2, <1>4, <1>5, <1>6, <1>7, <1>8, <1>9 DEF Next

(* The vector implements Vector: doubling, halving, moving and sharing the *)
(* arena are invisible, for every item and every capacity (aids.c).        *)
THEOREM HectorImplementsVector == Spec => ImplementsVector
<1>1. Init => V!Init
  BY DEF Init, V!Init, Contents
<1> QED BY <1>1, VectorStep, HectorInvariant, PTL DEF Spec, ImplementsVector, V!Spec
=============================================================================
