------------------------------- MODULE Arena -------------------------------
(***************************************************************************)
(* The arena allocator (arena.c): a list of pages filled from the front,   *)
(* all of them rewound by a reset.  A client's thread resets its arena     *)
(* after every command and keeps the pages for the next one.               *)
(*                                                                         *)
(* An address is a page and an offset in it.  regions, which the code does *)
(* not have, lists what was handed out since the last reset.               *)
(***************************************************************************)
EXTENDS Integers, Sequences, FiniteSets

CONSTANTS
  PageSize,   \* ARENA_PAGE_SIZE
  MaxAllocs   \* bound: allocations between two resets

ASSUME ArenaAssumption ==
  /\ PageSize \in Nat \ {0}
  /\ MaxAllocs \in Nat

VARIABLES
  pages,      \* the list of Arena structs, with the bytes malloc gave each
  regions     \* the regions in use, in the order of their allocation

arenaVars == <<pages, regions>>

(* _arena_create *)
Page(bytes) == [data |-> bytes, size |-> bytes, current |-> 0]

Region(page, from, size) == [page |-> page, from |-> from, upto |-> from + size]

arena_create ==
  /\ pages = <<Page(PageSize)>>
  /\ regions = <<>>

Fits(ps, i, size) == ps[i].size - ps[i].current >= size

(* The search starts at the first page with every allocation; it ends at i *)
(* or, when no page has room, behind the last one.                         *)
FirstFit(ps, size, i) ==
  /\ i \in 1 .. Len(ps) + 1
  /\ i <= Len(ps) => Fits(ps, i, size)
  /\ \A j \in 1 .. i - 1 : ~Fits(ps, j, size)

NewPageStayingEmpty(ps, size) == Append(ps, Page(IF size > PageSize THEN size ELSE PageSize))

(* The new page is as large as the others, but its size says that it ends  *)
(* with this allocation.                                                   *)
NewPage(ps, size) ==
  LET bytes == IF size > PageSize THEN size ELSE PageSize
  IN  Append(ps, [data |-> bytes, size |-> size, current |-> size])

AllocAt(ps, i, size) ==
  IF i <= Len(ps) THEN [ps EXCEPT ![i].current = @ + size] ELSE NewPage(ps, size)

RegionAt(ps, i, size) == Region(i, IF i <= Len(ps) THEN ps[i].current ELSE 0, size)

arena_alloc(size) ==
  /\ Len(regions) < MaxAllocs
  /\ \E i \in 1 .. Len(pages) + 1 :
       /\ FirstFit(pages, size, i)
       /\ pages' = AllocAt(pages, i, size)
       /\ regions' = Append(regions, RegionAt(pages, i, size))

(* Two calls, one after the other. *)
arena_alloc_both(size1, size2) ==
  /\ Len(regions) + 1 < MaxAllocs
  /\ \E i \in 1 .. Len(pages) + 1 :
       LET ps == AllocAt(pages, i, size1)
       IN  /\ FirstFit(pages, size1, i)
           /\ \E j \in 1 .. Len(ps) + 1 :
                /\ FirstFit(ps, size2, j)
                /\ pages' = AllocAt(ps, j, size2)
                /\ regions' = Append(Append(regions, RegionAt(pages, i, size1)),
                                     RegionAt(ps, j, size2))

ResetHead ==
  /\ pages' = [pages EXCEPT ![1].current = 0]
  /\ regions' = <<>>

arena_reset ==
  /\ pages' = [i \in 1 .. Len(pages) |-> [pages[i] EXCEPT !.current = 0]]
  /\ regions' = <<>>

-----------------------------------------------------------------------------
ArenaTypeOK ==
  /\ pages \in Seq([data : Nat, size : Nat, current : Nat])
  /\ regions \in Seq([page : 1 .. Len(pages), from : Nat, upto : Nat])

(* What arena_alloc hands out lies in the memory malloc gave the page and  *)
(* shares no byte with anything handed out since the last reset, also when *)
(* the pages were left behind by other commands.                           *)
AllocsDisjoint ==
  \A i \in 1 .. Len(regions) :
    LET r == regions[i]
    IN  /\ r.upto <= pages[r.page].data
        /\ \A j \in 1 .. i - 1 :
             regions[j].page = r.page =>
               regions[j].upto <= r.from \/ r.upto <= regions[j].from

(* The arena of a long-lived connection stops growing: however many        *)
(* commands it has served, there are no more pages of one size than one    *)
(* command makes allocations, because a reset makes every page usable.     *)
ArenaStopsGrowing ==
  \A s \in {pages[i].size : i \in 2 .. Len(pages)} :
    Cardinality({i \in 2 .. Len(pages) : pages[i].size = s}) <= MaxAllocs
=============================================================================
