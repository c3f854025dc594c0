SPECIFICATION Spec
CONSTANTS
  PageSize = 3
  MaxAllocs = 4
  Items = {x, y}
  Garbage = Garbage
  InitSizes = {3}
  StructSize = 1
  Sizes = {1, 4}
  MaxLength = 4
INVARIANTS
  TypeOK
  AllocsDisjoint
  ArenaStopsGrowing
PROPERTIES
  ImplementsVector
SYMMETRY Symmetry
