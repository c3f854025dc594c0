SPECIFICATION Spec
CONSTANTS
  Clients = {c1, c2}
  Mutating = {1}
  MaxCommands = 2
  SepticCap = 1
  PottyCap = 1
  Garbage = Garbage
INVARIANTS
  LogIsApplied

