SPECIFICATION FairSpec
CONSTANTS
  Clients = {c1, c2}
  Mutating = {1}
  MaxCommands = 2
  SepticCap = 1
  PottyCap = 1
  Garbage = Garbage
INVARIANTS
  TypeOK
  RepliesInOrder
  AnsweredIsApplied
  ResponseNeverBlocks
  PromptLogIsApplied
  PromptCommandsIntact
  PromptMemorySafe
PROPERTIES
  EveryCommandAnswered
