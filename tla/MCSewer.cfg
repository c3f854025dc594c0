SPECIFICATION FairSpec
CONSTANTS
  Producers = {p1, p2}
  Consumers = {c1, t1}
  TimedConsumers = {t1}
  Cap = 2
  Sends = 2
  NoThread = none
INVARIANTS
  TypeOK
  MutexOwner
  SenderLeavesFirst
  NoLostSpaceWakeup
  NoLostItemWakeup
PROPERTIES
  ImplementsQueue
  BlockedSendReturns
  EveryMessageConsumed
