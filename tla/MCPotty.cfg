SPECIFICATION FairSpec
CONSTANTS
  Flushers = {f1, f2}
  SewerCap = 2
  Threshold = 2
  MaxFeeds = 4
  MaxCrashes = 2
INVARIANTS
  TypeOK
  OneFlusher
  NoStrandedJob
  PipelineIntact
  FlushedIsInFile
PROPERTIES
  RestartRestoresPrefix
  AppendOnly
  EventuallyFlushed
CHECK_DEADLOCK FALSE
