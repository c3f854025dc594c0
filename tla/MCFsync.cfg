SPECIFICATION Spec
CONSTANTS
  Flushers = {f1, f2}
  SewerCap = 2
  Threshold = 2
  MaxFeeds = 3
  MaxCrashes = 1

PROPERTIES
  PowerLossKeepsFlushed
CHECK_DEADLOCK FALSE
