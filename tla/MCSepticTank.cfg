SPECIFICATION Spec
CONSTANTS
  Keys = {k1}
  Strings <- MCStrings
  MinInt <- MCMinInt
  MaxInt = 1
  parse_int64 <- MCParseInt64
  string_from_int64 <- MCStringFromInt64
  NotInt = NotInt
  None = None
  NoEntry = NoEntry
  NoMutation = NoMutation
  SetValues = {"01", "x"}
  Deltas <- MCDeltas
  Expiries <- MCExpiries
  MaxTime = 3
  MsPerSec = 2
INVARIANTS
  TypeOK
  ReplayAgrees
PROPERTIES
  ImplementsKVStore
