SPECIFICATION Spec
CONSTANTS
  a = a
  b = b
  c = c
  d = d
  Keys = {a, b, c, d}
  Values = {v1, v2}
  hash_int <- MCHash
  INITIAL_SIZE = 4
  MAX_CHAIN_LENGTH = 2
  Free = Free
  MISSING = MISSING
INVARIANTS
  TypeOK
  SizeCounts
  NoKeyLost
  GetsLatest
PROPERTIES
  PutIsVisible
