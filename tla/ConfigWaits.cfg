CONSTANTS
  enable = enable
  denyIP = denyIP
  Keys <- OneKey
  KeyOrder <- OneKeyOrder
  ValueLen <- OneValueLen
  Workers = {w1, w2}
  PipeCap = 2
  Chunk = 2
  BufCap = 8
  MaxChanges = 0
  MaxFailures = 0
  Pings = FALSE
  CommandKeys <- OneKey
SPECIFICATION FairSpec
INVARIANT
  Healed
PROPERTIES
  ThreadsFinish
CHECK_DEADLOCK FALSE
