CONSTANTS
  enable = enable
  denyIP = denyIP
  Keys <- OneKey
  KeyOrder <- OneKeyOrder
  ValueLen <- OneValueLen
  Workers = {w1}
  PipeCap = 1
  Chunk = 1
  BufCap = 1
  MaxChanges = 2
  MaxFailures = 1
  Pings = FALSE
  CommandKeys = {}
SPECIFICATION FairSpec
PROPERTIES
  ThreadsFinish
  ChangeSeen
CHECK_DEADLOCK FALSE
