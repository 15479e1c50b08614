CONSTANTS
  enable = enable
  denyIP = denyIP
  Keys <- OneKey
  KeyOrder <- OneKeyOrder
  ValueLen <- OneValueLen
  Workers = {w1, w2}
  PipeCap = 1
  Chunk = 1
  BufCap = 4
  MaxChanges = 0
  MaxFailures = 1
  Pings = FALSE
  CommandKeys = {}
SPECIFICATION Spec
INVARIANTS
  Genuine
  Healed
CHECK_DEADLOCK FALSE
