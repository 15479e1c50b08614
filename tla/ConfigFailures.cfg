CONSTANTS
  enable = enable
  denyIP = denyIP
  Keys <- OneKey
  KeyOrder <- OneKeyOrder
  ValueLen <- OneValueLen
  Workers = {w1}
  PipeCap = 2
  Chunk = 2
  BufCap = 6
  MaxChanges = 1
  MaxFailures = 1
  Pings = FALSE
  CommandKeys = {}
SPECIFICATION Spec
INVARIANTS
  TypeOK
  Healed
  NoMissedChange
CHECK_DEADLOCK FALSE
