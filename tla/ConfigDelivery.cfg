CONSTANTS
  enable = enable
  denyIP = denyIP
  Keys <- MCKeys
  KeyOrder <- MCKeyOrder
  ValueLen <- MCValueLen
  Workers = {w1}
  PipeCap = 4
  Chunk = 2
  BufCap = 8
  MaxChanges = 1
  MaxFailures = 0
  Pings = TRUE
  CommandKeys = {}
SPECIFICATION Spec
CONSTRAINT Unmixed
INVARIANTS
  Genuine
  Healed
PROPERTY
  NeverBackwards
