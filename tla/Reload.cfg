CONSTANTS
  NSlots = 6
  Counts = {1, 2}
  MaxLoads = 3
  MaxUnmade = 1
  MaxDeaths = 1
SPECIFICATION Spec
INVARIANTS
  TypeOK
  OneWriter
  WorkersFed
  OwnSender
CHECK_DEADLOCK FALSE
