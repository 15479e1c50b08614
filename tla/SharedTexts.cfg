CONSTANTS
  Writers = {heartbeat, main}
  Reader = heartbeat
  Lengths = {1, 2}
  Addresses = {a1, a2, a3, a4}
  NULL = NULL
  None = None
  PoolSize = 9
  Overheads = {1, 6, 10}
  OutSize = 1
  IpLen = 1
SYMMETRY Symmetry
SPECIFICATION Spec
INVARIANTS
  TypeOK
  PublishedAlive
  FreedOnce
  Accounted
  MissingOnlyAtFirst
  Fits
  PoolDestroyed
