SPECIFICATION Spec
CONSTANTS
  NULL = NULL
  Private = {"10.1"}
  Public = {"8.1", "8.2"}
  MaxForwarded = 2
  Pieces <- MCPieces
  MaxPieces = 2
  MaxDeliveries = 3
  AddressLength <- MCAddressLength
  PeerLength = 2
  Lengths = {1, 9}
  BuiltIn = 5
  KeyLength = 1
  PageSize = 12
  StatusSize = 14
  Share = 2
  Judgements = {"201", "402", "403"}
INVARIANTS PagesTell DeathsExplained
CHECK_DEADLOCK FALSE
