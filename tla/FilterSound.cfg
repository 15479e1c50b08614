CONSTANTS
  Lower <- MCLower
  PrefixOf <- MCPrefixOf
  Requests <- MCRequests
  Deliveries <- SoundDeliveries
  MaxTime = 1
SPECIFICATION Spec
INVARIANTS
  Kept
  Monotone
