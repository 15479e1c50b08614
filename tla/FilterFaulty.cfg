CONSTANTS
  Lower <- MCLower
  PrefixOf <- MCPrefixOf
  Requests <- MCRequests
  Deliveries <- FaultyDeliveries
  MaxTime = 1
SPECIFICATION Spec
INVARIANTS
  TypeOK
  Enforced
  Justified
