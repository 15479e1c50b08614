CONSTANTS
  Size = 3
  MaxEvents = 6
SPECIFICATION Spec
INVARIANTS
  TypeOK
  NoUnderflow
  PolledIsEvent
  PostedInOrder
  Conservation
  NoUseAfterFree
PROPERTY
  ImplementsDropOldest
