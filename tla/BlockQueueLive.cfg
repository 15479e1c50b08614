CONSTANTS
  Size = 3
  MaxEvents = 4
SPECIFICATION FairSpec
PROPERTIES
  OfferReturns
  RingServed
  DrainEnds
