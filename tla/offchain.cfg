SPECIFICATION FairSpec
CONSTANTS
  k1 = k1  k2 = k2  e1 = e1  e2 = e2
  Keys = {k1, k2}
  Events = {e1, e2}
  MaxSigners = 3
INVARIANTS
  PurgedOfStaleProofs
  CountRightAtSomeMoment
PROPERTIES
  ImplementsEventProofs
  CallsReturn
