SPECIFICATION Spec
CONSTANTS
  Keys = {k1, k2, k3}
  LastEvent = 2
  Signatures = {s1, s2}
INVARIANTS
  PurgedOfStaleProofs
  CountNeverTooHigh
PROPERTIES
  StandingProofsKept
  OnlyGivenEventPurged
SYMMETRY StoreSymmetry
