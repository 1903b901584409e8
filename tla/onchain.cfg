SPECIFICATION Spec
CONSTANTS
  k1 = k1  k2 = k2  k3 = k3  e1 = e1  e2 = e2
  Keys = {k1, k2, k3}
  Events = {e1, e2}
  GenesisAuthorities <- Pair
  AuthoritySets <- Sets
  OthersAuthor = TRUE
  MaxBlocks = 3
INVARIANTS
  OnStreamsProved
  PoolPassesValidation
CHECK_DEADLOCK FALSE
