SPECIFICATION FairSpec
CONSTANTS
  n1 = n1  k1 = k1  e1 = e1
  b0 = b0  b1 = b1  b2 = b2  b3 = b3
  Keys = {k1}
  Events = {e1}
  Nodes = {n1}
  Node = n1
  Keystore <- MCKeystore
  Hashes = {b0, b1, b2, b3}
  Genesis = b0
  GenesisAuthorities = {k1}
  AuthoritySets = {}
CHECK_DEADLOCK FALSE
INVARIANTS
  TypeOK
  StreamIsFinalizedChain
PROPERTY
  HeardBlocksDelivered
