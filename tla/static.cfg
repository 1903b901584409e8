SPECIFICATION Spec
CONSTANTS
  n1 = n1  n2 = n2
  k1 = k1  k2 = k2  k3 = k3  k4 = k4
  g = g  h1 = h1  h2 = h2
  e1 = e1  e2 = e2
  Keys = {k1, k2, k3}
  Events = {e1, e2}
  Nodes = {n1, n2}
  Keystore <- TwoKeystores
  Hashes = {g, h1}
  Genesis = g
  GenesisAuthorities = {k1, k2, k3}
  AuthoritySets = {}
  MaxOrders = 1
  Alternatives = {{e1, e2}}
  Byzantine = {k3}
  Faults = {"publish", "foreign", "signed"}
INVARIANTS
  TypeOK
  ImportedEventsWitnessed
  AlternativesExclusive
SYMMETRY NodeSymmetry
