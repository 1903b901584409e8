SPECIFICATION Spec
CONSTANTS
  n1 = n1  n2 = n2
  k1 = k1  k2 = k2  k3 = k3  k4 = k4
  g = g  h1 = h1  h2 = h2
  e1 = e1  e2 = e2
  Keys = {k1, k2, k3, k4}
  Events = {e1}
  Nodes = {n1}
  Keystore <- OneKeystore
  Hashes = {g, h1, h2}
  Genesis = g
  GenesisAuthorities = {k1, k2, k3}
  AuthoritySets = {{k1, k3, k4}}
  MaxOrders = 1
  Alternatives = {}
  Byzantine = {}
  Faults = {"publish", "crash", "sync", "foreign", "signed", "delay"}
INVARIANTS
  ImportedEventsWitnessed
  SubmittedEventsWitnessed
  FinalizedEventsWitnessed
  OwnExtrinsicsPassImport
PROPERTY StandingAuthoritiesKept
SYMMETRY BlockSymmetry
