SPECIFICATION StartSpec
CONSTANTS
  r1 = r1  r2 = r2  r3 = r3  a1 = a1  a2 = a2
  Dialer = Dialer
  Requests = {r1, r2, r3}
  Addresses = {a1, a2}
  Buffer = 4
  Inputs <- OneInput
PROPERTY
  WitnessedEventsHandled
CHECK_DEADLOCK FALSE
