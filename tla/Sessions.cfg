SPECIFICATION Spec
CONSTANTS
  Calls = {c1, c2}
  Devices = {d1, d2}
  NoDevice = NoDevice
  MaxSessions = 2
SYMMETRY Symmetry
INVARIANTS
  TypeOK
  RevokedStaysRevoked
  LiveIsIndexed
  SignedOutStaysOut
PROPERTIES
  CallsEnd
CHECK_DEADLOCK FALSE
