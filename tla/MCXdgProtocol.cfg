SPECIFICATION Spec
CONSTANTS
  Window = {w1, w2}
  Geometry = {g1, g2}
  NoRequest = NoRequest
  MaxSerial = 6
  Timeout = 2
INVARIANTS
  TypeOK
  LedgerMatchesStates
PROPERTIES
  ImplementsHandshake
