SPECIFICATION Spec
CONSTANTS
  c1 = c1
  c2 = c2
  i1 = i1
  i2 = i2
  Self = Self
  None = None
  Other = Other
  Calls = {c1, c2}
  Own = {i1, i2}
  Updates = {"RESPONDER_ACCEPTED", "RESPONDER_EN_ROUTE"}
  Runtimes = {1, 2}
  CutsStart = TRUE
  MaxPackets = 3
  MaxDeaths = 1
SYMMETRY Symmetry
CHECK_DEADLOCK FALSE
INVARIANTS TypeOK  ShownIsStored 
