SPECIFICATION Spec
CONSTANTS
  s1 = s1
  None = None
  Sessions = {s1}
  Records = {w1, w2}
  SessionOf <- MCSessionOf
  MaxWaiting = 2
  MaxStops = 1
SYMMETRY RecordsAlike
INVARIANTS TypeOK ResolutionsAreConfirmed OpensAreTended
CHECK_DEADLOCK FALSE
