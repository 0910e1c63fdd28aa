CONSTANTS
  I = I
  O = O
  V = V
  R = R
  A = A
  None = None
  MaxAdmitted = 3
  Self = V
  Handlers = {h1, h2}
  Packets <- ThePackets
  Times <- TheTimes
  BatteryBand = 0
  MaxRestarts = 1
SPECIFICATION Spec
SYMMETRY Symmetry
CHECK_DEADLOCK FALSE
INVARIANTS
  TypeOK
  CancelSticks
  LatestReportShown
  
  MirrorFollowsMap
  LogIsReflected
