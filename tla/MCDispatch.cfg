SPECIFICATION Spec
SYMMETRY Symmetry
CONSTANTS
  i1 = i1
  i2 = i2
  r1 = r1
  r2 = r2
  V = V
  None = None
  Self = Desk
  Responders = {r1, r2}
  Incidents = {i1, i2}
  Objects = {hazard, centre}
  Contents = {open, closed}
  Seeded = {hazard}
  Hazards = {hazard}
  FieldPackets <- ThePackets
  MaxPackets = 6
  MaxVersion = 2
  QueueDepth = 5
  MaxDeaths = 1
INVARIANTS TypeOK HeldIsAnnounced DeskTrailsField RecordsFollowNotices RebuiltExactly
PROPERTY StartReleases
CHECK_DEADLOCK FALSE
