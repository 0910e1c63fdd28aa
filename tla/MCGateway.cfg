SPECIFICATION Spec
CONSTANTS
  Gateways = {g1}
  Reports <- MCReports
  Published <- MCPublished
  AckFor <- MCAckFor
  Times = {4, 7}
  MaxBatch = 1
  MaxPage = 2
  QueueLimit = 2
  MaxFaults = 1
  None = None
INVARIANTS TypeOK UploadedIsHeld AckIsTrue NothingSkipped
  
CHECK_DEADLOCK FALSE
