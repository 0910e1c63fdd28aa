SPECIFICATION FairSpec
CONSTANTS
  sos = sos
  Node <- PairNode
  Link <- PairLink
  Msg <- OneMsg
  Origin <- OneOrigin
  Stored = {sos}
  Session <- TwoSessions
  MsgHopLimit = 8
  ReceiptHopLimit = 3
  Window = 4
  MaxOpen = 2
  MaxInventory = 8
  Absent = Absent
  Nobody = Nobody
  None = None
  FaultKinds = {"lose", "open"}
  MaxFaults = 1
  MaxSync = 0
PROPERTY OfferedInTheEnd
