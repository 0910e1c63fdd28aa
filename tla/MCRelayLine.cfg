SPECIFICATION Spec
CONSTANTS
  sos = sos
  Node <- LineNode
  Link <- LineLink
  Msg <- OneMsg
  Origin <- OneOrigin
  Stored = {sos}
  Session <- TwoSessions
  MsgHopLimit = 3
  ReceiptHopLimit = 2
  Window = 4
  MaxOpen = 2
  MaxInventory = 8
  Absent = Absent
  Nobody = Nobody
  None = None
  FaultKinds = {}
  MaxFaults = 0
  MaxSync = 0
PROPERTY SpreadsByRelay
