SPECIFICATION Spec
CONSTANTS
  sos = sos
  Node <- PairNode
  Link <- PairLink
  Msg <- OneMsg
  Origin <- OneOrigin
  Stored = {}
  Session <- OneSession
  MsgHopLimit = 8
  ReceiptHopLimit = 3
  Window = 4
  MaxOpen = 2
  MaxInventory = 8
  Absent = Absent
  Nobody = Nobody
  None = None
  FaultKinds = {"lose", "open", "slow", "stop", "crash"}
  MaxFaults = 2
  MaxSync = 1
INVARIANTS TypeOK ReceiptsAreTrue
