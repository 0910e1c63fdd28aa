CONSTANTS
  chat = chat
  sos = sos
  a = a
  h1 = h1
  h2 = h2
  s1 = s1
  s2 = s2
  n1 = n1
  n2 = n2
  NoBody = NoBody
  NoPeer = NoPeer
  NoPacket = NoPacket
  Packet <- MCPacket
  Body <- MCBody
  Handler <- MCHandler
  Peer <- MCPeer
  Session <- MCSession
  PeerOf <- MCPeerOf
  Priority <- MCPriority
  CopyBudget <- MCCopyBudget
  Cooldown <- MCCooldown
  Retention <- MCRetention
  ExpiresAt <- MCExpiresAt
  Own <- MCOwn
  Relayable <- MCPacket
  Uploadable <- MCPacket
  SeenRetention = 1
  DemoEpoch = 1735689600
  MaxStoredPackets = 1
  MaxUploadBatch = 1
  MaxTime = 2
SYMMETRY MCSymmetry
SPECIFICATION Spec
INVARIANTS HoldersWereSent UploadedIsDelivered
CHECK_DEADLOCK FALSE
