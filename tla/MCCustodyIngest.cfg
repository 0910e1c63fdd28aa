CONSTANTS
  sos = sos
  water = water
  shelter = shelter
  chat = chat
  a = a
  b = b
  h1 = h1
  h2 = h2
  h3 = h3
  n1 = n1
  NoBody = NoBody
  NoPeer = NoPeer
  NoPacket = NoPacket
  Packet <- MCPacket
  Body <- MCBody
  Handler <- MCHandler
  Peer <- MCPeer
  Session <- MCSession
  PeerOf <- MCPeerOf
  Priority <- MCPriority
  CopyBudget <- MCCopyBudget
  Cooldown <- MCCooldown
  Retention <- MCRetention
  ExpiresAt <- MCExpiresAt
  Own <- MCOwn
  Relayable <- MCPacket
  Uploadable <- MCUploadable
  SeenRetention = 2
  DemoEpoch = 1735689600
  MaxStoredPackets = 2
  MaxUploadBatch = 1
  MaxTime = 3
SYMMETRY Symmetry
SPECIFICATION Spec
INVARIANTS TypeOK AppliedOnce
PROPERTIES FirstDigestStands
CHECK_DEADLOCK FALSE
