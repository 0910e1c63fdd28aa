--------------------------- MODULE MCCustodyIngest ---------------------------
(* A store of two rows and concurrent ingests of four packets: a critical and *)
(* an urgent one of this device, an urgent one that a full queue still admits *)
(* and a routine one; every ID may also arrive with a second digest.  No      *)
(* session or upload is under way.                                            *)
EXTENDS PacketCustody, TLC

CONSTANTS sos, water, shelter, chat, a, b, h1, h2, h3, n1

MCPacket == {sos, water, shelter, chat}
MCBody == {a, b}
MCHandler == {h1, h2, h3}
MCPeer == {n1}
MCSession == {}
MCPeerOf == [s \in {} |-> n1]
MCPriority == sos :> 0 @@ water :> 2 @@ shelter :> 2 @@ chat :> 4
MCCopyBudget == [p \in MCPacket |-> 1]
MCCooldown == [p \in MCPacket |-> 1]
MCRetention == sos :> 2 @@ water :> 2 @@ shelter :> 1 @@ chat :> 1
MCExpiresAt == sos :> 2 @@ water :> 1 @@ shelter :> 1 @@ chat :> 1
MCOwn == {sos, water}
MCUploadable == {}
Symmetry == Permutations(MCHandler)
=============================================================================
