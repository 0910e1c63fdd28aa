-------------------------- MODULE MCCustodyTransfer --------------------------
(* Two relay sessions with two neighbours push while the gateway uploads: a   *)
(* routine packet of this device and a critical one it received, each with    *)
(* one onward copy left to make after the first.                              *)
EXTENDS PacketCustody, TLC

CONSTANTS chat, sos, a, h1, h2, s1, s2, n1, n2

MCPacket == {chat, sos}
MCBody == {a}
MCHandler == {h1, h2}
MCPeer == {n1, n2}
MCSession == {s1, s2}
MCPeerOf == s1 :> n1 @@ s2 :> n2
MCPriority == chat :> 3 @@ sos :> 0
MCCopyBudget == chat :> 1 @@ sos :> 2
MCCooldown == [p \in MCPacket |-> 1]
MCRetention == [p \in MCPacket |-> 2]
MCExpiresAt == [p \in MCPacket |-> 1]
MCOwn == {chat}
MCSymmetry == Permutations(MCHandler)
=============================================================================
