----------------------------- MODULE MeshSpread -----------------------------
(***************************************************************************)
(* What the relay mesh promises about where packets are, with no session,  *)
(* record or timer in it: a packet starts at the device that wrote it, and *)
(* a device gets it from a neighbour that has it, one hop further from its *)
(* start and within the hop limit.  A link receipt starts at the device    *)
(* whose copy it acknowledges, when both ends of the link have the packet. *)
(* RelayMesh implements this specification.                                *)
(***************************************************************************)
EXTENDS Naturals

CONSTANTS
  Node,
  Link,          \* pairs of nodes in radio range of each other
  Packet,        \* every packet, the receipts among them
  Receipt,       \* the link receipts
  Origin,        \* the node that writes a packet that is no receipt
  About, By,     \* the packet a receipt is about, the node that issues it
  HopLimit,      \* header.hopLimit
  Absent         \* the hop count of a packet a node does not have

VARIABLE reach   \* hop count of each node's copy of each packet, or Absent

Originate(p) ==
  /\ p \notin Receipt
  /\ reach[Origin[p]][p] = Absent
  /\ reach' = [reach EXCEPT ![Origin[p]][p] = 0]

Acknowledge(n, r) ==
  /\ r \in Receipt
  /\ {n, By[r]} \in Link
  /\ reach[n][r] = Absent
  /\ reach[n][About[r]] # Absent /\ reach[By[r]][About[r]] # Absent
  /\ reach' = [reach EXCEPT ![n][r] = 0]

Relay(n, m, p) ==
  /\ {n, m} \in Link
  /\ reach[n][p] # Absent /\ reach[m][p] = Absent
  /\ reach[n][p] + 1 < HopLimit[p]
  /\ reach' = [reach EXCEPT ![m][p] = reach[n][p] + 1]

\* What a device wrote before the start is on its disk.
Init ==
  /\ reach \in [Node -> [Packet -> {0, Absent}]]
  /\ \A n \in Node, p \in Packet : reach[n][p] = 0 => p \notin Receipt /\ Origin[p] = n

Next ==
  \/ \E p \in Packet : Originate(p)
  \/ \E n \in Node, r \in Packet : Acknowledge(n, r)
  \/ \E n, m \in Node, p \in Packet : Relay(n, m, p)

Spec == Init /\ [][Next]_reach
=============================================================================
