------------------------------ MODULE MCGateway ------------------------------
(***************************************************************************)
(* An emergency report that expires, a report that does not, and the       *)
(* authority's alert.                                                      *)
(***************************************************************************)
EXTENDS GatewayExchange

sos   == Build("sos", "SOS_CREATE", "victim", "GENERAL_PUBLIC", "i", "r", 1, 0, 3)
found == Build("found", "CHECKIN_RESPONSE", "citizen", "GENERAL_PUBLIC", "c", "r", NoSeq, 5, 1)
alert == Build("alert", "OFFICIAL_ALERT", "authority", "AUTHORITY_PROVISIONED", "a", "r", 1, 0, 2)
ackOf(id) == Build(id, "BACKEND_ACKNOWLEDGEMENT", "backend", "BACKEND", "i", "r", NoSeq, 0, 1)

MCReports   == {sos, found}
MCPublished == {alert}
MCAckFor ==
  [p \in Packets |->
     CASE p = sos -> ackOf("ack1") [] p = found -> ackOf("ack2") [] OTHER -> ackOf("ack3")]
=============================================================================
