---------------------------- MODULE MCRelayPair ----------------------------
(* Two devices in range of each other. *)
EXTENDS RelayMesh

CONSTANT sos

PairNode == {1, 2}
PairLink == {{1, 2}}
OneMsg    == {sos}
OneOrigin == [p \in OneMsg |-> 1]
OneSession    == 1..1
TwoSessions   == 1..2
=============================================================================
