---------------------------- MODULE MCRelayLine ----------------------------
(* Three devices in a row: 1 - 2 - 3. *)
EXTENDS RelayMesh

CONSTANT sos

LineNode == {1, 2, 3}
LineLink == {{1, 2}, {2, 3}}
OneMsg    == {sos}
OneOrigin == [p \in OneMsg |-> 1]
TwoSessions   == 1..2
=============================================================================
