--------------------------- MODULE MCDeviceViews ---------------------------
(***************************************************************************)
(* DeviceViews on the packets of one emergency and one shelter: the report *)
(* and an update, the cancel, a responder's two records numbered by the    *)
(* responder, a shelter record and its tombstone.                          *)
(***************************************************************************)
EXTENDS DeviceViews

CONSTANTS I, O, V, R, A

Create   == Build("create",   "SOS_CREATE",  V, "GENERAL_PUBLIC", I, R, 1, 0, 3)
Update   == Build("update",   "SOS_UPDATE",  V, "GENERAL_PUBLIC", I, R, 2, 0, 3)
Cancel   == Build("cancel",   "SOS_CANCEL",  V, "GENERAL_PUBLIC", I, R, 3, 0, 0)
EnRoute  == Build("en-route", "RESPONDER_EN_ROUTE", R, "RESPONDER_PROVISIONED", I, R, 2, 0, 0)
Resolved == Build("resolved", "RESOLVED", R, "RESPONDER_PROVISIONED", I, R, 4, 0, 0)
Shelter  == Build("shelter",  "SHELTER", A, "AUTHORITY_PROVISIONED", O, R, 1, 0, 0)
Removal  == Build("removal",  "RECORD_TOMBSTONE", A, "AUTHORITY_PROVISIONED", O, R, 1, 0, 0)

ThePackets == {Create, Update, Cancel, EnRoute, Resolved, Shelter, Removal}
TheTimes == {0, 3}
Symmetry == Permutations(Handlers)
=============================================================================
