----------------------------- MODULE MCDispatch -----------------------------
(***************************************************************************)
(* DispatchDesk with two responders and two incidents that phones report,   *)
(* one of which its victim cancels, and with a hazard and a new centre.      *)
(***************************************************************************)
EXTENDS DispatchDesk, TLC

CONSTANTS i1, i2, r1, r2, V

ReportOf(n, i) == Build(n, "SOS_CREATE", V, "GENERAL_PUBLIC", i, None, 1, 0, 3)
CancelOf(n, i) == Build(n, "SOS_CANCEL", V, "GENERAL_PUBLIC", i, None, 2, 0, 0)
Symmetry == Permutations(Responders)
ThePackets == {ReportOf(101, i1), CancelOf(102, i1), ReportOf(103, i2)}
=============================================================================
