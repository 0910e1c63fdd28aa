----------------------------- MODULE MCBroadcast -----------------------------
(***************************************************************************)
(* Two campaigns of two frames and equal versions, each edited once; one   *)
(* edit makes its campaign too long.  One phone listens.                   *)
(***************************************************************************)
EXTENDS BroadcastDesk, TLC

CONSTANTS c1, c2

MCFrameCount  == (c1 :> 2) @@ (c2 :> 2)
MCLastVersion == (c1 :> 2) @@ (c2 :> 2)
MCOverBudget  == {<<c2, 2>>}
=============================================================================
