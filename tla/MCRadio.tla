------------------------------ MODULE MCRadio ------------------------------
(* One session, of the phone's or of its neighbour's opening, and two records. *)
EXTENDS RadioBridge, TLC

CONSTANT s1

MCSessionOf  == [w \in Records |-> s1]
RecordsAlike == Permutations(Records)
=============================================================================
