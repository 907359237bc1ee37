---------------------------- MODULE MCFounding ----------------------------
(***************************************************************************)
(* Founding on small instances.                                            *)
(***************************************************************************)
EXTENDS Founding, TLC

CONSTANTS p1, p2, w1, w2, g1, g2, g3

FoundedElsewhere == {[ws |-> w2, gen |-> g3]}
=============================================================================
