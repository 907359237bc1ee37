--------------------------- MODULE MCPublication ---------------------------
(***************************************************************************)
(* Publication on small instances.                                         *)
(***************************************************************************)
EXTENDS Publication, TLC

CONSTANTS a, p1, p2, control, state

Alike == Permutations(Proc)

OneDevice == [p \in Proc |-> a]
=============================================================================
