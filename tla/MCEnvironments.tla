-------------------------- MODULE MCEnvironments ---------------------------
(***************************************************************************)
(* Environments on small instances.                                        *)
(***************************************************************************)
EXTENDS Environments, TLC

CONSTANTS ann, bob, dflt, e1, i1, i2

\* Incarnations are interchangeable.
MCSymmetry == Permutations(Id)
=============================================================================
