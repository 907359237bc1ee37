----------------------------- MODULE MCResource -----------------------------
(***************************************************************************)
(* Resource on small instances: one key, two or three devices.             *)
(***************************************************************************)
EXTENDS Resource, TLC

CONSTANTS a, b, c, p1, p2, p3

OneEach == p1 :> a @@ p2 :> b
TwoOfA == p1 :> a @@ p2 :> a
TwoOfThree == p1 :> a @@ p2 :> a @@ p3 :> b

Fresh1 == Permutations(Rev) \cup Permutations(Value)
=============================================================================
