---------------------------- MODULE MCDeviceKeys ----------------------------
(***************************************************************************)
(* DeviceKeys on small instances: one classical key and two hybrid ones.   *)
(***************************************************************************)
EXTENDS DeviceKeys, TLC

CONSTANTS c1, h1, h2, s1, s2

Alike == Permutations(Proc)
=============================================================================
