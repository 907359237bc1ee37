----------------------------- MODULE MCDesktop -----------------------------
(***************************************************************************)
(* Desktop on small instances.                                             *)
(***************************************************************************)
EXTENDS Desktop, TLC

CONSTANTS r1, r2, d1, d2
=============================================================================
