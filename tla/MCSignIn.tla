------------------------------ MODULE MCSignIn ------------------------------
(***************************************************************************)
(* SignIn on small instances.                                              *)
(***************************************************************************)
EXTENDS SignIn, TLC

\* A session is a number: the two that are none are not compared with it.
MCDeviceFlow == 0
MCNoToken == 0 - 1
=============================================================================
