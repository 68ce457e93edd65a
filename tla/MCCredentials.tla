---------------------------- MODULE MCCredentials ----------------------------
(***************************************************************************)
(* Instances of Credentials for TLC.                                       *)
(***************************************************************************)
EXTENDS Credentials

CONSTANTS c1, c2, c3

MCCreds == {c1, c2, c3}
OneLive == {c1}
=============================================================================
