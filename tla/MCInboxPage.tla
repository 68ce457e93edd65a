----------------------------- MODULE MCInboxPage -----------------------------
(***************************************************************************)
(* Instances of InboxPage for TLC.                                         *)
(***************************************************************************)
EXTENDS InboxPage

ThreeDrafts == 1 .. 3
=============================================================================
