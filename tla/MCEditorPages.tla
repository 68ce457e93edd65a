---------------------------- MODULE MCEditorPages ----------------------------
(***************************************************************************)
(* Instances of EditorPages for TLC: two rows, and room for two more.      *)
(***************************************************************************)
EXTENDS EditorPages, TLC

CONSTANTS e1, e2

MCEntries == {e1, e2}
EveryPage == AllPages
=============================================================================
