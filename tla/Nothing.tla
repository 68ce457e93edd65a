-------------------------------- MODULE Nothing --------------------------------
(***************************************************************************)
(* One value for what is not there: no row, no dialog, no answer yet, no   *)
(* number in a text.                                                       *)
(***************************************************************************)
CONSTANT None
================================================================================
