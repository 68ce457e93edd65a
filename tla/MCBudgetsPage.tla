---------------------------- MODULE MCBudgetsPage ----------------------------
(***************************************************************************)
(* Instances of BudgetsPage for TLC: a month that is planned and the one   *)
(* after it, which is not.                                                 *)
(***************************************************************************)
EXTENDS BudgetsPage, TLC

CONSTANTS food, fun

FoodAndFun == {food, fun}
PlannedAndNot == 1 :> (food :> 3 @@ fun :> 1) @@ 2 :> (food :> None @@ fun :> None)
OnePlaceEach == {<<1, food>>, <<2, fun>>}
=============================================================================
