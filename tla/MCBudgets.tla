------------------------------ MODULE MCBudgets ------------------------------
(***************************************************************************)
(* Instances of Budgets for TLC.                                           *)
(***************************************************************************)
EXTENDS Budgets, TLC

CONSTANTS r1, r2, food, dining, salary

TwoRequests == {r1, r2}
ThreeCategories == {food, dining, salary}
Expenses == {food, dining}

Planned(f, d) == food :> f @@ dining :> d @@ salary :> None

\* The first month is planned, in the second only dining.
TwoPlans == 1 :> Planned(6, 1) @@ 2 :> Planned(None, 2)

Upsert(m, amounts) == [op |-> "upsert", month |-> m, amounts |-> amounts]
Shift(m, s, t, a) ==
  [op |-> "shift", month |-> m, source |-> s, target |-> t, amount |-> a]

MixedCalls ==
  {Upsert(1, food :> 4), Upsert(1, food :> 9 @@ dining :> -1),
   Shift(1, food, dining, 3), Shift(1, food, dining, 0),
   Shift(1, food, salary, 2), Shift(2, food, dining, 1),
   Shift(3, food, dining, 1),
   [op |-> "copy", month |-> 2], [op |-> "copy", month |-> 1]}
ThreeMonths == {1, 2, 3}
ThreePlans == TwoPlans @@ 3 :> Planned(None, None)
BothInMonthOne == {<<1, food>>, <<1, dining>>}
=============================================================================
