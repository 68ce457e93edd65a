---------------------------- MODULE BudgetPlans ----------------------------
(***************************************************************************)
(* What the three writing calls of internal/postgres/budgets.go do to the  *)
(* plan of a month: the amount allocated to each category, or none.  Used  *)
(* by Budgets, which takes the calls apart into their statements, and by   *)
(* BudgetsPage, for which they are single steps of the server.             *)
(***************************************************************************)
EXTENDS Integers, Nothing

CONSTANT Categories

Plan == [Categories -> Nat \cup {None}]
Empty == [c \in Categories |-> None]

OrZero(amount) == IF amount = None THEN 0 ELSE amount

\* Wrong: the amount replaces what the target had.
ShiftedReplaces(plan, c) ==
  [plan EXCEPT ![c.source] = @ - c.amount, ![c.target] = c.amount]
Shifted(plan, c) ==
  [plan EXCEPT ![c.source] = @ - c.amount, ![c.target] = OrZero(@) + c.amount]

Upserted(plan, c) ==
  [d \in Categories |-> IF d \in DOMAIN c.amounts THEN c.amounts[d] ELSE plan[d]]

\* Wrong: on conflict do update.
CopiedOver(plan, previous) ==
  [d \in Categories |-> IF previous[d] # None THEN previous[d] ELSE plan[d]]
\* On conflict do nothing.
Copied(plan, previous) ==
  [d \in Categories |-> IF plan[d] = None THEN previous[d] ELSE plan[d]]
=============================================================================
