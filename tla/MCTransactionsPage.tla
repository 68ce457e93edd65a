-------------------------- MODULE MCTransactionsPage --------------------------
(***************************************************************************)
(* Instances of TransactionsPage for TLC.                                  *)
(***************************************************************************)
EXTENDS TransactionsPage

Row(type, status, claim) == [type |-> type, status |-> status, claim |-> claim]

ThreeIds == 1 .. 3

\* An open claim, an income, and an id for what is added.
Ledger ==
  [i \in ThreeIds |->
     CASE i = 1 -> Row("expense", "approved", "receivable")
       [] i = 2 -> Row("income", "approved", "none")
       [] OTHER -> None]

\* What the quick drawer adds.
DrawerRows == {Row("expense", "approved", "none")}
=============================================================================
