------------------------------- MODULE Budgets -------------------------------
(***************************************************************************)
(* Monthly budgets: allocating, shifting funds between categories and      *)
(* copying the previous month (internal/postgres/budgets.go, with the      *)
(* handlers of internal/httpserver/budgets.go and the constraints of       *)
(* migration 006).                                                         *)
(*                                                                         *)
(* Every call is one READ COMMITTED transaction that first locks the       *)
(* budget row of its month; work[r] is what it has written and nobody else *)
(* sees yet.  The row lock a shift takes on its source allocation is only  *)
(* ever wanted by holders of the lock on the month and is left out.        *)
(*                                                                         *)
(* The ledger changes beside the budget: spending is counted per month and *)
(* category.                                                               *)
(***************************************************************************)
EXTENDS BudgetPlans, FiniteSets

CONSTANTS
  Requests,     \* calls of the three writing endpoints
  Months,       \* numbered, so that the previous month of m is m - 1
  ExpenseCategories,
  Calls,        \* what a request may ask for
  Start,        \* allocations the owner has planned before
  Spending,     \* months and categories the owner spends in meanwhile
  Price,        \* amount of an expense
  MaxSpent,     \* bound on the spending in the model
  Faults        \* kinds of failure that may happen

IsCall(call) ==
  \/ /\ DOMAIN call = {"op", "month", "amounts"}
     /\ call.op = "upsert"
     /\ DOMAIN call.amounts \subseteq Categories
     /\ call.amounts \in [DOMAIN call.amounts -> Int]
     /\ call.month \in Months
  \/ /\ DOMAIN call = {"op", "month", "source", "target", "amount"}
     /\ call.op = "shift"
     /\ call.source \in Categories
     /\ call.target \in Categories
     /\ call.amount \in Int
     /\ call.month \in Months
  \/ /\ DOMAIN call = {"op", "month"}
     /\ call.op = "copy"
     /\ call.month \in Months

ASSUME MonthsAssumption == Months \subseteq Nat
ASSUME CategoriesAssumption == ExpenseCategories \subseteq Categories
ASSUME CallsAssumption == \A call \in Calls : IsCall(call)
ASSUME StartAssumption == Start \in [Months -> Plan]
ASSUME SpendingAssumption ==
  /\ Spending \subseteq Months \X Categories
  /\ Price \in Nat
  /\ MaxSpent \in Nat
ASSUME NoneAssumption ==
  /\ None \notin Int
  /\ None \notin Plan
  /\ None \notin Requests
  /\ None \notin Calls
  /\ None \notin {"success", "refused", "commitError"}

VARIABLES
  budgets,   \* months with a committed budget row
  alloc,     \* committed allocations of each month
  shifts,    \* committed budget_shifts, with what the check had read (history)
  spent,     \* the ledger: undeleted expenses
  lock,      \* who holds the budget row of each month
  pc, call,
  source,    \* allocation of the source category a shift has read
  counted,   \* spending of the source category a shift has read
  work,      \* allocations a transaction has written
  answer

reads == <<source, counted>>
tables == <<budgets, alloc, shifts>>
vars == <<tables, spent, lock, pc, call, reads, work, answer>>

Step == {"new", "previous", "lock", "source", "spent", "target", "write",
         "commit", "done"}
InTransaction == {"source", "spent", "target", "write", "commit"}

Init ==
  /\ alloc = Start
  /\ budgets = {m \in Months : Start[m] # Empty}
  /\ shifts = {}
  /\ spent = [m \in Months |-> [c \in Categories |-> 0]]
  /\ lock = [m \in Months |-> None]
  /\ pc = [r \in Requests |-> "new"]
  /\ call = [r \in Requests |-> None]
  /\ source = [r \in Requests |-> 0]
  /\ counted = [r \in Requests |-> 0]
  /\ work = [r \in Requests |-> None]
  /\ answer = [r \in Requests |-> None]

-----------------------------------------------------------------------------
(* Transactions.                                                           *)

Goto(r, step) == pc' = [pc EXCEPT ![r] = step]
Reply(r, status) ==
  /\ Goto(r, "done")
  /\ answer' = [answer EXCEPT ![r] = status]

Month(r) == call[r].month
Unlock(r) == lock' = [m \in Months |-> IF lock[m] = r THEN None ELSE lock[m]]

\* Wrong: does not end the transaction.
RefuseHolding(r) ==
  /\ Reply(r, "refused")
  /\ work' = [work EXCEPT ![r] = None]
  /\ UNCHANGED <<tables, spent, lock, call, reads>>
\* An error before the commit: the deferred rollback leaves nothing.
Refuse(r) ==
  /\ Reply(r, "refused")
  /\ Unlock(r)
  /\ work' = [work EXCEPT ![r] = None]
  /\ UNCHANGED <<tables, spent, call, reads>>

\* The handlers refuse a shift without a positive amount or between a category
\* and itself.
Valid(c) == c.op = "shift" => c.source # c.target /\ c.amount > 0

Arrive(r) ==
  /\ pc[r] = "new"
  /\ \E c \in Calls :
       /\ call' = [call EXCEPT ![r] = c]
       /\ IF ~Valid(c) THEN Reply(r, "refused")
          ELSE /\ Goto(r, IF c.op = "copy" THEN "previous" ELSE "lock")
               /\ UNCHANGED answer
  /\ UNCHANGED <<tables, spent, lock, reads, work>>

\* CopyPreviousMonthAllocations: the previous month must have a budget, which
\* is read without a lock.
FindPrevious(r) ==
  /\ pc[r] = "previous"
  /\ IF Month(r) - 1 \in budgets
     THEN Goto(r, "lock") /\ UNCHANGED <<tables, spent, lock, call, reads, work,
                                         answer>>
     ELSE Refuse(r)

\* Wrong: select without for update.
LockNothing(r) ==
  /\ pc[r] = "lock"
  /\ IF call[r].op = "shift" /\ Month(r) \notin budgets
     THEN Refuse(r)
     ELSE /\ Goto(r, IF call[r].op = "shift" THEN "source" ELSE "write")
          /\ UNCHANGED <<tables, spent, lock, call, reads, work, answer>>
\* The budget row: a shift selects it for update and finds none that is not
\* committed, the others insert or update it.
LockMonth(r) ==
  /\ pc[r] = "lock"
  /\ \/ /\ call[r].op = "shift"
        /\ Month(r) \notin budgets
        /\ Refuse(r)
     \/ /\ call[r].op = "shift" => Month(r) \in budgets
        /\ lock[Month(r)] = None
        /\ lock' = [lock EXCEPT ![Month(r)] = r]
        /\ Goto(r, IF call[r].op = "shift" THEN "source" ELSE "write")
        /\ UNCHANGED <<tables, spent, call, reads, work, answer>>

-----------------------------------------------------------------------------
(* ShiftFundsAtomic.                                                       *)

ReadSource(r) ==
  /\ pc[r] = "source"
  /\ IF alloc[Month(r)][call[r].source] = None
     THEN Refuse(r)
     ELSE /\ source' = [source EXCEPT ![r] = alloc[Month(r)][call[r].source]]
          /\ Goto(r, "spent")
          /\ UNCHANGED <<tables, spent, lock, call, counted, work, answer>>

\* The source must retain at least 1.
ReadSpent(r) ==
  LET sum == spent[Month(r)][call[r].source] IN
  /\ pc[r] = "spent"
  /\ IF source[r] - sum - call[r].amount < 1
     THEN Refuse(r)
     ELSE /\ counted' = [counted EXCEPT ![r] = sum]
          /\ Goto(r, "target")
          /\ UNCHANGED <<tables, spent, lock, call, source, work, answer>>

FindTarget(r) ==
  /\ pc[r] = "target"
  /\ IF call[r].target \in ExpenseCategories
     THEN Goto(r, "write") /\ UNCHANGED <<tables, spent, lock, call, reads,
                                          work, answer>>
     ELSE Refuse(r)

-----------------------------------------------------------------------------
(* What the transactions write.                                            *)

Effect(r) ==
  LET plan == alloc[Month(r)] IN
  CASE call[r].op = "shift" -> Shifted(plan, call[r])
    [] call[r].op = "upsert" -> Upserted(plan, call[r])
    [] OTHER -> Copied(plan, alloc[Month(r) - 1])

Record(r, plan) ==
  [by |-> r, month |-> Month(r), source |-> call[r].source,
   target |-> call[r].target, amount |-> call[r].amount,
   left |-> plan[call[r].source], counted |-> counted[r]]

\* The statements that write; the check constraint refuses a negative amount.
Write(r) ==
  /\ pc[r] = "write"
  /\ IF Effect(r) \in Plan
     THEN /\ work' = [work EXCEPT ![r] = Effect(r)]
          /\ Goto(r, "commit")
          /\ UNCHANGED <<tables, spent, lock, call, reads, answer>>
     ELSE Refuse(r)

Apply(r) ==
  /\ alloc' = [alloc EXCEPT ![Month(r)] = work[r]]
  /\ budgets' = budgets \cup {Month(r)}
  /\ shifts' = IF call[r].op = "shift" THEN shifts \cup {Record(r, work[r])} ELSE shifts
  /\ Unlock(r)
  /\ work' = [work EXCEPT ![r] = None]

\* Wrong: ignores the error of the commit.
CommitUnchecked(r) ==
  /\ pc[r] = "commit"
  /\ \/ Apply(r)
     \/ /\ Unlock(r)
        /\ work' = [work EXCEPT ![r] = None]
        /\ UNCHANGED tables
  /\ Reply(r, "success")
  /\ UNCHANGED <<spent, call, reads>>
Commit(r) ==
  /\ pc[r] = "commit"
  /\ Apply(r)
  /\ Reply(r, "success")
  /\ UNCHANGED <<spent, call, reads>>

Handle(r) ==
  \/ FindPrevious(r) \/ LockMonth(r)
  \/ ReadSource(r) \/ ReadSpent(r) \/ FindTarget(r)
  \/ Write(r) \/ Commit(r)

\* A transaction is cut off: it is rolled back, but a commit that has reached
\* the database takes effect all the same.
CutOff(r) ==
  /\ pc[r] \notin {"new", "done"}
  /\ \/ pc[r] = "commit" /\ Apply(r)
     \/ /\ Unlock(r)
        /\ work' = [work EXCEPT ![r] = None]
        /\ UNCHANGED tables
  /\ UNCHANGED <<spent, call, reads>>

\* A statement fails or its answer is lost.  The handlers answer the error of
\* the commit as they answer any other.
Fail(r) ==
  /\ "statement" \in Faults
  /\ CutOff(r)
  /\ Reply(r, IF pc[r] = "commit" THEN "commitError" ELSE "refused")

\* The caller gives up or the instance dies.
Vanish(r) ==
  /\ "gone" \in Faults
  /\ CutOff(r)
  /\ Goto(r, "done")
  /\ UNCHANGED answer

-----------------------------------------------------------------------------
(* The ledger.                                                             *)

Book(m, c, amount) ==
  /\ spent[m][c] + amount \in 0 .. MaxSpent
  /\ spent' = [spent EXCEPT ![m][c] = @ + amount]
  /\ UNCHANGED <<tables, lock, pc, call, reads, work, answer>>

\* An expense is recorded or deleted.
Spend(m, c) == Book(m, c, Price)
Unspend(m, c) == Book(m, c, -Price)

Next ==
  \/ \E r \in Requests : Arrive(r) \/ Handle(r) \/ Fail(r) \/ Vanish(r)
  \/ \E mc \in Spending : Spend(mc[1], mc[2]) \/ Unspend(mc[1], mc[2])

Spec == Init /\ [][Next]_vars
FairSpec == Spec /\ \A r \in Requests : WF_vars(Handle(r))

-----------------------------------------------------------------------------
(* Properties.                                                             *)

\* Type invariant: the tables hold rows of their types, no allocation is
\* negative, and the lock on a month is held by the transactions on it.
TypeOK ==
  /\ budgets \subseteq Months
  /\ alloc \in [Months -> Plan]
  /\ spent \in [Months -> [Categories -> Nat]]
  /\ lock \in [Months -> Requests \cup {None}]
  /\ pc \in [Requests -> Step]
  /\ call \in [Requests -> Calls \cup {None}]
  /\ source \in [Requests -> Nat]
  /\ counted \in [Requests -> Nat]
  /\ work \in [Requests -> Plan \cup {None}]
  /\ answer \in [Requests -> {"success", "refused", "commitError", None}]
  /\ \A r \in Requests : call[r] = None <=> pc[r] = "new"
  /\ \A r \in Requests, m \in Months :
       lock[m] = r <=> pc[r] \in InTransaction /\ Month(r) = m

\* A shift that is recorded has left its source with at least 1 more than was
\* spent when it was checked, whatever shifts and updates ran beside it
\* (the check of ShiftFundsAtomic, which is made before the update).
SourceKeepsRest == \A s \in shifts : s.left - s.counted >= 1

\* A shift is recorded in the step that moves the money and moves nothing else:
\* what the source loses the target gains (the two updates and the record of
\* ShiftFundsAtomic).
ShiftMovesMoney ==
  [][\A s \in shifts' \ shifts :
       \A m \in Months, c \in Categories :
         alloc'[m][c] =
           IF <<m, c>> = <<s.month, s.source>> THEN alloc[m][c] - s.amount
           ELSE IF <<m, c>> = <<s.month, s.target>>
                THEN OrZero(alloc[m][c]) + s.amount
           ELSE alloc[m][c]]_vars

\* The months and categories a call may change.
Names(r, m, c) ==
  /\ Month(r) = m
  /\ \/ call[r].op = "shift" /\ c \in {call[r].source, call[r].target}
     \/ call[r].op = "upsert" /\ c \in DOMAIN call[r].amounts

\* An amount that was entered is only changed by the commit of an update or a
\* shift that names it: not by copying the previous month into a month the
\* owner has planned already, and not by a call that overwrites what another
\* has committed since (on conflict do nothing, and the locks).
EnteredIsKept ==
  [][\A m \in Months, c \in Categories :
       alloc[m][c] # None /\ alloc'[m][c] # alloc[m][c] =>
         \E r \in Requests : pc[r] = "commit" /\ Names(r, m, c)]_vars

\* The answer tells what happened: a shift is recorded once if it was answered
\* with success, not at all if it was refused by a check or by an error before
\* the commit, and never twice.  Only the error of the commit itself, and no
\* answer at all, leave open which of the two it was: ShiftFundsAtomic returns
\* what tx.Commit returns, also when its answer is lost.
AnswerTellsShift ==
  \A r \in Requests :
    LET mine == {s \in shifts : s.by = r} IN
    /\ Cardinality(mine) <= 1
    /\ answer[r] = "refused" => mine = {}
    /\ answer[r] = "success" /\ call[r].op = "shift" => Cardinality(mine) = 1

\* Nobody waits for ever for the lock on a month.
Answered == \A r \in Requests : call[r] # None ~> pc[r] = "done"
=============================================================================
