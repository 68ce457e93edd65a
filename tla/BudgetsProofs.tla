---------------------------- MODULE BudgetsProofs ----------------------------
(***************************************************************************)
(* Theorems about Budgets for every set of requests, months, categories    *)
(* and amounts: the type invariant with the locks, that a shift leaves its *)
(* source a rest and moves the money exactly, and that entered amounts are *)
(* only changed by calls that name them.                                   *)
(***************************************************************************)
EXTENDS Budgets, FiniteSetTheorems, TLAPS

Assumptions ==
  /\ MonthsAssumption /\ CategoriesAssumption /\ CallsAssumption
  /\ StartAssumption /\ SpendingAssumption /\ NoneAssumption

IsShift(r) == call[r].op = "shift"
Allocated(r) == alloc[Month(r)][call[r].source]

\* What a call asks for at each step, and that the month before a copy's
\* target exists.
CallInOrder(r) ==
  /\ pc[r] \notin {"new", "done"} => Valid(call[r])
  /\ pc[r] \in {"source", "spent", "target"} => IsShift(r)
  /\ pc[r] = "previous" => call[r].op = "copy"
  /\ pc[r] \in {"lock", "write"} /\ call[r].op = "copy" =>
       Month(r) - 1 \in Months

\* What a shift has read still holds, because the month is locked.
ReadsInOrder(r) ==
  /\ pc[r] = "spent" => Allocated(r) = source[r]
  /\ pc[r] \in {"target", "write"} /\ IsShift(r) =>
       /\ Allocated(r) \in Nat
       /\ Allocated(r) - counted[r] - call[r].amount >= 1

\* What a transaction is about to commit: the effect of its shift on what is
\* committed, and otherwise no change to an entered amount it does not name.
WorkInOrder(r) ==
  /\ pc[r] # "commit" => work[r] = None
  /\ pc[r] = "commit" =>
       /\ work[r] \in Plan
       /\ IsShift(r) =>
            /\ Allocated(r) \in Nat
            /\ work[r] = Shifted(alloc[Month(r)], call[r])
            /\ work[r][call[r].source] - counted[r] >= 1
       /\ \A c \in Categories :
            alloc[Month(r)][c] # None /\ work[r][c] # alloc[Month(r)][c] =>
              Names(r, Month(r), c)

\* A shift is recorded by a request that has ended, once, and never by one
\* that was refused.
RecordInOrder(r) ==
  /\ pc[r] # "done" => answer[r] = None /\ \A s \in shifts : s.by # r
  /\ answer[r] = "refused" => \A s \in shifts : s.by # r
  /\ answer[r] = "success" /\ IsShift(r) => \E s \in shifts : s.by = r
  /\ \A s, t \in shifts : s.by = r /\ t.by = r => s = t

InOrder(r) ==
  CallInOrder(r) /\ ReadsInOrder(r) /\ WorkInOrder(r) /\ RecordInOrder(r)

IInv == TypeOK /\ SourceKeepsRest /\ \A r \in Requests : InOrder(r)

-----------------------------------------------------------------------------
(* Types.                                                                  *)

\* The fields of a call.
LEMMA CallFields ==
  ASSUME Assumptions, TypeOK, NEW r \in Requests, pc[r] # "new"
  PROVE  /\ IsCall(call[r])
         /\ Month(r) \in Months
         /\ IsShift(r) => /\ call[r].source \in Categories
                          /\ call[r].target \in Categories
                          /\ call[r].amount \in Int
  <1>1. call[r] \in Calls
    BY DEF TypeOK
  <1>2. IsCall(call[r])
    BY <1>1 DEF Assumptions, CallsAssumption
  <1> QED BY <1>2 DEF IsCall, Month, IsShift

LEMMA SpentIsNatural ==
  ASSUME TypeOK, NEW m \in Months, NEW c \in Categories
  PROVE  spent[m][c] \in Nat
  <1> QED BY DEF TypeOK

\* The effect of a shift the check has allowed.
LEMMA ShiftedPlan ==
  ASSUME NoneAssumption, NEW plan \in Plan, NEW c,
         c.source \in Categories, c.target \in Categories, c.amount \in Int,
         c.amount > 0, c.source # c.target,
         plan[c.source] \in Nat, plan[c.source] - c.amount >= 0
  PROVE  /\ Shifted(plan, c) \in Plan
         /\ Shifted(plan, c)[c.source] = plan[c.source] - c.amount
         /\ Shifted(plan, c)[c.target] = OrZero(plan[c.target]) + c.amount
         /\ \A d \in Categories \ {c.source, c.target} :
              Shifted(plan, c)[d] = plan[d]
  <1>1. OrZero(plan[c.target]) \in Nat
    BY DEF OrZero, Plan
  <1> QED BY <1>1 DEF Shifted, Plan

LEMMA InitIInv ==
  ASSUME Assumptions, Init PROVE IInv
  <1>1. TypeOK
    <2>1. \A r \in Requests : r # None
      BY DEF Assumptions, NoneAssumption
    <2> QED BY <2>1 DEF Init, TypeOK, Step, InTransaction,
                   Assumptions, StartAssumption
  <1>2. SourceKeepsRest
    BY DEF Init, SourceKeepsRest
  <1>3. ASSUME NEW r \in Requests PROVE InOrder(r)
    <2>1. CallInOrder(r) /\ ReadsInOrder(r) /\ WorkInOrder(r)
      BY DEF Init, CallInOrder, ReadsInOrder, WorkInOrder
    <2>2. RecordInOrder(r)
      BY DEF Init, RecordInOrder, Assumptions, NoneAssumption
    <2> QED BY <2>1, <2>2 DEF InOrder
  <1> QED BY <1>1, <1>2, <1>3 DEF IInv

-----------------------------------------------------------------------------
(* What a step leaves alone.                                               *)

\* A request is undisturbed by a step that leaves its locals and its records
\* alone, and its month while it holds the lock.
Undisturbed(q) ==
  /\ pc'[q] = pc[q]
  /\ call'[q] = call[q]
  /\ source'[q] = source[q]
  /\ counted'[q] = counted[q]
  /\ work'[q] = work[q]
  /\ answer'[q] = answer[q]
  /\ pc[q] \in InTransaction => alloc'[Month(q)] = alloc[Month(q)]
  /\ shifts \subseteq shifts'
  /\ \A s \in shifts' \ shifts : s.by # q

LEMMA UndisturbedKeeps ==
  ASSUME NEW q \in Requests, InOrder(q), Undisturbed(q)
  PROVE  InOrder(q)'
  <1> USE DEF Undisturbed, Month, IsShift, Allocated
  <1>1. CallInOrder(q)'
    BY DEF InOrder, CallInOrder, Valid
  <1>2. ReadsInOrder(q)'
    BY DEF InOrder, ReadsInOrder, CallInOrder, InTransaction
  <1>3. WorkInOrder(q)'
    BY DEF InOrder, WorkInOrder, InTransaction, Names
  <1>4. RecordInOrder(q)'
    BY DEF InOrder, RecordInOrder
  <1> QED BY <1>1, <1>2, <1>3, <1>4 DEF InOrder

\* The end of a request without effect keeps the invariant.
LEMMA EndKeeps ==
  ASSUME Assumptions, IInv, NEW r \in Requests, pc[r] # "new",
         pc' = [pc EXCEPT ![r] = "done"],
         \/ \E status \in {"refused", "commitError"} :
              answer' = [answer EXCEPT ![r] = status]
         \/ UNCHANGED answer,
         pc[r] # "done",
         Unlock(r),
         work' = [work EXCEPT ![r] = None],
         UNCHANGED <<tables, spent, call, reads>>
  PROVE  IInv'
  <1> USE DEF tables, reads
  <1>1. TypeOK'
    <2>1. \A q \in Requests : q # None
      BY DEF Assumptions, NoneAssumption
    <2>2. lock' \in [Months -> Requests \cup {None}]
      BY DEF IInv, TypeOK, Unlock
    <2>3. \A q \in Requests, m \in Months :
            lock'[m] = q <=> pc'[q] \in InTransaction /\ Month(q) = m
      BY <2>1 DEF IInv, TypeOK, Unlock, InTransaction
    <2>4. \A q \in Requests : call[q] = None <=> pc'[q] = "new"
      BY DEF IInv, TypeOK
    <2> QED BY <2>2, <2>3, <2>4 DEF IInv, TypeOK, Step, Month
  <1>2. SourceKeepsRest'
    BY DEF IInv, SourceKeepsRest
  <1>3. ASSUME NEW q \in Requests PROVE InOrder(q)'
    <2>1. InOrder(q)
      BY DEF IInv
    <2>2. CASE q # r
      <3>1. Undisturbed(q)
        BY <2>2 DEF Undisturbed, IInv, TypeOK, Month
      <3> QED BY <2>1, <3>1, UndisturbedKeeps
    <2>3. CASE q = r
      <3>1. pc'[r] = "done" /\ work'[r] = None
            /\ answer'[r] \in {"refused", "commitError", answer[r]}
        BY DEF IInv, TypeOK
      <3>2. RecordInOrder(r)'
        BY <2>1, <2>3, <3>1
        DEF InOrder, RecordInOrder, Assumptions, NoneAssumption
      <3>3. CallInOrder(r)' /\ ReadsInOrder(r)' /\ WorkInOrder(r)'
        BY <3>1 DEF CallInOrder, ReadsInOrder, WorkInOrder
      <3> QED BY <2>3, <3>2, <3>3 DEF InOrder
    <2> QED BY <2>2, <2>3
  <1> QED BY <1>1, <1>2, <1>3 DEF IInv

LEMMA RefuseKeeps ==
  ASSUME Assumptions, IInv, NEW r \in Requests, pc[r] \notin {"new", "done"},
         Refuse(r)
  PROVE  IInv'
  BY EndKeeps DEF Refuse, Reply, Goto

\* A step of one request that only moves it on, with new reads or writes of
\* its own, and what has to be shown for it.
LEMMA MoveKeeps ==
  ASSUME Assumptions, IInv, NEW r \in Requests, NEW step \in Step,
         pc[r] \notin {"new", "done"}, step \notin {"new", "done"},
         pc' = [pc EXCEPT ![r] = step],
         pc[r] \in InTransaction <=> step \in InTransaction,
         NEW s \in Nat, NEW n \in Nat, NEW w \in Plan \cup {None},
         source' = [source EXCEPT ![r] = s],
         counted' = [counted EXCEPT ![r] = n],
         work' = [work EXCEPT ![r] = w],
         UNCHANGED <<tables, spent, lock, call, answer>>,
         CallInOrder(r)', ReadsInOrder(r)', WorkInOrder(r)'
  PROVE  IInv'
  <1> USE DEF tables
  <1>1. TypeOK'
    <2>1. \A q \in Requests : pc'[q] = "new" <=> pc[q] = "new"
      BY DEF IInv, TypeOK
    <2>2. \A q \in Requests : pc'[q] \in InTransaction <=> pc[q] \in InTransaction
      BY DEF IInv, TypeOK
    <2>3. pc' \in [Requests -> Step]
      BY DEF IInv, TypeOK
    <2>4. /\ source' \in [Requests -> Nat]
          /\ counted' \in [Requests -> Nat]
          /\ work' \in [Requests -> Plan \cup {None}]
      BY DEF IInv, TypeOK
    <2> QED BY <2>1, <2>2, <2>3, <2>4 DEF IInv, TypeOK, Month
  <1>2. SourceKeepsRest'
    BY DEF IInv, SourceKeepsRest
  <1>3. ASSUME NEW q \in Requests PROVE InOrder(q)'
    <2>1. InOrder(q)
      BY DEF IInv
    <2>2. CASE q # r
      <3>1. Undisturbed(q)
        BY <2>2 DEF Undisturbed, IInv, TypeOK, Month
      <3> QED BY <2>1, <3>1, UndisturbedKeeps
    <2>3. CASE q = r
      <3>1. RecordInOrder(r)'
        BY <2>1, <2>3 DEF InOrder, RecordInOrder, IsShift, IInv, TypeOK
      <3> QED BY <2>3, <3>1 DEF InOrder
    <2> QED BY <2>2, <2>3
  <1> QED BY <1>1, <1>2, <1>3 DEF IInv

-----------------------------------------------------------------------------
(* The steps of a request.                                                 *)

LEMMA ArriveKeeps ==
  ASSUME Assumptions, IInv, NEW r \in Requests, Arrive(r)
  PROVE  IInv'
  <1> USE DEF tables, reads, Goto, Reply
  <1>1. PICK c \in Calls :
          /\ call' = [call EXCEPT ![r] = c]
          /\ IF ~Valid(c) THEN Reply(r, "refused")
             ELSE /\ Goto(r, IF c.op = "copy" THEN "previous" ELSE "lock")
                  /\ UNCHANGED answer
    BY DEF Arrive
  <1>2. PICK step \in {"done", "previous", "lock"} :
          /\ pc' = [pc EXCEPT ![r] = step]
          /\ step # "done" => Valid(c) /\ UNCHANGED answer
          /\ step = "done" => answer' = [answer EXCEPT ![r] = "refused"]
          /\ step = "previous" <=> (step # "done" /\ c.op = "copy")
    BY <1>1
  <1>3. pc[r] = "new" /\ UNCHANGED <<tables, spent, lock, reads, work>>
    BY DEF Arrive
  <1>4. c # None /\ \A q \in Requests : q # None
    BY DEF Assumptions, NoneAssumption
  <1>5. TypeOK'
    <2>1. \A q \in Requests : call'[q] = None <=> pc'[q] = "new"
      BY <1>1, <1>2, <1>3, <1>4 DEF IInv, TypeOK
    <2>2. \A q \in Requests, m \in Months :
            lock'[m] = q <=> pc'[q] \in InTransaction /\ call'[q].month = m
      BY <1>1, <1>2, <1>3 DEF IInv, TypeOK, InTransaction, Month
    <2>3. pc' \in [Requests -> Step] /\ call' \in [Requests -> Calls \cup {None}]
          /\ answer' \in [Requests ->
                            {"success", "refused", "commitError", None}]
      BY <1>1, <1>2 DEF IInv, TypeOK, Step
    <2> QED BY <1>3, <2>1, <2>2, <2>3 DEF IInv, TypeOK, Month
  <1>6. SourceKeepsRest'
    BY <1>3 DEF IInv, SourceKeepsRest
  <1>7. ASSUME NEW q \in Requests PROVE InOrder(q)'
    <2>1. InOrder(q)
      BY DEF IInv
    <2>2. CASE q # r
      <3>1. Undisturbed(q)
        BY <1>1, <1>2, <1>3, <2>2 DEF Undisturbed, IInv, TypeOK, Month
      <3> QED BY <2>1, <3>1, UndisturbedKeeps
    <2>3. CASE q = r
      <3>1. pc'[r] = step /\ call'[r] = c /\ work'[r] = None
        BY <1>1, <1>2, <1>3, <2>1, <2>3 DEF IInv, TypeOK, InOrder, WorkInOrder
      <3>2. CallInOrder(r)'
        BY <1>2, <3>1 DEF CallInOrder, IsShift
      <3>3. ReadsInOrder(r)' /\ WorkInOrder(r)'
        BY <3>1 DEF ReadsInOrder, WorkInOrder
      <3>4. answer[r] = None /\ (\A s \in shifts : s.by # r)
        BY <1>3, <2>1, <2>3 DEF InOrder, RecordInOrder
      <3>5. answer'[r] \in {None, "refused"}
            /\ (step # "done" => answer'[r] = None)
        BY <1>2, <3>4 DEF IInv, TypeOK
      <3>6. RecordInOrder(r)'
        BY <1>3, <3>1, <3>4, <3>5
        DEF RecordInOrder, Assumptions, NoneAssumption
      <3> QED BY <2>3, <3>2, <3>3, <3>6 DEF InOrder
    <2> QED BY <2>2, <2>3
  <1> QED BY <1>5, <1>6, <1>7 DEF IInv

\* The types of the locals, for MoveKeeps.
LEMMA LocalsTyped ==
  ASSUME TypeOK, NEW r \in Requests
  PROVE  /\ source[r] \in Nat
         /\ counted[r] \in Nat
         /\ work[r] \in Plan \cup {None}
         /\ source = [source EXCEPT ![r] = source[r]]
         /\ counted = [counted EXCEPT ![r] = counted[r]]
         /\ work = [work EXCEPT ![r] = work[r]]
         /\ pc[r] \in Step
  BY DEF TypeOK

\* A step that changes nothing but the program counter.
LEMMA PlainMoveKeeps ==
  ASSUME Assumptions, IInv, NEW r \in Requests, NEW step \in Step,
         pc[r] \notin {"new", "done"}, step \notin {"new", "done"},
         pc' = [pc EXCEPT ![r] = step],
         pc[r] \in InTransaction <=> step \in InTransaction,
         UNCHANGED <<tables, spent, lock, call, reads, work, answer>>,
         CallInOrder(r)', ReadsInOrder(r)', WorkInOrder(r)'
  PROVE  IInv'
  <1>1. source[r] \in Nat /\ counted[r] \in Nat /\ work[r] \in Plan \cup {None}
    BY LocalsTyped DEF IInv
  <1>2. /\ source' = [source EXCEPT ![r] = source[r]]
        /\ counted' = [counted EXCEPT ![r] = counted[r]]
        /\ work' = [work EXCEPT ![r] = work[r]]
    BY LocalsTyped DEF IInv, reads
  <1>3. UNCHANGED <<tables, spent, lock, call, answer>>
    OBVIOUS
  <1> QED BY <1>1, <1>2, <1>3, MoveKeeps

LEMMA FindPreviousKeeps ==
  ASSUME Assumptions, IInv, NEW r \in Requests, FindPrevious(r)
  PROVE  IInv'
  <1>1. CASE Refuse(r)
    BY <1>1, RefuseKeeps DEF FindPrevious
  <1>2. CASE ~Refuse(r)
    <2>1. /\ pc[r] = "previous" /\ pc' = [pc EXCEPT ![r] = "lock"]
          /\ UNCHANGED <<tables, spent, lock, call, reads, work, answer>>
          /\ Month(r) - 1 \in budgets
      BY <1>2 DEF FindPrevious, Goto
    <2>2. pc'[r] = "lock" /\ InOrder(r) /\ Month(r) - 1 \in Months
      BY <2>1 DEF IInv, TypeOK
    <2>3. CallInOrder(r)'
      BY <2>1, <2>2 DEF InOrder, CallInOrder, Valid, Month, IsShift
    <2>4. ReadsInOrder(r)' /\ WorkInOrder(r)'
      BY <2>1, <2>2 DEF InOrder, ReadsInOrder, WorkInOrder
    <2>5. "lock" \in Step /\ "lock" \notin InTransaction
          /\ "previous" \notin InTransaction
      BY DEF Step, InTransaction
    <2> QED BY <2>1, <2>3, <2>4, <2>5, PlainMoveKeeps
  <1> QED BY <1>1, <1>2

LEMMA LockMonthKeeps ==
  ASSUME Assumptions, IInv, NEW r \in Requests, LockMonth(r)
  PROVE  IInv'
  <1>1. CASE Refuse(r)
    BY <1>1, RefuseKeeps DEF LockMonth
  <1>2. CASE ~Refuse(r)
    <2> USE DEF tables, reads
    <2>1. PICK step \in {"source", "write"} :
            /\ pc[r] = "lock"
            /\ pc' = [pc EXCEPT ![r] = step]
            /\ step = "source" <=> IsShift(r)
            /\ lock[Month(r)] = None
            /\ lock' = [lock EXCEPT ![Month(r)] = r]
            /\ UNCHANGED <<tables, spent, call, reads, work, answer>>
      BY <1>2 DEF LockMonth, Goto, IsShift
    <2>2. Month(r) \in Months /\ \A q \in Requests : q # None
      BY <2>1, CallFields DEF IInv, Assumptions, NoneAssumption
    <2>3. TypeOK'
      <3>1. ASSUME NEW q \in Requests, NEW m \in Months
            PROVE  lock'[m] = q <=> pc'[q] \in InTransaction /\ Month(q) = m
        <4>1. lock'[m] = IF m = Month(r) THEN r ELSE lock[m]
          BY <2>1, <2>2 DEF IInv, TypeOK
        <4>2. pc'[q] = IF q = r THEN step ELSE pc[q]
          BY <2>1 DEF IInv, TypeOK
        <4>3. lock[m] = q <=> pc[q] \in InTransaction /\ Month(q) = m
          BY DEF IInv, TypeOK
        <4> QED BY <2>1, <2>2, <4>1, <4>2, <4>3 DEF InTransaction
      <3>2. pc' \in [Requests -> Step] /\ lock' \in [Months -> Requests \cup {None}]
        BY <2>1 DEF IInv, TypeOK, Step
      <3>3. \A q \in Requests : call'[q] = None <=> pc'[q] = "new"
        BY <2>1 DEF IInv, TypeOK
      <3> QED BY <2>1, <3>1, <3>2, <3>3 DEF IInv, TypeOK, Month
    <2>4. SourceKeepsRest'
      BY <2>1 DEF IInv, SourceKeepsRest
    <2>5. ASSUME NEW q \in Requests PROVE InOrder(q)'
      <3>1. InOrder(q)
        BY DEF IInv
      <3>2. CASE q # r
        <4>1. Undisturbed(q)
          BY <2>1, <3>2 DEF Undisturbed, IInv, TypeOK, Month
        <4> QED BY <3>1, <4>1, UndisturbedKeeps
      <3>3. CASE q = r
        <4>1. pc'[r] = step
          BY <2>1 DEF IInv, TypeOK
        <4>2. CallInOrder(r)'
          BY <2>1, <3>1, <3>3, <4>1
          DEF InOrder, CallInOrder, Valid, Month, IsShift
        <4>3. ReadsInOrder(r)'
          BY <2>1, <4>1 DEF ReadsInOrder, IsShift
        <4>4. WorkInOrder(r)' /\ RecordInOrder(r)'
          BY <2>1, <3>1, <3>3, <4>1
          DEF InOrder, WorkInOrder, RecordInOrder, IsShift
        <4> QED BY <3>3, <4>2, <4>3, <4>4 DEF InOrder
      <3> QED BY <3>2, <3>3
    <2> QED BY <2>3, <2>4, <2>5 DEF IInv
  <1> QED BY <1>1, <1>2

LEMMA ReadSourceKeeps ==
  ASSUME Assumptions, IInv, NEW r \in Requests, ReadSource(r)
  PROVE  IInv'
  <1>1. CASE Refuse(r)
    BY <1>1, RefuseKeeps DEF ReadSource
  <1>2. CASE ~Refuse(r)
    <2>1. /\ pc[r] = "source" /\ pc' = [pc EXCEPT ![r] = "spent"]
          /\ Allocated(r) # None
          /\ source' = [source EXCEPT ![r] = Allocated(r)]
          /\ UNCHANGED <<tables, spent, lock, call, counted, work, answer>>
      BY <1>2 DEF ReadSource, Goto, Allocated
    <2>2. InOrder(r) /\ IsShift(r) /\ Valid(call[r])
      BY <2>1 DEF IInv, InOrder, CallInOrder
    <2>3. Allocated(r) \in Nat
      BY <2>1, <2>2, CallFields DEF IInv, TypeOK, Plan, Allocated
    <2>4. pc'[r] = "spent" /\ source'[r] = Allocated(r)
      BY <2>1 DEF IInv, TypeOK
    <2>5. CallInOrder(r)'
      BY <2>1, <2>2, <2>4 DEF CallInOrder, Valid, IsShift, Month
    <2>6. ReadsInOrder(r)'
      BY <2>1, <2>4 DEF ReadsInOrder, Allocated, Month, tables
    <2>7. WorkInOrder(r)'
      BY <2>1, <2>2, <2>4 DEF InOrder, WorkInOrder
    <2>8. {"source", "spent"} \subseteq InTransaction /\ "spent" \in Step
      BY DEF Step, InTransaction
    <2> QED BY <2>1, <2>3, <2>5, <2>6, <2>7, <2>8, MoveKeeps, LocalsTyped DEF
                   IInv
  <1> QED BY <1>1, <1>2

LEMMA ReadSpentKeeps ==
  ASSUME Assumptions, IInv, NEW r \in Requests, ReadSpent(r)
  PROVE  IInv'
  <1>1. CASE Refuse(r)
    BY <1>1, RefuseKeeps DEF ReadSpent
  <1>2. CASE ~Refuse(r)
    <2> DEFINE sum == spent[Month(r)][call[r].source]
    <2>1. /\ pc[r] = "spent" /\ pc' = [pc EXCEPT ![r] = "target"]
          /\ ~(source[r] - sum - call[r].amount < 1)
          /\ counted' = [counted EXCEPT ![r] = sum]
          /\ UNCHANGED <<tables, spent, lock, call, source, work, answer>>
      BY <1>2 DEF ReadSpent, Goto
    <2>2. InOrder(r) /\ IsShift(r) /\ Valid(call[r])
      BY <2>1 DEF IInv, InOrder, CallInOrder
    <2>3. sum \in Nat /\ call[r].amount \in Int /\ source[r] \in Nat
      BY <2>1, <2>2, CallFields, SpentIsNatural DEF IInv, TypeOK
    <2>4. pc'[r] = "target" /\ counted'[r] = sum
      BY <2>1 DEF IInv, TypeOK
    <2>5. CallInOrder(r)'
      BY <2>1, <2>2, <2>4 DEF CallInOrder, Valid, IsShift, Month
    <2>6. Allocated(r) = source[r]
      BY <2>1, <2>2 DEF InOrder, ReadsInOrder
    <2>7. ReadsInOrder(r)'
      <3> HIDE DEF sum
      <3>1. Allocated(r) - sum - call[r].amount >= 1
        BY <2>1, <2>3, <2>6
      <3> QED BY <2>1, <2>3, <2>4, <2>6, <3>1 DEF ReadsInOrder, Allocated,
                     Month, tables, IsShift
    <2>8. WorkInOrder(r)'
      BY <2>1, <2>2, <2>4 DEF InOrder, WorkInOrder
    <2>9. {"target", "spent"} \subseteq InTransaction /\ "target" \in Step
      BY DEF Step, InTransaction
    <2> HIDE DEF sum
    <2> QED BY <2>1, <2>3, <2>5, <2>7, <2>8, <2>9, MoveKeeps, LocalsTyped DEF
                   IInv
  <1> QED BY <1>1, <1>2

LEMMA FindTargetKeeps ==
  ASSUME Assumptions, IInv, NEW r \in Requests, FindTarget(r)
  PROVE  IInv'
  <1>1. CASE Refuse(r)
    BY <1>1, RefuseKeeps DEF FindTarget
  <1>2. CASE ~Refuse(r)
    <2>1. /\ pc[r] = "target" /\ pc' = [pc EXCEPT ![r] = "write"]
          /\ UNCHANGED <<tables, spent, lock, call, reads, work, answer>>
      BY <1>2 DEF FindTarget, Goto
    <2>2. InOrder(r) /\ IsShift(r) /\ Valid(call[r])
      BY <2>1 DEF IInv, InOrder, CallInOrder
    <2>3. pc'[r] = "write"
      BY <2>1 DEF IInv, TypeOK
    <2>4. CallInOrder(r)'
      BY <2>1, <2>2, <2>3 DEF CallInOrder, Valid, IsShift, Month
    <2>5. ReadsInOrder(r)'
      BY <2>1, <2>2, <2>3
      DEF InOrder, ReadsInOrder, Allocated, Month, tables, reads, IsShift
    <2>6. WorkInOrder(r)'
      BY <2>1, <2>2, <2>3 DEF InOrder, WorkInOrder
    <2>7. {"target", "write"} \subseteq InTransaction /\ "write" \in Step
      BY DEF Step, InTransaction
    <2> QED BY <2>1, <2>4, <2>5, <2>6, <2>7, PlainMoveKeeps
  <1> QED BY <1>1, <1>2

\* What a transaction writes changes no entered amount its call does not name.
LEMMA EffectNames ==
  ASSUME Assumptions, IInv, NEW r \in Requests, pc[r] = "write",
         Effect(r) \in Plan, NEW c \in Categories,
         alloc[Month(r)][c] # None, Effect(r)[c] # alloc[Month(r)][c]
  PROVE  Names(r, Month(r), c)
  <1>1. IsCall(call[r]) /\ Month(r) \in Months
    BY CallFields DEF IInv
  <1>2. CASE IsShift(r)
    <2>1. Effect(r) = Shifted(alloc[Month(r)], call[r])
      BY <1>2 DEF Effect, IsShift
    <2>2. call[r].source \in Categories /\ call[r].target \in Categories
      BY <1>2, CallFields DEF IInv
    <2>3. alloc[Month(r)] \in Plan
      BY <1>1 DEF IInv, TypeOK
    <2> QED BY <1>2, <2>1, <2>2, <2>3 DEF Names, Shifted, IsShift, Plan
  <1>3. CASE call[r].op = "upsert"
    BY <1>3 DEF Effect, Upserted, Names
  <1>4. CASE call[r].op = "copy"
    BY <1>4 DEF Effect, Copied
  <1> QED BY <1>1, <1>2, <1>3, <1>4 DEF IsCall, IsShift

LEMMA WriteKeeps ==
  ASSUME Assumptions, IInv, NEW r \in Requests, Write(r)
  PROVE  IInv'
  <1>1. CASE Refuse(r)
    BY <1>1, RefuseKeeps DEF Write
  <1>2. CASE ~Refuse(r)
    <2>1. /\ pc[r] = "write" /\ pc' = [pc EXCEPT ![r] = "commit"]
          /\ Effect(r) \in Plan
          /\ work' = [work EXCEPT ![r] = Effect(r)]
          /\ UNCHANGED <<tables, spent, lock, call, reads, answer>>
      BY <1>2 DEF Write, Goto
    <2>2. InOrder(r) /\ Valid(call[r])
      BY <2>1 DEF IInv, InOrder, CallInOrder
    <2>3. pc'[r] = "commit" /\ work'[r] = Effect(r)
      BY <2>1 DEF IInv, TypeOK
    <2>4. CallInOrder(r)'
      BY <2>1, <2>2, <2>3 DEF CallInOrder, Valid, IsShift, Month
    <2>5. ReadsInOrder(r)'
      BY <2>3 DEF ReadsInOrder
    <2>6. IsShift(r) =>
            /\ Allocated(r) \in Nat
            /\ Effect(r) = Shifted(alloc[Month(r)], call[r])
            /\ Effect(r)[call[r].source] - counted[r] >= 1
      <3> SUFFICES ASSUME IsShift(r)
                   PROVE  /\ Allocated(r) \in Nat
                          /\ Effect(r) = Shifted(alloc[Month(r)], call[r])
                          /\ Effect(r)[call[r].source] - counted[r] >= 1
        OBVIOUS
      <3>1. /\ Allocated(r) \in Nat
            /\ Allocated(r) - counted[r] - call[r].amount >= 1
        BY <2>1, <2>2 DEF InOrder, ReadsInOrder
      <3>2. Effect(r) = Shifted(alloc[Month(r)], call[r])
        BY DEF Effect, IsShift
      <3>3. /\ call[r].source \in Categories /\ call[r].target \in Categories
            /\ call[r].amount \in Int /\ Month(r) \in Months
        BY <2>1, CallFields DEF IInv
      <3>4. alloc[Month(r)] \in Plan /\ counted[r] \in Nat
        BY <3>3 DEF IInv, TypeOK
      <3>5. call[r].source # call[r].target
        BY <2>2 DEF Valid, IsShift
      <3>6. Effect(r)[call[r].source] = Allocated(r) - call[r].amount
        BY <3>2, <3>3, <3>4, <3>5 DEF Shifted, Allocated, Plan
      <3> QED BY <3>1, <3>2, <3>3, <3>4, <3>6
    <2>7. WorkInOrder(r)'
      <3>1. \A c \in Categories :
              alloc[Month(r)][c] # None /\ Effect(r)[c] # alloc[Month(r)][c] =>
                Names(r, Month(r), c)
        BY <2>1, EffectNames
      <3> QED BY <2>1, <2>3, <2>6, <3>1 DEF WorkInOrder, Names, Month, IsShift,
                     Allocated, tables, reads
    <2>8. {"commit", "write"} \subseteq InTransaction /\ "commit" \in Step
      BY DEF Step, InTransaction
    <2> QED BY <2>1, <2>4, <2>5, <2>7, <2>8, MoveKeeps, LocalsTyped DEF IInv,
                   reads
  <1> QED BY <1>1, <1>2

-----------------------------------------------------------------------------
(* The commit.                                                             *)

\* Nobody else is in a transaction on the month of a committing request.
LEMMA MonthIsMine ==
  ASSUME Assumptions, IInv, NEW r \in Requests, pc[r] = "commit",
         NEW q \in Requests \ {r}, pc[q] \in InTransaction
  PROVE  Month(q) # Month(r)
  <1>1. Month(r) \in Months /\ pc[r] \in InTransaction
    BY CallFields DEF IInv, InTransaction
  <1> QED BY <1>1 DEF IInv, TypeOK

\* A commit keeps the invariant, whether its answer arrives or not.
LEMMA ApplyKeeps ==
  ASSUME Assumptions, IInv, NEW r \in Requests, pc[r] = "commit", Apply(r),
         pc' = [pc EXCEPT ![r] = "done"],
         \/ \E status \in {"success", "commitError"} :
              answer' = [answer EXCEPT ![r] = status]
         \/ UNCHANGED answer,
         UNCHANGED <<spent, call, reads>>
  PROVE  IInv'
  <1> USE DEF reads
  <1>1. /\ InOrder(r)
        /\ Month(r) \in Months
        /\ work[r] \in Plan
    BY CallFields DEF IInv, InOrder, WorkInOrder
  <1>2. /\ alloc' = [alloc EXCEPT ![Month(r)] = work[r]]
        /\ budgets' = budgets \cup {Month(r)}
        /\ shifts' = IF IsShift(r) THEN shifts \cup {Record(r, work[r])}
                     ELSE shifts
        /\ Unlock(r)
        /\ work' = [work EXCEPT ![r] = None]
    BY DEF Apply, IsShift
  <1>3. TypeOK'
    <2>1. \A q \in Requests : q # None
      BY DEF Assumptions, NoneAssumption
    <2>2. lock' \in [Months -> Requests \cup {None}]
      BY <1>2 DEF IInv, TypeOK, Unlock
    <2>3. \A q \in Requests, m \in Months :
            lock'[m] = q <=> pc'[q] \in InTransaction /\ Month(q) = m
      BY <1>2, <2>1 DEF IInv, TypeOK, Unlock, InTransaction
    <2>4. \A q \in Requests : call[q] = None <=> pc'[q] = "new"
      BY DEF IInv, TypeOK
    <2>5. alloc' \in [Months -> Plan] /\ budgets' \subseteq Months
      BY <1>1, <1>2 DEF IInv, TypeOK
    <2>6. /\ pc' \in [Requests -> Step]
          /\ work' \in [Requests -> Plan \cup {None}]
          /\ answer' \in [Requests ->
                            {"success", "refused", "commitError", None}]
      BY <1>2 DEF IInv, TypeOK, Step
    <2> QED BY <2>2, <2>3, <2>4, <2>5, <2>6 DEF IInv, TypeOK, Month
  <1>4. SourceKeepsRest'
    <2>1. IsShift(r) => Record(r, work[r]).left - Record(r, work[r]).counted >= 1
      BY <1>1 DEF InOrder, WorkInOrder, Record
    <2> QED BY <1>2, <2>1 DEF IInv, SourceKeepsRest
  <1>5. ASSUME NEW q \in Requests PROVE InOrder(q)'
    <2>1. InOrder(q)
      BY DEF IInv
    <2>2. CASE q # r
      <3>1. pc[q] \in InTransaction => alloc'[Month(q)] = alloc[Month(q)]
        <4>1. SUFFICES ASSUME pc[q] \in InTransaction
                       PROVE  alloc'[Month(q)] = alloc[Month(q)]
          OBVIOUS
        <4>2. Month(q) # Month(r)
          BY <2>2, <4>1, MonthIsMine
        <4>3. Month(q) \in Months
          BY <4>1, CallFields DEF IInv, InTransaction
        <4> QED BY <1>2, <4>2, <4>3 DEF IInv, TypeOK
      <3>2. /\ shifts \subseteq shifts'
            /\ \A s \in shifts' \ shifts : s.by # q
        BY <1>2, <2>2 DEF Record
      <3>3. /\ pc'[q] = pc[q] /\ work'[q] = work[q] /\ answer'[q] = answer[q]
            /\ call'[q] = call[q] /\ source'[q] = source[q]
            /\ counted'[q] = counted[q]
        BY <1>2, <2>2 DEF IInv, TypeOK
      <3>4. Undisturbed(q)
        BY <3>1, <3>2, <3>3 DEF Undisturbed, Month
      <3> QED BY <2>1, <3>4, UndisturbedKeeps
    <2>3. CASE q = r
      <3>1. pc'[r] = "done" /\ work'[r] = None
            /\ answer'[r] \in {answer[r], "success", "commitError"}
        BY <1>2 DEF IInv, TypeOK
      <3>2. answer[r] = None /\ \A s \in shifts : s.by # r
        BY <1>1 DEF InOrder, RecordInOrder
      <3>3. answer'[r] # "refused"
        BY <3>1, <3>2 DEF Assumptions, NoneAssumption
      <3>4. Record(r, work[r]).by = r
        BY DEF Record
      <3>5. IsShift(r) => \E s \in shifts' : s.by = r
        BY <1>2, <3>4
      <3>6. \A s, t \in shifts' : s.by = r /\ t.by = r => s = t
        BY <1>2, <3>2
      <3>7. RecordInOrder(r)'
        BY <3>1, <3>3, <3>5, <3>6 DEF RecordInOrder, IsShift
      <3>8. CallInOrder(r)' /\ ReadsInOrder(r)' /\ WorkInOrder(r)'
        BY <3>1 DEF CallInOrder, ReadsInOrder, WorkInOrder
      <3> QED BY <2>3, <3>7, <3>8 DEF InOrder
    <2> QED BY <2>2, <2>3
  <1> QED BY <1>3, <1>4, <1>5 DEF IInv

\* The ledger moves beside the budget.
LEMMA BookKeeps ==
  ASSUME Assumptions, IInv, NEW m \in Months, NEW c \in Categories,
         NEW amount \in Int, Book(m, c, amount)
  PROVE  IInv'
  <1> USE DEF tables, reads
  <1>1. spent' \in [Months -> [Categories -> Nat]]
    <2>1. spent[m][c] + amount \in Nat
      BY DEF Book, Assumptions, SpendingAssumption
    <2>2. spent' = [spent EXCEPT ![m][c] = spent[m][c] + amount]
      BY DEF Book
    <2>3. spent \in [Months -> [Categories -> Nat]]
      BY DEF IInv, TypeOK
    <2> QED BY <2>1, <2>2, <2>3
  <1>2. UNCHANGED <<tables, lock, pc, call, reads, work, answer>>
    BY DEF Book
  <1>3. TypeOK'
    BY <1>1, <1>2 DEF IInv, TypeOK, Month
  <1>4. SourceKeepsRest'
    BY <1>2 DEF IInv, SourceKeepsRest
  <1>5. ASSUME NEW q \in Requests PROVE InOrder(q)'
    BY <1>2, UndisturbedKeeps DEF IInv, Undisturbed
  <1> QED BY <1>3, <1>4, <1>5 DEF IInv

\* A request that is cut off, with the error as its answer or without one.
LEMMA CutOffKeeps ==
  ASSUME Assumptions, IInv, NEW r \in Requests, Fail(r) \/ Vanish(r)
  PROVE  IInv'
  <1>1. /\ pc[r] \notin {"new", "done"}
        /\ pc' = [pc EXCEPT ![r] = "done"]
        /\ UNCHANGED <<spent, call, reads>>
    BY DEF Fail, Vanish, CutOff, Reply, Goto
  <1>2. \/ /\ pc[r] = "commit"
           /\ answer' = [answer EXCEPT ![r] = "commitError"]
        \/ /\ pc[r] # "commit"
           /\ answer' = [answer EXCEPT ![r] = "refused"]
        \/ UNCHANGED answer
    BY DEF Fail, Vanish, Reply
  <1>3. CASE pc[r] = "commit" /\ Apply(r)
    BY <1>1, <1>2, <1>3, ApplyKeeps
  <1>4. CASE /\ Unlock(r)
             /\ work' = [work EXCEPT ![r] = None]
             /\ UNCHANGED tables
    BY <1>1, <1>2, <1>4, EndKeeps
  <1> QED BY <1>3, <1>4 DEF Fail, Vanish, CutOff

LEMMA StepKeeps ==
  ASSUME Assumptions, IInv, [Next]_vars
  PROVE  IInv'
  <1>1. ASSUME NEW r \in Requests, Arrive(r) PROVE IInv'
    BY <1>1, ArriveKeeps
  <1>2. ASSUME NEW r \in Requests, FindPrevious(r) \/ LockMonth(r) PROVE IInv'
    BY <1>2, FindPreviousKeeps, LockMonthKeeps
  <1>3. ASSUME NEW r \in Requests,
               ReadSource(r) \/ ReadSpent(r) \/ FindTarget(r)
        PROVE  IInv'
    BY <1>3, ReadSourceKeeps, ReadSpentKeeps, FindTargetKeeps
  <1>4. ASSUME NEW r \in Requests, Write(r) PROVE IInv'
    BY <1>4, WriteKeeps
  <1>5. ASSUME NEW r \in Requests, Commit(r) PROVE IInv'
    BY <1>5, ApplyKeeps DEF Commit, Reply, Goto
  <1>6. ASSUME NEW r \in Requests, Fail(r) \/ Vanish(r) PROVE IInv'
    BY <1>6, CutOffKeeps
  <1>7. ASSUME NEW mc \in Spending,
               Spend(mc[1], mc[2]) \/ Unspend(mc[1], mc[2])
        PROVE  IInv'
    <2>1. mc[1] \in Months /\ mc[2] \in Categories /\ Price \in Int /\ -Price \in Int
      BY DEF Assumptions, SpendingAssumption
    <2> QED BY <1>7, <2>1, BookKeeps DEF Spend, Unspend
  <1>8. CASE UNCHANGED vars
    <2>1. UNCHANGED <<tables, spent, lock, pc, call, reads, work, answer>>
      BY <1>8 DEF vars
    <2>2. \A q \in Requests : InOrder(q)'
      BY <2>1, UndisturbedKeeps DEF IInv, Undisturbed, tables, reads
    <2> QED BY <2>1, <2>2 DEF IInv, TypeOK, SourceKeepsRest, tables, reads,
                   Month
  <1> QED BY <1>1, <1>2, <1>3, <1>4, <1>5, <1>6, <1>7, <1>8 DEF Next,
                 Handle

-----------------------------------------------------------------------------
(* What a step does to the allocations.                                    *)

\* The allocations and the shifts change by commits alone.
LEMMA OnlyCommits ==
  ASSUME [Next]_vars
  PROVE  \/ UNCHANGED <<alloc, shifts>>
         \/ \E r \in Requests : pc[r] = "commit" /\ Apply(r)
  <1>1. ASSUME NEW r \in Requests, Refuse(r) PROVE UNCHANGED <<alloc, shifts>>
    BY <1>1 DEF Refuse, tables
  <1>2. ASSUME NEW r \in Requests, Arrive(r) PROVE UNCHANGED <<alloc, shifts>>
    BY <1>2 DEF Arrive, tables
  <1>3. ASSUME NEW r \in Requests, FindPrevious(r) \/ LockMonth(r) \/ ReadSource(r)
        PROVE  UNCHANGED <<alloc, shifts>>
    BY <1>1, <1>3 DEF FindPrevious, LockMonth, ReadSource, tables
  <1>4. ASSUME NEW r \in Requests, ReadSpent(r) \/ FindTarget(r) \/ Write(r)
        PROVE  UNCHANGED <<alloc, shifts>>
    BY <1>1, <1>4 DEF ReadSpent, FindTarget, Write, tables
  <1>5. ASSUME NEW r \in Requests, Commit(r)
        PROVE  pc[r] = "commit" /\ Apply(r)
    BY <1>5 DEF Commit
  <1>6. ASSUME NEW r \in Requests, Fail(r) \/ Vanish(r)
        PROVE  UNCHANGED <<alloc, shifts>> \/ (pc[r] = "commit" /\ Apply(r))
    BY <1>6 DEF Fail, Vanish, CutOff, tables
  <1>7. ASSUME NEW m, NEW c, Spend(m, c) \/ Unspend(m, c)
        PROVE  UNCHANGED <<alloc, shifts>>
    BY <1>7 DEF Spend, Unspend, Book, tables
  <1>8. CASE UNCHANGED vars
    BY <1>8 DEF vars, tables
  <1> QED BY <1>1, <1>2, <1>3, <1>4, <1>5, <1>6, <1>7, <1>8 DEF Next, Handle

\* The exact effect of a shift.
Moves(s) ==
  \A m \in Months, c \in Categories :
    alloc'[m][c] =
      IF <<m, c>> = <<s.month, s.source>> THEN alloc[m][c] - s.amount
      ELSE IF <<m, c>> = <<s.month, s.target>>
           THEN OrZero(alloc[m][c]) + s.amount
      ELSE alloc[m][c]

LEMMA ShiftMoves ==
  ASSUME Assumptions, IInv, [Next]_vars, NEW s \in shifts' \ shifts
  PROVE  Moves(s)
  <1>1. PICK r \in Requests : pc[r] = "commit" /\ Apply(r)
    BY OnlyCommits
  <1>2. IsShift(r) /\ s = Record(r, work[r])
    BY <1>1 DEF Apply, IsShift
  <1>3. /\ s.month = Month(r) /\ s.source = call[r].source
        /\ s.target = call[r].target /\ s.amount = call[r].amount
    BY <1>2 DEF Record
  <1>4. /\ Month(r) \in Months
        /\ call[r].source \in Categories /\ call[r].target \in Categories
        /\ call[r].amount \in Int
    BY <1>1, <1>2, CallFields DEF IInv
  <1>5. call[r].source # call[r].target
    BY <1>1, <1>2 DEF IInv, InOrder, CallInOrder, Valid, IsShift
  <1>6. work[r] = Shifted(alloc[Month(r)], call[r])
    BY <1>1, <1>2 DEF IInv, InOrder, WorkInOrder
  <1>7. alloc[Month(r)] \in Plan /\ alloc \in [Months -> Plan]
    BY <1>4 DEF IInv, TypeOK
  <1>8. /\ alloc'[Month(r)] = work[r]
        /\ \A m \in Months \ {Month(r)} : alloc'[m] = alloc[m]
    BY <1>1, <1>4, <1>7 DEF Apply
  <1>9. \A c \in Categories :
          work[r][c] = IF c = call[r].source THEN alloc[Month(r)][c] - call[r].amount
                       ELSE IF c = call[r].target
                            THEN OrZero(alloc[Month(r)][c]) + call[r].amount
                       ELSE alloc[Month(r)][c]
    BY <1>4, <1>5, <1>6, <1>7 DEF Shifted, Plan
  <1> QED BY <1>3, <1>4, <1>8, <1>9 DEF Moves

LEMMA EnteredKept ==
  ASSUME Assumptions, IInv, [Next]_vars, NEW m \in Months, NEW c \in Categories,
         alloc[m][c] # None, alloc'[m][c] # alloc[m][c]
  PROVE  \E r \in Requests : pc[r] = "commit" /\ Names(r, m, c)
  <1>1. PICK r \in Requests : pc[r] = "commit" /\ Apply(r)
    BY OnlyCommits
  <1>2. m = Month(r) /\ alloc'[m] = work[r]
    BY <1>1 DEF Apply, IInv, TypeOK
  <1>3. Names(r, m, c)
    BY <1>1, <1>2 DEF IInv, InOrder, WorkInOrder
  <1> QED BY <1>1, <1>3

-----------------------------------------------------------------------------
(* Theorems.                                                               *)

\* The inductive invariant: the lock on the month keeps what a transaction has
\* read true until it commits.
THEOREM Inductive ==
  ASSUME Assumptions PROVE Spec => []IInv
  <1>1. Init => IInv
    BY InitIInv
  <1>2. IInv /\ [Next]_vars => IInv'
    BY StepKeeps
  <1> QED BY <1>1, <1>2, PTL DEF Spec

\* Types, no negative allocation, and the locks.
THEOREM TypeCorrect ==
  ASSUME Assumptions PROVE Spec => []TypeOK
  <1>1. IInv => TypeOK
    BY DEF IInv
  <1> QED BY <1>1, Inductive, PTL

\* A shift leaves its source at least 1 more than was spent
\* (ShiftFundsAtomic), whatever runs beside it.
THEOREM SourceKeepsRestCorrect ==
  ASSUME Assumptions PROVE Spec => []SourceKeepsRest
  <1>1. IInv => SourceKeepsRest
    BY DEF IInv
  <1> QED BY <1>1, Inductive, PTL

\* A successful shift recorded one shift, a call refused before its commit none,
\* and no call two (ShiftFundsAtomic); the error of a commit leaves it open.
THEOREM AnswerTellsShiftCorrect ==
  ASSUME Assumptions PROVE Spec => []AnswerTellsShift
  <1>1. IInv => AnswerTellsShift
    <2> SUFFICES ASSUME IInv, NEW r \in Requests
                 PROVE  LET mine == {s \in shifts : s.by = r} IN
                        /\ Cardinality(mine) <= 1
                        /\ answer[r] = "refused" => mine = {}
                        /\ answer[r] = "success" /\ call[r].op = "shift" =>
                             Cardinality(mine) = 1
      BY DEF AnswerTellsShift
    <2> DEFINE mine == {s \in shifts : s.by = r}
    <2>1. RecordInOrder(r)
      BY DEF IInv, InOrder
    <2>2. answer[r] = "refused" => mine = {}
      BY <2>1 DEF RecordInOrder
    <2>3. ASSUME answer[r] = "success", IsShift(r)
          PROVE  Cardinality(mine) = 1
      <3>1. PICK s \in shifts : s.by = r
        BY <2>1, <2>3 DEF RecordInOrder
      <3>2. mine = {s}
        BY <2>1, <3>1 DEF RecordInOrder
      <3> QED BY <3>2, FS_Singleton
    <2>4. Cardinality(mine) <= 1
      <3>1. mine = {} => Cardinality(mine) = 0
        BY FS_EmptySet
      <3>2. ASSUME NEW s \in mine PROVE Cardinality(mine) = 1
        <4>1. mine = {s}
          BY <2>1 DEF RecordInOrder
        <4> QED BY <4>1, FS_Singleton
      <3>3. Cardinality(mine) \in {0, 1}
        BY <3>1, <3>2
      <3> HIDE DEF mine
      <3> QED BY <3>3
    <2> QED BY <2>2, <2>3, <2>4 DEF IsShift
  <1> QED BY <1>1, Inductive, PTL

\* A shift moves the money it records and nothing else (ShiftFundsAtomic).
THEOREM ShiftMovesMoneyCorrect ==
  ASSUME Assumptions PROVE Spec => ShiftMovesMoney
  <1>1. IInv /\ [Next]_vars => [\A s \in shifts' \ shifts : Moves(s)]_vars
    BY ShiftMoves
  <1>2. Spec => [][\A s \in shifts' \ shifts : Moves(s)]_vars
    BY <1>1, Inductive, PTL DEF Spec
  <1> QED BY <1>2 DEF ShiftMovesMoney, Moves

\* Only a call that names an entered amount changes it (on conflict do nothing
\* in CopyPreviousMonthAllocations, and the lock on the month).
THEOREM EnteredIsKeptCorrect ==
  ASSUME Assumptions PROVE Spec => EnteredIsKept
  <1>1. IInv /\ [Next]_vars =>
          [\A m \in Months, c \in Categories :
             alloc[m][c] # None /\ alloc'[m][c] # alloc[m][c] =>
               \E r \in Requests : pc[r] = "commit" /\ Names(r, m, c)]_vars
    BY EnteredKept
  <1> QED BY <1>1, Inductive, PTL DEF Spec, EnteredIsKept
=============================================================================
