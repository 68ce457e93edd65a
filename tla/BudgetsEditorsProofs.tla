------------------------- MODULE BudgetsEditorsProofs -------------------------
(***************************************************************************)
(* Theorems about BudgetsPage, for any months, categories, amounts, faults  *)
(* and number of inputs: what the page shows is current or known to be      *)
(* behind, a shift leaves its donor a rest by the count of the page, and    *)
(* what was typed is kept.  And about EditorPages, for any rows and         *)
(* entries, all nine pages, and any faults: a refused entry is kept, an     *)
(* entry is saved once, and the list is current.                            *)
(***************************************************************************)
EXTENDS BudgetsPage, EditorPages, FiniteSetTheorems, TLAPS

-----------------------------------------------------------------------------
(* The inductive invariant.                                                *)

ServerOK ==
  /\ plans \in [Months -> Plan]
  /\ seen \in [Months -> [Categories -> Nat]]
  /\ charged \in [Months -> [Categories -> Nat]]

SwrOK ==
  /\ cache \in [Months -> Readings \cup {None}]
  /\ laggy \in Readings \cup {None}
  /\ fetch \in [Months -> Fetches \cup {None}]
  /\ failures \in [Months -> Nat]

SetOK ==
  set = None \/ set \in [cat : Categories \cup {None}, amount : Nat \cup {None},
                         typed : BOOLEAN]

\* The donor is another category than the target.
ShiftOK ==
  shift = None \/
    /\ shift \in [stage : {"form", "review"}, target : Categories,
                  amount : Nat \cup {None}, donor : Categories \cup {None}]
    /\ shift.donor # shift.target

\* What a call asks for; a shift fits the figures it was confirmed on.
OpOK(o) ==
  /\ DOMAIN o = {"kind", "month", "call", "on", "stage", "waits", "n"}
  /\ o.kind \in {"set", "shift", "copy"} /\ o.month \in Months /\ o.n \in Nat
  /\ o.kind = "set" => \E c \in Categories : o.call.amounts \in [{c} -> Nat]
  /\ o.kind = "shift" =>
       /\ o.call \in [source : Categories, target : Categories, amount : Nat]
       /\ o.call.source # o.call.target
       /\ o.on \in Readings
       /\ o.on.plan[o.call.source] \in Nat
       /\ o.on.plan[o.call.source] - o.on.spent[o.call.source] - 1 >= o.call.amount

TypeOK ==
  /\ ServerOK /\ SwrOK /\ SetOK /\ ShiftOK
  /\ period \in Months /\ events \in Nat
  /\ \A o \in ops : OpOK(o)

\* A save that has been done, and after which nothing has been read yet.
Dirty(m) == \E o \in ops : o.month = m /\ o.stage = "ok"

\* The figures in the cache, or those on their way, are the server's.
FreshAt(m) ==
  IF fetch[m] = None THEN cache[m] = Reading(m)
  ELSE fetch[m].answer \in {Asked, Reading(m)}

Current == \A m \in Months : m \in behind \/ Dirty(m) \/ FreshAt(m)

IInv == TypeOK /\ Current

-----------------------------------------------------------------------------
(* Lemmas.                                                                 *)

LEMMA ReadingTyped ==
  ASSUME ServerOK, NEW m \in Months
  PROVE  Reading(m) \in Readings
  BY DEF ServerOK, Reading, Readings

LEMMA ShownTyped ==
  ASSUME TypeOK
  PROVE  Shown \in Readings \cup {None}
  BY DEF TypeOK, SwrOK, Shown

\* The numbers the page counts with.
LEMMA RemainingTyped ==
  ASSUME TypeOK, NEW c \in Categories
  PROVE  /\ Allocated(c) \in Nat \cup {None}
         /\ OrZero(Allocated(c)) \in Nat
         /\ Spent(c) \in Nat
         /\ Remaining(c) \in Int
  <1>1. Shown \in Readings \cup {None}
    BY ShownTyped
  <1> HIDE DEF Shown
  <1>2. Shown # None => Shown.plan[c] \in Nat \cup {None} /\ Shown.spent[c] \in Nat
    BY <1>1 DEF Readings, Plan
  <1>3. Allocated(c) \in Nat \cup {None}
    BY <1>2 DEF Allocated
  <1>4. Spent(c) \in Nat
    BY <1>2 DEF Spent, Allocated
  <1>5. OrZero(Allocated(c)) \in Nat
    BY <1>3 DEF OrZero
  <1> HIDE DEF Allocated
  <1> QED BY <1>3, <1>4, <1>5 DEF Remaining

\* A shift that the page takes as valid fits the figures that are shown.
LEMMA ValidShift ==
  ASSUME TypeOK, shift # None, ShiftIsValid(shift)
  PROVE  /\ shift.donor \in Categories /\ shift.amount \in Nat
         /\ Shown \in Readings /\ Shown.plan[shift.donor] \in Nat
         /\ Shown.plan[shift.donor] - Shown.spent[shift.donor] - 1 >= shift.amount
  <1>1. shift.donor \in Categories /\ shift.amount \in Nat
    BY DEF TypeOK, ShiftOK, ShiftIsValid
  <1> DEFINE d == shift.donor
  <1>2. /\ Allocated(d) \in Nat \cup {None} /\ Spent(d) \in Nat
        /\ OrZero(Allocated(d)) \in Nat
    BY <1>1, RemainingTyped
  <1>3. OrZero(Allocated(d)) - Spent(d) - 1 >= 1 /\ shift.amount <= OrZero(Allocated(d)) - Spent(d) - 1
    BY DEF ShiftIsValid, MaximumShift, Remaining
  <1>4. Allocated(d) # None
    <2> SUFFICES ASSUME Allocated(d) = None PROVE FALSE
      OBVIOUS
    <2>1. OrZero(Allocated(d)) = 0 /\ Spent(d) = 0
      BY DEF OrZero, Spent
    <2> HIDE DEF d
    <2> QED BY <1>3, <2>1
  <1>5. Shown # None /\ Allocated(d) = Shown.plan[d] /\ Spent(d) = Shown.spent[d]
    BY <1>4 DEF Allocated, Spent
  <1>6. OrZero(Allocated(d)) = Allocated(d)
    BY <1>4 DEF OrZero
  <1>7. Shown \in Readings
    BY <1>5, ShownTyped
  <1> HIDE DEF d, Shown
  <1>8. Shown.plan[d] \in Nat /\ Shown.spent[d] \in Nat
    BY <1>2, <1>4, <1>5
  <1>9. Shown.plan[d] - Shown.spent[d] - 1 >= shift.amount
    BY <1>1, <1>3, <1>5, <1>6, <1>8
  <1> QED BY <1>1, <1>7, <1>8, <1>9 DEF d

\* What the server may still change, what was read, and what is behind.
LEMMA CurrentKept ==
  ASSUME IInv, UNCHANGED <<plans, seen, cache>>,
         \A m \in Months :
           \/ m \in behind'
           \/ fetch'[m] # None /\ fetch'[m].answer = Asked
           \/ /\ fetch'[m] = fetch[m]
              /\ m \in behind => m \in behind'
              /\ Dirty(m) => Dirty(m)'
  PROVE  Current'
  BY DEF IInv, Current, FreshAt, Reading

\* Types, when only the fetches and what is shown change.
LEMMA FetchTypes ==
  ASSUME TypeOK, UNCHANGED <<plans, seen, charged, cache, set, shift, ops>>,
         period' \in Months, events' \in Nat, laggy' \in Readings \cup {None},
         fetch' \in [Months -> Fetches \cup {None}], failures' \in [Months -> Nat]
  PROVE  TypeOK'
  <1>1. ServerOK' /\ SwrOK' /\ SetOK' /\ ShiftOK'
    BY DEF TypeOK, ServerOK, SwrOK, SetOK, ShiftOK
  <1>2. \A o \in ops' : OpOK(o)'
    BY DEF TypeOK, OpOK
  <1> QED BY <1>1, <1>2 DEF TypeOK

\* A fetch begins.
LEMMA BegunTyped ==
  ASSUME SwrOK, NEW m \in Months, NEW by \in Nat
  PROVE  /\ Begun(fetch, m, by) \in [Months -> Fetches \cup {None}]
         /\ Begun(fetch, m, by)[m] # None
         /\ Begun(fetch, m, by)[m].answer = Asked
         /\ \A n \in Months \ {m} : Begun(fetch, m, by)[n] = fetch[n]
  <1>1. [by |-> by, answer |-> Asked] \in Fetches
    BY DEF Fetches
  <1> QED BY <1>1, NoneAssumption DEF SwrOK, Begun

-----------------------------------------------------------------------------
(* SWR's steps.                                                            *)

LEMMA RevalidateTyped ==
  ASSUME IInv, NEW m \in Months, Revalidate(m)
  PROVE  /\ fetch' \in [Months -> Fetches \cup {None}] /\ failures' \in [Months -> Nat]
         /\ \A n \in Months :
              \/ fetch'[n] # None /\ fetch'[n].answer = Asked
              \/ fetch'[n] = fetch[n] /\ (n \in behind => n \in behind')
  <1>1. SwrOK
    BY DEF IInv, TypeOK
  <1>2. CASE /\ fetch' = Begun(fetch, m, 0)
             /\ failures' = [failures EXCEPT ![m] = 0] /\ behind' = behind \ {m}
    <2>1. failures' \in [Months -> Nat]
      BY <1>1, <1>2 DEF SwrOK
    <2> QED BY <1>1, <1>2, <2>1, BegunTyped
  <1>3. CASE UNCHANGED <<fetch, failures, behind>>
    BY <1>1, <1>3 DEF SwrOK
  <1> QED BY <1>2, <1>3 DEF Revalidate

LEMMA GotoKeeps == ASSUME IInv, NEW m, Goto(m) PROVE IInv'
  <1>1. m \in Months /\ Revalidate(m)
    BY DEF Goto
  <1>2. /\ UNCHANGED <<plans, seen, charged, cache, set, shift, ops>>
        /\ period' = m /\ laggy' = Shown /\ events' = events + 1
    BY DEF Goto, Event, server, dialogs
  <1>3. laggy' \in Readings \cup {None}
    BY <1>2, ShownTyped DEF IInv
  <1>4. TypeOK'
    <2>1. events' \in Nat
      BY <1>2 DEF IInv, TypeOK
    <2> QED BY <1>1, <1>2, <1>3, <2>1, RevalidateTyped, FetchTypes DEF IInv
  <1>5. Current'
    BY <1>1, <1>2, RevalidateTyped, CurrentKept DEF Dirty
  <1> QED BY <1>4, <1>5 DEF IInv

LEMMA FocusKeeps == ASSUME IInv, Focus PROVE IInv'
  <1>1. period \in Months /\ Revalidate(period)
    BY DEF Focus, IInv, TypeOK
  <1>2. /\ UNCHANGED <<plans, seen, charged, cache, set, shift, ops, period, laggy>>
        /\ events' = events + 1
    BY DEF Focus, Event, server, dialogs
  <1>3. TypeOK'
    <2>1. events' \in Nat /\ period' \in Months /\ laggy' \in Readings \cup {None}
      BY <1>2 DEF IInv, TypeOK, SwrOK
    <2> QED BY <1>1, <1>2, <2>1, RevalidateTyped, FetchTypes DEF IInv
  <1>4. Current'
    BY <1>1, <1>2, RevalidateTyped, CurrentKept DEF Dirty
  <1> QED BY <1>3, <1>4 DEF IInv

LEMMA ReloadTyped ==
  ASSUME IInv, NEW by \in Nat, Reload(by)
  PROVE  /\ fetch' \in [Months -> Fetches \cup {None}] /\ failures' \in [Months -> Nat]
         /\ fetch'[period] # None /\ fetch'[period].answer = Asked
         /\ \A n \in Months \ {period} : fetch'[n] = fetch[n]
  <1>1. SwrOK /\ period \in Months
    BY DEF IInv, TypeOK
  <1>2. fetch' = Begun(fetch, period, by) /\ failures' = [failures EXCEPT ![period] = 0]
    BY DEF Reload
  <1>3. failures' \in [Months -> Nat]
    BY <1>1, <1>2 DEF SwrOK
  <1> QED BY <1>1, <1>2, <1>3, BegunTyped

LEMMA CapturedKeeps == ASSUME IInv, Captured PROVE IInv'
  <1>1. Reload(0) /\ behind' = behind \ {period}
    BY DEF Captured
  <1>2. /\ UNCHANGED <<plans, seen, charged, cache, set, shift, ops, period, laggy>>
        /\ events' = events + 1
    BY DEF Captured, Event, server, dialogs
  <1>3. TypeOK'
    <2>1. events' \in Nat /\ period' \in Months /\ laggy' \in Readings \cup {None}
      BY <1>2 DEF IInv, TypeOK, SwrOK
    <2> QED BY <1>1, <1>2, <2>1, ReloadTyped, FetchTypes DEF IInv
  <1>4. Current'
    BY <1>1, <1>2, ReloadTyped, CurrentKept DEF Dirty
  <1> QED BY <1>3, <1>4 DEF IInv

LEMMA RetryKeeps == ASSUME IInv, Retry PROVE IInv'
  <1>1. /\ fetch' = Begun(fetch, period, 0) /\ behind' = behind \ {period}
        /\ UNCHANGED <<plans, seen, charged, cache, set, shift, ops, period, laggy,
                       failures, events>>
    BY DEF Retry, server, dialogs
  <1>2. SwrOK /\ period \in Months
    BY DEF IInv, TypeOK
  <1>3. TypeOK'
    <2>1. /\ events' \in Nat /\ period' \in Months /\ laggy' \in Readings \cup {None}
          /\ failures' \in [Months -> Nat]
      BY <1>1 DEF IInv, TypeOK, SwrOK
    <2> QED BY <1>1, <1>2, <2>1, BegunTyped, FetchTypes DEF IInv
  <1>4. Current'
    BY <1>1, <1>2, BegunTyped, CurrentKept DEF Dirty
  <1> QED BY <1>3, <1>4 DEF IInv

\* An answer is what the server has; a read that fails leaves the month behind.
LEMMA AnswerKeeps == ASSUME IInv, NEW m \in Months, Answer(m) PROVE IInv'
  <1>1. UNCHANGED <<plans, seen, charged, period, cache, laggy, set, shift, ops>>
    BY DEF Answer, server, dialogs
  <1>2. fetch[m] \in Fetches /\ SwrOK /\ ServerOK
    BY DEF Answer, Idle, IInv, TypeOK, SwrOK
  <1>3. CASE /\ fetch' = [fetch EXCEPT ![m].answer = Reading(m)]
             /\ UNCHANGED <<failures, behind, events>>
    <2> DEFINE f == [fetch[m] EXCEPT !.answer = Reading(m)]
    <2>1. f \in Fetches /\ f.answer = Reading(m)
      BY <1>2, ReadingTyped DEF Fetches
    <2> HIDE DEF f
    <2>2. f # None
      BY <2>1, NoneAssumption
    <2>3. fetch' = [fetch EXCEPT ![m] = f]
      BY <1>2, <1>3 DEF f, SwrOK
    <2>4. TypeOK'
      <3>1. /\ events' \in Nat /\ period' \in Months /\ laggy' \in Readings \cup {None}
            /\ failures' \in [Months -> Nat]
        BY <1>1, <1>3 DEF IInv, TypeOK, SwrOK
      <3>2. fetch' \in [Months -> Fetches \cup {None}]
        BY <1>2, <2>1, <2>3 DEF SwrOK
      <3> QED BY <1>1, <3>1, <3>2, FetchTypes DEF IInv
    <2>5. Current'
      <3> SUFFICES ASSUME NEW n \in Months
                   PROVE  (n \in behind \/ Dirty(n) \/ FreshAt(n))'
        BY DEF Current
      <3>1. n \in behind \/ Dirty(n) \/ FreshAt(n)
        BY DEF IInv, Current
      <3>2. CASE n = m
        BY <1>1, <1>2, <2>1, <2>2, <2>3, <3>2 DEF FreshAt, Reading, SwrOK
      <3>3. CASE n # m
        BY <1>1, <1>2, <1>3, <2>3, <3>1, <3>3 DEF FreshAt, Reading, Dirty, SwrOK
      <3> QED BY <3>2, <3>3
    <2> QED BY <2>4, <2>5 DEF IInv
  <1>4. CASE /\ fetch' = [fetch EXCEPT ![m] = None]
             /\ failures' = [failures EXCEPT ![m] = @ + 1]
             /\ behind' = behind \cup {m} /\ Event
    <2>1. /\ fetch' \in [Months -> Fetches \cup {None}] /\ failures' \in [Months -> Nat]
          /\ \A n \in Months \ {m} : fetch'[n] = fetch[n]
      BY <1>2, <1>4 DEF SwrOK
    <2>2. TypeOK'
      <3>1. events' \in Nat /\ period' \in Months /\ laggy' \in Readings \cup {None}
        BY <1>1, <1>4 DEF IInv, TypeOK, SwrOK, Event
      <3> QED BY <1>1, <2>1, <3>1, FetchTypes DEF IInv
    <2>3. Current'
      BY <1>1, <1>4, <2>1, CurrentKept DEF Dirty
    <2> QED BY <2>2, <2>3 DEF IInv
  <1> QED BY <1>3, <1>4 DEF Answer

LEMMA TakeKeeps == ASSUME IInv, NEW m \in Months, Take(m) PROVE IInv'
  <1>1. /\ fetch[m] # None /\ fetch[m].answer # Asked
        /\ cache' = [cache EXCEPT ![m] = fetch[m].answer]
        /\ fetch' = [fetch EXCEPT ![m] = None]
        /\ failures' = [failures EXCEPT ![m] = 0]
        /\ UNCHANGED <<plans, seen, charged, period, laggy, set, shift, ops, behind,
                       events>>
    BY DEF Take, Idle, server, dialogs
  <1>2. SwrOK /\ fetch[m] \in Fetches
    BY <1>1 DEF IInv, TypeOK, SwrOK
  <1>3. fetch[m].answer \in Readings
    BY <1>1, <1>2 DEF Fetches
  <1>4. TypeOK'
    <2>1. SwrOK'
      BY <1>1, <1>2, <1>3 DEF SwrOK
    <2> QED BY <1>1, <2>1 DEF IInv, TypeOK, ServerOK, SetOK, ShiftOK, OpOK
  <1>5. Current'
    <2> SUFFICES ASSUME NEW n \in Months
                 PROVE  (n \in behind \/ Dirty(n) \/ FreshAt(n))'
      BY DEF Current
    <2>1. n \in behind \/ Dirty(n) \/ FreshAt(n)
      BY DEF IInv, Current
    <2> QED BY <1>1, <1>2, <2>1 DEF FreshAt, Reading, Dirty, SwrOK
  <1> QED BY <1>4, <1>5 DEF IInv

-----------------------------------------------------------------------------
(* The dialogs.                                                            *)

\* A step of the owner's that changes nothing but a dialog.
LEMMA DialogKeeps ==
  ASSUME IInv, Local, SetOK', ShiftOK', events' \in Nat
  PROVE  IInv'
  <1>1. UNCHANGED <<plans, seen, charged, period, cache, laggy, fetch, failures, ops,
                    behind>>
    BY DEF Local, server, swr
  <1>2. TypeOK'
    BY <1>1 DEF IInv, TypeOK, ServerOK, SwrOK, OpOK
  <1>3. Current'
    BY <1>1, CurrentKept DEF Dirty
  <1> QED BY <1>2, <1>3 DEF IInv

LEMMA OpenSetKeeps == ASSUME IInv, OpenSet \/ OpenManual PROVE IInv'
  <1>1. events' \in Nat /\ Local /\ shift' = shift
    BY DEF OpenSet, OpenManual, Opening, Event, IInv, TypeOK
  <1>2. SetOK'
    <2>1. CASE OpenSet
      <3> PICK c \in Categories :
            set' = [cat |-> c, amount |-> OrZero(Allocated(c)), typed |-> FALSE]
        BY <2>1 DEF OpenSet, Cards
      <3>1. OrZero(Allocated(c)) \in Nat
        BY RemainingTyped DEF IInv
      <3> HIDE DEF Allocated, OrZero
      <3> QED BY <3>1 DEF SetOK
    <2>2. CASE OpenManual
      BY <2>2 DEF OpenManual, SetOK
    <2> QED BY <2>1, <2>2
  <1>3. ShiftOK'
    BY <1>1 DEF IInv, TypeOK, ShiftOK
  <1> QED BY <1>1, <1>2, <1>3, DialogKeeps

LEMMA SetDialogKeeps ==
  ASSUME IInv, ChooseCategory \/ TypeAmount \/ CloseSet PROVE IInv'
  <1>1. events' \in Nat /\ Local /\ shift' = shift
    BY DEF ChooseCategory, TypeAmount, CloseSet, Typing, IInv, TypeOK
  <1>2. SetOK'
    BY PageAssumption DEF ChooseCategory, TypeAmount, CloseSet, IInv, TypeOK, SetOK
  <1>3. ShiftOK'
    BY <1>1 DEF IInv, TypeOK, ShiftOK
  <1> QED BY <1>1, <1>2, <1>3, DialogKeeps

LEMMA OpenShiftKeeps == ASSUME IInv, OpenShift PROVE IInv'
  <1>1. events' \in Nat /\ Local /\ set' = set
    BY DEF OpenShift, Opening, Event, IInv, TypeOK
  <1>2. SetOK'
    BY <1>1 DEF IInv, TypeOK, SetOK
  <1>3. ShiftOK'
    <2>0. PICK c \in Categories :
          shift' = [stage |-> "form", target |-> c,
                    amount |-> IF Remaining(c) < 0 THEN 0 - Remaining(c) ELSE None,
                    donor |-> IF Donors(c) = {} THEN None
                              ELSE CHOOSE d \in Donors(c) : TRUE]
      BY DEF OpenShift, Cards
    <2> DEFINE amount == IF Remaining(c) < 0 THEN 0 - Remaining(c) ELSE None
               donor == IF Donors(c) = {} THEN None ELSE CHOOSE d \in Donors(c) : TRUE
    <2>1. amount \in Nat \cup {None}
      <3>1. Remaining(c) \in Int
        BY RemainingTyped DEF IInv
      <3> HIDE DEF Remaining
      <3> QED BY <3>1
    <2>2. donor \in Categories \cup {None} /\ donor # c
      BY PageAssumption DEF Donors
    <2> HIDE DEF amount, donor
    <2>3. shift' = [stage |-> "form", target |-> c, amount |-> amount, donor |-> donor]
      BY <2>0 DEF amount, donor
    <2> QED BY <2>1, <2>2, <2>3 DEF ShiftOK
  <1> QED BY <1>1, <1>2, <1>3, DialogKeeps

LEMMA ShiftDialogKeeps ==
  ASSUME IInv, ChooseDonor \/ TypeShift \/ ReviewShift \/ CloseShift PROVE IInv'
  <1>1. events' \in Nat /\ Local /\ set' = set
    BY DEF ChooseDonor, TypeShift, ReviewShift, CloseShift, Typing, IInv, TypeOK
  <1>2. SetOK'
    BY <1>1 DEF IInv, TypeOK, SetOK
  <1>3. ShiftOK'
    <2>1. CASE ChooseDonor
      <3> PICK d \in Categories :
            d # shift.target /\ shift # None /\ shift' = [shift EXCEPT !.donor = d]
        BY <2>1 DEF ChooseDonor, Donors
      <3> QED BY DEF IInv, TypeOK, ShiftOK
    <2>2. CASE TypeShift
      BY <2>2, PageAssumption DEF TypeShift, IInv, TypeOK, ShiftOK
    <2>3. CASE ReviewShift
      BY <2>3 DEF ReviewShift, IInv, TypeOK, ShiftOK
    <2>4. CASE CloseShift
      BY <2>4 DEF CloseShift, ShiftOK
    <2> QED BY <2>1, <2>2, <2>3, <2>4
  <1> QED BY <1>1, <1>2, <1>3, DialogKeeps

-----------------------------------------------------------------------------
(* The calls.                                                              *)

LEMMA SentKeeps ==
  ASSUME IInv, NEW kind \in {"set", "shift", "copy"}, NEW call, NEW on,
         Sent(kind, call, on),
         kind = "set" => \E c \in Categories : call.amounts \in [{c} -> Nat],
         kind = "shift" =>
           /\ call \in [source : Categories, target : Categories, amount : Nat]
           /\ call.source # call.target
           /\ on \in Readings /\ on.plan[call.source] \in Nat
           /\ on.plan[call.source] - on.spent[call.source] - 1 >= call.amount
  PROVE  IInv'
  <1> DEFINE o == [kind |-> kind, month |-> period, call |-> call, on |-> on,
                   stage |-> "sent", waits |-> period, n |-> events + 1]
  <1>1. OpOK(o)
    <2>1. /\ DOMAIN o = {"kind", "month", "call", "on", "stage", "waits", "n"}
          /\ o.kind = kind /\ o.month = period /\ o.call = call /\ o.on = on
          /\ o.n = events + 1
      OBVIOUS
    <2>2. period \in Months /\ events + 1 \in Nat
      BY DEF IInv, TypeOK
    <2> HIDE DEF o
    <2> QED BY <2>1, <2>2 DEF OpOK
  <1>2. /\ ops' = ops \cup {o} /\ events' \in Nat
        /\ UNCHANGED <<plans, seen, charged, period, cache, laggy, fetch, failures,
                       set, shift, behind>>
    BY DEF Sent, Event, server, swr, dialogs, IInv, TypeOK
  <1> HIDE DEF o
  <1>3. ServerOK' /\ SwrOK' /\ SetOK' /\ ShiftOK'
    BY <1>2 DEF IInv, TypeOK, ServerOK, SwrOK, SetOK, ShiftOK
  <1>4. \A p \in ops' : OpOK(p)'
    BY <1>1, <1>2 DEF IInv, TypeOK, OpOK
  <1>5. TypeOK'
    BY <1>2, <1>3, <1>4 DEF IInv, TypeOK
  <1>6. Current'
    BY <1>2, CurrentKept DEF Dirty
  <1> QED BY <1>5, <1>6 DEF IInv

LEMMA SubmitSetKeeps == ASSUME IInv, SubmitSet PROVE IInv'
  <1>1. set.cat \in Categories /\ set.amount \in Nat
    BY DEF SubmitSet, IInv, TypeOK, SetOK
  <1> DEFINE call == [amounts |-> [c \in {set.cat} |-> set.amount]]
  <1>2. call.amounts \in [{set.cat} -> Nat] /\ Sent("set", call, None)
    BY <1>1 DEF SubmitSet
  <1> HIDE DEF call
  <1> QED BY <1>1, <1>2, SentKeeps

LEMMA ConfirmShiftKeeps == ASSUME IInv, ConfirmShift PROVE IInv'
  <1>1. /\ shift.donor \in Categories /\ shift.amount \in Nat
        /\ Shown \in Readings /\ Shown.plan[shift.donor] \in Nat
        /\ Shown.plan[shift.donor] - Shown.spent[shift.donor] - 1 >= shift.amount
    BY ValidShift DEF ConfirmShift, IInv
  <1>2. shift.target \in Categories /\ shift.donor # shift.target
    BY DEF ConfirmShift, IInv, TypeOK, ShiftOK
  <1> DEFINE call == [source |-> shift.donor, target |-> shift.target,
                      amount |-> shift.amount]
  <1>3. /\ call \in [source : Categories, target : Categories, amount : Nat]
        /\ call.source = shift.donor /\ call.target = shift.target
        /\ call.amount = shift.amount /\ Sent("shift", call, Shown)
    BY <1>1, <1>2 DEF ConfirmShift
  <1> HIDE DEF call, Shown
  <1> QED BY <1>1, <1>2, <1>3, SentKeeps

LEMMA CopyPreviousKeeps == ASSUME IInv, CopyPrevious PROVE IInv'
  BY SentKeeps DEF CopyPrevious

\* What a call that is accepted leaves.
LEMMA EffectTyped ==
  ASSUME ServerOK, NEW o, OpOK(o), Accepts(o)
  PROVE  /\ Effect(o) \in Plan
         /\ o.kind = "shift" =>
              Effect(o)[o.call.source] = plans[o.month][o.call.source] - o.call.amount
  <1> DEFINE plan == plans[o.month]
  <1>1. plan \in Plan /\ o.month \in Months
    BY DEF ServerOK, OpOK
  <1>2. CASE o.kind = "shift"
    <2> DEFINE s == o.call.source
               t == o.call.target
               a == o.call.amount
    <2>1. s \in Categories /\ t \in Categories /\ a \in Nat /\ s # t
      BY <1>2 DEF OpOK
    <2>2. plan[s] \in Nat \cup {None} /\ plan[t] \in Nat \cup {None}
          /\ charged[o.month][s] \in Nat
      BY <1>1, <2>1 DEF Plan, ServerOK
    <2>3. plan[s] # None /\ plan[s] - charged[o.month][s] - a >= 1
      BY <1>2 DEF Accepts
    <2>4. Effect(o) = [plan EXCEPT ![s] = @ - a, ![t] = OrZero(@) + a]
      BY <1>2 DEF Effect, Shifted
    <2> HIDE DEF plan, s, t, a
    <2>5. plan[s] - a \in Nat
      BY <2>1, <2>2, <2>3
    <2>6. OrZero(plan[t]) + a \in Nat
      BY <2>1, <2>2 DEF OrZero
    <2>7. Effect(o) \in Plan /\ Effect(o)[s] = plan[s] - a
      BY <1>1, <2>1, <2>4, <2>5, <2>6 DEF Plan
    <2> QED BY <2>7 DEF plan, s, a
  <1>3. CASE o.kind = "copy"
    <2>1. o.month - 1 \in Months /\ Effect(o) = Copied(plan, plans[o.month - 1])
      BY <1>3 DEF Accepts, Effect
    <2>2. plans[o.month - 1] \in Plan
      BY <2>1 DEF ServerOK
    <2> HIDE DEF plan
    <2> QED BY <1>1, <1>3, <2>1, <2>2 DEF Copied, Plan
  <1>4. CASE o.kind = "set"
    <2>1. PICK c \in Categories : o.call.amounts \in [{c} -> Nat]
      BY <1>4 DEF OpOK
    <2>2. Effect(o) = Upserted(plan, o.call)
      BY <1>4 DEF Effect
    <2> HIDE DEF plan
    <2> QED BY <1>1, <1>4, <2>1, <2>2 DEF Upserted, Plan
  <1> QED BY <1>2, <1>3, <1>4 DEF OpOK

\* Until the page is loaded again the month is dirty; when the answer is lost,
\* or the page shows another month by now, it is behind.
LEMMA ServeKeeps == ASSUME IInv, NEW o \in ops, Serve(o) PROVE IInv'
  <1>1. /\ o.stage = "sent"
        /\ UNCHANGED <<seen, charged, period, cache, laggy, fetch, failures, set,
                       shift, events>>
    BY DEF Serve, swr, dialogs
  <1>2. OpOK(o) /\ ServerOK /\ o.month \in Months
    BY DEF IInv, TypeOK, OpOK
  <1> DEFINE with(stage) == [o EXCEPT !.stage = stage]
  <1>3. ASSUME NEW stage \in {"ok", "failed"}, Staged(o, stage), ServerOK'
        PROVE  TypeOK' /\ (\A m \in Months : Dirty(m) => Dirty(m)')
    <2>1. \A p \in ops' : p \in ops \/ p = with(stage)
      BY <1>3 DEF Staged
    <2>2. OpOK(with(stage))'
      BY <1>2 DEF OpOK
    <2>3. \A p \in ops' : OpOK(p)'
      BY <2>1, <2>2 DEF IInv, TypeOK, OpOK
    <2>4. SwrOK' /\ SetOK' /\ ShiftOK'
      BY <1>1 DEF IInv, TypeOK, SwrOK, SetOK, ShiftOK
    <2>5. TypeOK'
      BY <1>1, <1>3, <2>3, <2>4 DEF IInv, TypeOK
    <2>6. \A m \in Months : Dirty(m) => Dirty(m)'
      BY <1>1, <1>3 DEF Dirty, Staged
    <2> QED BY <2>5, <2>6
  <1>4. CASE /\ Accepts(o) /\ plans' = [plans EXCEPT ![o.month] = Effect(o)]
             /\ \/ Staged(o, "ok") /\ UNCHANGED behind
                \/ Staged(o, "failed") /\ behind' = behind \cup {o.month}
    <2>1. ServerOK'
      BY <1>1, <1>2, <1>4, EffectTyped DEF ServerOK
    <2>2. \A m \in Months \ {o.month} : FreshAt(m) => FreshAt(m)'
      BY <1>1, <1>4 DEF FreshAt, Reading
    <2>3. CASE Staged(o, "ok") /\ UNCHANGED behind
      <3>1. with("ok") \in ops' /\ with("ok").month = o.month /\ with("ok").stage = "ok"
        BY <1>1, <2>3 DEF Staged, IInv, TypeOK, OpOK, Serve
      <3>2. Dirty(o.month)'
        BY <3>1 DEF Dirty
      <3>3. Current'
        BY <1>3, <2>1, <2>2, <2>3, <3>2 DEF IInv, Current
      <3> QED BY <1>3, <2>1, <2>3, <3>3 DEF IInv
    <2>4. CASE Staged(o, "failed") /\ behind' = behind \cup {o.month}
      <3>1. Current'
        BY <1>3, <2>1, <2>2, <2>4 DEF IInv, Current
      <3> QED BY <1>3, <2>1, <2>4, <3>1 DEF IInv
    <2> QED BY <1>4, <2>3, <2>4
  <1>5. CASE Staged(o, "failed") /\ UNCHANGED <<plans, behind>>
    <2>1. ServerOK'
      BY <1>1, <1>2, <1>5 DEF ServerOK
    <2>2. Current'
      BY <1>1, <1>3, <1>5, <2>1, CurrentKept
    <2> QED BY <1>3, <1>5, <2>1, <2>2 DEF IInv
  <1> QED BY <1>4, <1>5 DEF Serve

\* What is in the address is read again, the month of the save is behind when
\* it is another one.
LEMMA LoadsKeeps == ASSUME IInv, NEW o \in ops, Loads(o) PROVE IInv'
  <1>1. /\ UNCHANGED <<plans, seen, charged, period, cache, laggy, set, shift, events>>
        /\ Reload(o.n) /\ o.n \in Nat
        /\ behind' = (behind \ {period}) \cup ({o.month} \ {period})
    BY DEF Loads, ReloadAfter, server, dialogs, IInv, TypeOK, OpOK
  <1> DEFINE p == [o EXCEPT !.stage = "loading", !.waits = period]
  <1>2. ops' = (ops \ {o}) \cup {p}
    BY DEF Loads
  <1>3. OpOK(p)
    BY DEF IInv, TypeOK, OpOK
  <1> HIDE DEF p
  <1>4. TypeOK'
    <2>1. \A q \in ops' : OpOK(q)'
      <3>1. \A q \in ops' : OpOK(q)
        BY <1>2, <1>3 DEF IInv, TypeOK
      <3> QED BY <3>1 DEF OpOK
    <2>2. ServerOK' /\ SetOK' /\ ShiftOK'
      BY <1>1 DEF IInv, TypeOK, ServerOK, SetOK, ShiftOK
    <2>3. SwrOK'
      BY <1>1, ReloadTyped DEF IInv, TypeOK, SwrOK
    <2> QED BY <1>1, <2>1, <2>2, <2>3 DEF IInv, TypeOK
  <1>5. \A m \in Months : Dirty(m) => Dirty(m)' \/ m = o.month
    BY <1>2 DEF Dirty
  <1>6. Current'
    BY <1>1, <1>5, ReloadTyped, CurrentKept
  <1> QED BY <1>4, <1>6 DEF IInv

LEMMA EndKeeps == ASSUME IInv, NEW o \in ops, End(o) PROVE IInv'
  <1>1. /\ ops' = ops \ {o} /\ o.stage # "ok"
        /\ UNCHANGED <<plans, seen, charged, period, cache, laggy, fetch, failures,
                       behind, events>>
        /\ set' = set \/ set' = None
        /\ shift' = shift \/ shift' = None
    BY DEF End, Loaded, server, swr
  <1>2. SetOK' /\ ShiftOK' /\ ServerOK' /\ SwrOK'
    BY <1>1 DEF IInv, TypeOK, SetOK, ShiftOK, ServerOK, SwrOK
  <1>3. TypeOK'
    BY <1>1, <1>2 DEF IInv, TypeOK, OpOK
  <1>4. \A m \in Months : Dirty(m) => Dirty(m)'
    BY <1>1 DEF Dirty
  <1>5. Current'
    BY <1>1, <1>4, CurrentKept
  <1> QED BY <1>3, <1>5 DEF IInv

LEMMA ElsewhereKeeps ==
  ASSUME IInv, NEW m \in Months, NEW c \in Categories, Elsewhere(m, c) PROVE IInv'
  <1>1. /\ UNCHANGED <<period, cache, laggy, fetch, failures, set, shift, ops>>
        /\ behind' = behind \cup {m} /\ events' \in Nat
    BY DEF Elsewhere, Event, swr, dialogs, IInv, TypeOK
  <1>2. ServerOK /\ Amounts \subseteq Nat
    BY PageAssumption DEF IInv, TypeOK
  <1>3. ServerOK' /\ \A n \in Months \ {m} : plans'[n] = plans[n] /\ seen'[n] = seen[n]
    <2>1. CASE /\ \E a \in Amounts : plans' = [plans EXCEPT ![m][c] = a]
               /\ UNCHANGED <<seen, charged>>
      BY <1>2, <2>1 DEF ServerOK, Plan
    <2>2. CASE seen' = Add(seen, m, c) /\ UNCHANGED <<plans, charged>>
      BY <1>2, <2>2 DEF ServerOK, Add
    <2>3. CASE charged' = Add(charged, m, c) /\ UNCHANGED <<plans, seen>>
      BY <1>2, <2>3 DEF ServerOK, Add
    <2> QED BY <2>1, <2>2, <2>3 DEF Elsewhere
  <1>4. TypeOK'
    <2>1. SwrOK' /\ SetOK' /\ ShiftOK'
      BY <1>1 DEF IInv, TypeOK, SwrOK, SetOK, ShiftOK
    <2> QED BY <1>1, <1>3, <2>1 DEF IInv, TypeOK, OpOK
  <1>5. Current'
    BY <1>1, <1>3 DEF IInv, Current, FreshAt, Reading, Dirty
  <1> QED BY <1>4, <1>5 DEF IInv

-----------------------------------------------------------------------------
(* Every step.                                                             *)

LEMMA InitHolds == ASSUME Init PROVE IInv
  <1>1. ServerOK
    BY PageAssumption DEF Init, ServerOK
  <1>2. [by |-> 0, answer |-> Asked] \in Fetches
    BY DEF Fetches
  <1>3. /\ fetch \in [Months -> Fetches \cup {None}] /\ period \in Months
        /\ fetch[period] # None /\ fetch[period].answer = Asked
    BY <1>2, NoneAssumption DEF Init
  <1>4. SwrOK
    BY <1>3 DEF Init, SwrOK
  <1>5. TypeOK
    BY <1>1, <1>3, <1>4 DEF Init, TypeOK, SetOK, ShiftOK
  <1>6. Current
    BY <1>3 DEF Init, Current, FreshAt
  <1> QED BY <1>5, <1>6 DEF IInv

LEMMA StutterKeeps == ASSUME IInv, UNCHANGED vars PROVE IInv'
  <1>1. UNCHANGED <<set, shift, events>> /\ Local
    BY DEF vars, server, swr, dialogs, Local
  <1>2. SetOK' /\ ShiftOK' /\ events' \in Nat
    BY <1>1 DEF IInv, TypeOK, SetOK, ShiftOK
  <1> QED BY <1>1, <1>2, DialogKeeps

LEMMA NextKeeps == ASSUME IInv, [Next]_vars PROVE IInv'
  <1>1. CASE Fetching
    BY <1>1, RetryKeeps, AnswerKeeps, TakeKeeps DEF Fetching
  <1>2. CASE Requests
    BY <1>2, ServeKeeps, LoadsKeeps, EndKeeps DEF Requests
  <1>3. CASE Moving
    BY <1>3, GotoKeeps, FocusKeeps, CapturedKeeps DEF Moving, Turn, Pick, Today, Back
  <1>4. CASE Setting
    BY <1>4, OpenSetKeeps, SetDialogKeeps, SubmitSetKeeps DEF Setting
  <1>5. CASE Shifting
    BY <1>5, OpenShiftKeeps, ShiftDialogKeeps, ConfirmShiftKeeps DEF Shifting
  <1>6. CASE CopyPrevious
    BY <1>6, CopyPreviousKeeps
  <1>7. CASE \E mc \in Places : Elsewhere(mc[1], mc[2])
    BY <1>7, ElsewhereKeeps, PageAssumption
  <1>8. CASE UNCHANGED vars
    BY <1>8, StutterKeeps
  <1> QED BY <1>1, <1>2, <1>3, <1>4, <1>5, <1>6, <1>7, <1>8 DEF Next

\* The inductive invariant: types, a confirmed shift fits the figures it was
\* confirmed on, and each month is fresh, being loaded, about to be, or behind.
THEOREM Inductive == Spec => []IInv
  <1>1. Init => IInv
    BY InitHolds
  <1>2. IInv /\ [Next]_vars => IInv'
    BY NextKeeps
  <1> QED BY <1>1, <1>2, PTL DEF Spec

-----------------------------------------------------------------------------
(* The properties.                                                         *)

\* What the page shows for the month in the address is what the server has, or
\* the month is one that may have changed since it was read.
THEOREM MonthIsCurrentCorrect == Spec => []MonthIsCurrent
  <1>1. IInv => MonthIsCurrent
    <2> SUFFICES ASSUME IInv, Quiet, period \notin behind PROVE Shown = Reading(period)
      BY DEF MonthIsCurrent
    <2>1. period \in Months /\ ServerOK
      BY DEF IInv, TypeOK
    <2>2. ~Dirty(period) /\ fetch[period] = None
      BY DEF Quiet, Dirty, Idle
    <2>3. cache[period] = Reading(period)
      BY <2>1, <2>2 DEF IInv, Current, FreshAt
    <2>4. cache[period] # None
      BY <2>1, <2>3, ReadingTyped, NoneAssumption
    <2> QED BY <2>3, <2>4 DEF Shown
  <1> QED BY <1>1, Inductive, PTL

\* Only the step that serves a call takes its stage away from "sent".
LEMMA OnlyServe ==
  ASSUME [Next]_vars, NEW o \in ops, o \notin ops', o.stage = "sent", plans' # plans
  PROVE  Serve(o)
  <1>1. CASE Fetching
    BY <1>1 DEF Fetching, Retry, Answer, Take, server
  <1>2. CASE Requests
    <2>1. PICK p \in ops : Serve(p) \/ Loads(p) \/ End(p)
      BY <1>2 DEF Requests
    <2>2. ops \ {p} \subseteq ops'
      BY <2>1 DEF Serve, Staged, Loads, End
    <2>3. p = o
      BY <2>2
    <2> QED BY <2>1, <2>3 DEF Loads, End, server
  <1>3. CASE Moving
    BY <1>3 DEF Moving, Turn, Pick, Today, Back, Goto, Focus, Captured, server
  <1>4. CASE Setting
    BY <1>4 DEF Setting, OpenSet, OpenManual, ChooseCategory, TypeAmount, CloseSet,
                SubmitSet, Sent, Opening, Typing, Local, server
  <1>5. CASE Shifting
    BY <1>5 DEF Shifting, OpenShift, ChooseDonor, TypeShift, ReviewShift, CloseShift,
                ConfirmShift, Sent, Opening, Typing, Local, server
  <1>6. CASE CopyPrevious
    BY <1>6 DEF CopyPrevious, Sent, server
  <1>7. CASE \E mc \in Places : Elsewhere(mc[1], mc[2])
    BY <1>7 DEF Elsewhere
  <1>8. CASE UNCHANGED vars
    BY <1>8 DEF vars, server
  <1> QED BY <1>1, <1>2, <1>3, <1>4, <1>5, <1>6, <1>7, <1>8 DEF Next

\* A shift that was confirmed on figures that still hold leaves its donor at
\* least 1 by the count of the page.
THEOREM ShiftLeavesDonorCorrect == Spec => ShiftLeavesDonor
  <1> DEFINE A ==
        \A o \in ops :
          /\ o.kind = "shift" /\ o.stage = "sent" /\ plans' # plans /\ o \notin ops'
          /\ o.on = Reading(o.month)
          => plans'[o.month][o.call.source] - seen[o.month][o.call.source] >= 1
  <1>1. IInv /\ [Next]_vars => A
    <2> SUFFICES ASSUME IInv, [Next]_vars, NEW o \in ops,
                        o.kind = "shift", o.stage = "sent", plans' # plans, o \notin ops',
                        o.on = Reading(o.month)
                 PROVE  plans'[o.month][o.call.source] - seen[o.month][o.call.source] >= 1
      OBVIOUS
    <2> DEFINE s == o.call.source
    <2>1. OpOK(o) /\ ServerOK /\ o.month \in Months
      BY DEF IInv, TypeOK, OpOK
    <2>2. Accepts(o) /\ plans' = [plans EXCEPT ![o.month] = Effect(o)]
      BY OnlyServe DEF Serve
    <2>3. plans'[o.month][s] = plans[o.month][s] - o.call.amount
      BY <2>1, <2>2, EffectTyped DEF ServerOK
    <2>4. /\ plans[o.month][s] \in Nat /\ seen[o.month][s] \in Nat /\ o.call.amount \in Nat
          /\ plans[o.month][s] - seen[o.month][s] - 1 >= o.call.amount
      BY <2>1 DEF OpOK, Reading, ServerOK
    <2> HIDE DEF s
    <2>5. plans'[o.month][s] - seen[o.month][s] >= 1
      BY <2>3, <2>4
    <2> QED BY <2>5 DEF s
  <1>2. ShiftLeavesDonor <=> [][A]_vars
    BY PTL DEF ShiftLeavesDonor
  <1>3. IInv /\ [Next]_vars => [A]_vars
    BY <1>1
  <1> QED BY <1>2, <1>3, Inductive, PTL DEF Spec

\* What has been typed changes by the owner's hand or with the end of a save
\* that succeeded only.
THEOREM EntryIsKeptCorrect == Spec => EntryIsKept
  <1> DEFINE A ==
        set # None /\ set.typed /\ set' # set =>
          \/ UNCHANGED <<server, swr, ops>>
          \/ \E o \in ops \ ops' : o.kind = "set" /\ Loaded(o)
  <1>1. [Next]_vars => A
    <2> SUFFICES ASSUME [Next]_vars, set # None, set' # set PROVE A
      OBVIOUS
    <2>1. CASE Fetching
      BY <2>1 DEF Fetching, Retry, Answer, Take, dialogs
    <2>2. CASE Requests
      <3>1. PICK o \in ops : Serve(o) \/ Loads(o) \/ End(o)
        BY <2>2 DEF Requests
      <3>2. o.kind = "set" /\ Loaded(o) /\ ops' = ops \ {o}
        BY <3>1 DEF Serve, Loads, End, Closes, dialogs
      <3> QED BY <3>2
    <2>3. CASE Moving
      BY <2>3 DEF Moving, Turn, Pick, Today, Back, Goto, Focus, Captured, dialogs
    <2>4. CASE Setting
      BY <2>4 DEF Setting, OpenSet, OpenManual, ChooseCategory, TypeAmount, CloseSet,
                  SubmitSet, Sent, Typing, Local, Uncovered, dialogs
    <2>5. CASE Shifting
      BY <2>5 DEF Shifting, OpenShift, ChooseDonor, TypeShift, ReviewShift, CloseShift,
                  ConfirmShift, Sent, dialogs
    <2>6. CASE CopyPrevious
      BY <2>6 DEF CopyPrevious, Sent, dialogs
    <2>7. CASE \E mc \in Places : Elsewhere(mc[1], mc[2])
      BY <2>7 DEF Elsewhere, dialogs
    <2>8. CASE UNCHANGED vars
      BY <2>8 DEF vars, dialogs
    <2> QED BY <2>1, <2>2, <2>3, <2>4, <2>5, <2>6, <2>7, <2>8 DEF Next
  <1>2. EntryIsKept <=> [][A]_vars
    BY PTL DEF EntryIsKept
  <1> QED BY <1>1, <1>2, PTL DEF Spec



--------------------------------------------------------------------------------
(* EditorPages: the inductive invariant.                                    *)

Forms == [stage : {"shut", "fill", "review"}, row : Items \cup {None},
          entry : Entries \cup {None}]
Deeds == {"delete", "settle", "reopen", "close", "retry"}
SaveCalls == [kind : {"save"}, row : Items \cup {None}, what : Entries, n : Nat,
              orphan : BOOLEAN, answer : {None, "ok", "lost", "no"}]
RowCalls == [kind : {"row"}, row : Items, what : Deeds, n : Nat,
             orphan : BOOLEAN, answer : {None, "ok", "lost", "no"}]
LoadTypes == [n : Nat, newest : BOOLEAN, then : {"rest", "save", "row"},
              answer : {None, Failed} \cup [Items -> Contents]]

EditorTypeOK ==
  /\ page \in Pages
  /\ stored \in [Items -> Contents] /\ list \in [Items -> Contents]
  /\ form \in Forms
  /\ submitting \in BOOLEAN
  /\ asked \in Items \cup {None} /\ acting \in Items \cup {None}
  /\ calls \subseteq SaveCalls \cup RowCalls
  /\ loads \subseteq LoadTypes /\ IsFiniteSet(loads)
  /\ loading \in BOOLEAN /\ failed \in BOOLEAN
  /\ typed \subseteq Entries /\ mixed \subseteq typed /\ refused \subseteq Entries
  /\ gone \subseteq Entries /\ unsure \subseteq Entries
  /\ muddled \in BOOLEAN /\ events \in Nat

Saves == {c \in calls : c.kind = "save"}

\* Which page sends what.
PageOf ==
  /\ form.stage = "review" => page = "transfer" /\ form.entry # None
  /\ asked # None => page # "transfer"
  /\ \A c \in Saves : page \in FormPages
  /\ \A c \in calls : c.kind = "row" => page # "transfer"
  /\ \A c \in calls : c.orphan => page \in Inline /\ c.answer = None
  /\ page \in Inline => \A c \in Saves : c.orphan
  /\ \A l \in loads : l.then = "save" => page \in FormPages \ {"wallets"}

\* A change the page has not heard of.
Untold == \E c \in calls : c.answer \in {"ok", "lost"}

\* The list, or what the newest load was answered, of which there is one.
LoadsAreCurrent ==
  ~muddled =>
    /\ \A k, l \in loads : k.newest /\ l.newest => k = l
    /\ \A l \in loads : l.newest /\ l.answer \notin {None, Failed} /\ ~Untold
         => l.answer = stored
    /\ (\A l \in loads : ~l.newest) /\ ~Untold => list = stored

\* What the form holds while a save is under way.
FormIsSent ==
  /\ \A c \in Saves : form.entry \in mixed \cup {None, c.what}
  /\ \A c \in Saves : c.answer = "no" => c.what \in refused
  /\ page = "categories" /\ (\E l \in loads : l.then = "save")
       => form.entry \in mixed \cup {None}

Once == {"wallets"} \cup Inline

Used == typed \cup {Old, Done, None}

\* Where an entry may be that is saved once.
EntriesAreUsed ==
  /\ form.entry \in typed \cup {None}
  /\ \A c \in Saves : c.what \in typed
  /\ \A i \in Items : stored[i] \in Used

OnePlace ==
  page \in Once =>
    /\ \A c, d \in Saves : c.what = d.what => c = d
    /\ page = "wallets" => \A c, d \in Saves : c = d /\ submitting
    /\ page \in Inline => \A c \in Saves : form.entry # c.what
    /\ \A c \in Saves : c.answer = None /\ c.what \notin unsure
         => \A i \in Items : stored[i] # c.what
    /\ form.entry \in Entries \ unsure /\ (\E i \in Items : stored[i] = form.entry)
         => \E c \in Saves : c.what = form.entry /\ c.answer = "ok"
    /\ \A i, j \in Items : stored[i] = stored[j] /\ stored[i] \in Entries \ unsure => i = j

--------------------------------------------------------------------------------
(* Loads.                                                                  *)

\* There is always a number no load has.
LEMMA UnusedIsNew ==
  ASSUME NEW S, IsFiniteSet(S), \A x \in S : x.n \in Nat
  PROVE  Unused(S) \in Nat /\ Unused(S) \notin {x.n : x \in S}
<1> DEFINE numbers == {x.n : x \in S}
           number == [x \in S |-> x.n]
<1>1. number \in Surjection(S, numbers)
  BY DEF Surjection
<1>2. Cardinality(S) \in Nat
  BY FS_CardinalityType
<1>3. IsFiniteSet(numbers) /\ Cardinality(numbers) <= Cardinality(S)
  BY <1>1, FS_Surjection
<1> DEFINE N == Cardinality(S) + 1
<1>4. Cardinality(1 .. N) = N /\ N \in Nat
  BY <1>2, FS_Interval
<1>5. ~(1 .. N \subseteq numbers)
  <2> HIDE DEF numbers, N
  <2>1. ASSUME 1 .. N \in SUBSET numbers PROVE N <= Cardinality(numbers)
    BY <1>3, <1>4, <2>1, FS_Subset
  <2> QED
    BY <1>2, <1>3, <1>4, <2>1, FS_CardinalityType DEF N
<1>6. \E n \in 1 .. N : n \notin numbers
  BY <1>5
<1>7. Unused(S) \in 1 .. N /\ Unused(S) \notin numbers
  BY <1>6 DEF Unused
<1> QED
  BY <1>2, <1>7

\* What is left of the loads that another one follows.
LEMMA OlderType ==
  ASSUME EditorTypeOK
  PROVE  Older(loads) \subseteq LoadTypes /\ IsFiniteSet(Older(loads))
<1> DEFINE old == {[l EXCEPT !.newest = FALSE] : l \in loads}
           age == [l \in loads |-> [l EXCEPT !.newest = FALSE]]
<1>1. old \subseteq LoadTypes
  BY DEF EditorTypeOK, LoadTypes
<1>2. age \in Surjection(loads, old)
  BY DEF Surjection
<1>3. IsFiniteSet(old)
  BY <1>2, FS_Surjection DEF EditorTypeOK
<1> QED
  BY <1>1, <1>3 DEF Older, EditorTypeOK

LEMMA LoadType ==
  ASSUME EditorTypeOK, NEW then \in {"rest", "save", "row"}, Load(then)
  PROVE  /\ loads' \subseteq LoadTypes /\ IsFiniteSet(loads')
         /\ loading' \in BOOLEAN /\ failed' \in BOOLEAN /\ muddled' \in BOOLEAN
<1>1. Unused(loads) \in Nat
  BY UnusedIsNew DEF EditorTypeOK, LoadTypes
<1>2. Fetch(then) \in LoadTypes
  BY <1>1 DEF Fetch, LoadTypes
<1>3. loads' = Older(loads) \cup {Fetch(then)}
  BY DEF Load
<1>4. loads' \subseteq LoadTypes /\ IsFiniteSet(loads')
  BY <1>2, <1>3, OlderType, FS_AddElement
<1>5. loading' \in BOOLEAN /\ failed' \in BOOLEAN
  <2>1. loading' = (page \in Hiding) /\ failed' = FALSE
    BY DEF Load
  <2>2. (page \in Hiding) \in BOOLEAN
    OBVIOUS
  <2> QED
    BY <2>1, <2>2
<1>6. muddled' \in BOOLEAN
  BY DEF Load, Overlaps
<1> QED
  BY <1>4, <1>5, <1>6

\* The loads after the document is loaded anew, or the page opened.
LEMMA FirstLoadType == {FirstLoad} \subseteq LoadTypes /\ IsFiniteSet({FirstLoad})
<1>1. FirstLoad \in LoadTypes
  BY DEF FirstLoad, LoadTypes
<1> QED
  BY <1>1, FS_Singleton

--------------------------------------------------------------------------------
(* Types.                                                                  *)

Safe == EditorTypeOK /\ PageOf

LEMMA SafeInit == EditorInit => Safe
<1> SUFFICES ASSUME EditorInit PROVE Safe
  OBVIOUS
<1>1. stored \in [Items -> Contents] /\ list \in [Items -> Contents]
  BY DEF EditorInit, Contents
<1>2. loads \subseteq LoadTypes /\ IsFiniteSet(loads)
  BY FirstLoadType DEF EditorInit
<1>3. form \in Forms
  BY DEF EditorInit, Blank, Shut, Forms
<1>4. page \in Pages /\ loading \in BOOLEAN
  <2>1. loading = (page \in Hiding) /\ page \in Pages
    BY DEF EditorInit
  <2>2. (page \in Hiding) \in BOOLEAN
    OBVIOUS
  <2> QED
    BY <2>1, <2>2
<1>5. EditorTypeOK
  <2>1. /\ submitting = FALSE /\ failed = FALSE /\ muddled = FALSE
        /\ asked = None /\ acting = None /\ calls = {} /\ events = 0
        /\ typed = {} /\ mixed = {} /\ refused = {} /\ gone = {} /\ unsure = {}
    BY DEF EditorInit
  <2> QED
    BY <1>1, <1>2, <1>3, <1>4, <2>1 DEF EditorTypeOK
<1>6. PageOf
  BY DEF EditorInit, PageOf, Saves, FirstLoad, Blank, Shut
<1> QED
  BY <1>5, <1>6 DEF Safe

LEMMA ServeLoadType ==
  ASSUME Safe, NEW l \in loads, ServeLoad(l)
  PROVE  Safe'
<1>1. PICK a \in {stored, Failed} :
        loads' = (loads \ {l}) \cup {[l EXCEPT !.answer = a]}
  BY DEF ServeLoad
<1>2. [l EXCEPT !.answer = a] \in LoadTypes /\ [l EXCEPT !.answer = a].then = l.then
  BY DEF Safe, EditorTypeOK, LoadTypes
<1>3. loads' \subseteq LoadTypes
  BY <1>1, <1>2 DEF Safe, EditorTypeOK
<1>4. IsFiniteSet(loads')
  <2>1. IsFiniteSet(loads \ {l})
    BY FS_RemoveElement DEF Safe, EditorTypeOK
  <2> QED
    BY <1>1, <2>1, FS_AddElement
<1>5. events' \in Nat
  <2>1. Event \/ UNCHANGED events
    BY DEF ServeLoad
  <2> QED
    BY <2>1 DEF Event, Safe, EditorTypeOK
<1>6. UNCHANGED <<page, stored, list, form, submitting, asked, acting, calls, loading,
                  failed, typed, mixed, refused, gone, unsure, muddled>>
  BY DEF ServeLoad, history
<1>7. PageOf'
  BY <1>1, <1>2, <1>6 DEF Safe, PageOf, Saves
<1> QED
  BY <1>3, <1>4, <1>5, <1>6, <1>7 DEF Safe, EditorTypeOK

LEMMA TakeLoadType ==
  ASSUME Safe, NEW l \in loads, TakeLoad(l)
  PROVE  Safe'
<1>1. loads' \subseteq loads /\ IsFiniteSet(loads') /\ l \in LoadTypes
  BY FS_RemoveElement DEF TakeLoad, Safe, EditorTypeOK
<1>2. list' \in [Items -> Contents] /\ failed' \in BOOLEAN /\ muddled' \in BOOLEAN
        /\ loading' \in BOOLEAN
  BY <1>1 DEF TakeLoad, Safe, EditorTypeOK, LoadTypes
<1>3. submitting' \in BOOLEAN /\ acting' \in Items \cup {None} /\ asked' \in Items \cup {None}
  BY DEF TakeLoad, AfterWait, Safe, EditorTypeOK
<1>4. form' \in Forms /\ gone' \subseteq Entries
  BY DEF TakeLoad, AfterWait, Shut, Forms, Safe, EditorTypeOK
<1>5. UNCHANGED <<page, stored, calls, typed, mixed, refused, unsure, events>>
  BY DEF TakeLoad
<1>6. (form' = form \/ form' = Shut) /\ asked' \in {asked, None}
  BY DEF TakeLoad, AfterWait
<1>7. PageOf'
  BY <1>1, <1>5, <1>6 DEF Safe, PageOf, Saves, Shut
<1> QED
  BY <1>1, <1>2, <1>3, <1>4, <1>5, <1>7 DEF Safe, EditorTypeOK

LEMMA RetryType ==
  ASSUME Safe, LoadAgain
  PROVE  Safe'
<1>1. Load("rest") /\ events' \in Nat
  BY DEF LoadAgain, Event, Safe, EditorTypeOK
<1>2. UNCHANGED <<page, stored, list, form, submitting, asked, acting, calls,
                  typed, mixed, refused, gone, unsure>>
  BY DEF LoadAgain, history
<1>3. \A l \in loads' : l.then = "save" => \E k \in loads : k.then = "save"
  BY <1>1 DEF Load, Older, Fetch, Safe, EditorTypeOK, LoadTypes
<1>4. PageOf'
  BY <1>2, <1>3 DEF Safe, PageOf, Saves
<1> QED
  BY <1>1, <1>2, <1>4, LoadType DEF Safe, EditorTypeOK

\* The inputs that open, close or fill a form or a dialog.
Inputs ==
  \/ OpenForm \/ CloseForm \/ ReviewTransfer \/ CloseAsk
  \/ \E r \in Items : EditBeside(r) \/ Ask(r)

LEMMA InputType ==
  ASSUME Safe, Inputs
  PROVE  /\ Safe'
         /\ UNCHANGED <<page, stored, list, submitting, calls, loads, refused, gone, unsure,
                        muddled, typed, mixed>>
         /\ form'.entry \in {None, form.entry}
<1>1. /\ UNCHANGED <<page, stored, list, submitting, acting, calls, loads, loading, failed,
                     refused, gone, unsure, muddled, typed, mixed>>
      /\ Event \/ UNCHANGED events
  BY DEF Inputs, OpenForm, EditBeside, CloseForm, ReviewTransfer, Ask, CloseAsk, InBrowser
<1>2. /\ form' \in Forms /\ asked' \in Items \cup {None}
      /\ form'.entry \in {None, form.entry}
      /\ form'.stage = "review" => page = "transfer" /\ form'.entry # None
  <2>1. \A i \in Rows : i \in Items
    BY DEF Rows, WalletsCards, WalletsSheet, CategoriesRows, TagsRows, GoalsRows,
       FundsRows, RulesRows, ClaimsRows, LettersRows, Listed
  <2>2. CASE OpenForm
    <3>1. PICK i \in {None} \cup Rows : form' = [Blank EXCEPT !.row = i]
      BY <2>2 DEF OpenForm
    <3>2. asked' \in Items \cup {None}
      BY <2>2 DEF OpenForm, Safe, EditorTypeOK
    <3> QED
      BY <2>1, <3>1, <3>2 DEF Blank, Forms
  <2>3. ASSUME NEW r \in Items, EditBeside(r)
        PROVE  /\ form' \in Forms /\ asked' \in Items \cup {None}
               /\ form'.entry \in {None, form.entry}
               /\ form'.stage = "review" => page = "transfer" /\ form'.entry # None
    BY <2>3 DEF EditBeside, Blank, Forms, Safe, EditorTypeOK
  <2>4. CASE CloseForm
    BY <2>4 DEF CloseForm, Closed, Blank, Shut, Forms, Safe, EditorTypeOK
  <2>5. CASE ReviewTransfer
    BY <2>5 DEF ReviewTransfer, Forms, Safe, EditorTypeOK
  <2>6. ASSUME NEW r \in Items, Ask(r)
        PROVE  /\ form' \in Forms /\ asked' \in Items \cup {None}
               /\ form'.entry \in {None, form.entry}
               /\ form'.stage = "review" => page = "transfer" /\ form'.entry # None
    BY <2>6 DEF Ask, Safe, EditorTypeOK, PageOf
  <2>7. CASE CloseAsk
    BY <2>7 DEF CloseAsk, Safe, EditorTypeOK, PageOf
  <2> QED
    BY <2>2, <2>3, <2>4, <2>5, <2>6, <2>7 DEF Inputs
<1>3. events' \in Nat
  BY <1>1 DEF Event, Safe, EditorTypeOK
<1>4. EditorTypeOK'
  BY <1>1, <1>2, <1>3 DEF Safe, EditorTypeOK
<1>5. PageOf'
  <2>1. asked' = asked \/ asked' = None \/ page # "transfer"
    BY DEF Inputs, OpenForm, EditBeside, CloseForm, ReviewTransfer, Ask, CloseAsk, RowPages
  <2> QED
    BY <1>1, <1>2, <2>1 DEF Safe, PageOf, Saves
<1> QED
  BY <1>1, <1>2, <1>4, <1>5 DEF Safe

\* What is typed is new.
LEMMA TypedIsNew ==
  ASSUME Safe, Type
  PROVE  /\ form'.entry \in Entries \ typed
         /\ form' = [form EXCEPT !.entry = form'.entry]
         /\ typed' = typed \cup {form'.entry}
         /\ mixed' = IF Saving THEN mixed \cup {form'.entry} ELSE mixed
         /\ UNCHANGED <<page, stored, list, submitting, asked, acting, calls, loads, loading,
                        failed, refused, gone, unsure, muddled, events>>
<1> DEFINE e == CHOOSE e \in Entries : e \notin typed
<1>1. \E x \in Entries : x \notin typed
  BY DEF Type, Safe, EditorTypeOK
<1>2. e \in Entries \ typed
  BY <1>1
<1>3. /\ form' = [form EXCEPT !.entry = e] /\ typed' = typed \cup {e}
      /\ mixed' = IF Saving THEN mixed \cup {e} ELSE mixed
  BY DEF Type
<1> HIDE DEF e
<1>4. form'.entry = e
  BY <1>3 DEF Safe, EditorTypeOK, Forms
<1> QED
  BY <1>2, <1>3, <1>4 DEF Type, InBrowser

LEMMA TypeType ==
  ASSUME Safe, Type
  PROVE  Safe'
<1>1. form' \in Forms
  BY TypedIsNew DEF Safe, EditorTypeOK, Forms
<1>2. typed' \subseteq Entries /\ mixed' \subseteq typed'
  BY TypedIsNew DEF Safe, EditorTypeOK
<1>3. EditorTypeOK'
  BY <1>1, <1>2, TypedIsNew DEF Safe, EditorTypeOK
<1>4. PageOf'
  <2>1. form'.stage = form.stage /\ form'.entry # None
    BY TypedIsNew, ConstantsAssumption DEF Safe, EditorTypeOK, Forms
  <2> QED
    BY <2>1, TypedIsNew DEF Safe, PageOf, Saves
<1> QED
  BY <1>3, <1>4 DEF Safe

LEMMA CallType ==
  ASSUME Safe
  PROVE  /\ \A r \in Items \cup {None}, e \in Entries : Call("save", r, e) \in SaveCalls
         /\ \A r \in Items, e \in Deeds : Call("row", r, e) \in RowCalls
BY DEF Call, SaveCalls, RowCalls, Safe, EditorTypeOK

\* A submission sends what the form holds, and either waits for the answer or
\* leaves the document.
LEMMA SubmitSends ==
  ASSUME Safe, Submit \/ ExecuteTransfer
  PROVE  /\ form.entry \in Entries /\ page \in FormPages
         /\ UNCHANGED <<page, stored, history>> /\ events' \in Nat
         /\ \E r \in Items \cup {None} :
              IF page \in Inline THEN LeaveDocument(calls \cup {Call("save", r, form.entry)})
              ELSE Send(calls \cup {Call("save", r, form.entry)})
<1>1. form.entry \in Entries /\ page \in FormPages
  <2>1. page \in FormPages
    BY DEF Submit, ExecuteTransfer, FormPages, TransferForm
  <2>2. form.entry # None
    BY DEF Submit, ExecuteTransfer, Safe, PageOf
  <2> QED
    BY <2>1, <2>2 DEF Safe, EditorTypeOK, Forms
<1>2. Event /\ UNCHANGED <<page, stored, history>>
  BY DEF Submit, ExecuteTransfer
<1>3. CASE Submit
  <2>1. page \in {"wallets", "categories", "rules"} \cup Inline
    BY <1>3 DEF Submit, FormPages, WalletsForm, TransferForm, CategoriesForm, RulesForm
  <2>2. Submission.native <=> page \in Inline
    BY <2>1 DEF Submission, Inline, TagsForm, GoalsForm, FundsForm, WalletsSubmit,
       CategoriesSubmit, TagsSubmit, GoalsSubmit, FundsSubmit, RulesSubmit, Form
  <2>3. IF page \in Inline
          THEN LeaveDocument(calls \cup {Call("save", form.row, form.entry)})
          ELSE Send(calls \cup {Call("save", form.row, form.entry)})
    BY <1>3, <2>2 DEF Submit
  <2>4. form.row \in Items \cup {None}
    BY DEF Safe, EditorTypeOK, Forms
  <2>5. events' \in Nat
    BY <1>2 DEF Event, Safe, EditorTypeOK
  <2> QED
    BY <1>1, <1>2, <2>3, <2>4, <2>5
<1>4. CASE ExecuteTransfer
  <2>1. page \notin Inline
    BY <1>4 DEF ExecuteTransfer, Inline, TagsForm, GoalsForm, FundsForm
  <2>2. Send(calls \cup {Call("save", None, form.entry)})
    BY <1>4 DEF ExecuteTransfer
  <2>3. events' \in Nat
    BY <1>2 DEF Event, Safe, EditorTypeOK
  <2> QED
    BY <1>1, <1>2, <2>1, <2>2, <2>3
<1> QED
  BY <1>3, <1>4

LEMMA SubmitType ==
  ASSUME Safe, Submit \/ ExecuteTransfer
  PROVE  Safe'
<1>1. PICK r \in Items \cup {None} :
        IF page \in Inline THEN LeaveDocument(calls \cup {Call("save", r, form.entry)})
        ELSE Send(calls \cup {Call("save", r, form.entry)})
  BY SubmitSends
<1> DEFINE c == Call("save", r, form.entry)
<1>2. /\ c \in SaveCalls /\ c.kind = "save" /\ ~c.orphan /\ c.answer = None
      /\ page \in FormPages
  <2>1. c \in SaveCalls /\ page \in FormPages
    BY SubmitSends, CallType
  <2> QED
    BY <2>1 DEF Call
<1>3. UNCHANGED <<page, stored, typed, mixed, refused, gone, unsure>> /\ events' \in Nat
  BY SubmitSends DEF history
<1>4. CASE page \in Inline
  <2>1. LeaveDocument(calls \cup {c})
    BY <1>1, <1>4
  <2>2. \A d \in calls' : \E b \in calls \cup {c} :
          b.answer = None /\ d = [b EXCEPT !.orphan = TRUE]
    BY <2>1 DEF LeaveDocument, Orphaned
  <2>3. \A d \in calls' : d \in SaveCalls \cup RowCalls /\ d.orphan /\ d.answer = None
    <3>1. ASSUME NEW b \in SaveCalls, NEW d, d = [b EXCEPT !.orphan = TRUE]
          PROVE  d \in SaveCalls /\ d.orphan /\ d.answer = b.answer
      BY <3>1 DEF SaveCalls
    <3>2. ASSUME NEW b \in RowCalls, NEW d, d = [b EXCEPT !.orphan = TRUE]
          PROVE  d \in RowCalls /\ d.orphan /\ d.answer = b.answer
      BY <3>2 DEF RowCalls
    <3>3. calls \cup {c} \subseteq SaveCalls \cup RowCalls
      BY <1>2 DEF Safe, EditorTypeOK
    <3> HIDE DEF c
    <3> QED
      BY <2>2, <3>1, <3>2, <3>3
  <2>4. list' \in [Items -> Contents] /\ form' \in Forms
    BY <2>1 DEF LeaveDocument, Blank, Forms, Contents
  <2>5. loads' \subseteq LoadTypes /\ IsFiniteSet(loads')
          /\ \A l \in loads' : l.then = "rest"
    BY <2>1, FirstLoadType DEF LeaveDocument, FirstLoad
  <2>6. EditorTypeOK'
    BY <1>3, <2>1, <2>3, <2>4, <2>5 DEF LeaveDocument, Safe, EditorTypeOK
  <2>7. page # "transfer"
    BY <1>4 DEF Inline, TagsForm, GoalsForm, FundsForm
  <2>8. PageOf'
    BY <1>2, <1>3, <1>4, <2>1, <2>3, <2>5, <2>7 DEF LeaveDocument, Blank, PageOf, Saves
  <2> QED
    BY <2>6, <2>8 DEF Safe
<1>5. CASE page \notin Inline
  <2>1. Send(calls \cup {c})
    BY <1>1, <1>5
  <2> HIDE DEF c
  <2>2. EditorTypeOK'
    BY <1>2, <1>3, <2>1 DEF Send, Safe, EditorTypeOK
  <2>3. PageOf'
    BY <1>2, <1>3, <1>5, <2>1 DEF Send, Safe, PageOf, Saves
  <2> QED
    BY <2>2, <2>3 DEF Safe
<1> QED
  BY <1>4, <1>5

Presses == Confirm \/ \E r \in Items : Press(r)

\* A button of a row sends a call about it.
LEMMA ButtonSends ==
  ASSUME Safe, Presses
  PROVE  /\ \E i \in Items, what \in Deeds : Act(i, what)
         /\ events' \in Nat
<1>1. events' \in Nat
  <2>1. Event
    BY DEF Presses, Confirm, Press
  <2> QED
    BY <2>1 DEF Event, Safe, EditorTypeOK
<1>2. CASE Confirm
  <2>1. asked \in Items /\ Act(asked, IF page = "letters" THEN "close" ELSE "delete")
    BY <1>2 DEF Confirm, Safe, EditorTypeOK
  <2>2. (IF page = "letters" THEN "close" ELSE "delete") \in Deeds
    BY DEF Deeds
  <2> QED
    BY <1>1, <2>1, <2>2
<1>3. ASSUME NEW r \in Items, Press(r)
      PROVE  \E i \in Items, what \in Deeds : Act(i, what)
  BY <1>3 DEF Press, Deeds
<1> QED
  BY <1>1, <1>2, <1>3 DEF Presses

\* The transfer has no rows: nothing asks about one there.
LEMMA ButtonPage ==
  ASSUME Safe, Presses
  PROVE  page # "transfer"
BY DEF Presses, Confirm, Press, RowPages, Safe, PageOf

LEMMA ButtonType ==
  ASSUME Safe, Presses
  PROVE  Safe'
<1>1. PICK i \in Items, what \in Deeds : Act(i, what)
  BY ButtonSends
<1> DEFINE c == Call("row", i, what)
<1>2. c \in RowCalls /\ c.kind = "row" /\ ~c.orphan
  <2>1. c \in RowCalls
    BY CallType
  <2> QED
    BY <2>1 DEF Call
<1>3. /\ UNCHANGED <<page, stored, list, form, submitting, asked, loads, loading, failed,
                     typed, mixed, refused, gone, unsure, muddled>>
      /\ calls' = calls \cup {c}
      /\ acting' \in Items \cup {None}
  BY <1>1 DEF Act, history
<1> HIDE DEF c
<1>4. EditorTypeOK'
  BY <1>2, <1>3, ButtonSends DEF Safe, EditorTypeOK
<1>5. page # "transfer"
  BY ButtonPage
<1>6. PageOf'
  BY <1>2, <1>3, <1>5 DEF Safe, PageOf, Saves
<1> QED
  BY <1>4, <1>6 DEF Safe

\* A new load that a save waits for is the only one there may be.
LEMMA LoadThen ==
  ASSUME Safe, NEW then, Load(then)
  PROVE  \A l \in loads' : l.then = "save" =>
           then = "save" \/ \E k \in loads : k.then = "save"
BY DEF Load, Older, Fetch, Safe, EditorTypeOK, LoadTypes

\* A save is answered on a page that stayed.
LEMMA AnsweredStays ==
  ASSUME Safe, NEW c \in calls, TakeSave(c)
  PROVE  /\ c \in SaveCalls /\ c \in Saves /\ c.answer \in {"ok", "lost", "no"}
         /\ page \in {"wallets", "transfer", "categories", "rules"}
<1>1. c \in Saves /\ c \in SaveCalls /\ c.answer \in {"ok", "lost", "no"}
  BY DEF TakeSave, Saves, Safe, EditorTypeOK, SaveCalls, RowCalls
<1>2. page \in FormPages \ Inline
  BY <1>1, ConstantsAssumption DEF TakeSave, Safe, PageOf
<1> QED
  BY <1>1, <1>2 DEF FormPages, WalletsForm, TransferForm, CategoriesForm, RulesForm

LEMMA TakeSaveForm ==
  ASSUME Safe, NEW c \in calls, TakeSave(c)
  PROVE  /\ form' \in Forms
         /\ form'.entry \in {None, form.entry}
         /\ form'.stage = "review" => page = "transfer" /\ form'.entry # None
         /\ gone' \subseteq gone \cup ({form.entry} \ {None})
<1>1. form \in Forms /\ (form.stage = "review" => page = "transfer" /\ form.entry # None)
  BY DEF Safe, EditorTypeOK, PageOf
<1>2. CASE UNCHANGED <<form, gone>>
  BY <1>1, <1>2
<1>3. CASE c.answer = "ok" /\ ~UNCHANGED <<form, gone>>
  <2>1. AfterSuccess(c)
    BY <1>3 DEF TakeSave
  <2>2. \/ form' = Shut
        \/ form' = form
        \/ page = "categories" /\ form' = [form EXCEPT !.row = None, !.entry = None]
    BY <2>1, AnsweredStays DEF AfterSuccess
  <2>3. gone' = gone \/ gone' = gone \cup Vanishes(c.what)
    BY <2>1, AnsweredStays DEF AfterSuccess
  <2>4. gone' \subseteq gone \cup ({form.entry} \ {None})
    BY <2>3 DEF Vanishes
  <2>5. CASE form' = Shut
    BY <2>4, <2>5 DEF Shut, Forms
  <2>6. CASE page = "categories" /\ form' = [form EXCEPT !.row = None, !.entry = None]
    <3>1. form'.stage = form.stage /\ form'.entry = None /\ form' \in Forms
      BY <1>1, <2>6 DEF Forms
    <3> QED
      BY <1>1, <2>4, <2>6, <3>1
  <2> QED
    BY <1>1, <2>2, <2>4, <2>5, <2>6
<1>4. CASE c.answer # "ok" /\ ~UNCHANGED <<form, gone>>
  <2>1. AfterFailure(c) /\ Submission.failing \in {"keep", "close", "reopen"}
    BY <1>4, AnsweredStays DEF TakeSave, Submission, WalletsSubmit, TransferExecute,
       CategoriesSubmit, RulesSubmit, Form
  <2>2. \/ form' = Shut \/ form' = Blank
        \/ form' = [form EXCEPT !.stage = "fill"]
    BY <1>4, <2>1 DEF AfterFailure
  <2>3. gone' = gone \/ \E kept : gone' = gone \cup Vanishes(kept)
    BY <2>1 DEF AfterFailure
  <2> QED
    BY <1>1, <2>2, <2>3 DEF Shut, Blank, Forms, Vanishes
<1> QED
  BY <1>2, <1>3, <1>4

LEMMA TakeSaveType ==
  ASSUME Safe, NEW c \in calls, TakeSave(c)
  PROVE  Safe'
<1>1. /\ UNCHANGED <<page, stored, list, asked, acting, typed, mixed, refused, unsure, events>>
      /\ calls' = calls \ {c}
  BY DEF TakeSave
<1>2. gone' \subseteq Entries
  BY TakeSaveForm DEF Safe, EditorTypeOK, Forms
<1>3. submitting' \in BOOLEAN
  BY DEF TakeSave, BusyAfter
<1>4. CASE c.answer = "ok"
  <2>1. PICK then \in {"rest", "save"} : Load(then) /\ (then = "save" <=> Submission.waits)
    BY <1>4 DEF TakeSave
  <2>2. then = "save" => page # "wallets"
    BY <2>1 DEF Submission, WalletsSubmit, Form
  <2>3. page \in FormPages
    BY AnsweredStays DEF FormPages, WalletsForm, TransferForm, CategoriesForm, RulesForm
  <2>4. \A l \in loads' : l.then = "save" => page \in FormPages \ {"wallets"}
    BY <2>1, <2>2, <2>3, LoadThen DEF Safe, PageOf
  <2>5. EditorTypeOK'
    BY <1>1, <1>2, <1>3, <2>1, LoadType, TakeSaveForm DEF Safe, EditorTypeOK
  <2>6. PageOf'
    BY <1>1, <2>4, TakeSaveForm DEF Safe, PageOf, Saves
  <2> QED
    BY <2>5, <2>6 DEF Safe
<1>5. CASE c.answer # "ok"
  <2>1. UNCHANGED <<loads, loading, failed>> /\ muddled' = (muddled \/ c.answer = "lost")
    BY <1>5 DEF TakeSave
  <2>2. muddled' \in BOOLEAN
    BY <2>1
  <2>3. EditorTypeOK'
    BY <1>1, <1>2, <1>3, <2>1, <2>2, TakeSaveForm DEF Safe, EditorTypeOK
  <2>4. PageOf'
    BY <1>1, <2>1, TakeSaveForm DEF Safe, PageOf, Saves
  <2> QED
    BY <2>3, <2>4 DEF Safe
<1> QED
  BY <1>4, <1>5

LEMMA TakeActType ==
  ASSUME Safe, NEW c \in calls, TakeAct(c)
  PROVE  Safe'
<1>1. /\ UNCHANGED <<page, stored, list, form, submitting, typed, mixed, refused, gone, unsure,
                     events>>
      /\ calls' = calls \ {c}
  BY DEF TakeAct, history
<1>2. /\ asked' \in Items \cup {None} /\ acting' \in Items \cup {None}
      /\ asked' \in {asked, None}
  BY DEF TakeAct, Safe, EditorTypeOK
<1>3. CASE c.answer = "ok"
  <2>1. PICK then \in {"rest", "row"} : Load(then)
    BY <1>3 DEF TakeAct
  <2>2. EditorTypeOK'
    BY <1>1, <1>2, <2>1, LoadType DEF Safe, EditorTypeOK
  <2>3. PageOf'
    BY <1>1, <1>2, <2>1, LoadThen DEF Safe, PageOf, Saves
  <2> QED
    BY <2>2, <2>3 DEF Safe
<1>4. CASE c.answer # "ok"
  <2>1. /\ UNCHANGED <<loads, loading>> /\ failed' = (failed \/ page = "claims")
        /\ muddled' = (muddled \/ c.answer = "lost")
    BY <1>4 DEF TakeAct
  <2>2. failed' \in BOOLEAN /\ muddled' \in BOOLEAN
    BY <2>1
  <2>3. EditorTypeOK'
    BY <1>1, <1>2, <2>1, <2>2 DEF Safe, EditorTypeOK
  <2>4. PageOf'
    BY <1>1, <1>2, <2>1 DEF Safe, PageOf, Saves
  <2> QED
    BY <2>3, <2>4 DEF Safe
<1> QED
  BY <1>3, <1>4

--------------------------------------------------------------------------------
(* The server's steps.                                                     *)

\* What an accepted call leaves in its row.
Wrote(c) ==
  IF c.kind = "save" THEN c.what
  ELSE IF c.what \in {"reopen", "retry"} THEN Old ELSE Done

LEMMA WrittenIn ==
  ASSUME NEW c
  PROVE  \E row : Written(c) = [stored EXCEPT ![row] = Wrote(c)]
BY DEF Written, Wrote

\* An answered call is the call with its answer, unless nobody waits for it.
LEMMA AnsweredIs ==
  ASSUME Safe, NEW c \in calls, NEW a \in {"ok", "lost", "no"}, Answered(c, a)
  PROVE  /\ calls' \subseteq SaveCalls \cup RowCalls
         /\ calls \ {c} \subseteq calls'
         /\ \A d \in calls' :
              \/ d \in calls /\ d # c
              \/ /\ ~c.orphan /\ ~d.orphan /\ d.kind = c.kind /\ d.what = c.what
                 /\ d.answer = a /\ d = [c EXCEPT !.answer = a]
         /\ ~c.orphan => \E d \in calls' : d.kind = c.kind /\ d.what = c.what /\ d.answer = a
<1> DEFINE b == [c EXCEPT !.answer = a]
<1>1. b \in SaveCalls \cup RowCalls
  <2>1. CASE c \in SaveCalls
    BY <2>1 DEF SaveCalls
  <2>2. CASE c \in RowCalls
    BY <2>2 DEF RowCalls
  <2> QED
    BY <2>1, <2>2 DEF Safe, EditorTypeOK
<1>2. /\ b.kind = c.kind /\ b.what = c.what /\ b.orphan = c.orphan /\ b.answer = a
      /\ b = [c EXCEPT !.answer = a]
  <2>1. c \in SaveCalls \/ c \in RowCalls
    BY DEF Safe, EditorTypeOK
  <2> QED
    BY <2>1 DEF SaveCalls, RowCalls
<1>3. calls' = (calls \ {c}) \cup IF c.orphan THEN {} ELSE {b}
  BY DEF Answered
<1>4. calls \subseteq SaveCalls \cup RowCalls
  BY DEF Safe, EditorTypeOK
<1> HIDE DEF b
<1>5. CASE c.orphan
  BY <1>3, <1>4, <1>5
<1>6. CASE ~c.orphan
  <2>1. calls' = (calls \ {c}) \cup {b} /\ ~b.orphan
    BY <1>2, <1>3, <1>6
  <2> QED
    BY <1>1, <1>2, <1>4, <1>6, <2>1
<1> QED
  BY <1>5, <1>6

LEMMA AnsweredPage ==
  ASSUME Safe, NEW c \in calls, NEW a \in {"ok", "lost", "no"}, Answered(c, a),
         UNCHANGED <<page, form, asked, loads>>
  PROVE  PageOf'
<1>1. c.orphan \/ page \notin Inline \/ c.kind # "save"
  BY DEF Safe, PageOf, Saves
<1>2. /\ \A d \in calls' : d.kind = "save" => page \in FormPages
      /\ \A d \in calls' : d.kind = "row" => page # "transfer"
      /\ \A d \in calls' : d.orphan => page \in Inline /\ d.answer = None
      /\ page \in Inline => \A d \in calls' : d.kind = "save" => d.orphan
  BY <1>1, AnsweredIs DEF Safe, PageOf, Saves
<1> QED
  BY <1>2 DEF Safe, PageOf, Saves

LEMMA ServeCallIs ==
  ASSUME Safe, NEW c \in calls, ServeCall(c)
  PROVE  \E a \in {"ok", "lost"} :
           /\ Answered(c, a)
           /\ unsure' = IF a = "lost" /\ c.kind = "save" THEN unsure \cup {c.what} ELSE unsure
           /\ Event \/ UNCHANGED events
BY DEF ServeCall, Answers, SettleAnswers

LEMMA ServeCallType ==
  ASSUME Safe, NEW c \in calls, ServeCall(c)
  PROVE  Safe'
<1>1. c \in SaveCalls \/ c \in RowCalls
  BY DEF Safe, EditorTypeOK
<1>2. Wrote(c) \in Contents /\ (c.kind = "save" => c.what \in Entries)
  BY <1>1 DEF Wrote, Contents, SaveCalls, RowCalls
<1>3. stored' \in [Items -> Contents]
  BY <1>2, WrittenIn DEF ServeCall, Safe, EditorTypeOK
<1>4. PICK a \in {"ok", "lost"} :
        /\ Answered(c, a)
        /\ unsure' = IF a = "lost" /\ c.kind = "save" THEN unsure \cup {c.what} ELSE unsure
        /\ Event \/ UNCHANGED events
  BY ServeCallIs
<1>5. unsure' \subseteq Entries
  BY <1>2, <1>4 DEF Safe, EditorTypeOK
<1>6. events' \in Nat
  BY <1>4 DEF Event, Safe, EditorTypeOK
<1>7. muddled' = (muddled \/ c.orphan)
        /\ UNCHANGED <<page, list, form, submitting, asked, acting, loads, loading, failed,
                       typed, mixed, refused, gone>>
  BY DEF ServeCall
<1>8. muddled' \in BOOLEAN
  BY <1>7
<1>9. calls' \subseteq SaveCalls \cup RowCalls
  BY <1>4, AnsweredIs
<1>10. PageOf'
  BY <1>4, <1>7, AnsweredPage
<1> QED
  BY <1>3, <1>5, <1>6, <1>7, <1>8, <1>9, <1>10 DEF Safe, EditorTypeOK

LEMMA RefuseCallType ==
  ASSUME Safe, NEW c \in calls, RefuseCall(c)
  PROVE  Safe'
<1>1. c \in SaveCalls \/ c \in RowCalls
  BY DEF Safe, EditorTypeOK
<1>2. c.kind = "save" => c.what \in Entries
  BY <1>1 DEF RowCalls, SaveCalls
<1>3. refused' \subseteq Entries /\ gone' \subseteq Entries
  BY <1>2 DEF RefuseCall, Safe, EditorTypeOK
<1>4. events' \in Nat
  <2>1. Event \/ UNCHANGED events
    BY DEF RefuseCall
  <2> QED
    BY <2>1 DEF Event, Safe, EditorTypeOK
<1>5. Answered(c, "no")
        /\ UNCHANGED <<page, stored, list, form, submitting, asked, acting, loads, loading,
                       failed, typed, mixed, unsure, muddled>>
  BY DEF RefuseCall
<1>6. calls' \subseteq SaveCalls \cup RowCalls
  BY <1>5, AnsweredIs
<1>7. PageOf'
  BY <1>5, AnsweredPage
<1> QED
  BY <1>3, <1>4, <1>5, <1>6, <1>7 DEF Safe, EditorTypeOK

\* What another writer changes: one row, which then holds nothing that was
\* typed.
LEMMA BesideIs ==
  ASSUME Safe, NEW i \in Items, OtherWriter(i)
  PROVE  /\ \E w \in {Old, Done} : stored' = [stored EXCEPT ![i] = w]
         /\ UNCHANGED <<page, list, form, submitting, asked, acting, calls, loads,
                       loading, failed, typed, mixed, refused, gone, unsure>>
         /\ muddled' \in BOOLEAN /\ events' \in Nat
<1>1. Event /\ muddled' = (muddled \/ ~Awaited)
  BY DEF OtherWriter
<1>2. events' \in Nat
  BY <1>1 DEF Event, Safe, EditorTypeOK
<1>3. muddled' \in BOOLEAN
  BY <1>1
<1> QED
  BY <1>2, <1>3 DEF OtherWriter, history

LEMMA BesideType ==
  ASSUME Safe, NEW i \in Items, OtherWriter(i)
  PROVE  Safe'
<1>1. stored' \in [Items -> Contents]
  BY BesideIs DEF Contents, Safe, EditorTypeOK
<1>2. EditorTypeOK'
  BY <1>1, BesideIs DEF Safe, EditorTypeOK
<1>3. PageOf'
  BY BesideIs DEF Safe, PageOf, Saves
<1> QED
  BY <1>2, <1>3 DEF Safe

\* The steps, as the lemmas take them.
LEMMA NextIs ==
  [EditorNext]_editorVars =>
    \/ \E l \in loads : ServeLoad(l) \/ TakeLoad(l)
    \/ \E c \in calls : ServeCall(c) \/ RefuseCall(c) \/ TakeSave(c) \/ TakeAct(c)
    \/ LoadAgain \/ Type \/ Inputs \/ (Submit \/ ExecuteTransfer) \/ Presses
    \/ \E i \in Items : OtherWriter(i)
    \/ UNCHANGED editorVars
BY DEF EditorNext, Inputs, Presses

LEMMA SafeStep == Safe /\ [EditorNext]_editorVars => Safe'
<1> SUFFICES ASSUME Safe, [EditorNext]_editorVars PROVE Safe'
  OBVIOUS
<1>1. CASE UNCHANGED editorVars
  BY <1>1 DEF editorVars, Safe, EditorTypeOK, PageOf, Saves
<1>2. ASSUME NEW l \in loads, ServeLoad(l) \/ TakeLoad(l) PROVE Safe'
  BY <1>2, ServeLoadType, TakeLoadType
<1>3. ASSUME NEW c \in calls, ServeCall(c) \/ RefuseCall(c) \/ TakeSave(c) \/ TakeAct(c)
      PROVE  Safe'
  BY <1>3, ServeCallType, RefuseCallType, TakeSaveType, TakeActType
<1> QED
  BY <1>1, <1>2, <1>3, NextIs, RetryType, TypeType, InputType, SubmitType, ButtonType,
     BesideType

--------------------------------------------------------------------------------
(* The list on the screen.                                                 *)

\* A load that has begun is the newest, or the page is muddled.
LEMMA LoadIsCurrent ==
  ASSUME Safe, NEW then, Load(then)
  PROVE  LoadsAreCurrent'
<1>1. Fetch(then).newest = TRUE /\ Fetch(then).answer = None
  BY DEF Fetch
<1>2. ASSUME NEW l \in Older(loads), ~Overlaps PROVE ~l.newest
  BY <1>2 DEF Older, Overlaps, Safe, EditorTypeOK, LoadTypes
<1>3. loads' = Older(loads) \cup {Fetch(then)} /\ muddled' = Overlaps
  BY DEF Load
<1>4. ASSUME ~Overlaps
      PROVE  /\ \A l \in loads' : l.newest => l = Fetch(then) /\ l.answer = None
             /\ \E l \in loads' : l.newest
  BY <1>1, <1>2, <1>3, <1>4
<1> QED
  BY <1>3, <1>4 DEF LoadsAreCurrent

\* What changes neither the lists nor the loads, and keeps what is untold.
LEMMA CurrentStays ==
  ASSUME LoadsAreCurrent, UNCHANGED <<stored, list, loads>>, muddled' \/ muddled' = muddled,
         muddled' \/ (Untold => Untold')
  PROVE  LoadsAreCurrent'
BY DEF LoadsAreCurrent

LEMMA ServeLoadIsCurrent ==
  ASSUME Safe, LoadsAreCurrent, NEW l \in loads, ServeLoad(l)
  PROVE  LoadsAreCurrent'
<1>1. PICK a \in {stored, Failed} :
        loads' = (loads \ {l}) \cup {[l EXCEPT !.answer = a]}
  BY DEF ServeLoad
<1> DEFINE k == [l EXCEPT !.answer = a]
<1>2. k.newest = l.newest /\ k.answer = a
  BY DEF Safe, EditorTypeOK, LoadTypes
<1>3. loads' = (loads \ {l}) \cup {k}
  BY <1>1
<1>4. UNCHANGED <<stored, list, muddled, calls>>
  BY DEF ServeLoad
<1>5. Untold' = Untold
  BY <1>4 DEF Untold
<1> HIDE DEF k
<1> QED
  BY <1>2, <1>3, <1>4, <1>5 DEF LoadsAreCurrent

LEMMA TakeLoadIsCurrent ==
  ASSUME Safe, LoadsAreCurrent, NEW l \in loads, TakeLoad(l)
  PROVE  LoadsAreCurrent'
<1>1. loads' = loads \ {l} /\ UNCHANGED <<stored, calls>> /\ l.answer # None
  BY DEF TakeLoad
<1>2. Untold' = Untold
  BY <1>1 DEF Untold
<1>3. CASE l.answer = Failed
  BY <1>3 DEF TakeLoad, LoadsAreCurrent
<1>4. CASE l.answer # Failed
  <2>1. UNCHANGED muddled /\ list' = IF l.newest THEN l.answer ELSE list
    BY <1>4 DEF TakeLoad
  <2>2. CASE l.newest
    BY <1>1, <1>2, <1>4, <2>1, <2>2 DEF LoadsAreCurrent
  <2>3. CASE ~l.newest
    BY <1>1, <1>2, <2>1, <2>3 DEF LoadsAreCurrent
  <2> QED
    BY <2>2, <2>3
<1> QED
  BY <1>3, <1>4

LEMMA ServeCallIsCurrent ==
  ASSUME Safe, LoadsAreCurrent, NEW c \in calls, ServeCall(c)
  PROVE  LoadsAreCurrent'
<1>1. CASE c.orphan
  BY <1>1 DEF ServeCall, LoadsAreCurrent
<1>2. CASE ~c.orphan
  <2>1. PICK a \in {"ok", "lost"} : Answered(c, a)
    BY ServeCallIs
  <2>2. Untold'
    BY <1>2, <2>1, AnsweredIs DEF Untold
  <2>3. UNCHANGED <<list, loads>> /\ (muddled' = (muddled \/ c.orphan))
    BY DEF ServeCall
  <2> QED
    BY <1>2, <2>2, <2>3 DEF LoadsAreCurrent
<1> QED
  BY <1>1, <1>2

LEMMA RefuseCallIsCurrent ==
  ASSUME Safe, LoadsAreCurrent, NEW c \in calls, RefuseCall(c)
  PROVE  LoadsAreCurrent'
<1>1. c.answer = None /\ Answered(c, "no") /\ UNCHANGED <<stored, list, loads, muddled>>
  BY DEF RefuseCall
<1>2. calls \ {c} \subseteq calls'
  BY <1>1, AnsweredIs
<1>3. Untold => Untold'
  BY <1>1, <1>2, ConstantsAssumption DEF Untold
<1> QED
  BY <1>1, <1>3, CurrentStays

\* Another writer is answered by the load that the server has still to answer.
LEMMA BesideIsCurrent ==
  ASSUME Safe, LoadsAreCurrent, NEW i \in Items, OtherWriter(i)
  PROVE  LoadsAreCurrent'
<1>1. UNCHANGED <<list, loads>> /\ muddled' = (muddled \/ ~Awaited)
  BY DEF OtherWriter
<1>2. ASSUME ~muddled'
      PROVE  \E l \in loads : l.newest /\ l.answer = None
                              /\ \A k \in loads : k.newest => k = l
  BY <1>1, <1>2 DEF Awaited, LoadsAreCurrent
<1> QED
  BY <1>1, <1>2 DEF LoadsAreCurrent

LEMMA TakeAnswerIsCurrent ==
  ASSUME Safe, LoadsAreCurrent, NEW c \in calls, TakeSave(c) \/ TakeAct(c)
  PROVE  LoadsAreCurrent'
<1>1. UNCHANGED <<stored, list>> /\ calls' = calls \ {c}
  BY DEF TakeSave, TakeAct
<1>2. CASE c.answer = "ok"
  <2>1. \E then : Load(then)
    BY <1>2 DEF TakeSave, TakeAct
  <2> QED
    BY <2>1, LoadIsCurrent
<1>3. CASE c.answer # "ok"
  <2>1. UNCHANGED loads /\ muddled' = (muddled \/ c.answer = "lost")
    BY <1>3 DEF TakeSave, TakeAct
  <2>2. c.answer = "lost" \/ (Untold => Untold')
    BY <1>1, <1>3 DEF Untold
  <2> QED
    BY <1>1, <2>1, <2>2 DEF LoadsAreCurrent
<1> QED
  BY <1>2, <1>3

LEMMA SubmitIsCurrent ==
  ASSUME Safe, LoadsAreCurrent, Submit \/ ExecuteTransfer
  PROVE  LoadsAreCurrent'
<1>1. PICK r \in Items \cup {None} :
        IF page \in Inline THEN LeaveDocument(calls \cup {Call("save", r, form.entry)})
        ELSE Send(calls \cup {Call("save", r, form.entry)})
  BY SubmitSends
<1>2. CASE page \in Inline
  BY <1>1, <1>2 DEF LeaveDocument, LoadsAreCurrent
<1>3. CASE page \notin Inline
  <2>1. UNCHANGED <<list, loads, muddled>> /\ calls \subseteq calls'
    BY <1>1, <1>3 DEF Send
  <2>2. UNCHANGED stored
    BY SubmitSends
  <2> QED
    BY <2>1, <2>2, CurrentStays DEF Untold
<1> QED
  BY <1>2, <1>3

LEMMA CurrentStep ==
  ASSUME Safe, LoadsAreCurrent, [EditorNext]_editorVars
  PROVE  LoadsAreCurrent'
<1>1. ASSUME Type \/ Inputs \/ UNCHANGED editorVars
      PROVE  LoadsAreCurrent'
  <2>1. UNCHANGED <<stored, list, loads, calls, muddled>>
    BY <1>1, InputType, TypedIsNew DEF editorVars
  <2> QED
    BY <2>1, CurrentStays DEF Untold
<1>2. ASSUME Presses PROVE LoadsAreCurrent'
  <2>1. UNCHANGED <<stored, list, loads, muddled>> /\ calls \subseteq calls'
    BY <1>2, ButtonSends DEF Act
  <2> QED
    BY <2>1, CurrentStays DEF Untold
<1>3. ASSUME LoadAgain PROVE LoadsAreCurrent'
  BY <1>3, LoadIsCurrent DEF LoadAgain
<1> QED
  BY <1>1, <1>2, <1>3, NextIs, ServeLoadIsCurrent, TakeLoadIsCurrent, ServeCallIsCurrent,
     RefuseCallIsCurrent, TakeAnswerIsCurrent, SubmitIsCurrent, BesideIsCurrent

--------------------------------------------------------------------------------
(* What vanishes from the form.                                            *)

Excused == mixed \cup IF page \in Inline \cup {"categories"} THEN refused ELSE {}

Kept == FormIsSent /\ RefusedEntryIsKept

\* The form is left alone or emptied, and the calls that are under way stay
\* what they were.
LEMMA KeptStays ==
  ASSUME Kept, form'.entry \in {None, form.entry},
         UNCHANGED <<page, mixed, refused, gone>>,
         \A c \in calls' : c \in calls \/ c.kind # "save",
         \A l \in loads' : l.then = "save" => \E k \in loads : k.then = "save"
  PROVE  Kept'
<1>1. FormIsSent'
  BY DEF Kept, FormIsSent, Saves
<1>2. RefusedEntryIsKept'
  BY DEF Kept, RefusedEntryIsKept
<1> QED
  BY <1>1, <1>2 DEF Kept

LEMMA TypeKept ==
  ASSUME Safe, Kept, Type
  PROVE  Kept'
<1>1. /\ UNCHANGED <<page, calls, loads, refused, gone>>
      /\ mixed' = IF Saving THEN mixed \cup {form'.entry} ELSE mixed
  BY TypedIsNew
<1>2. RefusedEntryIsKept'
  BY <1>1 DEF Kept, RefusedEntryIsKept
<1>3. Saving => form'.entry \in mixed'
  BY <1>1
<1>4. (\E c \in Saves : TRUE) \/ (\E l \in loads : l.then = "save") => Saving
  BY DEF Saving, Saves
<1>5. FormIsSent'
  BY <1>1, <1>3, <1>4 DEF Kept, FormIsSent, Saves
<1> QED
  BY <1>2, <1>5 DEF Kept

LEMMA SubmitKept ==
  ASSUME Safe, Kept, Submit \/ ExecuteTransfer
  PROVE  Kept'
<1>1. PICK r \in Items \cup {None} :
        IF page \in Inline THEN LeaveDocument(calls \cup {Call("save", r, form.entry)})
        ELSE Send(calls \cup {Call("save", r, form.entry)})
  BY SubmitSends
<1> DEFINE c == Call("save", r, form.entry)
<1>2. c.what = form.entry /\ c.answer = None
  BY DEF Call
<1>3. UNCHANGED <<page, mixed, refused, gone>>
  BY SubmitSends DEF history
<1>4. RefusedEntryIsKept'
  BY <1>3 DEF Kept, RefusedEntryIsKept
<1>5. CASE page \in Inline
  <2>1. form'.entry = None
    BY <1>1, <1>5 DEF LeaveDocument, Blank
  <2>2. \A l \in loads' : l.then = "rest"
    BY <1>1, <1>5 DEF LeaveDocument, FirstLoad
  <2>3. \A d \in Saves' : d.answer # "no"
    BY <1>3, <1>5, SubmitType, ConstantsAssumption DEF Safe, PageOf, Saves
  <2> QED
    BY <1>3, <1>4, <2>1, <2>2, <2>3 DEF Kept, FormIsSent, Saves
<1>6. CASE page \notin Inline
  <2>1. UNCHANGED <<form, loads>> /\ calls' = calls \cup {c}
    BY <1>1, <1>6 DEF Send
  <2> HIDE DEF c
  <2>2. FormIsSent'
    BY <1>2, <1>3, <2>1, ConstantsAssumption DEF Kept, FormIsSent, Saves
  <2> QED
    BY <1>4, <2>2 DEF Kept
<1> QED
  BY <1>5, <1>6

LEMMA TakeLoadKept ==
  ASSUME Safe, Kept, NEW l \in loads, TakeLoad(l)
  PROVE  Kept'
<1>1. UNCHANGED <<page, calls, mixed, refused>> /\ loads' \subseteq loads
  BY DEF TakeLoad
<1>2. CASE l.then = "save" /\ page = "categories"
  <2>1. form' = Shut /\ gone' = gone \cup ({form.entry} \ {None})
    BY <1>2 DEF TakeLoad, AfterWait
  <2>2. form.entry \in mixed \cup {None}
    BY <1>2 DEF Kept, FormIsSent
  <2>3. RefusedEntryIsKept'
    BY <1>1, <2>1, <2>2 DEF Kept, RefusedEntryIsKept
  <2>4. FormIsSent'
    BY <1>1, <2>1 DEF Kept, FormIsSent, Saves, Shut
  <2> QED
    BY <2>3, <2>4 DEF Kept
<1>3. CASE ~(l.then = "save" /\ page = "categories")
  <2>1. UNCHANGED <<form, gone>>
    BY <1>3 DEF TakeLoad, AfterWait
  <2> QED
    BY <1>1, <2>1, KeptStays
<1> QED
  BY <1>2, <1>3

\* The answer of a save takes nothing out of the form but what was sent, what
\* was typed meanwhile, and, in the category dialog, what was refused.
LEMMA TakeSaveGone ==
  ASSUME Safe, Kept, NEW c \in calls, TakeSave(c)
  PROVE  gone' \subseteq gone \cup Excused
<1>1. form.entry \in mixed \cup {None, c.what} /\ (c.answer = "no" => c.what \in refused)
  BY AnsweredStays DEF Kept, FormIsSent
<1>2. CASE c.answer = "ok"
  <2>1. gone' = gone \/ gone' = gone \cup Vanishes(c.what)
    BY <1>2, AnsweredStays DEF TakeSave, AfterSuccess
  <2> QED
    BY <1>1, <2>1 DEF Vanishes, Excused
<1>3. CASE c.answer # "ok"
  <2>1. AfterFailure(c) /\ Submission.failing \in {"keep", "close", "reopen"}
    BY <1>3, AnsweredStays DEF TakeSave, Submission, WalletsSubmit, TransferExecute,
       CategoriesSubmit, RulesSubmit, Form
  <2>2. Submission.failing = "close" => page = "categories"
    BY AnsweredStays DEF Submission, WalletsSubmit, TransferExecute,
       CategoriesSubmit, RulesSubmit, Form
  <2>3. CASE Submission.failing = "close"
    <3>1. gone' = gone \cup Vanishes(IF c.answer = "lost" THEN c.what ELSE None)
      BY <2>1, <2>3 DEF AfterFailure
    <3>2. c.answer = "lost" \/ c.answer = "no"
      BY <1>3, AnsweredStays
    <3> QED
      BY <1>1, <2>2, <2>3, <3>1, <3>2 DEF Vanishes, Excused
  <2>4. CASE Submission.failing # "close"
    BY <2>1, <2>4 DEF AfterFailure
  <2> QED
    BY <2>3, <2>4
<1> QED
  BY <1>2, <1>3

LEMMA TakeSaveKept ==
  ASSUME Safe, Kept, NEW c \in calls, TakeSave(c)
  PROVE  Kept'
<1>1. UNCHANGED <<page, mixed, refused>> /\ calls' = calls \ {c}
  BY DEF TakeSave
<1>2. RefusedEntryIsKept'
  BY <1>1, TakeSaveGone DEF Kept, RefusedEntryIsKept, Excused
<1>3. form'.entry \in {None, form.entry}
  BY TakeSaveForm
<1>4. page = "categories" /\ (\E l \in loads' : l.then = "save")
        => form'.entry \in mixed \cup {None}
  <2>1. CASE c.answer = "ok" /\ page = "categories"
    BY <2>1 DEF TakeSave, AfterSuccess, Safe, EditorTypeOK, Forms
  <2>2. CASE c.answer # "ok"
    BY <1>3, <2>2 DEF TakeSave, Kept, FormIsSent
  <2> QED
    BY <2>1, <2>2
<1>5. FormIsSent'
  BY <1>1, <1>3, <1>4 DEF Kept, FormIsSent, Saves
<1> QED
  BY <1>2, <1>5 DEF Kept

LEMMA ServerKept ==
  ASSUME Safe, Kept, NEW c \in calls, ServeCall(c) \/ RefuseCall(c)
  PROVE  Kept'
<1>1. PICK a \in {"ok", "lost", "no"} :
        /\ Answered(c, a)
        /\ a = "no" => RefuseCall(c)
        /\ a # "no" => ServeCall(c)
  BY ServeCallIs DEF RefuseCall
<1>2. UNCHANGED <<page, form, loads, mixed>> /\ refused \subseteq refused'
  BY DEF ServeCall, RefuseCall
<1>3. c.kind = "save" /\ a = "no" => c.what \in refused'
  BY <1>1 DEF RefuseCall
<1>4. ASSUME NEW d \in calls', d.kind = "save"
      PROVE  /\ form'.entry \in mixed' \cup {None, d.what}
             /\ d.answer = "no" => d.what \in refused'
  <2>1. \/ d \in calls /\ d # c
        \/ ~c.orphan /\ ~d.orphan /\ d.kind = c.kind /\ d.what = c.what /\ d.answer = a
    BY <1>1, AnsweredIs
  <2> QED
    BY <1>2, <1>3, <1>4, <2>1 DEF Kept, FormIsSent, Saves
<1>5. FormIsSent'
  BY <1>2, <1>4 DEF Kept, FormIsSent, Saves
<1>6. gone' = gone \/ (gone' = gone \cup {c.what} /\ c.what \in refused' /\ c.orphan)
  BY DEF ServeCall, RefuseCall
<1>7. c.orphan => page \in Inline
  BY DEF Safe, PageOf
<1>8. RefusedEntryIsKept'
  BY <1>2, <1>6, <1>7 DEF Kept, RefusedEntryIsKept
<1> QED
  BY <1>5, <1>8 DEF Kept

LEMMA KeptStep ==
  ASSUME Safe, Kept, [EditorNext]_editorVars
  PROVE  Kept'
<1>1. ASSUME Inputs \/ UNCHANGED editorVars PROVE Kept'
  BY <1>1, InputType, KeptStays DEF editorVars
<1>2. ASSUME Presses PROVE Kept'
  <2>1. PICK i \in Items, what \in Deeds : Act(i, what)
    BY <1>2, ButtonSends
  <2>2. Call("row", i, what).kind = "row"
    BY DEF Call
  <2> QED
    BY <2>1, <2>2, KeptStays DEF Act, history
<1>3. ASSUME LoadAgain PROVE Kept'
  BY <1>3, KeptStays, LoadThen DEF LoadAgain, history
<1>4. ASSUME NEW l \in loads, ServeLoad(l) PROVE Kept'
  <2>1. PICK a : loads' = (loads \ {l}) \cup {[l EXCEPT !.answer = a]}
    BY <1>4 DEF ServeLoad
  <2>2. [l EXCEPT !.answer = a].then = l.then
    BY DEF Safe, EditorTypeOK, LoadTypes
  <2> QED
    BY <1>4, <2>1, <2>2, KeptStays DEF ServeLoad, history
<1>5. ASSUME NEW c \in calls, TakeAct(c) PROVE Kept'
  <2>1. \A l \in loads' : l.then = "save" => \E k \in loads : k.then = "save"
    <3>1. UNCHANGED loads \/ \E then \in {"row", "rest"} : Load(then)
      BY <1>5 DEF TakeAct
    <3> QED
      BY <3>1, LoadThen
  <2> QED
    BY <1>5, <2>1, KeptStays DEF TakeAct, history
<1>6. ASSUME NEW i \in Items, OtherWriter(i) PROVE Kept'
  BY <1>6, BesideIs, KeptStays
<1> QED
  BY <1>1, <1>2, <1>3, <1>4, <1>5, <1>6, NextIs, TypeKept, SubmitKept, TakeLoadKept,
     TakeSaveKept, ServerKept

--------------------------------------------------------------------------------
(* An entry is saved once.                                                 *)

Single == EntriesAreUsed /\ OnePlace

LEMMA UsedType ==
  ASSUME EditorTypeOK
  PROVE  None \notin Entries /\ Old \notin Entries /\ Done \notin Entries
         /\ typed \subseteq Entries
BY ConstantsAssumption DEF EditorTypeOK

\* The form is left alone or emptied, and no save is sent or answered.
LEMMA SingleStays ==
  ASSUME Safe, Single, form'.entry \in {None, form.entry}, Saves' = Saves,
         UNCHANGED <<page, stored, typed, unsure>>, page = "wallets" => submitting' = submitting
  PROVE  Single'
<1>1. EntriesAreUsed'
  BY DEF Single, EntriesAreUsed, Used
<1>2. None \notin Entries
  BY ConstantsAssumption
<1>3. \A c \in Saves : c.what \in Entries
  BY DEF Saves, Safe, EditorTypeOK, SaveCalls, RowCalls
<1>4. OnePlace'
  BY <1>2, <1>3 DEF Single, OnePlace
<1> QED
  BY <1>1, <1>4 DEF Single

LEMMA SaveTypes ==
  ASSUME Safe
  PROVE  /\ \A c \in Saves : c \in SaveCalls /\ c.what \in Entries
         /\ None \notin Entries /\ Old \notin Entries /\ Done \notin Entries
         /\ typed \subseteq Entries /\ form.entry \in Entries \cup {None}
<1>1. \A c \in Saves : c \in SaveCalls
  BY DEF Saves, Safe, EditorTypeOK, SaveCalls, RowCalls
<1> QED
  BY <1>1, ConstantsAssumption DEF SaveCalls, Safe, EditorTypeOK, Forms

LEMMA TypeSingle ==
  ASSUME Safe, Single, Type
  PROVE  Single'
<1>1. /\ UNCHANGED <<page, stored, calls, submitting, unsure>> /\ typed' = typed \cup {form'.entry}
      /\ form'.entry \in Entries \ typed
  BY TypedIsNew
<1>2. EntriesAreUsed'
  BY <1>1 DEF Single, EntriesAreUsed, Used, Saves
<1>3. /\ \A c \in Saves : form'.entry # c.what
      /\ \A i \in Items : stored[i] # form'.entry
  BY <1>1, SaveTypes DEF Single, EntriesAreUsed, Used
<1>4. OnePlace'
  BY <1>1, <1>3 DEF Single, OnePlace, Saves
<1> QED
  BY <1>2, <1>4 DEF Single

LEMMA SubmitSingle ==
  ASSUME Safe, Single, Submit \/ ExecuteTransfer
  PROVE  Single'
<1>1. PICK r \in Items \cup {None} :
        IF page \in Inline THEN LeaveDocument(calls \cup {Call("save", r, form.entry)})
        ELSE Send(calls \cup {Call("save", r, form.entry)})
  BY SubmitSends
<1> DEFINE c == Call("save", r, form.entry)
<1>2. c.what = form.entry /\ c.answer = None /\ c.kind = "save" /\ form.entry \in Entries
  BY SubmitSends DEF Call
<1>3. UNCHANGED <<page, stored, typed, unsure>>
  BY SubmitSends DEF history
<1>4. form.entry \in typed
  BY <1>2, SaveTypes DEF Single, EntriesAreUsed
<1>5. CASE page \in Inline
  <2>1. form'.entry = None
    BY <1>1, <1>5 DEF LeaveDocument, Blank
  <2>2. calls' = Orphaned(calls \cup {c})
    BY <1>1, <1>5 DEF LeaveDocument
  <2>3. page # "wallets"
    BY <1>5 DEF Inline, TagsForm, GoalsForm, FundsForm
  \* A save was already an orphan.
  <2>4. \A d \in Saves' : d \in Saves \/ (d.what = form.entry /\ d = [c EXCEPT !.orphan = TRUE])
    <3>1. ASSUME NEW b \in calls, NEW d, d = [b EXCEPT !.orphan = TRUE], d.kind = "save"
          PROVE  d \in Saves
      <4>1. CASE b \in RowCalls
        BY <3>1, <4>1 DEF RowCalls
      <4>2. CASE b \in SaveCalls
        <5>1. b \in Saves /\ b.orphan
          BY <1>5, <4>2 DEF Saves, SaveCalls, Safe, PageOf
        <5>2. b = d
          BY <3>1, <4>2, <5>1 DEF SaveCalls
        <5> QED
          BY <5>1, <5>2
      <4> QED
        BY <4>1, <4>2 DEF Safe, EditorTypeOK
    <3>2. [c EXCEPT !.orphan = TRUE].what = form.entry
      BY DEF Call
    <3> HIDE DEF c
    <3> QED
      BY <2>2, <3>1, <3>2 DEF Saves, Orphaned
  <2> HIDE DEF c
  <2>5. EntriesAreUsed'
    BY <1>3, <1>4, <2>1, <2>4 DEF Single, EntriesAreUsed, Used
  <2>6. \A d \in Saves : d.what # form.entry /\ d.answer # "ok"
    BY <1>5, ConstantsAssumption DEF Single, OnePlace, Once, Safe, PageOf, Saves
  <2>7. form.entry \notin unsure => \A i \in Items : stored[i] # form.entry
    BY <1>2, <1>5, <2>6 DEF Single, OnePlace, Once
  <2>8. \A d, b \in Saves' : d.what = b.what => d = b
    BY <1>5, <2>4, <2>6 DEF Single, OnePlace, Once
  <2>9. \A d \in Saves' : d.answer = None /\ d.what \notin unsure
                             => \A i \in Items : stored[i] # d.what
    BY <1>5, <2>4, <2>7 DEF Single, OnePlace, Once
  <2>10. (\A d \in Saves' : form'.entry # d.what) /\ form'.entry \notin Entries
    BY <1>2, <2>1, <2>4, SaveTypes
  <2>11. OnePlace'
    BY <1>3, <1>5, <2>3, <2>8, <2>9, <2>10 DEF Single, OnePlace, Once
  <2> QED
    BY <2>5, <2>11 DEF Single
<1>6. CASE page \notin Inline
  <2>1. UNCHANGED form /\ calls' = calls \cup {c} /\ submitting' = TRUE
    BY <1>1, <1>6 DEF Send
  <2> HIDE DEF c
  <2>2. Saves' = Saves \cup {c}
    BY <1>2, <2>1 DEF Saves
  <2>3. EntriesAreUsed'
    BY <1>2, <1>3, <1>4, <2>1, <2>2 DEF Single, EntriesAreUsed, Used
  <2>4. CASE page = "wallets"
    <3>1. ~submitting
      BY <2>4 DEF Submit, ExecuteTransfer, Submission, WalletsSubmit, Form
    <3>2. Saves = {}
      BY <2>4, <3>1 DEF Single, OnePlace, Once
    <3>3. form.entry \notin unsure => \A i \in Items : stored[i] # form.entry
      BY <1>2, <2>4, <3>2 DEF Single, OnePlace, Once
    <3>4. OnePlace'
      BY <1>2, <1>3, <1>6, <2>1, <2>2, <2>4, <3>2, <3>3 DEF Single, OnePlace, Once
    <3> QED
      BY <2>3, <3>4 DEF Single
  <2>5. CASE page # "wallets"
    BY <1>3, <1>6, <2>3, <2>5 DEF Single, OnePlace, Once
  <2> QED
    BY <2>4, <2>5
<1> QED
  BY <1>5, <1>6

LEMMA TakeSaveSingle ==
  ASSUME Safe, Single, NEW c \in calls, TakeSave(c)
  PROVE  Single'
<1>1. UNCHANGED <<page, stored, typed, unsure>> /\ Saves' = Saves \ {c}
  BY DEF TakeSave, Saves
<1>2. form'.entry \in {None, form.entry}
  BY TakeSaveForm
<1>3. EntriesAreUsed'
  BY <1>1, <1>2 DEF Single, EntriesAreUsed, Used
<1>4. CASE page = "wallets"
  <2>1. \A d \in Saves : d = c
    BY <1>4, AnsweredStays DEF Single, OnePlace, Once
  <2>2. Saves' = {}
    BY <1>1, <2>1
  <2>3. c.answer = "ok" => form'.entry = None
    BY <1>4 DEF TakeSave, AfterSuccess, Shut
  <2>4. form'.entry \in Entries \ unsure => \A i \in Items : stored[i] # form'.entry
    BY <1>2, <1>4, <2>1, <2>3, ConstantsAssumption DEF Single, OnePlace, Once
  <2>5. OnePlace'
    BY <1>1, <1>4, <2>2, <2>4 DEF Single, OnePlace, Once
  <2> QED
    BY <1>3, <2>5 DEF Single
<1>5. CASE page # "wallets"
  <2>1. page \notin Once
    BY <1>5, AnsweredStays DEF Once, Inline, TagsForm, GoalsForm, FundsForm
  <2> QED
    BY <1>1, <1>3, <2>1 DEF Single, OnePlace
<1> QED
  BY <1>4, <1>5

\* What the server's answer makes of the saves: each is itself, or the one that
\* was answered.
LEMMA AnsweredSaves ==
  ASSUME Safe, NEW c \in calls, NEW a \in {"ok", "lost", "no"}, Answered(c, a)
  PROVE  /\ \A d \in Saves' : \E b \in Saves :
              /\ b.what = d.what
              /\ \/ b = d /\ d # c
                 \/ b = c /\ ~c.orphan /\ d.answer = a /\ d = [c EXCEPT !.answer = a]
         /\ Saves \ {c} \subseteq Saves'
BY AnsweredIs DEF Saves

\* Distinct saves are about distinct entries, one at a time in the dialog.
LEMMA AnsweredApart ==
  ASSUME Safe, OnePlace, page \in Once, NEW c \in calls, NEW a \in {"ok", "lost", "no"},
         Answered(c, a)
  PROVE  /\ \A d, e \in Saves' : d.what = e.what => d = e
         /\ page = "wallets" => \A d, e \in Saves' : d = e /\ submitting
         /\ page \in Inline => \A d \in Saves' : form.entry # d.what
<1>1. \A d, e \in Saves : d.what = e.what => d = e
  BY DEF OnePlace
<1>2. \A d, e \in Saves' : d.what = e.what => d = e
  BY <1>1, AnsweredSaves
<1>3. ASSUME page = "wallets", NEW d \in Saves', NEW e \in Saves' PROVE d = e /\ submitting
  <2>1. \A x, y \in Saves : x = y /\ submitting
    BY <1>3 DEF OnePlace
  <2>2. d.what = e.what
    BY <2>1, AnsweredSaves
  <2>3. submitting
    BY <2>1, AnsweredSaves
  <2> QED
    BY <1>2, <2>2, <2>3
<1>4. page \in Inline => \A d \in Saves' : form.entry # d.what
  BY AnsweredSaves DEF OnePlace
<1> QED
  BY <1>2, <1>3, <1>4

LEMMA RefuseCallSingle ==
  ASSUME Safe, Single, NEW c \in calls, RefuseCall(c)
  PROVE  Single'
<1>1. /\ UNCHANGED <<page, stored, form, submitting, typed, unsure>> /\ c.answer = None
      /\ Answered(c, "no")
  BY DEF RefuseCall
<1>2. EntriesAreUsed'
  BY <1>1, AnsweredSaves DEF Single, EntriesAreUsed, Used
<1>3. CASE page \in Once
  <2>1. \A d \in Saves' : d.answer = None /\ d.what \notin unsure
                            => \A i \in Items : stored[i] # d.what
    BY <1>1, <1>3, AnsweredSaves, ConstantsAssumption DEF Single, OnePlace
  <2>2. form.entry \in Entries \ unsure /\ (\E i \in Items : stored[i] = form.entry)
          => \E d \in Saves' : d.what = form.entry /\ d.answer = "ok"
    BY <1>1, <1>3, AnsweredSaves, ConstantsAssumption DEF Single, OnePlace
  <2>3. OnePlace'
    BY <1>1, <1>3, <2>1, <2>2, AnsweredApart DEF Single, OnePlace
  <2> QED
    BY <1>2, <2>3 DEF Single
<1>4. CASE page \notin Once
  BY <1>1, <1>2, <1>4 DEF Single, OnePlace
<1> QED
  BY <1>3, <1>4

LEMMA ServeCallSingle ==
  ASSUME Safe, Single, NEW c \in calls, ServeCall(c)
  PROVE  Single'
<1>1. PICK a \in {"ok", "lost"} :
        /\ Answered(c, a)
        /\ unsure' = IF a = "lost" /\ c.kind = "save" THEN unsure \cup {c.what} ELSE unsure
  BY ServeCallIs
<1>2. PICK row : stored' = [stored EXCEPT ![row] = Wrote(c)]
  BY WrittenIn DEF ServeCall
<1>3. UNCHANGED <<page, form, submitting, typed>> /\ c.answer = None
  BY DEF ServeCall
<1>4. \A i \in Items : stored'[i] = IF i = row THEN Wrote(c) ELSE stored[i]
  BY <1>2 DEF Safe, EditorTypeOK
<1>5. /\ c.kind = "save" => c \in Saves /\ Wrote(c) = c.what /\ c.what \in typed
      /\ c.kind # "save" => c \notin Saves /\ Wrote(c) \in {Old, Done}
  BY DEF Single, EntriesAreUsed, Saves, Wrote
<1>6. EntriesAreUsed'
  BY <1>1, <1>3, <1>4, <1>5, AnsweredSaves DEF Single, EntriesAreUsed, Used
<1>7. CASE page \in Once
  <2>1. unsure \subseteq unsure'
    BY <1>1
  \* What is in a row was there, or is what was sent.
  <2>2. ASSUME NEW i \in Items, NEW e \in Entries, stored'[i] = e
        PROVE  stored[i] = e \/ (i = row /\ c \in Saves /\ c.what = e)
    BY <1>4, <1>5, <2>2, SaveTypes
  <2>3. c \in Saves /\ c.what \notin unsure' => \A i \in Items : stored[i] # c.what
    BY <1>3, <1>7, <2>1 DEF Single, OnePlace
  <2>4. ASSUME NEW d \in Saves', d.answer = None, d.what \notin unsure', NEW i \in Items,
               stored'[i] = d.what
        PROVE  FALSE
    <3>1. d \in Saves /\ d # c
      BY <1>1, <2>4, AnsweredSaves, ConstantsAssumption
    <3>2. stored[i] # d.what /\ d.what \in Entries
      BY <1>7, <2>1, <2>4, <3>1, SaveTypes DEF Single, OnePlace
    <3>3. c \in Saves /\ c.what = d.what
      BY <2>2, <2>4, <3>2
    <3> QED
      BY <1>7, <3>1, <3>3 DEF Single, OnePlace
  <2>5. ASSUME form.entry \in Entries \ unsure', NEW i \in Items, stored'[i] = form.entry
        PROVE  \E d \in Saves' : d.what = form.entry /\ d.answer = "ok"
    <3>1. CASE stored[i] = form.entry
      BY <1>1, <1>3, <1>7, <2>1, <2>5, <3>1, AnsweredSaves, ConstantsAssumption
         DEF Single, OnePlace
    <3>2. CASE stored[i] # form.entry
      <4>1. c \in Saves /\ c.what = form.entry
        BY <2>2, <2>5, <3>2
      <4>2. a = "ok"
        BY <1>1, <2>5, <4>1 DEF Saves
      <4>3. ~c.orphan
        BY <1>7, <4>1 DEF Single, OnePlace, Safe, PageOf
      <4>4. PICK d \in calls' : d.kind = c.kind /\ d.what = c.what /\ d.answer = a
        BY <1>1, <4>3, AnsweredIs
      <4> QED
        BY <4>1, <4>2, <4>4 DEF Saves
    <3> QED
      BY <3>1, <3>2
  <2>6. ASSUME NEW i \in Items, NEW j \in Items, stored'[i] = stored'[j],
               stored'[i] \in Entries \ unsure'
        PROVE  i = j
    BY <1>4, <1>7, <2>1, <2>2, <2>3, <2>6 DEF Single, OnePlace
  <2>7. OnePlace'
    BY <1>1, <1>3, <1>7, <2>4, <2>5, <2>6, AnsweredApart DEF Single, OnePlace
  <2> QED
    BY <1>6, <2>7 DEF Single
<1>8. CASE page \notin Once
  BY <1>3, <1>6, <1>8 DEF Single, OnePlace
<1> QED
  BY <1>7, <1>8

\* Another writer takes an entry out of its row at most.
LEMMA BesideSingle ==
  ASSUME Safe, Single, NEW r \in Items, OtherWriter(r)
  PROVE  Single'
<1>1. PICK w \in {Old, Done} : stored' = [stored EXCEPT ![r] = w]
  BY BesideIs
<1>2. \A i \in Items : stored'[i] = IF i = r THEN w ELSE stored[i]
  BY <1>1 DEF Safe, EditorTypeOK
<1>3. UNCHANGED <<page, form, submitting, typed, unsure>> /\ Saves' = Saves
  BY BesideIs DEF Saves
<1>4. EntriesAreUsed'
  BY <1>2, <1>3 DEF Single, EntriesAreUsed, Used
<1>5. \A i \in Items : stored'[i] \in Entries => stored[i] = stored'[i]
  BY <1>2, SaveTypes
<1>6. \A c \in Saves : c.what \in Entries
  BY SaveTypes
<1>7. OnePlace'
  BY <1>3, <1>5, <1>6 DEF Single, OnePlace
<1> QED
  BY <1>4, <1>7 DEF Single

LEMMA SingleStep ==
  ASSUME Safe, Single, [EditorNext]_editorVars
  PROVE  Single'
<1>1. ASSUME Inputs \/ UNCHANGED editorVars PROVE Single'
  BY <1>1, InputType, SingleStays DEF editorVars, Saves
<1>2. ASSUME Presses PROVE Single'
  <2>1. PICK i \in Items, what \in Deeds : Act(i, what)
    BY <1>2, ButtonSends
  <2>2. Call("row", i, what).kind = "row"
    BY DEF Call
  <2>3. Saves' = Saves
    BY <2>1, <2>2 DEF Act, Saves
  <2> QED
    BY <2>1, <2>3, SingleStays DEF Act, history
<1>3. ASSUME LoadAgain PROVE Single'
  BY <1>3, SingleStays DEF LoadAgain, history, Saves
<1>4. ASSUME NEW l \in loads, ServeLoad(l) PROVE Single'
  BY <1>4, SingleStays DEF ServeLoad, history, Saves
<1>5. ASSUME NEW l \in loads, TakeLoad(l) PROVE Single'
  <2>1. form'.entry \in {None, form.entry}
    BY <1>5 DEF TakeLoad, AfterWait, Shut
  <2>2. page = "wallets" => submitting' = submitting
    BY <1>5 DEF TakeLoad, AfterWait, Safe, EditorTypeOK, PageOf
  <2> QED
    BY <1>5, <2>1, <2>2, SingleStays DEF TakeLoad, Saves
<1>6. ASSUME NEW c \in calls, TakeAct(c) PROVE Single'
  <2>1. Saves' = Saves
    BY <1>6 DEF TakeAct, Saves
  <2> QED
    BY <1>6, <2>1, SingleStays DEF TakeAct, history
<1> QED
  BY <1>1, <1>2, <1>3, <1>4, <1>5, <1>6, NextIs, TypeSingle, SubmitSingle,
     TakeSaveSingle, RefuseCallSingle, ServeCallSingle, BesideSingle

--------------------------------------------------------------------------------
(* The theorems.                                                           *)

EditorIInv == Safe /\ LoadsAreCurrent /\ Kept /\ Single

LEMMA IInvInit == EditorInit => EditorIInv
<1> SUFFICES ASSUME EditorInit PROVE EditorIInv
  OBVIOUS
<1>1. LoadsAreCurrent
  BY DEF EditorInit, LoadsAreCurrent, FirstLoad
<1>2. Kept
  BY DEF EditorInit, Kept, FormIsSent, RefusedEntryIsKept, Saves, FirstLoad
<1>3. form.entry = None /\ Saves = {} /\ typed = {}
  BY DEF EditorInit, Blank, Shut, Saves
<1>4. \A i \in Items : stored[i] \in {Old, None}
  BY DEF EditorInit
<1>5. EntriesAreUsed
  BY <1>3, <1>4 DEF EntriesAreUsed, Used
<1>6. OnePlace
  BY <1>3, <1>4, ConstantsAssumption DEF OnePlace
<1> QED
  BY <1>1, <1>2, <1>5, <1>6, SafeInit DEF EditorIInv, Single

\* The inductive invariant always holds on each of the nine pages: the first
\* load has it, and every step of the user, the calls and the loads keeps it.
THEOREM EditorInductive == EditorSpec => []EditorIInv
<1>1. EditorIInv /\ [EditorNext]_editorVars => EditorIInv'
  BY SafeStep, CurrentStep, KeptStep, SingleStep DEF EditorIInv
<1> QED
  BY <1>1, IInvInit, PTL DEF EditorSpec

\* Every part has its type: the form, the list, the calls and the loads.
THEOREM EditorTypeCorrect == EditorSpec => []EditorTypeOK
BY EditorInductive, PTL DEF EditorIInv, Safe

\* A refused save keeps the entry in the form: only what was typed while an
\* earlier save was under way is lost, and on the category dialog and the inline
\* cards what was refused.
THEOREM RefusedEntryIsKeptCorrect == EditorSpec => []RefusedEntryIsKept
BY EditorInductive, PTL DEF EditorIInv, Kept

\* Double submit: on the wallets page and the inline cards, whose form is blocked
\* or emptied while it is sent, one entry never makes two items of the server,
\* unless its answer was lost.
THEOREM EntryIsSavedOnceCorrect == EditorSpec => []EntryIsSavedOnce
<1>1. EditorIInv => EntryIsSavedOnce
  <2> SUFFICES ASSUME EditorIInv, page \in Once, NEW e \in Entries \ unsure
               PROVE  Cardinality({i \in Items : stored[i] = e}) <= 1
    BY DEF EntryIsSavedOnce, Once
  <2> DEFINE held == {i \in Items : stored[i] = e}
  <2>1. \A i, j \in held : i = j
    BY DEF EditorIInv, Single, OnePlace
  <2>2. CASE held = {}
    BY <2>2, FS_EmptySet
  <2>3. CASE held # {}
    <3>1. PICK i \in held : TRUE
      BY <2>3
    <3>2. held = {i}
      BY <2>1
    <3> QED
      BY <3>2, FS_Singleton
  <2> QED
    BY <2>2, <2>3
<1> QED
  BY <1>1, EditorInductive, PTL

\* With no call and no load under way the list is what the server has, unless
\* loads crossed, one failed, the answer of a change was lost, or another writer
\* changed a row that no load under way will bring.
THEOREM ListIsCurrentCorrect == EditorSpec => []ListIsCurrent
<1>1. EditorIInv => ListIsCurrent
  BY DEF EditorIInv, LoadsAreCurrent, ListIsCurrent, Untold
<1> QED
  BY <1>1, EditorInductive, PTL
================================================================================
