----------------------------- MODULE BudgetsPage -----------------------------
(***************************************************************************)
(* The page of the monthly budgets (app/(dashboard)/budgets/page.tsx with  *)
(* BudgetsView, the month picker and the review dialog) in one browser:    *)
(* one SWR key per month, the dialogs that set an allocation and shift     *)
(* funds, and copying the previous month.  Other devices plan, and spend,  *)
(* meanwhile.                                                              *)
(*                                                                         *)
(* While the figures of a month have not come yet, SWR goes on showing     *)
(* those of the month before (keepPreviousData); the buttons stay.  The    *)
(* picker is out of reach under a dialog, the browser's Back is not.       *)
(*                                                                         *)
(* The page counts approved spending, that of subcategories included; the  *)
(* check of a shift counts any spending of the category itself.            *)
(***************************************************************************)
EXTENDS Browser, BudgetPlans, FiniteSets

CONSTANTS
  Months,       \* numbered, so that the previous month of m is m - 1
  ThisMonth,    \* the month of the browser's clock
  Start,        \* the plans when the page is opened
  Amounts,      \* what may be typed
  Changes,      \* what other devices do: subset of {"plan", "approve", "draft"}
  Places,       \* the months and categories they do it to
  Asked,        \* a fetch that has not been answered
  ErrorRetries  \* SWR's errorRetryCount

\* Faults is a subset of {"read", "write", "lost"}.

ASSUME PageAssumption ==
  /\ Months \subseteq Nat /\ ThisMonth \in Months
  /\ Start \in [Months -> Plan]
  /\ Amounts \subseteq Nat /\ Places \subseteq Months \X Categories
  /\ None \notin Int /\ None \notin Categories
  /\ Asked # None /\ ErrorRetries \in Nat

\* The figures of a month, and a fetch of them.
Readings == [plan : Plan, spent : [Categories -> Nat]]
Fetches == [by : Nat, answer : {Asked} \cup Readings]

ASSUME NoneAssumption == None \notin Readings /\ None \notin Fetches

VARIABLES
  plans,     \* the server: the plan of each month
  seen,      \* the ledger, as the page adds it up: month -> category -> amount
  charged,   \* the ledger, as the check of a shift adds it up
  period,    \* the month in the address
  cache,     \* SWR's data of each month, or None
  laggy,     \* what was shown last, or None
  fetch,     \* for each month None or [by, answer]
  failures,  \* for each month how many fetches have failed in a row
  set,       \* None, or the dialog that sets an allocation
  shift,     \* None, or the dialogs that shift funds
  busy,      \* the kinds of writing whose flag is up
  ops,       \* writing calls under way
  behind     \* history: months that may have changed since they were last read

server == <<plans, seen, charged>>
swr == <<cache, laggy, fetch, failures>>
dialogs == <<set, shift>>
vars == <<server, period, swr, dialogs, busy, ops, behind, events>>

Kinds == {"set", "shift", "copy"}

-----------------------------------------------------------------------------
(* SWR.                                                                    *)

\* What useSWR returns, a month that has no figures yet included.
Shown == IF cache[period] # None THEN cache[period] ELSE laggy

\* A fetch begins.  It replaces one that is under way, whose answer is
\* discarded.
Begun(fs, m, by) == [fs EXCEPT ![m] = [by |-> by, answer |-> Asked]]

Idle(m) == fetch[m] = None

\* The key has changed, or the window has come back: a fetch, unless one is
\* under way or the last answer is less than two seconds old.
Revalidate(m) ==
  \/ /\ Idle(m)
     /\ fetch' = Begun(fetch, m, 0)
     /\ failures' = [failures EXCEPT ![m] = 0]
     /\ behind' = behind \ {m}
  \/ /\ Idle(m) => cache[m] # None /\ failures[m] = 0
     /\ UNCHANGED <<fetch, failures, behind>>

\* The month in the address changes.
Goto(m) ==
  /\ Event
  /\ m \in Months \ {period}
  /\ period' = m
  /\ laggy' = Shown
  /\ Revalidate(m)
  /\ UNCHANGED <<server, cache, dialogs, busy, ops>>

Focus ==
  /\ Event
  /\ Revalidate(period)
  /\ UNCHANGED <<server, period, cache, laggy, dialogs, busy, ops>>

\* mutate() without data: a fetch of the key the hook has by now, in any case.
Reload(by) ==
  /\ fetch' = Begun(fetch, period, by)
  /\ failures' = [failures EXCEPT ![period] = 0]

\* revalidateFinance, after a capture from the layout.
Captured ==
  /\ Event
  /\ Reload(0)
  /\ behind' = behind \ {period}
  /\ UNCHANGED <<server, period, cache, laggy, dialogs, busy, ops>>

Reading(m) == [plan |-> plans[m], spent |-> seen[m]]

\* The fetcher asks for the categories and for the month; no budget is an
\* empty one, not an error.
Answer(m) ==
  /\ ~Idle(m) /\ fetch[m].answer = Asked
  /\ \/ /\ fetch' = [fetch EXCEPT ![m].answer = Reading(m)]
        /\ UNCHANGED <<failures, behind, events>>
     \/ /\ "read" \in Faults /\ Event
        /\ fetch' = [fetch EXCEPT ![m] = None]
        /\ failures' = [failures EXCEPT ![m] = @ + 1]
        /\ behind' = behind \cup {m}
  /\ UNCHANGED <<server, period, cache, laggy, dialogs, busy, ops>>

Take(m) ==
  /\ ~Idle(m) /\ fetch[m].answer # Asked
  /\ cache' = [cache EXCEPT ![m] = fetch[m].answer]
  /\ fetch' = [fetch EXCEPT ![m] = None]
  /\ failures' = [failures EXCEPT ![m] = 0]
  /\ UNCHANGED <<server, period, laggy, dialogs, busy, ops, behind, events>>

\* The timer after a failed fetch, for the month that is in the address.
Retry ==
  /\ Idle(period)
  /\ failures[period] \in 1 .. ErrorRetries
  /\ fetch' = Begun(fetch, period, 0)
  /\ behind' = behind \ {period}
  /\ UNCHANGED <<server, period, cache, laggy, failures, dialogs, busy, ops, events>>

-----------------------------------------------------------------------------
(* What the page makes of the figures.                                     *)

\* No figures count as no budget.
Allocated(c) == IF Shown = None THEN None ELSE Shown.plan[c]
Spent(c) == IF Allocated(c) = None THEN 0 ELSE Shown.spent[c]
Remaining(c) == OrZero(Allocated(c)) - Spent(c)

IsEmpty == \A c \in Categories : Allocated(c) = None

\* The first fetch of the month; the figures of another month may be shown.
Loading == cache[period] = None /\ ~Idle(period)

\* The cards, under the tab that is chosen.
Tabs == {"ALL", "DEFICIT", "SAFE"}
Cards(tab) ==
  {c \in Categories :
     /\ ~IsEmpty
     /\ tab = "DEFICIT" => Remaining(c) < 0
     /\ tab = "SAFE" => Remaining(c) >= 0 /\ OrZero(Allocated(c)) > 0}

\* A donor keeps 1 of what the page says it has left.
Donors(target) ==
  {c \in Categories \ {target} : Allocated(c) # None /\ Remaining(c) >= 2}

\* Wrong: all of the rest can be shifted.
MaximumShiftAll(c) == Remaining(c)
MaximumShift(c) == Remaining(c) - 1

ShiftIsValid(s) ==
  /\ s.donor # None /\ s.amount # None
  /\ s.amount > 0
  /\ MaximumShift(s.donor) >= 1
  /\ s.amount <= MaximumShift(s.donor)

-----------------------------------------------------------------------------
(* The month.                                                              *)

Uncovered == set = None /\ shift = None

\* The arrows of the picker.
Turn == Uncovered /\ \E m \in {period - 1, period + 1} : Goto(m)

\* The calendar of the picker.
Pick == Uncovered /\ \E m \in Months : Goto(m)

Today == Uncovered /\ Goto(ThisMonth)

\* The browser's Back and Forward change the month under an open dialog.
Back == ~Uncovered /\ \E m \in Months : Goto(m)

-----------------------------------------------------------------------------
(* Setting an allocation.                                                  *)

Local == UNCHANGED <<server, period, swr, busy, ops, behind>>
Opening == Event /\ Local
Typing == Local /\ UNCHANGED events

OpenSet ==
  /\ Uncovered
  /\ \E tab \in Tabs : \E c \in Cards(tab) :
       set' = [cat |-> c, amount |-> OrZero(Allocated(c)), typed |-> FALSE]
  /\ Opening /\ UNCHANGED shift

\* "Atur Alokasi Manual", when there is no budget.
OpenManual ==
  /\ Uncovered /\ IsEmpty /\ ~Loading
  /\ set' = [cat |-> None, amount |-> None, typed |-> FALSE]
  /\ Opening /\ UNCHANGED shift

\* The field is there until a category is chosen.
ChooseCategory ==
  /\ set # None /\ set.cat = None
  /\ \E c \in Categories : set' = [set EXCEPT !.cat = c]
  /\ Typing /\ UNCHANGED shift

TypeAmount ==
  /\ set # None
  /\ \E a \in Amounts : set' = [set EXCEPT !.amount = a, !.typed = TRUE]
  /\ Typing /\ UNCHANGED shift

\* Escape works while a save runs; an entry that differs from what is shown
\* is discarded only after the question.
CloseSet ==
  /\ set # None
  /\ set' = None
  /\ Typing /\ UNCHANGED shift

\* on: the figures a shift was confirmed on (history).
Sent(kind, call, on) ==
  /\ Event
  /\ ops' = ops \cup {[kind |-> kind, month |-> period, call |-> call, on |-> on,
                       stage |-> "sent", waits |-> period, n |-> events + 1]}
  /\ busy' = busy \cup {kind}
  /\ UNCHANGED <<server, period, swr, dialogs, behind>>

\* Ctrl+Enter submits while a save runs.
SubmitSet ==
  /\ set # None /\ set.cat # None /\ set.amount # None
  /\ Sent("set", [amounts |-> [c \in {set.cat} |-> set.amount]], None)

-----------------------------------------------------------------------------
(* Shifting funds.                                                         *)

\* A deficit is filled in as the amount, and some donor is chosen.
OpenShift ==
  /\ Uncovered
  /\ \E tab \in Tabs : \E c \in Cards(tab) :
       shift' = [stage |-> "form", target |-> c,
                 amount |-> IF Remaining(c) < 0 THEN 0 - Remaining(c) ELSE None,
                 donor |-> IF Donors(c) = {} THEN None
                           ELSE CHOOSE d \in Donors(c) : TRUE]
  /\ Opening /\ UNCHANGED set

ChooseDonor ==
  /\ shift # None /\ shift.stage = "form"
  /\ \E d \in Donors(shift.target) : shift' = [shift EXCEPT !.donor = d]
  /\ Typing /\ UNCHANGED set

TypeShift ==
  /\ shift # None /\ shift.stage = "form"
  /\ \E a \in Amounts : shift' = [shift EXCEPT !.amount = a]
  /\ Typing /\ UNCHANGED set

ReviewShift ==
  /\ shift # None /\ shift.stage = "form"
  /\ ShiftIsValid(shift)
  /\ shift' = [shift EXCEPT !.stage = "review"]
  /\ Typing /\ UNCHANGED set

\* Escape works in the review too while the shift runs.
CloseShift ==
  /\ shift # None
  /\ shift' = None
  /\ Typing /\ UNCHANGED set

\* The check is made again, against what is shown by now, and the shift is
\* for the month that is in the address by now.
ConfirmShift ==
  /\ shift # None /\ shift.stage = "review"
  /\ "shift" \notin busy
  /\ ShiftIsValid(shift)
  /\ Sent("shift", [source |-> shift.donor, target |-> shift.target,
                    amount |-> shift.amount], Shown)

-----------------------------------------------------------------------------
(* Copying the previous month.                                             *)

CopyPrevious ==
  /\ Uncovered /\ IsEmpty /\ ~Loading
  /\ "copy" \notin busy
  /\ Sent("copy", None, None)

-----------------------------------------------------------------------------
(* The calls, and what follows them.                                       *)

\* What the server asks of a call.
Accepts(o) ==
  CASE o.kind = "shift" ->
         /\ plans[o.month][o.call.source] # None
         /\ plans[o.month][o.call.source] - charged[o.month][o.call.source]
              - o.call.amount >= 1
    [] o.kind = "copy" ->
         o.month - 1 \in Months /\ plans[o.month - 1] # Empty
    [] OTHER -> TRUE

Effect(o) ==
  LET plan == plans[o.month] IN
  CASE o.kind = "shift" -> Shifted(plan, o.call)
    [] o.kind = "copy" -> Copied(plan, plans[o.month - 1])
    [] OTHER -> Upserted(plan, o.call)

Staged(o, stage) == ops' = (ops \ {o}) \cup {[o EXCEPT !.stage = stage]}

Serve(o) ==
  /\ o.stage = "sent"
  /\ \/ /\ Accepts(o)
        /\ plans' = [plans EXCEPT ![o.month] = Effect(o)]
        /\ \/ Staged(o, "ok") /\ UNCHANGED behind
           \/ /\ "lost" \in Faults
              /\ Staged(o, "failed")
              /\ behind' = behind \cup {o.month}
     \/ /\ ~Accepts(o) \/ "write" \in Faults
        /\ Staged(o, "failed")
        /\ UNCHANGED <<plans, behind>>
  /\ UNCHANGED <<seen, charged, period, swr, dialogs, busy, events>>

\* Wrong: the page is not loaded again.
ReloadNothing(o) == UNCHANGED <<fetch, failures>>
ReloadAfter(o) == Reload(o.n)

\* A success loads the month that is in the address again, which need not be
\* the one that was written.
Loads(o) ==
  /\ o.stage = "ok"
  /\ ops' = (ops \ {o}) \cup {[o EXCEPT !.stage = "loading", !.waits = period]}
  /\ ReloadAfter(o)
  /\ behind' = (behind \ {period}) \cup ({o.month} \ {period})
  /\ UNCHANGED <<server, period, cache, laggy, dialogs, busy, events>>

\* The fetch the page waits for has been answered, has failed, or has been
\* replaced.
Loaded(o) ==
  o.stage = "loading" /\ (fetch[o.waits] # None => fetch[o.waits].by # o.n)

Lowered(o) == busy \ {o.kind}

\* Wrong: the dialog closes after a failure too.
ClosedAnyway(o) == o.kind = "set"
\* The dialog of a set allocation closes when the save has succeeded.
Closes(o) == o.kind = "set" /\ Loaded(o)

\* A success closes the dialog, a failure leaves it, with its entry.
End(o) ==
  /\ o.stage = "failed" \/ Loaded(o)
  /\ ops' = ops \ {o}
  /\ busy' = Lowered(o)
  /\ set' = IF Closes(o) THEN None ELSE set
  /\ shift' = IF o.kind = "shift" /\ Loaded(o) /\ shift # None
                 /\ shift.stage = "review"
              THEN None ELSE shift
  /\ UNCHANGED <<server, period, swr, behind, events>>

-----------------------------------------------------------------------------
(* Elsewhere, and the specification.                                       *)

Add(ledger, m, c) == [ledger EXCEPT ![m][c] = @ + 1]

\* Another device sets an allocation, approves an expense of a subcategory, or
\* a draft comes in, which only the check of a shift counts.
Elsewhere(m, c) ==
  /\ Event
  /\ behind' = behind \cup {m}
  /\ \/ /\ "plan" \in Changes
        /\ \E a \in Amounts : plans' = [plans EXCEPT ![m][c] = a]
        /\ UNCHANGED <<seen, charged>>
     \/ /\ "approve" \in Changes
        /\ seen' = Add(seen, m, c)
        /\ UNCHANGED <<plans, charged>>
     \/ /\ "draft" \in Changes
        /\ charged' = Add(charged, m, c)
        /\ UNCHANGED <<plans, seen>>
  /\ UNCHANGED <<period, swr, dialogs, busy, ops>>

\* The page is opened on some month and asks for it.
Init ==
  /\ plans = Start
  /\ seen = [m \in Months |-> [c \in Categories |-> 0]]
  /\ charged = seen
  /\ period \in Months
  /\ cache = [m \in Months |-> None]
  /\ laggy = None
  /\ fetch = [m \in Months |->
                IF m = period THEN [by |-> 0, answer |-> Asked] ELSE None]
  /\ failures = [m \in Months |-> 0]
  /\ set = None /\ shift = None
  /\ busy = {} /\ ops = {}
  /\ behind = Months \ {period}
  /\ events = 0

Fetching == Retry \/ \E m \in Months : Answer(m) \/ Take(m)
Requests == \E o \in ops : Serve(o) \/ Loads(o) \/ End(o)
Moving == Turn \/ Pick \/ Today \/ Back \/ Focus \/ Captured
Setting == OpenSet \/ OpenManual \/ ChooseCategory \/ TypeAmount \/ CloseSet
             \/ SubmitSet
Shifting == OpenShift \/ ChooseDonor \/ TypeShift \/ ReviewShift \/ CloseShift
              \/ ConfirmShift

Next ==
  \/ Fetching \/ Requests
  \/ Moving \/ Setting \/ Shifting \/ CopyPrevious
  \/ \E mc \in Places : Elsewhere(mc[1], mc[2])

Spec == Init /\ [][Next]_vars

-----------------------------------------------------------------------------
(* Properties.                                                             *)

\* What the page shows is what the server has, for the month in the address:
\* once nothing is under way for it, and unless another device has changed it
\* since it was last read, a read failed, the answer to a save was lost, or a
\* save for it ended while another month was in the address.
Quiet == Idle(period) /\ \A o \in ops : o.month # period
MonthIsCurrent == Quiet => Shown = Reading(period) \/ period \in behind

\* A shift that was confirmed on figures that still hold leaves its donor at
\* least 1 by the count of the page, spending of subcategories included, which
\* the server's check does not see (BudgetsView.tsx: the source must keep Rp1
\* after the shift).
ShiftLeavesDonor ==
  [][\A o \in ops :
       /\ o.kind = "shift" /\ o.stage = "sent" /\ plans' # plans /\ o \notin ops'
       /\ o.on = Reading(o.month)
       => plans'[o.month][o.call.source] - seen[o.month][o.call.source] >= 1]_vars

\* What has been typed into the allocation dialog only changes by the owner's
\* hand or with the end of a save that succeeded: not by a failed save, and not
\* by figures that come in meanwhile.
EntryIsKept ==
  [][set # None /\ set.typed /\ set' # set =>
       \/ UNCHANGED <<server, swr, ops>>
       \/ \E o \in ops \ ops' : o.kind = "set" /\ Loaded(o)]_vars
=============================================================================
