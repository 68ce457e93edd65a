----------------------------- MODULE RecurringRun -----------------------------
(***************************************************************************)
(* Recurring rules: creating, editing and deleting them, and the run that  *)
(* books a transaction for every rule that is due                          *)
(* (httpserver/extended_resources.go, handleCreateRecurringRule to         *)
(* handleRunRecurring).                                                    *)
(*                                                                         *)
(* A run is one SQL statement.  It sees the rules that are due when it     *)
(* starts, locks them one after the other, skips those that are locked,    *)
(* and looks again at those that have changed since.  Its transactions and *)
(* the new dates of the rules appear together when it commits.             *)
(*                                                                         *)
(* An edit computes the next run in Go, before its statement has the lock  *)
(* on the rule.                                                            *)
(***************************************************************************)
EXTENDS RecurringSchedule, FiniteSets

CONSTANTS
  Rules,
  Runs,       \* calls of the run endpoint, one after the other
  Edits,      \* creations, edits and deletions, each made once
  Payloads,   \* what an edit may carry
  Moments,    \* instants at which the clock may stand
  Start,      \* the rules that exist before
  MaxFaults,  \* bound on the failures in the model
  None        \* no value

Status == {"active", "paused", "archived"}
Fields == [cron : Schedule \cup {None}, interval : Schedule \cup {None},
           next : Instants \cup {None}, status : Status \cup {None}]

\* entry is the edit that set the next run (history).
Rule == [schedule : Schedule, next : Int, status : Status, deleted : BOOLEAN,
         entry : Edits \cup {None}]

\* What the statement of an edit writes.
Draft == [rule : Rules, op : {"patch", "delete"}, schedule : Schedule \cup {None},
          next : Int \cup {None}, status : Status \cup {None}]

ASSUME PayloadsAssumption == Payloads \subseteq Fields
ASSUME MomentsAssumption == Moments \subseteq Instants /\ 0 \in Moments
ASSUME StartAssumption ==
  /\ Start \in [Rules -> Rule \cup {None}]
  /\ \A x \in Rules : Start[x] # None => Start[x].entry = None
ASSUME FaultsAssumption == MaxFaults \in Nat
ASSUME NoneAssumption ==
  None \notin Rule \cup Schedule \cup Int \cup Status \cup Runs \cup Edits
              \cup Fields \cup Rules \cup Draft
ASSUME ApartAssumption == Runs \cap Edits = {}

VARIABLES
  now,
  rules,    \* recurring_rules
  booked,   \* the transactions of the rules, with the date they are for (history)
  lock,     \* the statement that has each rule locked
  run,      \* step of each run
  at,       \* now() of its statement
  todo,     \* rules it has still to lock
  taken,    \* rules it has locked
  edit,     \* step of each edit
  draft,    \* what the edit will write
  faults

tables == <<rules, booked>>
runVars == <<run, at, todo, taken>>
editVars == <<edit, draft>>
vars == <<now, tables, lock, runVars, editVars, faults>>

Due(x, t) ==
  /\ rules[x] # None
  /\ ~rules[x].deleted /\ rules[x].status = "active" /\ rules[x].next <= t

Init ==
  /\ now = 0
  /\ rules = Start
  /\ booked = {}
  /\ lock = [x \in Rules |-> None]
  /\ run = [r \in Runs |-> "idle"]
  /\ at = [r \in Runs |-> 0]
  /\ todo = [r \in Runs |-> {}]
  /\ taken = [r \in Runs |-> {}]
  /\ edit = [e \in Edits |-> "new"]
  /\ draft = [e \in Edits |-> None]
  /\ faults = 0

\* Time passes.
Pass ==
  /\ \E t \in Moments : t > now /\ now' = t
  /\ UNCHANGED <<tables, lock, runVars, editVars, faults>>

\* Wrong: the locks stay.
UnlockNothing(p) == UNCHANGED lock
Unlock(p) == lock' = [x \in Rules |-> IF lock[x] = p THEN None ELSE lock[x]]

-----------------------------------------------------------------------------
(* handleRunRecurring.                                                     *)

Call(r) ==
  /\ run[r] = "idle"
  /\ run' = [run EXCEPT ![r] = "locking"]
  /\ at' = [at EXCEPT ![r] = now]
  /\ todo' = [todo EXCEPT ![r] = {x \in Rules : Due(x, now)}]
  /\ UNCHANGED <<now, tables, lock, taken, editVars, faults>>

\* Wrong: select without for update.
TakeUnlocked(r, x) ==
  /\ run[r] = "locking" /\ x \in todo[r]
  /\ todo' = [todo EXCEPT ![r] = @ \ {x}]
  /\ taken' = [taken EXCEPT ![r] = @ \cup {x}]
  /\ UNCHANGED <<now, tables, lock, run, at, editVars, faults>>
\* Wrong: skip locked without looking again at a rule that has changed.
TakeAsSeen(r, x) ==
  /\ run[r] = "locking" /\ x \in todo[r]
  /\ todo' = [todo EXCEPT ![r] = @ \ {x}]
  /\ IF lock[x] = None
     THEN /\ lock' = [lock EXCEPT ![x] = r]
          /\ taken' = [taken EXCEPT ![r] = @ \cup {x}]
     ELSE UNCHANGED <<lock, taken>>
  /\ UNCHANGED <<now, tables, run, at, editVars, faults>>
\* For update skip locked.
Take(r, x) ==
  /\ run[r] = "locking" /\ x \in todo[r]
  /\ todo' = [todo EXCEPT ![r] = @ \ {x}]
  /\ IF lock[x] = None /\ Due(x, at[r])
     THEN /\ lock' = [lock EXCEPT ![x] = r]
          /\ taken' = [taken EXCEPT ![r] = @ \cup {x}]
     ELSE UNCHANGED <<lock, taken>>
  /\ UNCHANGED <<now, tables, run, at, editVars, faults>>

Booking(r, x) ==
  [rule |-> x, entry |-> rules[x].entry, due |-> rules[x].next,
   at |-> at[r], by |-> r]

\* Wrong: the next run is counted from the date that was due.
AdvancedFromDue(r, x) ==
  [rules[x] EXCEPT !.next = SqlNext(rules[x].schedule, rules[x].next)]
Advanced(r, x) ==
  [rules[x] EXCEPT !.next = SqlNext(rules[x].schedule, at[r])]

EndRun(r) ==
  /\ run' = [run EXCEPT ![r] = "idle"]
  /\ todo' = [todo EXCEPT ![r] = {}]
  /\ taken' = [taken EXCEPT ![r] = {}]
  /\ Unlock(r)
  /\ at' = [at EXCEPT ![r] = 0]

\* Inserts the transactions and updates the rules.
Finish(r) ==
  /\ run[r] = "locking" /\ todo[r] = {}
  /\ booked' = booked \cup {Booking(r, x) : x \in taken[r]}
  /\ rules' = [x \in Rules |-> IF x \in taken[r] THEN Advanced(r, x) ELSE rules[x]]
  /\ EndRun(r)
  /\ UNCHANGED <<now, editVars, faults>>

\* The statement fails or its connection is lost.
Abort(r) ==
  /\ run[r] = "locking"
  /\ faults < MaxFaults
  /\ faults' = faults + 1
  /\ EndRun(r)
  /\ UNCHANGED <<now, tables, editVars>>

-----------------------------------------------------------------------------
(* The owner.                                                              *)

\* recurringCron: an expression goes before an interval.
ScheduleOf(p) == IF p.cron # None THEN p.cron ELSE p.interval

\* nextRunFromPayload: an interval goes before an expression.
FirstRun(p) ==
  IF p.next # None THEN p.next
  ELSE IF p.interval # None THEN GoNext(p.interval, now)
  ELSE GoNext(p.cron, now)

OrOld(value, old) == IF value # None THEN value ELSE old

\* What a payload makes the next run, or None if it leaves it alone.
NextOf(p) == IF p.next = None /\ ScheduleOf(p) = None THEN None ELSE FirstRun(p)

Goto(e, step) == edit' = [edit EXCEPT ![e] = step]
Forget(e) == Goto(e, "done") /\ draft' = [draft EXCEPT ![e] = None]

\* A request without any schedule cannot create a rule.
Create(e) ==
  /\ edit[e] = "new"
  /\ \E x \in Rules, p \in Payloads :
       /\ rules[x] = None
       /\ ScheduleOf(p) # None
       /\ rules' = [rules EXCEPT ![x] =
            [schedule |-> ScheduleOf(p), next |-> FirstRun(p),
             status |-> OrOld(p.status, "active"), deleted |-> FALSE, entry |-> e]]
  /\ Goto(e, "done")
  /\ UNCHANGED <<now, booked, lock, runVars, draft, faults>>

Patch(e) ==
  /\ edit[e] = "new"
  /\ \E x \in Rules, p \in Payloads :
       draft' = [draft EXCEPT ![e] =
         [rule |-> x, op |-> "patch", schedule |-> ScheduleOf(p),
          next |-> NextOf(p), status |-> p.status]]
  /\ Goto(e, "wait")
  /\ UNCHANGED <<now, tables, lock, runVars, faults>>

Delete(e) ==
  /\ edit[e] = "new"
  /\ \E x \in Rules :
       draft' = [draft EXCEPT ![e] =
         [rule |-> x, op |-> "delete", schedule |-> None, next |-> None,
          status |-> None]]
  /\ Goto(e, "wait")
  /\ UNCHANGED <<now, tables, lock, runVars, faults>>

Edited(x, e) ==
  LET d == draft[e] IN
  [rules[x] EXCEPT !.schedule = OrOld(d.schedule, @),
                   !.next = OrOld(d.next, @),
                   !.entry = IF d.next # None THEN e ELSE @,
                   !.status = OrOld(d.status, @),
                   !.deleted = @ \/ d.op = "delete"]

\* The statement waits for the lock on the rule; a deleted rule is not found.
Lock(e) ==
  LET x == draft[e].rule IN
  /\ edit[e] = "wait"
  /\ lock[x] = None
  /\ IF rules[x] = None \/ rules[x].deleted
     THEN Forget(e) /\ UNCHANGED lock
     ELSE /\ Goto(e, "write") /\ UNCHANGED draft
          /\ lock' = [lock EXCEPT ![x] = e]
  /\ UNCHANGED <<now, tables, runVars, faults>>

Write(e) ==
  /\ edit[e] = "write"
  /\ rules' = [rules EXCEPT ![draft[e].rule] = Edited(draft[e].rule, e)]
  /\ Forget(e)
  /\ Unlock(e)
  /\ UNCHANGED <<now, booked, runVars, faults>>

GiveUp(e) ==
  /\ edit[e] \in {"wait", "write"}
  /\ faults < MaxFaults
  /\ faults' = faults + 1
  /\ Forget(e)
  /\ Unlock(e)
  /\ UNCHANGED <<now, tables, runVars>>

-----------------------------------------------------------------------------
RunStep(r) == (\E x \in Rules : Take(r, x)) \/ Finish(r)
EditStep(e) == Lock(e) \/ Write(e)

Next ==
  \/ Pass
  \/ \E r \in Runs : Call(r) \/ RunStep(r) \/ Abort(r)
  \/ \E e \in Edits : Create(e) \/ Patch(e) \/ Delete(e) \/ EditStep(e) \/ GiveUp(e)

Spec == Init /\ [][Next]_vars
FairSpec ==
  /\ Spec
  /\ \A r \in Runs : WF_vars(RunStep(r))
  /\ \A e \in Edits : WF_vars(EditStep(e))

-----------------------------------------------------------------------------
(* Properties.                                                             *)

Bookings == [rule : Rules, entry : Edits \cup {None}, due : Int, at : Instants,
             by : Runs]

\* Type invariant: rows, locals and locks have their types, and a rule is
\* locked by exactly the run that has taken it or the edit that writes it.
TypeOK ==
  /\ now \in Instants
  /\ rules \in [Rules -> Rule \cup {None}]
  /\ booked \subseteq Bookings
  /\ run \in [Runs -> {"idle", "locking"}]
  /\ at \in [Runs -> Instants]
  /\ todo \in [Runs -> SUBSET Rules]
  /\ taken \in [Runs -> SUBSET Rules]
  /\ edit \in [Edits -> {"new", "wait", "write", "done"}]
  /\ draft \in [Edits -> Draft \cup {None}]
  /\ faults \in 0 .. MaxFaults
  /\ lock \in [Rules -> Runs \cup Edits \cup {None}]
  /\ \A x \in Rules :
       /\ \A r \in Runs : lock[x] = r <=> x \in taken[r]
       /\ \A e \in Edits : lock[x] = e <=> edit[e] = "write" /\ draft[e].rule = x

\* A date of a rule is booked once, however many runs meet on it, unless the
\* owner has entered it again (for update skip locked, and the new date in the
\* same statement as the transaction).
OncePerDate ==
  \A a, b \in booked :
    a.rule = b.rule /\ a.entry = b.entry /\ a.due = b.due => a = b

\* A run books only what is due at that moment: never for a rule that was
\* paused or deleted, or whose date was moved, since the run had seen it.
BooksWhatIsDue ==
  [][\A b \in booked' \ booked :
       /\ rules[b.rule] # None
       /\ rules[b.rule].status = "active" /\ ~rules[b.rule].deleted
       /\ rules[b.rule].next = b.due /\ b.due <= b.at /\ b.at <= now]_vars

\* A booked rule waits for the first date of its schedule after the run: it is
\* neither due again at once nor is a date left out (the SQL of next_runs).
GoesToFollowingDate ==
  [][\A b \in booked' \ booked :
       /\ rules'[b.rule].entry = b.entry
       /\ IsFollowing(rules'[b.rule].schedule, b.at, rules'[b.rule].next)]_vars

\* A due rule is booked, or the owner changes its state or date, as long as
\* the run endpoint keeps being called.
DueIsHandled ==
  []<>(\E r \in Runs : run[r] = "locking")
    => \A x \in Rules : Due(x, now) ~> ~Due(x, now)
=============================================================================
