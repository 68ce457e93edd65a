---------------------------- MODULE WebhookIngest ----------------------------
(***************************************************************************)
(* The transaction webhook of internal/httpserver/resources.go: shortcuts  *)
(* and scripts post transactions, an idempotency key keeps a repeated      *)
(* delivery from being booked twice, and a payload without the required    *)
(* fields goes to the dead-letter queue.                                   *)
(*                                                                         *)
(* There is no database transaction: every statement commits on its own,   *)
(* and deliveries run at the same time.  The unique constraint of          *)
(* webhook_events on (user_id, idempotency_text) decides which of them     *)
(* handles a key.                                                          *)
(***************************************************************************)
EXTENDS FiniteSets

CONSTANTS
  Requests,    \* deliveries to the endpoint
  Headers,     \* values of the Idempotency-Key header
  Bodies,      \* request bodies
  Kind,        \* what the body is
  None,        \* no value
  Faults       \* kinds of failure that may happen

Kinds == {"unreadable", "malformed", "incomplete", "refused", "complete"}
Keys == Headers \cup Bodies

\* The hash of a body stands for the body.
Delivery == [header : Headers \cup {None}, body : Bodies]
KeyOf(d) == IF d.header = None THEN d.body ELSE d.header

EventStatus == {"received", "processed", "duplicate", "failed"}
LetterStatus == {"open", "resolved", "ignored"}
Step == {"new", "insert", "conflict", "quarantine", "markFailed", "book",
         "markProcessed", "done"}
Answer == {"badRequest", "error", "duplicate", "deadLettered", "accepted"}

ASSUME KindAssumption == Kind \in [Bodies -> Kinds]
ASSUME NoneAssumption ==
  None \notin Headers \cup Bodies \cup Requests \cup LetterStatus \cup Answer
              \cup Delivery \cup [status : EventStatus, by : Requests]
ASSUME KeyAssumption == Headers \cap Bodies = {}

VARIABLES
  event,     \* webhook_events by key: status, and who inserted it (history)
  made,      \* deliveries whose transaction was inserted
  letter,    \* status of the dead letter of each delivery
  pc,        \* step of each delivery
  delivery,  \* what it carries
  answer     \* the HTTP answer its sender got

vars == <<event, made, letter, pc, delivery, answer>>

KeyFor(r) == KeyOf(delivery[r])
KindFor(r) == Kind[delivery[r].body]

Init ==
  /\ event = [k \in Keys |-> None]
  /\ made = {}
  /\ letter = [r \in Requests |-> None]
  /\ pc = [r \in Requests |-> "new"]
  /\ delivery = [r \in Requests |-> None]
  /\ answer = [r \in Requests |-> None]

Goto(r, step) == pc' = [pc EXCEPT ![r] = step]
Reply(r, status) ==
  /\ Goto(r, "done")
  /\ answer' = [answer EXCEPT ![r] = status]

\* A status update of the event; its error is ignored.
Mark(k, status) ==
  \/ event' = [event EXCEPT ![k].status = status]
  \/ "statement" \in Faults /\ UNCHANGED event

-----------------------------------------------------------------------------
(* handleTransactionWebhook.                                               *)

\* An empty or oversized body is refused at once.
Arrive(r) ==
  /\ pc[r] = "new"
  /\ \E d \in Delivery :
       /\ delivery' = [delivery EXCEPT ![r] = d]
       /\ IF Kind[d.body] = "unreadable"
          THEN Reply(r, "badRequest")
          ELSE Goto(r, "insert") /\ UNCHANGED answer
  /\ UNCHANGED <<event, made, letter>>

\* Wrong: on conflict do update, which returns the row and goes on.
InsertEventAgain(r) ==
  /\ pc[r] = "insert"
  /\ IF KindFor(r) = "malformed"
     THEN Reply(r, "error") /\ UNCHANGED event
     ELSE /\ event' = [event EXCEPT ![KeyFor(r)] =
                        [status |-> "received", by |-> r]]
          /\ Goto(r, IF KindFor(r) = "incomplete" THEN "quarantine" ELSE "book")
          /\ UNCHANGED answer
  /\ UNCHANGED <<made, letter, delivery>>
\* The payload column is jsonb and takes no malformed body.
InsertEvent(r) ==
  /\ pc[r] = "insert"
  /\ \/ /\ KindFor(r) = "malformed"
        /\ Reply(r, "error")
        /\ UNCHANGED event
     \/ /\ KindFor(r) # "malformed"
        /\ event[KeyFor(r)] = None
        /\ event' = [event EXCEPT ![KeyFor(r)] =
                      [status |-> "received", by |-> r]]
        /\ Goto(r, IF KindFor(r) = "incomplete" THEN "quarantine" ELSE "book")
        /\ UNCHANGED answer
     \/ /\ KindFor(r) # "malformed"
        /\ event[KeyFor(r)] # None
        /\ Goto(r, "conflict")
        /\ UNCHANGED <<event, answer>>
  /\ UNCHANGED <<made, letter, delivery>>

\* Whatever the status of the event was, it is overwritten, also when the
\* answer of the update is lost.
MarkDuplicate(r) ==
  /\ pc[r] = "conflict"
  /\ event' = [event EXCEPT ![KeyFor(r)].status = "duplicate"]
  /\ \/ Reply(r, "duplicate")
     \/ "statement" \in Faults /\ Reply(r, "error")
  /\ UNCHANGED <<made, letter, delivery>>

Quarantine(r) ==
  /\ pc[r] = "quarantine"
  /\ letter' = [letter EXCEPT ![r] = "open"]
  /\ Goto(r, "markFailed")
  /\ UNCHANGED <<event, made, delivery, answer>>

MarkFailed(r) ==
  /\ pc[r] = "markFailed"
  /\ Mark(KeyFor(r), "failed")
  /\ Reply(r, "deadLettered")
  /\ UNCHANGED <<made, letter, delivery>>

\* Wrong: marks the event before the transaction is made.
BookAfterMark(r) ==
  /\ pc[r] = "book"
  /\ event' = [event EXCEPT ![KeyFor(r)].status = "processed"]
  /\ IF KindFor(r) = "refused"
     THEN Reply(r, "error") /\ UNCHANGED made
     ELSE made' = made \cup {r} /\ Goto(r, "markProcessed") /\ UNCHANGED answer
  /\ UNCHANGED <<letter, delivery>>
\* The database refuses a transaction that breaks its constraints.
Book(r) ==
  /\ pc[r] = "book"
  /\ IF KindFor(r) = "refused"
     THEN Reply(r, "error") /\ UNCHANGED made
     ELSE made' = made \cup {r} /\ Goto(r, "markProcessed") /\ UNCHANGED answer
  /\ UNCHANGED <<event, letter, delivery>>

MarkProcessed(r) ==
  /\ pc[r] = "markProcessed"
  /\ Mark(KeyFor(r), "processed")
  /\ Reply(r, "accepted")
  /\ UNCHANGED <<made, letter, delivery>>

Handle(r) ==
  \/ InsertEvent(r) \/ MarkDuplicate(r)
  \/ Quarantine(r) \/ MarkFailed(r)
  \/ Book(r) \/ MarkProcessed(r)

\* A statement whose error is checked fails, or took effect and its answer is
\* lost: then the delivery has come to the next step.
Fail(r) ==
  /\ "statement" \in Faults
  /\ pc[r] \notin {"new", "done"}
  /\ Reply(r, "error")
  /\ UNCHANGED <<event, made, letter, delivery>>

\* The sender disconnects or the instance dies between two statements.
Vanish(r) ==
  /\ "gone" \in Faults
  /\ pc[r] \notin {"new", "done"}
  /\ Goto(r, "done")
  /\ UNCHANGED <<event, made, letter, delivery, answer>>

-----------------------------------------------------------------------------
(* The owner's buttons on the automation page.                             *)

RetryEvent(k) ==
  /\ event[k] # None
  /\ event' = [event EXCEPT ![k].status = "received"]
  /\ UNCHANGED <<made, letter, pc, delivery, answer>>

SetLetter(r, status) ==
  /\ letter[r] # None
  /\ letter' = [letter EXCEPT ![r] = status]
  /\ UNCHANGED <<event, made, pc, delivery, answer>>

RetryDeadLetter(r) == SetLetter(r, "open")
ResolveDeadLetter(r) == SetLetter(r, "resolved")
IgnoreDeadLetter(r) == SetLetter(r, "ignored")

Owner ==
  \/ \E k \in Keys : RetryEvent(k)
  \/ \E r \in Requests :
       RetryDeadLetter(r) \/ ResolveDeadLetter(r) \/ IgnoreDeadLetter(r)

Next ==
  \/ \E r \in Requests : Arrive(r) \/ Handle(r) \/ Fail(r) \/ Vanish(r)
  \/ Owner

Spec == Init /\ [][Next]_vars

-----------------------------------------------------------------------------
(* Properties.                                                             *)

\* Type invariant: the tables hold rows of their types, an event was inserted
\* by a delivery of its key, and an answered delivery does nothing more.
TypeOK ==
  /\ event \in [Keys -> [status : EventStatus, by : Requests] \cup {None}]
  /\ made \subseteq Requests
  /\ letter \in [Requests -> LetterStatus \cup {None}]
  /\ pc \in [Requests -> Step]
  /\ delivery \in [Requests -> Delivery \cup {None}]
  /\ answer \in [Requests -> Answer \cup {None}]
  /\ \A r \in Requests :
       /\ delivery[r] = None <=> pc[r] = "new"
       /\ answer[r] # None => pc[r] = "done"
  /\ \A k \in Keys : event[k] # None =>
       delivery[event[k].by] # None /\ KeyFor(event[k].by) = k

\* What the sender is told and what the events table says is true: an accepted
\* or processed key has its transaction, a dead-lettered or failed one its dead
\* letter, a duplicate was handled by another delivery, and a refused delivery
\* left nothing (handleTransactionWebhook around its separate statements).
OutcomeTold ==
  /\ \A r \in Requests :
       /\ answer[r] = "accepted" => r \in made
       /\ answer[r] = "deadLettered" => letter[r] # None
       /\ answer[r] = "duplicate" =>
            event[KeyFor(r)] # None /\ event[KeyFor(r)].by # r
       /\ answer[r] \in {"badRequest", "duplicate"} =>
            r \notin made /\ letter[r] = None
  /\ \A k \in Keys : event[k] # None =>
       /\ event[k].status = "processed" => event[k].by \in made
       /\ event[k].status = "failed" => letter[event[k].by] # None

\* The endpoint keeps the promise of an idempotency key: one delivery takes it
\* and decides once, whatever arrives, fails or is pressed meanwhile (on
\* conflict do nothing, and the buttons of the automation page).
Promise == INSTANCE Intake WITH
  Takers <- Requests, Nobody <- None,
  taker <- [k \in Keys |-> IF event[k] = None THEN None ELSE event[k].by],
  booked <- made,
  held <- {r \in Requests : letter[r] # None}
TakesEachKeyOnce == Promise!Spec
=============================================================================
