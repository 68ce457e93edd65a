------------------------- MODULE WebhookIngestProofs -------------------------
(***************************************************************************)
(* Theorems about WebhookIngest for every set of deliveries, keys and      *)
(* bodies and every kind of failure: the type invariant, that the answers  *)
(* and the events table tell the truth, and that the endpoint implements   *)
(* the promise of an idempotency key.                                      *)
(***************************************************************************)
EXTENDS WebhookIngest, TLAPS

Assumptions == KindAssumption /\ NoneAssumption /\ KeyAssumption

\* The steps before a delivery meets the events table, those of the delivery
\* that took its key, and those before the outcome.
Outside == {"new", "insert", "conflict"}
Inside == {"quarantine", "markFailed", "book", "markProcessed"}
Undecided == Outside \cup {"quarantine", "book"}

\* A delivery that works on a key has taken it, one that has not met the
\* table yet took none, and its outcome is written at exactly one step.
InOrder(r) ==
  /\ pc[r] \in Inside => event[KeyFor(r)] # None /\ event[KeyFor(r)].by = r
  /\ pc[r] \in Outside => \A k \in Keys : event[k] # None => event[k].by # r
  /\ pc[r] = "conflict" => event[KeyFor(r)] # None
  /\ pc[r] \in Undecided => r \notin made /\ letter[r] = None
  /\ pc[r] = "markFailed" => letter[r] # None
  /\ pc[r] = "markProcessed" => r \in made

IInv == TypeOK /\ OutcomeTold /\ \A r \in Requests : InOrder(r)

-----------------------------------------------------------------------------
(* Types.                                                                  *)

\* A delivery that has arrived has a key.
LEMMA KeyOfDelivery ==
  ASSUME NEW d \in Delivery PROVE KeyOf(d) \in Keys
  BY DEF Delivery, KeyOf, Keys

LEMMA KeyForArrived ==
  ASSUME TypeOK, NEW r \in Requests, pc[r] # "new"
  PROVE  delivery[r] \in Delivery /\ KeyFor(r) \in Keys
  BY KeyOfDelivery DEF TypeOK, KeyFor

\* The symbol for no value is none of the values it is compared with.
LEMMA NoneApart ==
  ASSUME NoneAssumption
  PROVE  /\ \A r \in Requests : r # None
         /\ \A s \in LetterStatus \cup Answer : s # None
         /\ \A d \in Delivery : d # None
         /\ \A s \in EventStatus, r \in Requests :
              [status |-> s, by |-> r] # None
  BY DEF NoneAssumption

\* What an update of the status changes.
LEMMA MarkChanges ==
  ASSUME TypeOK, NEW k \in Keys, event[k] # None, NEW s \in EventStatus,
         NoneAssumption,
         \/ event' = [event EXCEPT ![k].status = s]
         \/ UNCHANGED event
  PROVE  /\ event' \in [Keys -> [status : EventStatus, by : Requests] \cup {None}]
         /\ \A j \in Keys :
              /\ event'[j] = None <=> event[j] = None
              /\ event[j] # None =>
                   /\ event'[j].by = event[j].by
                   /\ event'[j].status = event[j].status
                        \/ (j = k /\ event'[j].status = s)
  <1>1. event[k] \in [status : EventStatus, by : Requests]
    BY DEF TypeOK
  <1>2. event \in [Keys -> [status : EventStatus, by : Requests] \cup {None}]
    BY DEF TypeOK
  <1>3. CASE event' = [event EXCEPT ![k].status = s]
    <2>1. event'[k] = [status |-> s, by |-> event[k].by]
      BY <1>1, <1>2, <1>3
    <2>2. event'[k] # None
      BY <1>1, <2>1, NoneApart
    <2>3. \A j \in Keys \ {k} : event'[j] = event[j]
      BY <1>2, <1>3
    <2>4. event' = [j \in Keys |-> IF j = k THEN [status |-> s, by |-> event[k].by]
                                   ELSE event[j]]
      BY <1>1, <1>2, <1>3
    <2> QED BY <1>1, <1>2, <2>1, <2>2, <2>3, <2>4
  <1>4. CASE UNCHANGED event
    BY <1>2, <1>4
  <1> QED BY <1>3, <1>4

LEMMA InitIInv ==
  ASSUME Assumptions, Init PROVE IInv
  <1>1. TypeOK
    BY DEF Init, TypeOK, Step
  <1>2. OutcomeTold
    BY DEF Init, OutcomeTold, Assumptions, NoneAssumption, Answer
  <1>3. \A r \in Requests : InOrder(r)
    BY DEF Init, InOrder, Outside, Inside, Undecided
  <1> QED BY <1>1, <1>2, <1>3 DEF IInv

-----------------------------------------------------------------------------
(* The statements of the handler.                                          *)

\* The locals of a step that leaves the tables alone and only ends a request.
LEMMA EndKeeps ==
  ASSUME Assumptions, IInv, NEW r \in Requests, pc[r] # "new",
         Goto(r, "done"),
         \/ UNCHANGED answer
         \/ answer' = [answer EXCEPT ![r] = "error"],
         UNCHANGED <<event, made, letter, delivery>>
  PROVE  IInv'
  <1>1. TypeOK'
    BY DEF IInv, TypeOK, Goto, Step, Answer, KeyFor
  <1>2. OutcomeTold'
    BY DEF IInv, TypeOK, OutcomeTold, Goto, KeyFor
  <1>3. \A q \in Requests : InOrder(q)'
    BY DEF IInv, TypeOK, InOrder, Goto, KeyFor, Outside, Inside, Undecided
  <1> QED BY <1>1, <1>2, <1>3 DEF IInv

LEMMA ArriveKeeps ==
  ASSUME Assumptions, IInv, NEW r \in Requests, Arrive(r)
  PROVE  IInv'
  <1> USE DEF Goto, Reply
  <1>1. PICK d \in Delivery : delivery' = [delivery EXCEPT ![r] = d]
    BY DEF Arrive
  <1>2. d # None
    BY NoneApart DEF Assumptions
  <1>3. pc[r] = "new" /\ UNCHANGED <<event, made, letter>>
    BY DEF Arrive
  <1>4. \/ /\ pc' = [pc EXCEPT ![r] = "done"]
           /\ answer' = [answer EXCEPT ![r] = "badRequest"]
        \/ /\ pc' = [pc EXCEPT ![r] = "insert"]
           /\ UNCHANGED answer
    BY DEF Arrive
  <1>5. \A k \in Keys : event[k] # None => event[k].by # r
    BY <1>3 DEF IInv, InOrder, Outside
  <1>6. TypeOK'
    BY <1>1, <1>2, <1>3, <1>4, <1>5 DEF IInv, TypeOK, Step, Answer, KeyFor
  <1>7. OutcomeTold'
    <2>1. answer[r] = None /\ "duplicate" # None
      BY <1>3, NoneApart DEF IInv, TypeOK, Assumptions, Answer
    <2> QED BY <1>1, <1>3, <1>4, <2>1 DEF IInv, TypeOK, OutcomeTold, InOrder,
                   KeyFor, Outside, Undecided
  <1>8. \A q \in Requests : InOrder(q)'
    BY <1>1, <1>3, <1>4
    DEF IInv, TypeOK, InOrder, KeyFor, Outside, Inside, Undecided
  <1> QED BY <1>6, <1>7, <1>8 DEF IInv

LEMMA InsertEventKeeps ==
  ASSUME Assumptions, IInv, NEW r \in Requests, InsertEvent(r)
  PROVE  IInv'
  <1>1. pc[r] = "insert" /\ UNCHANGED <<made, letter, delivery>>
    BY DEF InsertEvent
  <1>2. KeyFor(r) \in Keys /\ delivery[r] \in Delivery
    BY <1>1, KeyForArrived DEF IInv
  <1>3. CASE UNCHANGED event /\ Reply(r, "error")
    BY <1>1, <1>3, EndKeeps DEF Reply
  <1>4. CASE /\ event[KeyFor(r)] # None
             /\ Goto(r, "conflict")
             /\ UNCHANGED <<event, answer>>
    <2>1. TypeOK'
      BY <1>1, <1>4 DEF IInv, TypeOK, Goto, Step, KeyFor
    <2>2. OutcomeTold'
      BY <1>1, <1>4 DEF IInv, OutcomeTold, KeyFor
    <2>3. \A q \in Requests : InOrder(q)'
      BY <1>1, <1>4
      DEF IInv, TypeOK, InOrder, Goto, KeyFor, Outside, Inside, Undecided
    <2> QED BY <2>1, <2>2, <2>3 DEF IInv
  <1>5. CASE /\ event[KeyFor(r)] = None
             /\ event' = [event EXCEPT ![KeyFor(r)] =
                           [status |-> "received", by |-> r]]
             /\ UNCHANGED answer
             /\ \E step \in {"quarantine", "book"} : Goto(r, step)
    <2> DEFINE k == KeyFor(r)
    <2>1. /\ event'[k] = [status |-> "received", by |-> r]
          /\ event'[k] # None
          /\ \A j \in Keys \ {k} : event'[j] = event[j]
          /\ event' \in [Keys -> [status : EventStatus, by : Requests] \cup {None}]
      <3>1. [status |-> "received", by |-> r]
              \in [status : EventStatus, by : Requests]
        BY DEF EventStatus
      <3> QED BY <3>1, <1>2, <1>5, NoneApart DEF IInv, TypeOK, Assumptions,
                     EventStatus
    <2>2. PICK step \in {"quarantine", "book"} : pc' = [pc EXCEPT ![r] = step]
      BY <1>5 DEF Goto
    <2>3. event'[k].by = r /\ event'[k].status = "received"
      BY <2>1
    <2>4. delivery[r] # None
      BY <1>2, NoneApart DEF Assumptions
    <2>5. TypeOK'
      BY <1>1, <1>2, <1>5, <2>1, <2>2, <2>3, <2>4 DEF IInv, TypeOK, Step, KeyFor
    <2>6. OutcomeTold'
      BY <1>1, <1>2, <1>5, <2>1, <2>3 DEF IInv, TypeOK, OutcomeTold, KeyFor
    <2>7. \A q \in Requests : InOrder(q)'
      <3> SUFFICES ASSUME NEW q \in Requests PROVE InOrder(q)'
        OBVIOUS
      <3>1. InOrder(q)
        BY DEF IInv
      <3>2. pc' \in [Requests -> Step] /\ pc \in [Requests -> Step]
        BY <2>5 DEF IInv, TypeOK
      <3>3. CASE q = r
        BY <1>1, <2>1, <2>2, <2>3, <3>1, <3>2, <3>3
        DEF InOrder, KeyFor, Outside, Inside, Undecided
      <3>4. CASE q # r
        <4>1. pc'[q] = pc[q]
          BY <2>2, <3>2, <3>4
        <4>2. pc[q] # "new" => KeyFor(q) \in Keys
          BY KeyForArrived DEF IInv
        <4>3. KeyFor(q)' = KeyFor(q)
          BY <1>1 DEF KeyFor
        <4> QED BY <1>1, <1>5, <2>1, <2>3, <3>1, <3>4, <4>1, <4>2, <4>3 DEF
                       InOrder, Outside, Inside, Undecided
      <3> QED BY <3>3, <3>4
    <2> QED BY <2>5, <2>6, <2>7 DEF IInv
  <1> QED BY <1>3, <1>4, <1>5 DEF InsertEvent

\* The statements after the insert, which write the status of the key.
LEMMA MarkKeeps ==
  ASSUME Assumptions, IInv, NEW r \in Requests,
         NEW s \in EventStatus, NEW a \in Answer,
         \/ event' = [event EXCEPT ![KeyFor(r)].status = s]
         \/ UNCHANGED event,
         Reply(r, a), UNCHANGED <<made, letter, delivery>>,
         \/ pc[r] = "conflict" /\ s = "duplicate" /\ a \in {"duplicate", "error"}
         \/ pc[r] = "markFailed" /\ s = "failed" /\ a = "deadLettered"
         \/ pc[r] = "markProcessed" /\ s = "processed" /\ a = "accepted"
  PROVE  IInv'
  <1> DEFINE k == KeyFor(r)
  <1>1. k \in Keys
    BY KeyForArrived DEF IInv
  <1>2. InOrder(r) /\ event[k] # None
    BY DEF IInv, InOrder, Inside
  <1>3. /\ event' \in [Keys -> [status : EventStatus, by : Requests] \cup {None}]
        /\ \A j \in Keys :
             /\ event'[j] = None <=> event[j] = None
             /\ event[j] # None =>
                  /\ event'[j].by = event[j].by
                  /\ event'[j].status = event[j].status
                       \/ (j = k /\ event'[j].status = s)
    <2> HIDE DEF k
    <2> QED BY <1>1, <1>2, MarkChanges DEF IInv, Assumptions, k
  <1>4. /\ pc' = [pc EXCEPT ![r] = "done"]
        /\ answer' = [answer EXCEPT ![r] = a]
    BY DEF Reply, Goto
  <1>5. TypeOK'
    BY <1>3, <1>4 DEF IInv, TypeOK, Step, Answer, KeyFor
  <1>6. \A q \in Requests : InOrder(q)'
    <2> SUFFICES ASSUME NEW q \in Requests PROVE InOrder(q)'
      OBVIOUS
    <2>1. InOrder(q) /\ KeyFor(q)' = KeyFor(q)
      BY DEF IInv, KeyFor
    <2>2. pc[q] # "new" => KeyFor(q) \in Keys
      BY KeyForArrived DEF IInv
    <2>3. pc'[q] = pc[q] \/ (q = r /\ pc'[q] = "done")
      BY <1>4 DEF IInv, TypeOK
    <2> QED BY <1>3, <2>1, <2>2, <2>3 DEF InOrder, Outside, Inside, Undecided
  <1>7. OutcomeTold'
    <2>1. ASSUME NEW q \in Requests
          PROVE  /\ answer'[q] = "accepted" => q \in made
                 /\ answer'[q] = "deadLettered" => letter[q] # None
                 /\ answer'[q] = "duplicate" =>
                      event'[KeyFor(q)] # None /\ event'[KeyFor(q)].by # q
                 /\ answer'[q] \in {"badRequest", "duplicate"} =>
                      q \notin made /\ letter[q] = None
      <3>1. CASE q = r
        <4>1. answer'[q] = a
          BY <1>4, <3>1 DEF IInv, TypeOK
        <4>2. pc[r] = "conflict" => event[k].by # r
          BY <1>1, <1>2 DEF InOrder, Outside
        <4> QED BY <1>1, <1>2, <1>3, <3>1, <4>1, <4>2 DEF InOrder, Undecided,
                       Outside
      <3>2. CASE q # r
        <4>1. answer'[q] = answer[q]
          BY <1>4, <3>2 DEF IInv, TypeOK
        <4>2. answer[q] # None => KeyFor(q) \in Keys
          BY KeyForArrived DEF IInv, TypeOK
        <4>3. "duplicate" # None
          BY NoneApart DEF Assumptions, Answer
        <4> QED BY <1>3, <4>1, <4>2, <4>3 DEF IInv, OutcomeTold
      <3> QED BY <3>1, <3>2
    <2>2. ASSUME NEW j \in Keys, event'[j] # None
          PROVE  /\ event'[j].status = "processed" => event'[j].by \in made
                 /\ event'[j].status = "failed" => letter[event'[j].by] # None
      <3>1. event[j] # None /\ event'[j].by = event[j].by
        BY <1>3, <2>2
      <3>2. CASE event'[j].status = event[j].status
        BY <3>1, <3>2 DEF IInv, OutcomeTold
      <3>3. CASE j = k /\ event'[j].status = s
        BY <1>2, <3>1, <3>3 DEF InOrder, Inside
      <3> QED BY <1>3, <3>1, <3>2, <3>3
    <2> QED BY <2>1, <2>2 DEF OutcomeTold, KeyFor
  <1> QED BY <1>5, <1>6, <1>7 DEF IInv

LEMMA QuarantineKeeps ==
  ASSUME Assumptions, IInv, NEW r \in Requests, Quarantine(r)
  PROVE  IInv'
  <1> USE DEF Quarantine, Goto
  <1>1. "open" # None /\ "open" \in LetterStatus
    BY NoneApart DEF Assumptions, LetterStatus
  <1>2. TypeOK'
    BY <1>1 DEF IInv, TypeOK, Step, KeyFor
  <1>3. answer[r] = None /\ "duplicate" # None /\ "badRequest" # None
    BY NoneApart DEF IInv, TypeOK, Assumptions, Answer
  <1>4. OutcomeTold'
    BY <1>1, <1>3 DEF IInv, TypeOK, OutcomeTold, KeyFor
  <1>5. \A q \in Requests : InOrder(q)'
    BY <1>1 DEF IInv, TypeOK, InOrder, KeyFor, Outside, Inside, Undecided
  <1> QED BY <1>2, <1>4, <1>5 DEF IInv

LEMMA BookKeeps ==
  ASSUME Assumptions, IInv, NEW r \in Requests, Book(r)
  PROVE  IInv'
  <1>1. CASE KindFor(r) = "refused"
    BY <1>1, EndKeeps DEF Book, Reply
  <1>2. CASE KindFor(r) # "refused"
    <2> USE DEF Book, Goto
    <2>1. TypeOK'
      BY <1>2 DEF IInv, TypeOK, Step, KeyFor
    <2>2. answer[r] = None /\ "duplicate" # None /\ "badRequest" # None
      BY NoneApart DEF IInv, TypeOK, Assumptions, Answer
    <2>3. OutcomeTold'
      BY <1>2, <2>2 DEF IInv, TypeOK, OutcomeTold, KeyFor
    <2>4. \A q \in Requests : InOrder(q)'
      BY <1>2 DEF IInv, TypeOK, InOrder, KeyFor, Outside, Inside, Undecided
    <2> QED BY <2>1, <2>3, <2>4 DEF IInv
  <1> QED BY <1>1, <1>2

-----------------------------------------------------------------------------
(* The owner.                                                              *)

LEMMA RetryEventKeeps ==
  ASSUME Assumptions, IInv, NEW k \in Keys, RetryEvent(k)
  PROVE  IInv'
  <1>1. /\ event' \in [Keys -> [status : EventStatus, by : Requests] \cup {None}]
        /\ \A j \in Keys :
             /\ event'[j] = None <=> event[j] = None
             /\ event[j] # None =>
                  /\ event'[j].by = event[j].by
                  /\ event'[j].status = event[j].status
                       \/ (j = k /\ event'[j].status = "received")
    <2>1. "received" \in EventStatus
      BY DEF EventStatus
    <2>2. event[k] # None /\ event' = [event EXCEPT ![k].status = "received"]
      BY DEF RetryEvent
    <2> QED BY <2>1, <2>2, MarkChanges DEF IInv, Assumptions
  <1>2. UNCHANGED <<made, letter, pc, delivery, answer>>
    BY DEF RetryEvent
  <1>3. TypeOK'
    BY <1>1, <1>2 DEF IInv, TypeOK, KeyFor
  <1>4. \A q \in Requests : InOrder(q)'
    <2> SUFFICES ASSUME NEW q \in Requests PROVE InOrder(q)'
      OBVIOUS
    <2>1. pc[q] # "new" => KeyFor(q) \in Keys
      BY KeyForArrived DEF IInv
    <2> QED BY <1>1, <1>2, <2>1 DEF IInv, InOrder, KeyFor, Outside, Inside,
                   Undecided
  <1>5. OutcomeTold'
    <2>1. "duplicate" # None
      BY NoneApart DEF Assumptions, Answer
    <2>2. \A q \in Requests : answer[q] = "duplicate" => KeyFor(q) \in Keys
      BY <2>1, KeyForArrived DEF IInv, TypeOK
    <2> QED BY <1>1, <1>2, <2>2 DEF IInv, OutcomeTold, KeyFor
  <1> QED BY <1>3, <1>4, <1>5 DEF IInv

LEMMA SetLetterKeeps ==
  ASSUME Assumptions, IInv, NEW r \in Requests, NEW s \in LetterStatus,
         SetLetter(r, s)
  PROVE  IInv'
  <1> USE DEF SetLetter
  <1>1. s # None
    BY NoneApart DEF Assumptions
  <1>2. letter' \in [Requests -> LetterStatus \cup {None}]
        /\ \A q \in Requests : letter'[q] = None <=> letter[q] = None
    BY <1>1 DEF IInv, TypeOK
  <1>3. TypeOK'
    BY <1>2 DEF IInv, TypeOK, KeyFor
  <1>4. OutcomeTold'
    <2>1. \A k \in Keys : event[k] # None => event[k].by \in Requests
      BY DEF IInv, TypeOK
    <2> QED BY <1>2, <2>1 DEF IInv, OutcomeTold, KeyFor
  <1>5. \A q \in Requests : InOrder(q)'
    BY <1>2 DEF IInv, InOrder, KeyFor
  <1> QED BY <1>3, <1>4, <1>5 DEF IInv

LEMMA StepKeeps ==
  ASSUME Assumptions, IInv, [Next]_vars
  PROVE  IInv'
  <1>1. ASSUME NEW r \in Requests, Arrive(r) PROVE IInv'
    BY <1>1, ArriveKeeps
  <1>2. ASSUME NEW r \in Requests, InsertEvent(r) PROVE IInv'
    BY <1>2, InsertEventKeeps
  <1>3. ASSUME NEW r \in Requests, MarkDuplicate(r) PROVE IInv'
    BY <1>3, MarkKeeps DEF MarkDuplicate, EventStatus, Answer
  <1>4. ASSUME NEW r \in Requests, Quarantine(r) PROVE IInv'
    BY <1>4, QuarantineKeeps
  <1>5. ASSUME NEW r \in Requests, MarkFailed(r) PROVE IInv'
    BY <1>5, MarkKeeps DEF MarkFailed, Mark, EventStatus, Answer
  <1>6. ASSUME NEW r \in Requests, Book(r) PROVE IInv'
    BY <1>6, BookKeeps
  <1>7. ASSUME NEW r \in Requests, MarkProcessed(r) PROVE IInv'
    BY <1>7, MarkKeeps DEF MarkProcessed, Mark, EventStatus, Answer
  <1>8. ASSUME NEW r \in Requests, Fail(r) PROVE IInv'
    BY <1>8, EndKeeps DEF Fail, Reply
  <1>9. ASSUME NEW r \in Requests, Vanish(r) PROVE IInv'
    BY <1>9, EndKeeps DEF Vanish
  <1>10. ASSUME NEW k \in Keys, RetryEvent(k) PROVE IInv'
    BY <1>10, RetryEventKeeps
  <1>11. ASSUME NEW r \in Requests,
                RetryDeadLetter(r) \/ ResolveDeadLetter(r) \/ IgnoreDeadLetter(r)
         PROVE  IInv'
    BY <1>11, SetLetterKeeps
    DEF RetryDeadLetter, ResolveDeadLetter, IgnoreDeadLetter, LetterStatus
  <1>12. CASE UNCHANGED vars
    BY <1>12 DEF vars, IInv, TypeOK, OutcomeTold, InOrder, KeyFor
  <1> QED BY <1>1, <1>2, <1>3, <1>4, <1>5, <1>6, <1>7, <1>8, <1>9, <1>10,
             <1>11, <1>12
          DEF Next, Handle, Owner

-----------------------------------------------------------------------------
(* Theorems.                                                               *)

\* The inductive invariant: a key is worked on by the delivery that took it,
\* and its outcome is written at one step.
THEOREM Inductive ==
  ASSUME Assumptions PROVE Spec => []IInv
  <1>1. Init => IInv
    BY InitIInv
  <1>2. IInv /\ [Next]_vars => IInv'
    BY StepKeeps
  <1> QED BY <1>1, <1>2, PTL DEF Spec

\* Type correctness.
THEOREM TypeCorrect ==
  ASSUME Assumptions PROVE Spec => []TypeOK
  <1>1. IInv => TypeOK
    BY DEF IInv
  <1> QED BY <1>1, Inductive, PTL

\* The answers and the events table tell the truth (handleTransactionWebhook).
THEOREM OutcomeToldCorrect ==
  ASSUME Assumptions PROVE Spec => []OutcomeTold
  <1>1. IInv => OutcomeTold
    BY DEF IInv
  <1> QED BY <1>1, Inductive, PTL

-----------------------------------------------------------------------------
(* The refinement.                                                         *)

\* Who took each key and which deliveries are held, for the abstract module.
TakerOf == [k \in Keys |-> IF event[k] = None THEN None ELSE event[k].by]
Held == {r \in Requests : letter[r] # None}

\* The abstract state is unchanged by a step that keeps takers and outcomes.
LEMMA Stutter ==
  ASSUME \A k \in Keys : /\ event'[k] = None <=> event[k] = None
                         /\ event[k] # None => event'[k].by = event[k].by,
         UNCHANGED made,
         \A r \in Requests : letter'[r] = None <=> letter[r] = None
  PROVE  UNCHANGED Promise!vars
  <1>1. TakerOf' = TakerOf
    BY DEF TakerOf
  <1>2. Held' = Held
    BY DEF Held
  <1> QED BY <1>1, <1>2 DEF Promise!vars, TakerOf, Held

LEMMA MarkStutters ==
  ASSUME Assumptions, IInv, NEW k \in Keys, event[k] # None,
         NEW s \in EventStatus,
         \/ event' = [event EXCEPT ![k].status = s]
         \/ UNCHANGED event,
         UNCHANGED <<made, letter>>
  PROVE  UNCHANGED Promise!vars
  BY MarkChanges, Stutter DEF IInv, Assumptions

\* The insert of an event takes the key, or is a duplicate or a refusal.
LEMMA InsertTakes ==
  ASSUME Assumptions, IInv, NEW r \in Requests, InsertEvent(r)
  PROVE  [Promise!Next]_(Promise!vars)
  <1> DEFINE k == KeyFor(r)
  <1>1. k \in Keys /\ r # None
    BY KeyForArrived, NoneApart DEF IInv, InsertEvent, Assumptions
  <1>2. CASE UNCHANGED event
    BY <1>2, Stutter DEF InsertEvent
  <1>3. CASE /\ event[k] = None
             /\ event' = [event EXCEPT ![k] = [status |-> "received", by |-> r]]
    <2>1. /\ event'[k] # None
          /\ event'[k].by = r
          /\ \A j \in Keys \ {k} : event'[j] = event[j]
      BY <1>1, <1>3, NoneApart DEF IInv, TypeOK, Assumptions, EventStatus
    <2>2. TakerOf' = [TakerOf EXCEPT ![k] = r] /\ TakerOf[k] = None
      <3> HIDE DEF k
      <3>1. TakerOf' = [j \in Keys |-> IF j = k THEN r ELSE TakerOf[j]]
        BY <1>1, <2>1 DEF TakerOf
      <3>2. TakerOf[k] = None
        BY <1>1, <1>3 DEF TakerOf
      <3>3. DOMAIN TakerOf = Keys
        BY DEF TakerOf
      <3> QED BY <1>1, <3>1, <3>2, <3>3 DEF TakerOf
    <2>3. \A other \in Keys : TakerOf[other] # r
      BY <1>1 DEF TakerOf, IInv, InOrder, InsertEvent, Outside
    <2>4. UNCHANGED <<made, Held>>
      BY DEF InsertEvent, Held
    <2>5. Promise!Take(k, r)
      BY <2>2, <2>3, <2>4 DEF Promise!Take, TakerOf, Held
    <2> QED BY <1>1, <2>5 DEF Promise!Next
  <1> QED BY <1>2, <1>3 DEF InsertEvent

\* The transaction decides the key.
LEMMA BookDecides ==
  ASSUME Assumptions, IInv, NEW r \in Requests, Book(r)
  PROVE  [Promise!Next]_(Promise!vars)
  <1> DEFINE k == KeyFor(r)
  <1>1. CASE UNCHANGED made
    BY <1>1, Stutter DEF Book
  <1>2. CASE made' = made \cup {r}
    <2>1. k \in Keys /\ TakerOf[k] = r /\ r # None
      BY KeyForArrived, NoneApart
      DEF IInv, InOrder, Book, Inside, TakerOf, Assumptions
    <2>2. r \notin made \cup Held
      BY DEF IInv, InOrder, Book, Undecided, Held
    <2>3. UNCHANGED <<TakerOf, Held>>
      BY DEF Book, TakerOf, Held
    <2>4. Promise!Book(k)
      BY <1>2, <2>1, <2>2, <2>3
      DEF Promise!Book, Promise!Undecided, TakerOf, Held
    <2> QED BY <2>1, <2>4 DEF Promise!Next
  <1> QED BY <1>1, <1>2 DEF Book

\* So does the dead letter.
LEMMA QuarantineDecides ==
  ASSUME Assumptions, IInv, NEW r \in Requests, Quarantine(r)
  PROVE  [Promise!Next]_(Promise!vars)
  <1>1. PICK k \in Keys : TakerOf[k] = r /\ r # None
    BY KeyForArrived, NoneApart
    DEF IInv, InOrder, Quarantine, Inside, TakerOf, Assumptions
  <1>2. r \notin made \cup Held
    BY DEF IInv, InOrder, Quarantine, Undecided, Held
  <1>3. UNCHANGED <<TakerOf, made>>
    BY DEF Quarantine, TakerOf
  <1>4. Held' = Held \cup {r}
    <2>1. letter'[r] = "open" /\ \A q \in Requests \ {r} : letter'[q] = letter[q]
      BY DEF Quarantine, IInv, TypeOK
    <2>2. "open" # None
      BY NoneApart DEF Assumptions, LetterStatus
    <2> QED BY <2>1, <2>2 DEF Held
  <1>5. Promise!Quarantine(k)
    BY <1>1, <1>2, <1>3, <1>4
    DEF Promise!Quarantine, Promise!Undecided, TakerOf, Held
  <1> QED BY <1>5 DEF Promise!Next

\* The owner's buttons change the status of a letter, not that there is one.
LEMMA SetLetterStutters ==
  ASSUME Assumptions, IInv, NEW r \in Requests, NEW s \in LetterStatus,
         SetLetter(r, s)
  PROVE  UNCHANGED Promise!vars
  <1>1. s # None
    BY NoneApart DEF Assumptions
  <1>2. \A q \in Requests : letter'[q] = None <=> letter[q] = None
    BY <1>1 DEF SetLetter, IInv, TypeOK
  <1> QED BY <1>2, Stutter DEF SetLetter

LEMMA StepRefines ==
  ASSUME Assumptions, IInv, [Next]_vars
  PROVE  [Promise!Next]_(Promise!vars)
  <1> DEFINE Refined == [Promise!Next]_(Promise!vars)
  <1>1. ASSUME NEW r \in Requests, Arrive(r) \/ Fail(r) \/ Vanish(r)
        PROVE  Refined
    BY <1>1, Stutter DEF Arrive, Fail, Vanish
  <1>2. ASSUME NEW r \in Requests, InsertEvent(r) PROVE Refined
    BY <1>2, InsertTakes
  <1>3. ASSUME NEW r \in Requests,
               MarkDuplicate(r) \/ MarkFailed(r) \/ MarkProcessed(r)
        PROVE  Refined
    <2>1. KeyFor(r) \in Keys /\ event[KeyFor(r)] # None
      BY <1>3, KeyForArrived
      DEF IInv, InOrder, Inside, MarkDuplicate, MarkFailed, MarkProcessed
    <2> QED BY <1>3, <2>1, MarkStutters DEF MarkDuplicate, MarkFailed,
                   MarkProcessed, Mark, EventStatus
  <1>4. ASSUME NEW r \in Requests, Quarantine(r) PROVE Refined
    BY <1>4, QuarantineDecides
  <1>5. ASSUME NEW r \in Requests, Book(r) PROVE Refined
    BY <1>5, BookDecides
  <1>6. ASSUME NEW k \in Keys, RetryEvent(k) PROVE Refined
    BY <1>6, MarkStutters DEF RetryEvent, EventStatus
  <1>7. ASSUME NEW r \in Requests,
               RetryDeadLetter(r) \/ ResolveDeadLetter(r) \/ IgnoreDeadLetter(r)
        PROVE  Refined
    BY <1>7, SetLetterStutters
    DEF RetryDeadLetter, ResolveDeadLetter, IgnoreDeadLetter, LetterStatus
  <1>8. CASE UNCHANGED vars
    BY <1>8, Stutter DEF vars
  <1> QED BY <1>1, <1>2, <1>3, <1>4, <1>5, <1>6, <1>7, <1>8 DEF Next, Handle,
                 Owner

\* The webhook implements the promise of an idempotency key (the unique
\* constraint and on conflict do nothing): one delivery takes it, it is decided
\* at most once, and nothing that happens later undoes it.
THEOREM Refinement ==
  ASSUME Assumptions PROVE Spec => TakesEachKeyOnce
  <1>1. Init => Promise!Init
    BY DEF Init, Promise!Init
  <1>2. IInv /\ [Next]_vars => [Promise!Next]_(Promise!vars)
    BY StepRefines
  <1> QED BY <1>1, <1>2, Inductive, PTL DEF Spec, TakesEachKeyOnce, Promise!Spec
=============================================================================
