------------------------- MODULE AndroidIngestProofs -------------------------
(***************************************************************************)
(* Theorems about AndroidIngest for every set of requests, notifications,  *)
(* wallets and other transactions, and every size of the pool: the type    *)
(* invariant with the accounting of the pool, that draft and event appear  *)
(* together, that an unflagged duplicate needs a race, and that fewer      *)
(* simultaneous requests than connections never have to wait for one.      *)
(***************************************************************************)
EXTENDS AndroidIngest, FiniteSetTheorems, TLAPS

Assumptions ==
  /\ NotificationAssumption /\ WrittenAssumption /\ NamesAssumption
  /\ PoolAssumption

\* The types of the variables, without the accounting.
Typed ==
  /\ row \in [Ids -> Row \cup {None}]
  /\ events \subseteq Event
  /\ devices \subseteq Requests
  /\ pushed \subseteq Requests
  /\ free \in Nat
  /\ pc \in [Requests -> Step]
  /\ note \in [Requests -> Notifications \cup {None}]
  /\ verdict \in [Requests -> Verdict]
  /\ source \in [Requests -> Wallets \cup {None}]
  /\ destination \in [Requests -> Wallets \cup {None}]
  /\ work \in [Requests -> [draft : Row \cup {None}, merged : Ids \cup {None},
                            event : Event \cup {None}]]
  /\ answer \in [Requests -> Answer]
  /\ seen \in [Requests -> SUBSET Ids]

\* A request carries a notification from its arrival on, has looked its
\* source wallet up before it inserts, and names a transaction in its verdict
\* exactly when the check hit one.
Prepared(r) ==
  /\ pc[r] # "new" => note[r] \in Notifications
  /\ pc[r] \in {"destination", "category", "insert"} => source[r] \in Wallets
  /\ verdict[r].action = "pass" <=> verdict[r].of = None
  /\ pc[r] \in {"new", "heartbeat", "begin", "layer1", "layer2", "layer3"} =>
       verdict[r] = Pass
  /\ pc[r] = "append" => verdict[r].action = "merge"
  /\ pc[r] \in {"wallet", "destination", "category", "insert", "push"} =>
       verdict[r].action \in {"pass", "warn"}
  /\ answer[r] # None => pc[r] = "done"

\* What the open transaction of a request has written at each step.
WorkInOrder(r) ==
  /\ pc[r] \notin {"event", "commit"} => work[r] = NoWork
  /\ pc[r] = "event" => work[r].event = None
  /\ work[r].event # None => work[r].event = EventOf(r)
  /\ work[r].draft # None =>
       /\ verdict[r].action \in {"pass", "warn"}
       /\ work[r].draft.duplicate = verdict[r].of
  /\ pc[r] = "event" /\ verdict[r].action \in {"pass", "warn"} =>
       work[r].draft # None
  /\ pc[r] = "commit" => (work[r].event # None
                          <=> (work[r].draft # None
                               \/ verdict[r].action \in {"drop", "merge"}))
  /\ work[r].merged # None =>
       /\ verdict[r].action = "merge"
       /\ row[work[r].merged] # None

Recorded(r) == \E e \in events : e.request = r

\* The traces of a request in the tables.
TablesInOrder(r) ==
  /\ pc[r] \notin {"push", "done"} => row[r] = None /\ ~Recorded(r)
  /\ pc[r] = "push" => row[r] # None
  /\ row[r] # None => Recorded(r)
  /\ Recorded(r) => row[r] # None
  /\ answer[r] = "accepted" \/ r \in pushed => row[r] # None
  /\ answer[r] \in {"badRequest", "notFound"} => ~Recorded(r)
  /\ row[r] # None => row[r].duplicate = verdict[r].of

IInv ==
  /\ Typed
  /\ \A r \in Requests : Prepared(r) /\ WorkInOrder(r) /\ TablesInOrder(r)

-----------------------------------------------------------------------------
(* Types.                                                                  *)

\* What InsertDraft writes is a row, what RecordEvent writes an event.
LEMMA WrittenTyped ==
  ASSUME Typed, NotificationAssumption, NEW r \in Requests,
         note[r] \in Notifications
  PROVE  /\ source[r] \in Wallets => Draft(r) \in Row
         /\ EventOf(r) \in Event
  <1>1. IsNotification(note[r])
    BY DEF NotificationAssumption
  <1>2. verdict[r] \in Verdict /\ destination[r] \in Wallets \cup {None}
    BY DEF Typed
  <1>3. EventOf(r) \in Event
    BY <1>2 DEF EventOf, Event, Verdict
  <1>4. source[r] \in Wallets => Draft(r) \in Row
    BY <1>1, <1>2 DEF Draft, Row, Verdict, IsNotification
  <1> QED BY <1>3, <1>4

\* The initial state satisfies the inductive invariant.
LEMMA InitIInv ==
  ASSUME Assumptions, Init PROVE IInv
  <1>1. Typed
    BY DEF Assumptions, PoolAssumption, Init, Typed, Step, Verdict, Pass,
           NoWork, Answer
  <1>2. ASSUME NEW r \in Requests
        PROVE  Prepared(r) /\ WorkInOrder(r) /\ TablesInOrder(r)
    <2>1. Prepared(r)
      BY DEF Init, Prepared, Pass
    <2>2. WorkInOrder(r)
      BY DEF Init, WorkInOrder, NoWork
    <2>3. TablesInOrder(r)
      BY DEF Init, TablesInOrder, Recorded, Ids, Assumptions, NamesAssumption
    <2> QED BY <2>1, <2>2, <2>3
  <1> QED BY <1>1, <1>2 DEF IInv

\* Rolling back keeps the types.
LEMMA RollbackTyped ==
  ASSUME Typed, NEW r \in Requests, NEW a \in Answer, Rollback(r, a)
  PROVE  Typed'
  BY DEF Typed, Rollback, Reply, Goto, tables, locals, lookups, Step, NoWork

\* What commits is typed.
LEMMA ApplyTyped ==
  ASSUME Typed, NamesAssumption, NEW r \in Requests, WorkInOrder(r), Apply(r)
  PROVE  /\ row' \in [Ids -> Row \cup {None}]
         /\ events' \subseteq Event
         /\ free' \in Nat
         /\ work' \in [Requests -> [draft : Row \cup {None},
                                    merged : Ids \cup {None},
                                    event : Event \cup {None}]]
  <1>1. work[r] \in [draft : Row \cup {None}, merged : Ids \cup {None},
                     event : Event \cup {None}]
    BY DEF Typed
  <1>2. ASSUME NEW t \in Ids PROVE row'[t] \in Row \cup {None}
    <2>1. CASE t = r /\ work[r].draft # None
      <3>1. row'[t] = work[r].draft
        BY <2>1 DEF Apply
      <3> QED BY <1>1, <3>1
    <2>2. CASE ~(t = r /\ work[r].draft # None) /\ t = work[r].merged
      <3>1. row[t] \in Row
        BY <2>2 DEF WorkInOrder, Typed, NamesAssumption
      <3>2. row'[t] = [row[t] EXCEPT !.evidence = @ \cup {r}]
        BY <2>2 DEF Apply
      <3> QED BY <3>1, <3>2 DEF Row
    <2>3. CASE ~(t = r /\ work[r].draft # None) /\ t # work[r].merged
      BY <2>3 DEF Apply, Typed
    <2> QED BY <2>1, <2>2, <2>3
  <1>3. row' \in [Ids -> Row \cup {None}]
    BY <1>2 DEF Apply
  <1>4. events' \subseteq Event /\ free' \in Nat
    BY <1>1 DEF Apply, Typed
  <1>5. work' \in [Requests -> [draft : Row \cup {None},
                                merged : Ids \cup {None},
                                event : Event \cup {None}]]
    BY DEF Apply, Typed, NoWork
  <1> QED BY <1>3, <1>4, <1>5

\* A query of the check keeps the types.
LEMMA LayerTyped ==
  ASSUME Typed, NEW r \in Requests, NEW here, NEW hits \in SUBSET Ids,
         NEW action \in {"drop", "merge", "warn"},
         NEW onHit \in Step, NEW onMiss \in Step,
         Layer(r, here, hits, action, onHit, onMiss),
         seen' \in [Requests -> SUBSET Ids]
  PROVE  Typed'
  <1>1. pc' \in [Requests -> Step]
    BY DEF Typed, Layer, Goto
  <1>2. verdict' \in [Requests -> Verdict]
    <2>1. CASE UNCHANGED verdict
      BY <2>1 DEF Typed
    <2>2. CASE \E t \in hits :
                 verdict' = [verdict EXCEPT ![r] = [action |-> action,
                 of |-> t]]
      <3>1. PICK t \in hits :
              verdict' = [verdict EXCEPT ![r] = [action |-> action, of |-> t]]
        BY <2>2
      <3>2. [action |-> action, of |-> t] \in Verdict
        BY DEF Verdict
      <3> QED BY <3>1, <3>2 DEF Typed
    <2> QED BY <2>1, <2>2 DEF Layer
  <1> QED BY <1>1, <1>2 DEF Typed, Layer, tables, lookups

\* A row stays a row when it is deleted, and is not None.
LEMMA DeletedRow ==
  ASSUME NamesAssumption, NEW w \in Row
  PROVE  w # None /\ [w EXCEPT !.live = FALSE] # None
  <1>1. [w EXCEPT !.live = FALSE] \in Row
    BY DEF Row
  <1> QED BY <1>1 DEF NamesAssumption

\* Every step keeps the types.
LEMMA TypedStep ==
  ASSUME Assumptions, IInv, [Next]_vars PROVE Typed'
  <1>1. Typed BY DEF IInv
  <1>2. ASSUME NEW r \in Requests, Arrive(r) PROVE Typed'
    BY <1>1, <1>2 DEF Typed, Arrive, Goto, Step, tables, lookups
  <1>3. ASSUME NEW r \in Requests, Heartbeat(r) PROVE Typed'
    BY <1>1, <1>3 DEF Typed, Heartbeat, Goto, Reply, Step, Answer, locals,
           lookups
  <1>4. ASSUME NEW r \in Requests, Begin(r) PROVE Typed'
    BY <1>1, <1>4 DEF Typed, Begin, Connection, Goto, Step, tables, locals,
           lookups
  <1>5. ASSUME NEW r \in Requests, Layer1(r) PROVE Typed'
    <2>1. SameHash(note[r]) \in SUBSET Ids
      BY DEF SameHash
    <2>2. seen' \in [Requests -> SUBSET Ids]
      BY <1>1, <1>5 DEF Typed, Layer1
    <2> QED BY <1>1, <1>5, <2>1, <2>2, LayerTyped DEF Layer1, Step
  <1>6. ASSUME NEW r \in Requests, Layer2(r) PROVE Typed'
    <2>1. SameReference(note[r]) \in SUBSET Ids
      BY DEF SameReference
    <2>2. seen' \in [Requests -> SUBSET Ids]
      BY <1>1, <1>6 DEF Typed, Layer2
    <2> QED BY <1>1, <1>6, <2>1, <2>2, LayerTyped DEF Layer2, Step
  <1>7. ASSUME NEW r \in Requests, Layer3(r) PROVE Typed'
    <2>1. SimilarElsewhere(note[r]) \in SUBSET Ids
      BY DEF SimilarElsewhere
    <2>2. seen' \in [Requests -> SUBSET Ids]
      BY <1>1, <1>7 DEF Typed, Layer3
    <2> QED BY <1>1, <1>7, <2>1, <2>2, LayerTyped DEF Layer3, Step
  <1>8. ASSUME NEW r \in Requests, AppendEvidence(r) PROVE Typed'
    <2>1. CASE Live(verdict[r].of)
      <3>1. verdict[r].of \in Ids
        BY <1>1, <1>8 DEF IInv, Prepared, AppendEvidence, Typed, Verdict
      <3>2. work' = [work EXCEPT ![r].merged = verdict[r].of]
        BY <1>8, <2>1 DEF AppendEvidence
      <3>3. work' \in [Requests -> [draft : Row \cup {None},
                                    merged : Ids \cup {None},
                                    event : Event \cup {None}]]
        BY <1>1, <3>1, <3>2 DEF Typed
      <3> QED BY <1>1, <1>8, <2>1, <3>3 DEF Typed, AppendEvidence, Goto, Step,
                     tables, locals, lookups
    <2>2. CASE ~Live(verdict[r].of)
      BY <1>1, <1>8, <2>2, RollbackTyped DEF AppendEvidence, Answer
    <2> QED BY <2>1, <2>2
  <1>9. ASSUME NEW r \in Requests, FindWallet(r) PROVE Typed'
    BY <1>1, <1>9 DEF Typed, FindWallet, Goto, Step, tables, locals, lookups
  <1>10. ASSUME NEW r \in Requests, FindDestination(r) PROVE Typed'
    BY <1>1, <1>10 DEF Typed, FindDestination, Goto, Step, tables, locals,
           lookups
  <1>11. ASSUME NEW r \in Requests, FindCategory(r) PROVE Typed'
    BY <1>1, <1>11 DEF Typed, FindCategory, Goto, Step, tables, locals, lookups
  <1>12. ASSUME NEW r \in Requests, InsertDraft(r) PROVE Typed'
    <2>1. CASE IsTransfer(note[r]) /\ destination[r] = None
      BY <1>1, <1>12, <2>1, RollbackTyped DEF InsertDraft, Answer
    <2>2. CASE ~(IsTransfer(note[r]) /\ destination[r] = None)
      <3>1. Draft(r) \in Row
        BY <1>1, <1>12, WrittenTyped DEF IInv, Prepared, InsertDraft,
               Assumptions
      <3>2. /\ work' = [work EXCEPT ![r].draft = Draft(r)]
            /\ pc' = [pc EXCEPT ![r] = "event"]
            /\ UNCHANGED <<tables, pushed, free, locals, answer, seen>>
        BY <1>12, <2>2 DEF InsertDraft, Goto
      <3>3. work' \in [Requests -> [draft : Row \cup {None},
                                   merged : Ids \cup {None},
                                   event : Event \cup {None}]]
        BY <1>1, <3>1, <3>2 DEF Typed
      <3>4. pc' \in [Requests -> Step]
        BY <1>1, <3>2 DEF Typed, Step
      <3> QED BY <1>1, <3>2, <3>3, <3>4 DEF Typed, tables, locals, lookups
    <2> QED BY <2>1, <2>2
  <1>13. ASSUME NEW r \in Requests, RecordEvent(r) PROVE Typed'
    <2>1. EventOf(r) \in Event
      BY <1>1, <1>13, WrittenTyped DEF IInv, Prepared, RecordEvent, Assumptions
    <2> QED BY <1>1, <1>13, <2>1 DEF Typed, RecordEvent, Goto, Step, tables,
                   locals, lookups
  <1>14. ASSUME NEW r \in Requests, Commit(r) PROVE Typed'
    <2>1. CASE Aborted(r)
      BY <1>1, <1>14, <2>1, RollbackTyped DEF Commit, Answer
    <2>2. CASE ~Aborted(r)
      <3>1. Apply(r)
        BY <1>14, <2>2 DEF Commit
      <3>2. Success(r) \in Answer
        BY DEF Success, Answer
      <3>3. pc' \in [Requests -> Step] /\ answer' \in [Requests -> Answer]
        BY <1>1, <1>14, <2>2, <3>2 DEF Typed, Commit, Reply, Goto, Step
      <3>4. /\ devices' = devices /\ pushed' = pushed /\ seen' = seen
            /\ note' = note /\ verdict' = verdict
            /\ source' = source /\ destination' = destination
        BY <1>14, <2>2 DEF Commit, locals, lookups
      <3> HIDE DEF Apply, Success, Aborted, Commit
      <3> QED BY <1>1, <3>1, <3>3, <3>4, ApplyTyped DEF Typed, IInv, Assumptions
    <2> QED BY <2>1, <2>2
  <1>15. ASSUME NEW r \in Requests, NotifyNewInboxItem(r) PROVE Typed'
    BY <1>1, <1>15 DEF Typed, NotifyNewInboxItem, Reply, Goto, Step, Answer,
           tables, locals, lookups
  <1>16. ASSUME NEW r \in Requests, Fail(r) PROVE Typed'
    <2>1. CASE Rollback(r, "error")
      BY <1>1, <2>1, RollbackTyped DEF Answer
    <2>2. CASE Apply(r) /\ Reply(r, "error")
               /\ UNCHANGED <<devices, pushed, locals, seen>>
      <3>1. pc' \in [Requests -> Step] /\ answer' \in [Requests -> Answer]
        BY <1>1, <2>2 DEF Typed, Reply, Goto, Step, Answer
      <3> QED BY <1>1, <2>2, <3>1, ApplyTyped DEF IInv, Typed, Assumptions,
                     locals, lookups
    <2> QED BY <1>16, <2>1, <2>2 DEF Fail
  <1>17. ASSUME NEW r \in Requests, Vanish(r) PROVE Typed'
    <2>1. CASE Rollback(r, None)
      BY <1>1, <2>1, RollbackTyped DEF Answer
    <2>2. CASE Reply(r, None) /\ UNCHANGED <<tables, pushed, free, locals,
    work, seen>>
      BY <1>1, <2>2 DEF Typed, Reply, Goto, Step, Answer, tables, locals,
             lookups
    <2>3. CASE Apply(r) /\ Reply(r, None) /\ UNCHANGED <<devices, pushed,
    locals, seen>>
      <3>1. pc' \in [Requests -> Step] /\ answer' \in [Requests -> Answer]
        BY <1>1, <2>3 DEF Typed, Reply, Goto, Step, Answer
      <3>2. /\ devices' = devices /\ pushed' = pushed /\ seen' = seen
            /\ note' = note /\ verdict' = verdict
            /\ source' = source /\ destination' = destination
        BY <2>3 DEF locals, lookups
      <3> QED BY <1>1, <2>3, <3>1, <3>2, ApplyTyped DEF Typed, IInv, Assumptions
    <2> QED BY <1>17, <2>1, <2>2, <2>3 DEF Vanish
  <1>18. ASSUME NEW t \in Others, AddOther(t) PROVE Typed'
    BY <1>1, <1>18 DEF Typed, AddOther, Assumptions, WrittenAssumption, locals,
           lookups, Ids
  <1>19. ASSUME NEW t \in Ids, SoftDelete(t) PROVE Typed'
    <2>1. row[t] \in Row
      BY <1>1, <1>19 DEF Typed, SoftDelete, Live
    <2>2. [row[t] EXCEPT !.live = FALSE] \in Row
      BY <2>1 DEF Row
    <2> QED BY <1>1, <1>19, <2>2 DEF Typed, SoftDelete, locals, lookups
  <1>20. CASE UNCHANGED vars
    BY <1>1, <1>20 DEF Typed, vars, tables, locals, lookups
  <1> QED
    BY <1>2, <1>3, <1>4, <1>5, <1>6, <1>7, <1>8, <1>9, <1>10, <1>11, <1>12,
             <1>13,
       <1>14, <1>15, <1>16, <1>17, <1>18, <1>19, <1>20 DEF Next, Handle

-----------------------------------------------------------------------------
(* What a step may do to the tables and to other requests.                 *)

RequestStep(r) == Arrive(r) \/ Handle(r) \/ Fail(r) \/ Vanish(r)
Commits(r) ==
  pc[r] = "commit" /\ pc'[r] # "commit" /\ ~Aborted(r) /\ Apply(r)

\* A step of a request writes the tables only where it commits.
LEMMA TableEffects ==
  ASSUME Typed, NEW r \in Requests, RequestStep(r)
  PROVE  (row' = row /\ events' = events) \/ Commits(r)
  <1>1. ASSUME NEW a, Rollback(r, a) PROVE row' = row /\ events' = events
    BY <1>1 DEF Rollback, tables
  <1> QED
    BY <1>1 DEF RequestStep, Commits, Arrive, Handle, Fail, Vanish, Heartbeat,
           Begin, Layer1, Layer2, Layer3, Layer, AppendEvidence, FindWallet,
           FindDestination, FindCategory, InsertDraft, RecordEvent, Commit,
           NotifyNewInboxItem, Reply, Goto, Typed, tables

\* What a commit adds: the draft of the request, and its event.
LEMMA CommitEffects ==
  ASSUME Assumptions, IInv, NEW r \in Requests, Commits(r)
  PROVE  /\ \A t \in Ids \ {r} : row'[t] = row[t]
         /\ row[r] = None
         /\ row'[r] = work[r].draft
         /\ work[r].draft # None <=> work[r].event # None
         /\ work[r].event = None => events' = events
         /\ work[r].event # None =>
              events' = events \cup {work[r].event} /\ work[r].event.request = r
  <1>1. Typed /\ Prepared(r) /\ WorkInOrder(r) /\ TablesInOrder(r)
    BY DEF IInv
  <1>2. row[r] = None
    BY <1>1 DEF TablesInOrder, Commits
  <1>3. work[r].event # None => work[r].event = EventOf(r) /\ EventOf(r).of = None
    BY <1>1 DEF WorkInOrder, Commits, Aborted
  <1>4. work[r].event # None => verdict[r].action = "pass"
    BY <1>1, <1>3 DEF Prepared, EventOf
  <1>5. work[r].merged # None => work[r].event # None
    BY <1>1 DEF WorkInOrder, Commits
  <1>6. work[r].merged = None
    BY <1>1, <1>4, <1>5 DEF WorkInOrder
  <1>7. work[r].draft # None <=> work[r].event # None
    BY <1>1, <1>4 DEF WorkInOrder, Commits
  <1>8. \A t \in Ids : t # None
    BY DEF Assumptions, NamesAssumption
  <1>9. \A t \in Ids \ {r} : row'[t] = row[t]
    BY <1>6, <1>8 DEF Commits, Apply
  <1>10. row'[r] = work[r].draft
    BY <1>2, <1>6, <1>8 DEF Commits, Apply, Ids
  <1>11. events' = IF work[r].event = None THEN events
                   ELSE events \cup {work[r].event}
    BY DEF Commits, Apply
  <1> QED BY <1>2, <1>3, <1>7, <1>9, <1>10, <1>11 DEF EventOf

\* A committed row keeps what the check compares, and never comes back from
\* its deletion.
LEMMA RowStep ==
  ASSUME Assumptions, IInv, Next, NEW t \in Ids, row[t] # None
  PROVE  /\ row'[t] # None
         /\ row'[t].hash = row[t].hash
         /\ row'[t].ref = row[t].ref
         /\ row'[t].amount = row[t].amount
         /\ row'[t].at = row[t].at
         /\ row'[t].source = row[t].source
         /\ row'[t].duplicate = row[t].duplicate
         /\ row'[t].live => row[t].live
  <1>1. Typed BY DEF IInv
  <1>2. CASE \E r \in Requests : RequestStep(r)
    <2>1. PICK r \in Requests : RequestStep(r)
      BY <1>2
    <2>2. CASE row' = row
      BY <2>2
    <2>3. CASE Commits(r)
      BY <2>3, CommitEffects
    <2> QED BY <1>1, <2>1, <2>2, <2>3, TableEffects
  <1>3. ASSUME NEW u \in Others, AddOther(u) PROVE row'[t] = row[t]
    BY <1>1, <1>3 DEF AddOther, Typed
  <1>4. ASSUME NEW u \in Ids, SoftDelete(u)
        PROVE  row'[t] = row[t] \/ row'[t] = [row[t] EXCEPT !.live = FALSE]
    BY <1>1, <1>4 DEF SoftDelete, Typed
  <1>5. row[t] \in Row
    BY <1>1 DEF Typed
  <1>6. [row[t] EXCEPT !.live = FALSE] # None
    BY <1>5, DeletedRow DEF Assumptions
  <1> QED BY <1>2, <1>3, <1>4, <1>5, <1>6 DEF Next, RequestStep, Row

\* Only a commit records an event or a draft of a request.
LEMMA NewTraces ==
  ASSUME Assumptions, IInv, Next, NEW q \in Requests, ~Commits(q)
  PROVE  /\ row[q] = None <=> row'[q] = None
         /\ Recorded(q) <=> Recorded(q)'
  <1>1. Typed BY DEF IInv
  <1>2. CASE \E r \in Requests : RequestStep(r)
    <2>1. PICK r \in Requests : RequestStep(r)
      BY <1>2
    <2>2. CASE row' = row /\ events' = events
      BY <2>2 DEF Recorded
    <2>3. CASE Commits(r)
      <3>1. q # r /\ q \in Ids
        BY <2>3 DEF Ids
      <3>2. row'[q] = row[q]
        BY <2>3, <3>1, CommitEffects
      <3>3. events' = events \/ \E e : events' = events \cup {e} /\ e.request = r
        BY <2>3, CommitEffects
      <3> QED BY <3>1, <3>2, <3>3 DEF Recorded
    <2> QED BY <1>1, <2>1, <2>2, <2>3, TableEffects
  <1>3. ASSUME NEW u \in Others, AddOther(u)
        PROVE  row'[q] = row[q] /\ events' = events
    BY <1>1, <1>3 DEF AddOther, Typed, Ids, Assumptions, NamesAssumption
  <1>4. ASSUME NEW u \in Ids, SoftDelete(u)
        PROVE  events' = events /\ (row'[q] = None <=> row[q] = None)
    <2>1. row[u] \in Row
      BY <1>1, <1>4 DEF Typed, SoftDelete, Live
    <2>2. row[u] # None /\ [row[u] EXCEPT !.live = FALSE] # None
      BY <2>1, DeletedRow DEF Assumptions
    <2> QED BY <1>1, <1>4, <2>2 DEF SoftDelete, Typed, Ids
  <1> QED BY <1>2, <1>3, <1>4 DEF Next, RequestStep, Recorded

\* A step of a request leaves the locals of all others alone.
LEMMA Untouched ==
  ASSUME Typed, NEW r \in Requests, NEW q \in Requests, q # r, RequestStep(r)
  PROVE  /\ pc'[q] = pc[q] /\ note'[q] = note[q] /\ verdict'[q] = verdict[q]
         /\ source'[q] = source[q] /\ destination'[q] = destination[q]
         /\ work'[q] = work[q] /\ answer'[q] = answer[q] /\ seen'[q] = seen[q]
         /\ q \in pushed' <=> q \in pushed
  <1>1. ASSUME NEW a, Rollback(r, a)
        PROVE  /\ pc'[q] = pc[q] /\ work'[q] = work[q] /\ answer'[q] = answer[q]
               /\ UNCHANGED <<note, verdict, source, destination, seen, pushed>>
    BY <1>1 DEF Rollback, Reply, Goto, Typed, locals, lookups
  <1>2. CASE Arrive(r) \/ Heartbeat(r) \/ Begin(r) \/ Layer1(r) \/ Layer2(r)
             \/ Layer3(r)
    BY <1>2 DEF Arrive, Heartbeat, Begin, Layer1, Layer2, Layer3, Layer, Reply,
           Goto, Typed, locals, lookups
  <1>3. CASE AppendEvidence(r) \/ InsertDraft(r) \/ RecordEvent(r)
    BY <1>1, <1>3 DEF AppendEvidence, InsertDraft, RecordEvent, Goto, Typed,
           locals, lookups
  <1>4. CASE FindWallet(r) \/ FindDestination(r) \/ FindCategory(r)
             \/ NotifyNewInboxItem(r)
    BY <1>4 DEF FindWallet, FindDestination, FindCategory, NotifyNewInboxItem,
           Reply, Goto, Typed, locals, lookups
  <1>5. CASE Commit(r) \/ Fail(r) \/ Vanish(r)
    BY <1>1, <1>5 DEF Commit, Fail, Vanish, Apply, Reply, Goto, Typed, locals,
           lookups
  <1> QED BY <1>2, <1>3, <1>4, <1>5 DEF RequestStep, Handle

-----------------------------------------------------------------------------
(* The invariant of one request.                                           *)

InOrder(r) == Prepared(r) /\ WorkInOrder(r) /\ TablesInOrder(r)

\* A step of another actor keeps it.
LEMMA OthersInOrder ==
  ASSUME Assumptions, IInv, Next, NEW q \in Requests,
         pc'[q] = pc[q], note'[q] = note[q], verdict'[q] = verdict[q],
         source'[q] = source[q], work'[q] = work[q], answer'[q] = answer[q],
         q \in pushed' <=> q \in pushed
  PROVE  InOrder(q)'
  <1>1. Typed /\ InOrder(q)
    BY DEF IInv, InOrder
  <1>2. Prepared(q)'
    BY <1>1 DEF InOrder, Prepared
  <1>3. EventOf(q)' = EventOf(q)
    BY DEF EventOf
  <1>4. work[q].merged # None =>
          work[q].merged \in Ids /\ row[work[q].merged] # None
    BY <1>1 DEF InOrder, WorkInOrder, Typed
  <1>5. WorkInOrder(q)'
    BY <1>1, <1>3, <1>4, RowStep DEF InOrder, WorkInOrder
  <1>6. ~Commits(q)
    BY DEF Commits
  <1>7. row[q] # None => row'[q].duplicate = row[q].duplicate
    BY RowStep DEF Ids
  <1>8. TablesInOrder(q)'
    BY <1>1, <1>6, <1>7, NewTraces DEF InOrder, TablesInOrder
  <1> QED BY <1>2, <1>5, <1>8 DEF InOrder

\* A rollback leaves nothing of the request.
LEMMA RollbackInOrder ==
  ASSUME Assumptions, IInv, NEW r \in Requests, r \in Holders,
         NEW a \in {"notFound", "error", None}, Rollback(r, a)
  PROVE  InOrder(r)'
  <1>1. Typed /\ Prepared(r) /\ WorkInOrder(r) /\ TablesInOrder(r)
    BY DEF IInv
  <1>2. pc'[r] = "done" /\ answer'[r] = a /\ work'[r] = NoWork
    BY <1>1 DEF Rollback, Reply, Goto, Typed
  <1>3. /\ row' = row /\ events' = events /\ pushed' = pushed /\ note' = note
        /\ verdict' = verdict /\ source' = source
    BY DEF Rollback, tables, locals, lookups
  <1>4. pc[r] \notin {"new", "push", "done"}
    BY DEF Holders, InTransaction
  <1>5. a # "accepted"
    BY DEF Assumptions, NamesAssumption
  <1>6. Prepared(r)'
    BY <1>1, <1>2, <1>3, <1>4 DEF Prepared
  <1>7. WorkInOrder(r)'
    BY <1>2 DEF WorkInOrder, NoWork
  <1>8. TablesInOrder(r)'
    BY <1>1, <1>2, <1>3, <1>4, <1>5 DEF TablesInOrder, Recorded
  <1> QED BY <1>6, <1>7, <1>8 DEF InOrder

\* Every step of a request that neither commits nor answers.
LEMMA SameTraces ==
  ASSUME Typed, NEW r \in Requests, TablesInOrder(r),
         pc[r] \notin {"push", "done"}, pc'[r] \notin {"push", "done"},
         row' = row, events' = events, pushed' = pushed, answer' = answer
  PROVE  TablesInOrder(r)'
  BY DEF TablesInOrder, Recorded

\* A commit leaves draft and event, or neither.
LEMMA CommitInOrder ==
  ASSUME Assumptions, IInv, NEW r \in Requests, Commits(r),
         pushed' = pushed, note' = note, verdict' = verdict, source' = source,
         \/ pc'[r] = "push" /\ work[r].draft # None /\ answer'[r] = answer[r]
         \/ pc'[r] = "done" /\ work[r].draft = None
              /\ answer'[r] \in {"badRequest", None}
         \/ pc'[r] = "done" /\ answer'[r] \in {"error", None}
  PROVE  InOrder(r)'
  <1>1. Typed /\ Prepared(r) /\ WorkInOrder(r) /\ TablesInOrder(r)
    BY DEF IInv
  <1>2. pc[r] = "commit" /\ work'[r] = NoWork
    BY <1>1 DEF Commits, Apply, Typed
  <1>3. answer[r] = None
    BY <1>1, <1>2 DEF Prepared
  <1>4. Prepared(r)'
    BY <1>1, <1>2, <1>3 DEF Prepared, WorkInOrder
  <1>5. WorkInOrder(r)'
    BY <1>2 DEF WorkInOrder, NoWork
  <1>6. row[r] = None /\ ~Recorded(r)
    BY <1>1, <1>2 DEF TablesInOrder
  <1>7. Recorded(r)' <=> work[r].draft # None
    BY <1>6, CommitEffects DEF Recorded
  <1>8. row'[r] # None <=> work[r].draft # None
    BY CommitEffects
  <1>9. row'[r] # None => row'[r].duplicate = verdict[r].of
    BY <1>1, CommitEffects DEF WorkInOrder
  <1>10. answer'[r] # "accepted" /\ r \notin pushed'
    BY <1>1, <1>3, <1>6 DEF TablesInOrder, Assumptions, NamesAssumption
  <1>11. answer'[r] \in {"badRequest", "notFound"} =>
           work[r].draft = None
    BY <1>3 DEF Assumptions, NamesAssumption
  <1>12. TablesInOrder(r)'
    BY <1>7, <1>8, <1>9, <1>10, <1>11 DEF TablesInOrder
  <1> QED BY <1>4, <1>5, <1>12 DEF InOrder

\* Every step of a request keeps its own invariant.
LEMMA OwnInOrder ==
  ASSUME Assumptions, IInv, NEW r \in Requests, RequestStep(r)
  PROVE  InOrder(r)'
  <1>1. Typed /\ Prepared(r) /\ WorkInOrder(r) /\ TablesInOrder(r)
    BY DEF IInv
  <1>2. \A t \in Ids : t # None
    BY DEF Assumptions, NamesAssumption
  <1>3. ASSUME Arrive(r) PROVE InOrder(r)'
    <2>1. Prepared(r)'
      BY <1>1, <1>2, <1>3 DEF Prepared, Arrive, Pass, Goto, Reply, Typed,
             tables, locals, lookups
    <2>2. WorkInOrder(r)'
      BY <1>1, <1>2, <1>3 DEF Prepared, WorkInOrder, Arrive, Pass, Goto, Reply,
             Typed, EventOf, NoWork, tables, locals, lookups
    <2>3. TablesInOrder(r)'
      BY <1>1, <1>3, SameTraces DEF Arrive, Pass, Goto, Typed, tables, locals,
             lookups
    <2> QED BY <2>1, <2>2, <2>3 DEF InOrder
  <1>4. ASSUME Heartbeat(r) PROVE InOrder(r)'
    <2>1. Prepared(r)'
      BY <1>1, <1>4 DEF Prepared, Heartbeat, Goto, Reply, Typed, tables, locals,
             lookups
    <2>2. WorkInOrder(r)'
      BY <1>1, <1>4 DEF WorkInOrder, Heartbeat, Goto, Reply, Typed, EventOf,
             tables, locals, lookups
    <2>3. /\ row' = row /\ events' = events /\ pushed' = pushed
          /\ pc[r] = "heartbeat" /\ verdict' = verdict
          /\ answer'[r] \in {answer[r], "badRequest", "filtered"}
      BY <1>1, <1>4 DEF Heartbeat, Goto, Reply, Typed, tables, locals, lookups
    <2>4. pc'[r] # "push"
      BY <1>1, <1>4 DEF Heartbeat, Goto, Reply, Typed
    <2>5. TablesInOrder(r)'
      BY <1>1, <2>3, <2>4 DEF TablesInOrder, Recorded
    <2> QED BY <2>1, <2>2, <2>5 DEF InOrder
  <1>5. ASSUME Begin(r) PROVE InOrder(r)'
    <2>1. Prepared(r)'
      BY <1>1, <1>2, <1>5 DEF Prepared, Begin, Pass, Goto, Reply, Typed, tables,
             locals, lookups
    <2>2. WorkInOrder(r)'
      BY <1>1, <1>2, <1>5 DEF Prepared, WorkInOrder, Begin, Pass, Goto, Reply,
             Typed, EventOf, NoWork, tables, locals, lookups
    <2>3. TablesInOrder(r)'
      BY <1>1, <1>5, SameTraces DEF Begin, Pass, Goto, Typed, tables, locals,
             lookups
    <2> QED BY <2>1, <2>2, <2>3 DEF InOrder
  <1>6. ASSUME Layer1(r) PROVE InOrder(r)'
    <2>1. Prepared(r)'
      BY <1>1, <1>2, <1>6 DEF Prepared, Layer1, Layer, Pass, SameHash,
             SameReference, SimilarElsewhere, Goto, Reply, Typed, tables,
             locals, lookups
    <2>2. WorkInOrder(r)'
      BY <1>1, <1>2, <1>6 DEF Prepared, WorkInOrder, Layer1, Layer, Pass,
             SameHash, SameReference, SimilarElsewhere, Goto, Reply, Typed,
             EventOf, NoWork, tables, locals, lookups
    <2>3. TablesInOrder(r)'
      BY <1>1, <1>6, SameTraces DEF Layer1, Layer, Pass, SameHash,
             SameReference, SimilarElsewhere, Goto, Typed, tables, locals,
             lookups
    <2> QED BY <2>1, <2>2, <2>3 DEF InOrder
  <1>7. ASSUME Layer2(r) PROVE InOrder(r)'
    <2>1. Prepared(r)'
      BY <1>1, <1>2, <1>7 DEF Prepared, Layer2, Layer, Pass, SameHash,
             SameReference, SimilarElsewhere, Goto, Reply, Typed, tables,
             locals, lookups
    <2>2. WorkInOrder(r)'
      BY <1>1, <1>2, <1>7 DEF Prepared, WorkInOrder, Layer2, Layer, Pass,
             SameHash, SameReference, SimilarElsewhere, Goto, Reply, Typed,
             EventOf, NoWork, tables, locals, lookups
    <2>3. TablesInOrder(r)'
      BY <1>1, <1>7, SameTraces DEF Layer2, Layer, Pass, SameHash,
             SameReference, SimilarElsewhere, Goto, Typed, tables, locals,
             lookups
    <2> QED BY <2>1, <2>2, <2>3 DEF InOrder
  <1>8. ASSUME Layer3(r) PROVE InOrder(r)'
    <2>1. Prepared(r)'
      BY <1>1, <1>2, <1>8 DEF Prepared, Layer3, Layer, Pass, SameHash,
             SameReference, SimilarElsewhere, Goto, Reply, Typed, tables,
             locals, lookups
    <2>2. WorkInOrder(r)'
      BY <1>1, <1>2, <1>8 DEF Prepared, WorkInOrder, Layer3, Layer, Pass,
             SameHash, SameReference, SimilarElsewhere, Goto, Reply, Typed,
             EventOf, NoWork, tables, locals, lookups
    <2>3. TablesInOrder(r)'
      BY <1>1, <1>8, SameTraces DEF Layer3, Layer, Pass, SameHash,
             SameReference, SimilarElsewhere, Goto, Typed, tables, locals,
             lookups
    <2> QED BY <2>1, <2>2, <2>3 DEF InOrder
  <1>9. ASSUME AppendEvidence(r) PROVE InOrder(r)'
    <2>1. CASE Live(verdict[r].of)
      <3>1. verdict[r].of \in Ids /\ row[verdict[r].of] # None
        BY <1>1, <1>9, <2>1 DEF Prepared, AppendEvidence, Typed, Verdict, Live
      <3>2. /\ work' = [work EXCEPT ![r].merged = verdict[r].of]
            /\ pc[r] = "append" /\ pc' = [pc EXCEPT ![r] = "event"]
            /\ row' = row /\ events' = events /\ pushed' = pushed
            /\ answer' = answer /\ note' = note /\ verdict' = verdict
            /\ source' = source
        BY <1>9, <2>1 DEF AppendEvidence, Goto, tables, locals, lookups
      <3>3. work[r] = NoWork
        BY <1>1, <3>2 DEF WorkInOrder
      <3>4. /\ work'[r].merged = verdict[r].of /\ work'[r].draft = None
            /\ work'[r].event = None /\ pc'[r] = "event"
        BY <1>1, <3>2, <3>3 DEF Typed, NoWork
      <3>5. Prepared(r)'
        BY <1>1, <3>2, <3>4 DEF Prepared
      <3>6. WorkInOrder(r)'
        BY <1>1, <3>1, <3>2, <3>4 DEF WorkInOrder, Prepared
      <3>7. TablesInOrder(r)'
        BY <1>1, <3>2, <3>4, SameTraces
      <3> QED BY <3>5, <3>6, <3>7 DEF InOrder
    <2>2. CASE ~Live(verdict[r].of)
      BY <1>9, <2>2, RollbackInOrder DEF AppendEvidence, Holders, InTransaction
    <2> QED BY <2>1, <2>2
  <1>10. ASSUME FindWallet(r) PROVE InOrder(r)'
    <2>1. Prepared(r)'
      BY <1>1, <1>2, <1>10 DEF Prepared, FindWallet, Connection, Goto, Reply,
             Typed, tables, locals, lookups
    <2>2. WorkInOrder(r)'
      BY <1>1, <1>2, <1>10 DEF Prepared, WorkInOrder, FindWallet, Connection,
             Goto, Reply, Typed, EventOf, NoWork, tables, locals, lookups
    <2>3. TablesInOrder(r)'
      BY <1>1, <1>10, SameTraces DEF FindWallet, Connection, Goto, Typed,
             tables, locals, lookups
    <2> QED BY <2>1, <2>2, <2>3 DEF InOrder
  <1>11. ASSUME FindDestination(r) PROVE InOrder(r)'
    <2>1. Prepared(r)'
      BY <1>1, <1>2, <1>11 DEF Prepared, FindDestination, Connection, Goto,
             Reply, Typed, tables, locals, lookups
    <2>2. WorkInOrder(r)'
      BY <1>1, <1>2, <1>11 DEF Prepared, WorkInOrder, FindDestination,
             Connection, Goto, Reply, Typed, EventOf, NoWork, tables, locals,
             lookups
    <2>3. TablesInOrder(r)'
      BY <1>1, <1>11, SameTraces DEF FindDestination, Connection, Goto, Typed,
             tables, locals, lookups
    <2> QED BY <2>1, <2>2, <2>3 DEF InOrder
  <1>12. ASSUME FindCategory(r) PROVE InOrder(r)'
    <2>1. Prepared(r)'
      BY <1>1, <1>2, <1>12 DEF Prepared, FindCategory, Connection, Goto, Reply,
             Typed, tables, locals, lookups
    <2>2. WorkInOrder(r)'
      BY <1>1, <1>2, <1>12 DEF Prepared, WorkInOrder, FindCategory, Connection,
             Goto, Reply, Typed, EventOf, NoWork, tables, locals, lookups
    <2>3. TablesInOrder(r)'
      BY <1>1, <1>12, SameTraces DEF FindCategory, Connection, Goto, Typed,
             tables, locals, lookups
    <2> QED BY <2>1, <2>2, <2>3 DEF InOrder
  <1>13. ASSUME InsertDraft(r) PROVE InOrder(r)'
    <2>1. CASE IsTransfer(note[r]) /\ destination[r] = None
      BY <1>13, <2>1, RollbackInOrder DEF InsertDraft, Holders, InTransaction
    <2>2. CASE ~(IsTransfer(note[r]) /\ destination[r] = None)
      <3>1. /\ work' = [work EXCEPT ![r].draft = Draft(r)]
            /\ pc[r] = "insert" /\ pc' = [pc EXCEPT ![r] = "event"]
            /\ row' = row /\ events' = events /\ pushed' = pushed
            /\ answer' = answer /\ note' = note /\ verdict' = verdict
            /\ source' = source
        BY <1>13, <2>2 DEF InsertDraft, Goto, tables, locals, lookups
      <3>2. Draft(r) \in Row
        BY <1>1, <3>1, WrittenTyped DEF Prepared, Assumptions
      <3>3. Draft(r) # None /\ Draft(r).duplicate = verdict[r].of
        BY <3>2 DEF Draft, Assumptions, NamesAssumption
      <3>4. work[r] = NoWork
        BY <1>1, <3>1 DEF WorkInOrder
      <3>5. /\ work'[r].draft = Draft(r) /\ work'[r].merged = None
            /\ work'[r].event = None /\ pc'[r] = "event"
        BY <1>1, <3>1, <3>4 DEF Typed, NoWork
      <3>6. Prepared(r)'
        BY <1>1, <3>1, <3>5 DEF Prepared
      <3>7. WorkInOrder(r)'
        BY <1>1, <3>1, <3>3, <3>5 DEF WorkInOrder, Prepared
      <3>8. TablesInOrder(r)'
        BY <1>1, <3>1, <3>5, SameTraces
      <3> QED BY <3>6, <3>7, <3>8 DEF InOrder
    <2> QED BY <2>1, <2>2
  <1>14. ASSUME RecordEvent(r) PROVE InOrder(r)'
    <2>1. /\ work' = [work EXCEPT ![r].event = EventOf(r)]
          /\ pc[r] = "event" /\ pc' = [pc EXCEPT ![r] = "commit"]
          /\ row' = row /\ events' = events /\ pushed' = pushed
          /\ answer' = answer /\ note' = note /\ verdict' = verdict
          /\ source' = source
      BY <1>14 DEF RecordEvent, Goto, tables, locals, lookups
    <2>2. EventOf(r) # None /\ EventOf(r)' = EventOf(r)
      BY <1>1, <2>1, WrittenTyped DEF EventOf, Prepared, Assumptions,
             NamesAssumption
    <2>3. /\ work'[r].draft = work[r].draft /\ work'[r].merged = work[r].merged
          /\ work'[r].event = EventOf(r) /\ pc'[r] = "commit"
      BY <1>1, <2>1 DEF Typed
    <2>4. verdict[r].action \in {"pass", "drop", "merge", "warn"}
      BY <1>1 DEF Typed, Verdict
    <2>5. Prepared(r)'
      BY <1>1, <2>1, <2>3 DEF Prepared
    <2>6. WorkInOrder(r)'
      BY <1>1, <2>1, <2>2, <2>3, <2>4 DEF WorkInOrder
    <2>7. TablesInOrder(r)'
      BY <1>1, <2>1, <2>3, SameTraces
    <2> QED BY <2>5, <2>6, <2>7 DEF InOrder
  <1>15. ASSUME Commit(r) PROVE InOrder(r)'
    <2>1. CASE Aborted(r)
      BY <1>15, <2>1, RollbackInOrder DEF Commit, Holders, InTransaction
    <2>2. CASE ~Aborted(r)
      <3>1. /\ pc[r] = "commit" /\ Apply(r) /\ pushed' = pushed /\ note' = note
            /\ verdict' = verdict /\ source' = source
        BY <1>15, <2>2 DEF Commit, locals, lookups
      <3>2. CASE work[r].draft # None
        <4>1. pc'[r] = "push" /\ answer' = answer
          BY <1>1, <1>15, <2>2, <3>2 DEF Commit, Goto, Typed
        <4> QED BY <2>2, <3>1, <3>2, <4>1, CommitInOrder DEF Commits
      <3>3. CASE work[r].draft = None
        <4>1. pc'[r] = "done" /\ answer'[r] = Success(r)
          BY <1>1, <1>15, <2>2, <3>3 DEF Commit, Reply, Goto, Typed
        <4>2. Commits(r)
          BY <2>2, <3>1, <4>1 DEF Commits
        <4>3. work[r].event = None
          BY <3>3, <4>2, CommitEffects
        <4>4. answer'[r] = "badRequest"
          BY <4>1, <4>3 DEF Success
        <4> QED BY <3>1, <3>3, <4>1, <4>2, <4>4, CommitInOrder
      <3> QED BY <3>2, <3>3
    <2> QED BY <2>1, <2>2
  <1>16. ASSUME NotifyNewInboxItem(r) PROVE InOrder(r)'
    <2>1. /\ pc[r] = "push" /\ pc'[r] = "done" /\ answer'[r] = "accepted"
          /\ row' = row /\ events' = events /\ note' = note
          /\ verdict' = verdict /\ source' = source /\ work' = work
      BY <1>1, <1>16 DEF NotifyNewInboxItem, Reply, Goto, Typed, tables, locals,
             lookups
    <2>2. Prepared(r)'
      BY <1>1, <2>1 DEF Prepared
    <2>3. WorkInOrder(r)'
      BY <1>1, <2>1 DEF WorkInOrder, EventOf, NoWork
    <2>4. TablesInOrder(r)'
      BY <1>1, <2>1 DEF TablesInOrder, Recorded
    <2> QED BY <2>2, <2>3, <2>4 DEF InOrder
  <1>17. ASSUME Fail(r) PROVE InOrder(r)'
    <2>1. CASE pc[r] \in InTransaction /\ Rollback(r, "error")
      BY <2>1, RollbackInOrder DEF Holders
    <2>2. CASE /\ pc[r] = "commit" /\ ~Aborted(r) /\ Apply(r)
               /\ Reply(r, "error") /\ UNCHANGED <<devices, pushed, locals, seen>>
      <3>1. /\ pc'[r] = "done" /\ answer'[r] = "error" /\ pushed' = pushed
            /\ note' = note /\ verdict' = verdict /\ source' = source
        BY <1>1, <2>2 DEF Reply, Goto, Typed, locals, lookups
      <3> QED BY <2>2, <3>1, CommitInOrder DEF Commits
    <2> QED BY <1>17, <2>1, <2>2 DEF Fail
  <1>18. ASSUME Vanish(r) PROVE InOrder(r)'
    <2>1. CASE r \in Holders /\ Rollback(r, None)
      BY <2>1, RollbackInOrder
    <2>2. CASE r \notin Holders /\ Reply(r, None)
               /\ UNCHANGED <<tables, pushed, free, locals, work, seen>>
      <3>1. /\ pc'[r] = "done" /\ answer'[r] = None
            /\ row' = row /\ events' = events /\ note' = note /\ pushed' = pushed
            /\ verdict' = verdict /\ source' = source /\ work' = work
        BY <1>1, <2>2 DEF Reply, Goto, Typed, tables, locals, lookups
      <3>2. pc[r] \notin {"new", "done", "event", "commit"}
        BY <1>18, <2>2 DEF Vanish, Holders, InTransaction
      <3>3. None \notin {"accepted", "badRequest", "notFound", "error"}
        BY DEF Assumptions, NamesAssumption
      <3>4. Prepared(r)'
        BY <1>1, <3>1, <3>2 DEF Prepared
      <3>5. WorkInOrder(r)'
        BY <1>1, <3>1, <3>2 DEF WorkInOrder, NoWork
      <3>6. TablesInOrder(r)'
        BY <1>1, <3>1, <3>3 DEF TablesInOrder, Recorded
      <3> QED BY <3>4, <3>5, <3>6 DEF InOrder
    <2>3. CASE /\ pc[r] = "commit" /\ ~Aborted(r) /\ Apply(r) /\ Reply(r, None)
               /\ UNCHANGED <<devices, pushed, locals, seen>>
      <3>1. /\ pc'[r] = "done" /\ answer'[r] = None /\ pushed' = pushed
            /\ note' = note /\ verdict' = verdict /\ source' = source
        BY <1>1, <2>3 DEF Reply, Goto, Typed, locals, lookups
      <3> QED BY <2>3, <3>1, CommitInOrder DEF Commits
    <2> QED BY <1>18, <2>1, <2>2, <2>3 DEF Vanish
  <1> QED BY <1>3, <1>4, <1>5, <1>6, <1>7, <1>8, <1>9, <1>10, <1>11, <1>12,
  <1>13, <1>14, <1>15, <1>16, <1>17, <1>18 DEF RequestStep, Handle

-----------------------------------------------------------------------------
(* The theorems.                                                           *)

\* The invariant is inductive.
LEMMA IInvStep ==
  ASSUME Assumptions, IInv, [Next]_vars PROVE IInv'
  <1>1. Typed' BY TypedStep
  <1>2. Typed BY DEF IInv
  <1>3. ASSUME NEW q \in Requests PROVE InOrder(q)'
    <2>1. ASSUME NEW r \in Requests, RequestStep(r) PROVE InOrder(q)'
      <3>1. CASE q = r
        BY <2>1, <3>1, OwnInOrder
      <3>2. CASE q # r
        <4>1. Next
          BY <2>1 DEF Next, RequestStep
        <4> QED BY <1>2, <2>1, <3>2, <4>1, Untouched, OthersInOrder
      <3> QED BY <3>1, <3>2
    <2>2. ASSUME \/ \E t \in Others : AddOther(t)
                 \/ \E t \in Ids : SoftDelete(t)
          PROVE  InOrder(q)'
      <3>1. Next
        BY <2>2 DEF Next
      <3>2. UNCHANGED <<pc, note, verdict, source, work, answer, pushed>>
        BY <2>2 DEF AddOther, SoftDelete, locals, lookups
      <3> QED BY <3>1, <3>2, OthersInOrder
    <2>3. CASE UNCHANGED vars
      <3>1. Prepared(q) /\ WorkInOrder(q) /\ TablesInOrder(q)
        BY DEF IInv
      <3>2. /\ row' = row /\ events' = events /\ pc' = pc /\ note' = note
            /\ verdict' = verdict /\ source' = source /\ work' = work
            /\ answer' = answer /\ pushed' = pushed
        BY <2>3 DEF vars, tables, locals, lookups
      <3> QED BY <3>1, <3>2 DEF InOrder, Prepared, WorkInOrder, TablesInOrder,
                     EventOf, Recorded
    <2> QED BY <2>1, <2>2, <2>3 DEF Next, RequestStep
  <1> QED BY <1>1, <1>3 DEF IInv, InOrder

\* The inductive invariant holds in every reachable state.
THEOREM Inductive == Spec => []IInv
  <1>1. Assumptions
    BY NotificationAssumption, WrittenAssumption, NamesAssumption,
       PoolAssumption DEF Assumptions
  <1>2. Init => IInv
    BY <1>1, InitIInv
  <1>3. IInv /\ [Next]_vars => IInv'
    BY <1>1, IInvStep
  <1> QED BY <1>2, <1>3, PTL DEF Spec

\* Draft and event of a notification appear together or not at all, an
\* accepted one has them and a bad or unfound one has not, whatever fails, is
\* abandoned or is deleted meanwhile; of an error only the first is said.
THEOREM DraftWithEventCorrect == Spec => []DraftWithEvent
  <1>1. IInv => DraftWithEvent
    BY DEF IInv, TablesInOrder, DraftWithEvent, Recorded
  <1> QED BY <1>1, Inductive, PTL

-----------------------------------------------------------------------------
(* The pool.                                                               *)

Accounted ==
  /\ IsFiniteSet(Holders)
  /\ free = MaxConns - Cardinality(Holders)

\* A step takes at most one connection for its transaction, or gives back the
\* one it has.
LEMMA PoolStep ==
  ASSUME Typed, NEW r \in Requests, RequestStep(r)
  PROVE  \/ Holders' = Holders /\ free' = free
         \/ r \notin Holders /\ Holders' = Holders \cup {r} /\ free' = free - 1
         \/ r \in Holders /\ Holders' = Holders \ {r} /\ free' = free + 1
  <1>1. ASSUME NEW x, pc' = [pc EXCEPT ![r] = x],
               pc[r] \in InTransaction <=> x \in InTransaction
        PROVE  Holders' = Holders
    BY <1>1 DEF Holders, Typed, InTransaction
  <1>2. ASSUME NEW x, pc' = [pc EXCEPT ![r] = x],
               pc[r] \in InTransaction, x \notin InTransaction
        PROVE  r \in Holders /\ Holders' = Holders \ {r}
    BY <1>2 DEF Holders, Typed, InTransaction
  <1>3. ASSUME NEW x, pc' = [pc EXCEPT ![r] = x],
               pc[r] \notin InTransaction, x \in InTransaction
        PROVE  r \notin Holders /\ Holders' = Holders \cup {r}
    BY <1>3 DEF Holders, Typed, InTransaction
  <1>4. ASSUME NEW a, Rollback(r, a), pc[r] \in InTransaction
        PROVE  r \in Holders /\ Holders' = Holders \ {r} /\ free' = free + 1
    BY <1>2, <1>4 DEF Rollback, Reply, Goto, InTransaction
  <1>5. CASE Arrive(r) \/ Heartbeat(r)
    BY <1>1, <1>5 DEF Arrive, Heartbeat, Reply, Goto, InTransaction
  <1>6. CASE Begin(r)
    BY <1>3, <1>6 DEF Begin, Goto, InTransaction
  <1>7. CASE Layer1(r) \/ Layer2(r) \/ Layer3(r)
    BY <1>1, <1>7 DEF Layer1, Layer2, Layer3, Layer, Goto, InTransaction
  <1>8. CASE AppendEvidence(r) \/ InsertDraft(r) \/ RecordEvent(r)
    BY <1>1, <1>4, <1>8 DEF AppendEvidence, InsertDraft, RecordEvent, Goto,
           InTransaction
  <1>9. CASE FindWallet(r) \/ FindDestination(r) \/ FindCategory(r)
    <2>1. free' = free
      BY <1>9 DEF FindWallet, FindDestination, FindCategory
    <2>2. \E x \in InTransaction : pc' = [pc EXCEPT ![r] = x]
      BY <1>9 DEF FindWallet, FindDestination, FindCategory, Goto, InTransaction
    <2>3. pc[r] \in InTransaction
      BY <1>9 DEF FindWallet, FindDestination, FindCategory, InTransaction
    <2> QED BY <1>1, <2>1, <2>2, <2>3
  <1>10. CASE Commit(r)
    BY <1>2, <1>4, <1>10 DEF Commit, Apply, Reply, Goto, InTransaction
  <1>11. CASE NotifyNewInboxItem(r)
    BY <1>1, <1>11 DEF NotifyNewInboxItem, Reply, Goto, InTransaction
  <1>12. CASE Fail(r)
    <2>1. CASE pc[r] \in InTransaction /\ Rollback(r, "error")
      BY <1>4, <2>1
    <2>2. CASE pc[r] = "commit" /\ Apply(r) /\ Reply(r, "error")
      BY <1>2, <2>2 DEF Apply, Reply, Goto, InTransaction
    <2> QED BY <1>12, <2>1, <2>2 DEF Fail
  <1>13. CASE Vanish(r)
    <2>1. CASE r \in Holders /\ Rollback(r, None)
      BY <1>4, <2>1 DEF Holders
    <2>2. CASE r \notin Holders /\ Reply(r, None) /\ free' = free
      BY <1>1, <2>2 DEF Reply, Goto, Holders, InTransaction
    <2>3. CASE pc[r] = "commit" /\ Apply(r) /\ Reply(r, None)
      BY <1>2, <2>3 DEF Apply, Reply, Goto, InTransaction
    <2> QED BY <1>13, <2>1, <2>2, <2>3 DEF Vanish
  <1> QED BY <1>5, <1>6, <1>7, <1>8, <1>9, <1>10, <1>11, <1>12, <1>13 DEF
                 RequestStep, Handle

\* Every connection the pool has given out belongs to an open transaction.
LEMMA AccountedStep ==
  ASSUME Assumptions, IInv, Accounted, [Next]_vars PROVE Accounted'
  <1>1. Typed
    BY DEF IInv
  <1>2. ASSUME Holders' = Holders, free' = free PROVE Accounted'
    BY <1>2 DEF Accounted
  <1>3. ASSUME NEW r \in Requests, RequestStep(r) PROVE Accounted'
    <2>1. CASE Holders' = Holders /\ free' = free
      BY <1>2, <2>1
    <2>2. CASE r \notin Holders /\ Holders' = Holders \cup {r} /\ free' = free - 1
      <3>1. IsFiniteSet(Holders') /\ Cardinality(Holders') = Cardinality(Holders) + 1
        BY <2>2, FS_AddElement DEF Accounted
      <3>2. Cardinality(Holders) \in Nat
        BY FS_CardinalityType DEF Accounted
      <3> QED BY <2>2, <3>1, <3>2 DEF Accounted, Assumptions, PoolAssumption
    <2>3. CASE r \in Holders /\ Holders' = Holders \ {r} /\ free' = free + 1
      <3>1. IsFiniteSet(Holders') /\ Cardinality(Holders') = Cardinality(Holders) - 1
        BY <2>3, FS_RemoveElement DEF Accounted
      <3>2. Cardinality(Holders) \in Nat
        BY FS_CardinalityType DEF Accounted
      <3> QED BY <2>3, <3>1, <3>2 DEF Accounted, Assumptions, PoolAssumption
    <2> QED BY <1>1, <1>3, <2>1, <2>2, <2>3, PoolStep
  <1>4. CASE \/ \E t \in Others : AddOther(t)
             \/ \E t \in Ids : SoftDelete(t)
             \/ UNCHANGED vars
    BY <1>2, <1>4 DEF AddOther, SoftDelete, vars, Holders
  <1> QED BY <1>3, <1>4 DEF Next, RequestStep

\* Initially nobody holds a connection.
LEMMA AccountedInit ==
  ASSUME Assumptions, Init PROVE Accounted
  <1>1. Holders = {}
    BY DEF Init, Holders, InTransaction
  <1> QED BY <1>1, FS_EmptySet DEF Accounted, Init, Assumptions, PoolAssumption

\* Accounting of the pool in every reachable state.
THEOREM AccountedAlways == Spec => []Accounted
  <1>1. Assumptions
    BY NotificationAssumption, WrittenAssumption, NamesAssumption,
       PoolAssumption DEF Assumptions
  <1>2. Init => Accounted
    BY <1>1, AccountedInit
  <1>3. IInv /\ Accounted /\ [Next]_vars => Accounted'
    BY <1>1, AccountedStep
  <1> QED BY <1>2, <1>3, Inductive, PTL DEF Spec

\* The type invariant, with a connection for every open transaction and none
\* besides.
THEOREM TypeCorrect == Spec => []TypeOK
  <1>1. IInv /\ Accounted => TypeOK
    BY DEF IInv, Typed, Prepared, Accounted, TypeOK
  <1> QED BY <1>1, Inductive, AccountedAlways, PTL

\* With fewer simultaneous deliveries than connections a connection is always
\* free, so no lookup inside a transaction ever waits: the bound below which
\* the handler cannot block itself.
THEOREM PoolSuffices ==
  ASSUME Cardinality(Requests) < MaxConns
  PROVE  Spec => [](free > 0 /\ ~Wedged)
  <1>1. Accounted => free > 0 /\ ~Wedged
    <2>1. Holders \subseteq Requests
      BY DEF Holders
    <2>2. Cardinality(Holders) <= Cardinality(Requests)
      BY <2>1, PoolAssumption, FS_Subset
    <2>3. Cardinality(Holders) \in Nat /\ Cardinality(Requests) \in Nat
      BY <2>1, PoolAssumption, FS_Subset, FS_CardinalityType
    <2> QED BY <2>2, <2>3, PoolAssumption DEF Accounted, Wedged
  <1> QED BY <1>1, AccountedAlways, PTL

-----------------------------------------------------------------------------
(* Duplicates.                                                             *)

\* What the layers passed so far have excluded.
Excluded(r) ==
  /\ \A t \in seen[r] : row[t] # None
  /\ pc[r] \in {"new", "heartbeat", "begin", "layer1"} => seen[r] = {}
  /\ row[r] # None \/ pc[r] # "done" =>
       \A t \in seen[r] : Live(t) =>
         /\ verdict[r].action # "drop" => t \notin SameHash(note[r])
         /\ verdict[r].action \notin {"drop", "merge"} /\ pc[r] # "layer2" =>
              t \notin SameReference(note[r])
         /\ verdict[r].action = "pass" /\ pc[r] \notin {"layer2", "layer3"} =>
              t \notin SimilarElsewhere(note[r])

DInv == \A r \in Requests : Excluded(r)

Checking == {"new", "heartbeat", "begin", "layer1", "layer2", "layer3"}

\* A step of another actor adds no duplicate among what was seen, and neither
\* does one of the request after its check.
LEMMA StaysExcluded ==
  ASSUME Assumptions, IInv, Next, NEW q \in Requests, Excluded(q),
         \/ pc'[q] = pc[q]
         \/ pc[q] \notin Checking \cup {"done"} /\ pc'[q] \notin Checking,
         note'[q] = note[q], verdict'[q] = verdict[q], seen'[q] = seen[q],
         row'[q] # None => row[q] # None \/ pc[q] # "done"
  PROVE  Excluded(q)'
  <1>1. seen[q] \subseteq Ids
    BY DEF IInv, Typed
  <1>2. \A t \in seen[q] : row[t] # None /\ row'[t] # None
    BY <1>1, RowStep DEF Excluded
  <1>3. ASSUME NEW t \in seen[q], Live(t)',
               row[q] # None \/ pc[q] # "done"
        PROVE  /\ verdict[q].action # "drop" => t \notin SameHash(note[q])'
               /\ verdict[q].action \notin {"drop", "merge"} /\ pc[q] # "layer2" =>
                    t \notin SameReference(note[q])'
               /\ verdict[q].action = "pass" /\ pc[q] \notin {"layer2", "layer3"} =>
                    t \notin SimilarElsewhere(note[q])'
    <2>1. note[q]' = note[q]
      OBVIOUS
    <2>2. /\ Live(t)
          /\ t \notin SameHash(note[q]) => t \notin SameHash(note[q])'
          /\ t \notin SameReference(note[q]) => t \notin SameReference(note[q])'
          /\ t \notin SimilarElsewhere(note[q]) =>
               t \notin SimilarElsewhere(note[q])'
      <3>1. /\ row'[t].hash = row[t].hash /\ row'[t].ref = row[t].ref
            /\ row'[t].amount = row[t].amount /\ row'[t].at = row[t].at
            /\ row'[t].source = row[t].source /\ Live(t)
        BY <1>1, <1>2, <1>3, RowStep DEF Live
      <3> QED BY <2>1, <3>1 DEF SameHash, SameReference, SimilarElsewhere,
                     Within
    <2> QED BY <1>3, <2>2 DEF Excluded
  <1> QED BY <1>2, <1>3 DEF Excluded, Checking

\* A query of the check excludes what it did not find.
LEMMA LayersExclude ==
  ASSUME Assumptions, IInv, NEW r \in Requests, Excluded(r),
         Layer1(r) \/ Layer2(r) \/ Layer3(r)
  PROVE  Excluded(r)'
  <1>1. Typed /\ Prepared(r)
    BY DEF IInv
  <1>2. row' = row /\ note' = note
    BY DEF Layer1, Layer2, Layer3, Layer, tables
  <1>3. /\ SameHash(note[r])' = SameHash(note[r])
        /\ SameReference(note[r])' = SameReference(note[r])
        /\ SimilarElsewhere(note[r])' = SimilarElsewhere(note[r])
        /\ \A t : Live(t)' = Live(t)
    BY <1>2 DEF SameHash, SameReference, SimilarElsewhere, Live, Within
  <1>4. verdict[r].action = "pass" /\ pc[r] \in Checking
    BY <1>1 DEF Prepared, Layer1, Layer2, Layer3, Layer, Pass, Checking
  <1>5. CASE Layer1(r)
    <2>1. seen'[r] = {t \in Ids : Live(t)}
      BY <1>1, <1>5 DEF Layer1, Typed
    <2>2. CASE SameHash(note[r]) = {}
      <3>1. pc'[r] = "layer2" /\ verdict' = verdict
        BY <1>1, <1>5, <2>2 DEF Layer1, Layer, Goto, Typed
      <3> QED BY <1>2, <1>3, <2>1, <2>2, <3>1 DEF Excluded, Live
    <2>3. CASE SameHash(note[r]) # {}
      <3>1. pc'[r] = "event" /\ verdict'[r].action = "drop"
        BY <1>1, <1>5, <2>3 DEF Layer1, Layer, Goto, Typed
      <3> QED BY <1>2, <1>3, <2>1, <3>1 DEF Excluded, Live
    <2> QED BY <2>2, <2>3
  <1>6. CASE Layer2(r)
    <2>1. seen' = seen /\ pc[r] = "layer2"
      BY <1>6 DEF Layer2, Layer
    <2>2. CASE SameReference(note[r]) = {}
      <3>1. pc'[r] = "layer3" /\ verdict' = verdict
        BY <1>1, <1>6, <2>2 DEF Layer2, Layer, Goto, Typed
      <3> QED BY <1>2, <1>3, <1>4, <2>1, <2>2, <3>1 DEF Excluded
    <2>3. CASE SameReference(note[r]) # {}
      <3>1. pc'[r] = "append" /\ verdict'[r].action = "merge"
        BY <1>1, <1>6, <2>3 DEF Layer2, Layer, Goto, Typed
      <3> QED BY <1>2, <1>3, <1>4, <2>1, <3>1 DEF Excluded
    <2> QED BY <2>2, <2>3
  <1>7. CASE Layer3(r)
    <2>1. seen' = seen /\ pc[r] = "layer3"
      BY <1>7 DEF Layer3, Layer
    <2>2. pc'[r] = "wallet"
      BY <1>1, <1>7 DEF Layer3, Layer, Goto, Typed
    <2>3. CASE SimilarElsewhere(note[r]) = {}
      <3>1. verdict' = verdict
        BY <1>7, <2>3 DEF Layer3, Layer
      <3> QED BY <1>2, <1>3, <1>4, <2>1, <2>2, <2>3, <3>1 DEF Excluded
    <2>4. CASE SimilarElsewhere(note[r]) # {}
      <3>1. verdict'[r].action = "warn"
        BY <1>1, <1>7, <2>4 DEF Layer3, Layer, Typed
      <3> QED BY <1>2, <1>3, <1>4, <2>1, <2>2, <3>1 DEF Excluded
    <2> QED BY <2>3, <2>4
  <1> QED BY <1>5, <1>6, <1>7

\* Every step keeps what the checks have excluded.
LEMMA DInvStep ==
  ASSUME Assumptions, IInv, DInv, [Next]_vars PROVE DInv'
  <1>1. Typed
    BY DEF IInv
  <1>2. SUFFICES ASSUME NEW q \in Requests PROVE Excluded(q)'
    BY DEF DInv
  <1>3. Excluded(q) /\ TablesInOrder(q)
    BY DEF DInv, IInv
  <1>4. ASSUME NEW r \in Requests, RequestStep(r) PROVE Excluded(q)'
    <2>1. Next
      BY <1>4 DEF Next, RequestStep
    <2>2. CASE q # r
      <3>1. /\ pc'[q] = pc[q] /\ note'[q] = note[q] /\ verdict'[q] = verdict[q]
            /\ seen'[q] = seen[q]
        BY <1>1, <1>4, <2>2, Untouched
      <3>2. row[q] = None <=> row'[q] = None
        BY <2>1, <3>1, NewTraces DEF Commits
      <3> QED BY <1>3, <2>1, <3>1, <3>2, StaysExcluded
    <2>3. CASE q = r
      <3>1. CASE Arrive(r) \/ Heartbeat(r) \/ Begin(r)
        <4>1. seen' = seen /\ seen[r] = {}
          BY <1>3, <2>3, <3>1 DEF Arrive, Heartbeat, Begin, Excluded
        <4> QED BY <2>3, <4>1 DEF Excluded
      <3>2. CASE Layer1(r) \/ Layer2(r) \/ Layer3(r)
        BY <1>3, <2>3, <3>2, LayersExclude
      <3>3. CASE \/ AppendEvidence(r) \/ FindWallet(r) \/ FindDestination(r)
                 \/ FindCategory(r) \/ InsertDraft(r) \/ RecordEvent(r)
                 \/ Commit(r) \/ NotifyNewInboxItem(r)
        <4>1. /\ pc[r] \notin Checking \cup {"done"}
              /\ note' = note /\ verdict' = verdict /\ seen' = seen
          BY <3>3 DEF AppendEvidence, FindWallet, FindDestination, FindCategory,
                 InsertDraft, RecordEvent, Commit, NotifyNewInboxItem, Rollback,
                 locals, lookups, Checking
        <4>2. pc'[r] \notin Checking
          BY <1>1, <3>3 DEF AppendEvidence, FindWallet, FindDestination,
                 FindCategory, InsertDraft, RecordEvent, Commit,
                 NotifyNewInboxItem, Rollback, Reply, Goto, Checking, Typed
        <4> QED BY <1>3, <2>1, <2>3, <4>1, <4>2, StaysExcluded
      <3>4. CASE Fail(r) \/ Vanish(r)
        <4>1. /\ pc[r] # "done" /\ pc'[r] = "done"
              /\ note' = note /\ verdict' = verdict /\ seen' = seen
          BY <1>1, <3>4 DEF Fail, Vanish, Rollback, Reply, Goto, Typed, locals,
                 lookups, InTransaction
        <4>2. CASE row'[r] = None
          <5>1. \A t \in seen[r] : row'[t] # None
            BY <1>1, <1>3, <2>1, <2>3, RowStep DEF Excluded, Typed
          <5> QED BY <2>3, <4>1, <4>2, <5>1 DEF Excluded
        <4>3. CASE row'[r] # None
          <5>1. CASE Commits(r)
            <6>1. pc[r] \notin Checking \cup {"done"} /\ pc'[r] \notin Checking
              BY <4>1, <5>1 DEF Commits, Checking
            <6> QED BY <1>3, <2>1, <2>3, <4>1, <6>1, StaysExcluded
          <5>2. CASE ~Commits(r)
            <6>1. row[r] # None
              BY <2>1, <4>3, <5>2, NewTraces
            <6>2. pc[r] \notin Checking \cup {"done"} /\ pc'[r] \notin Checking
              BY <1>3, <2>3, <4>1, <6>1 DEF TablesInOrder, Checking
            <6> QED BY <1>3, <2>1, <2>3, <4>1, <6>2, StaysExcluded
          <5> QED BY <5>1, <5>2
        <4> QED BY <4>2, <4>3
      <3> QED BY <1>4, <3>1, <3>2, <3>3, <3>4 DEF RequestStep, Handle
    <2> QED BY <2>2, <2>3
  <1>5. CASE \/ \E t \in Others : AddOther(t)
             \/ \E t \in Ids : SoftDelete(t)
    <2>1. Next /\ UNCHANGED <<pc, note, verdict, seen>>
      BY <1>5 DEF Next, AddOther, SoftDelete, locals
    <2>2. row[q] = None <=> row'[q] = None
      BY <2>1, NewTraces DEF Commits
    <2> QED BY <1>3, <2>1, <2>2, StaysExcluded
  <1>6. CASE UNCHANGED vars
    BY <1>3, <1>6 DEF vars, tables, locals, Excluded, Live, SameHash,
           SameReference, SimilarElsewhere, Within
  <1> QED BY <1>4, <1>5, <1>6 DEF Next, RequestStep

\* What the checks have excluded stays excluded in every reachable state.
THEOREM ExcludedAlways == Spec => []DInv
  <1>1. Assumptions
    BY NotificationAssumption, WrittenAssumption, NamesAssumption,
       PoolAssumption DEF Assumptions
  <1>2. Init => DInv
    BY DEF Init, DInv, Excluded
  <1>3. IInv /\ DInv /\ [Next]_vars => DInv'
    BY <1>1, DInvStep
  <1> QED BY <1>2, <1>3, Inductive, PTL DEF Spec

\* An unflagged draft never duplicates, by any of the three tiers, a live
\* transaction that was committed before its check began.
THEOREM DuplicatesOnlyByRaceCorrect == Spec => []DuplicatesOnlyByRace
  <1>1. IInv /\ DInv => DuplicatesOnlyByRace
    <2>1. SUFFICES ASSUME IInv, DInv, NEW r \in Requests, row[r] # None,
                          row[r].duplicate = None, NEW t \in seen[r], Live(t)
                   PROVE  t \notin Duplicates(note[r])
      BY DEF DuplicatesOnlyByRace
    <2>2. Prepared(r) /\ TablesInOrder(r) /\ Excluded(r)
      BY <2>1 DEF IInv, DInv
    <2>3. verdict[r].action = "pass"
      BY <2>1, <2>2 DEF Prepared, TablesInOrder
    <2>4. pc[r] \in {"push", "done"}
      BY <2>1, <2>2 DEF TablesInOrder
    <2> QED BY <2>1, <2>2, <2>3, <2>4 DEF Excluded, Duplicates
  <1> QED BY <1>1, Inductive, ExcludedAlways, PTL
=============================================================================
