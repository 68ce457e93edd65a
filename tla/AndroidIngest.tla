---------------------------- MODULE AndroidIngest ----------------------------
(***************************************************************************)
(* The ingest of Android payment notifications                             *)
(* (internal/httpserver/android_notification.go) with the three layers of  *)
(* the duplicate check (internal/dedup/engine.go), its database            *)
(* transaction, and the connection pool of internal/postgres/postgres.go.  *)
(*                                                                         *)
(* Any number of requests run at the same time.  Each holds one connection *)
(* from Begin to the end of its transaction, and looks the wallets and the *)
(* category up on a second one.  The transaction is READ COMMITTED: every  *)
(* query sees what is committed when it runs.  work[r] is what the         *)
(* transaction of r has written and nobody else sees yet.                  *)
(*                                                                         *)
(* Time is counted in minutes, the grain of the fingerprint.               *)
(***************************************************************************)
EXTENDS Integers, FiniteSets

CONSTANTS
  Requests,       \* deliveries of notifications to the endpoint
  Others,         \* transactions other sources may add meanwhile
  Notifications,  \* what a delivery may carry
  Written,        \* [Others -> what the other source writes]
  Wallets,        \* providers of the owner's wallets, one wallet each
  MaxConns,       \* connections of the pool
  None,           \* no value: NULL, an empty string, no answer
  Faults          \* kinds of failure that may happen

Ids == Requests \cup Others
Kind == {"malformed", "promo", "payment", "topup", "transfer"}
Answer == {"accepted", "filtered", "dropped", "merged", "badRequest",
           "notFound", "error", None}
Step == {"new", "heartbeat", "begin", "layer1", "layer2", "layer3", "append",
         "wallet", "destination", "category", "insert", "event", "commit",
         "push", "done"}

IsNotification(n) ==
  /\ DOMAIN n = {"kind", "app", "amount", "ref", "hint", "at"}
  /\ n.kind \in Kind
  /\ n.app # None
  /\ n.at \in Int

\* The fingerprint of a payment: owner, app, amount and minute.
ComputeHash(n) == <<n.app, n.amount, n.at>>

\* The columns of transactions the ingest reads or writes.
Row == [source : {"android", "other"},
        hash : {None} \cup {ComputeHash(n) : n \in Notifications},
        ref : {None} \cup {n.ref : n \in Notifications},
        amount : {n.amount : n \in Notifications},
        at : Int, wallet : Wallets, destination : Wallets \cup {None},
        duplicate : Ids \cup {None}, evidence : SUBSET Requests,
        live : BOOLEAN]
Event == [request : Requests, status : {"duplicate", "processed"},
          of : Ids \cup {None}]

ASSUME NotificationAssumption == \A n \in Notifications : IsNotification(n)
ASSUME WrittenAssumption ==
  /\ Written \in [Others -> Row]
  /\ \A t \in Others : Written[t].source = "other" /\ Written[t].live
ASSUME NamesAssumption ==
  /\ Requests \cap Others = {}
  /\ None \notin Ids \cup Wallets \cup Notifications \cup Row \cup Event
  /\ None \notin {"accepted", "filtered", "dropped", "merged", "badRequest",
                  "notFound", "error"}
ASSUME PoolAssumption == MaxConns \in Nat \ {0} /\ IsFiniteSet(Requests)

VARIABLES
  row,      \* committed transactions, None where there is none
  events,   \* committed webhook_events of this endpoint
  devices,  \* requests counted in device_registrations
  pushed,   \* requests whose draft was announced to the owner's devices
  free,     \* idle connections of the pool
  pc,       \* step of each request
  note,     \* the notification it carries
  verdict,  \* what dedup.Check answered
  source, destination,  \* the wallets looked up
  work,     \* writes of its open transaction
  answer,   \* the HTTP answer it got
  seen      \* history: what was committed and live when its check began

tables == <<row, events, devices>>
lookups == <<source, destination>>
locals == <<note, verdict, lookups>>
vars == <<row, events, devices, pushed, free, pc, note, verdict, source,
          destination, work, answer, seen>>

Verdict == [action : {"pass", "drop", "merge", "warn"}, of : Ids \cup {None}]
Pass == [action |-> "pass", of |-> None]
NoWork == [draft |-> None, merged |-> None, event |-> None]

Init ==
  /\ row = [t \in Ids |-> None]
  /\ events = {}
  /\ devices = {}
  /\ pushed = {}
  /\ free = MaxConns
  /\ pc = [r \in Requests |-> "new"]
  /\ note = [r \in Requests |-> None]
  /\ verdict = [r \in Requests |-> Pass]
  /\ source = [r \in Requests |-> None]
  /\ destination = [r \in Requests |-> None]
  /\ work = [r \in Requests |-> NoWork]
  /\ answer = [r \in Requests |-> None]
  /\ seen = [r \in Requests |-> {}]

-----------------------------------------------------------------------------
(* The duplicate check.                                                    *)

Live(t) == row[t] # None /\ row[t].live
Within(t, at, minutes) == row[t].at - at \in -minutes .. minutes

\* Tier 1: the same fingerprint within five minutes.
SameHash(n) ==
  {t \in Ids : Live(t) /\ row[t].hash = ComputeHash(n) /\ Within(t, n.at, 5)}

\* Tier 2: the reference number in the text of a transaction not older than
\* a day.
SameReference(n) ==
  {t \in Ids : /\ n.ref # None
               /\ Live(t)
               /\ row[t].ref = n.ref
               /\ row[t].at >= n.at - 24 * 60}

\* Tier 3: the same amount from another source within ten minutes.
SimilarElsewhere(n) ==
  {t \in Ids : /\ Live(t)
               /\ row[t].amount = n.amount
               /\ row[t].source # "android"
               /\ Within(t, n.at, 10)}

IsTransfer(n) == n.kind \in {"topup", "transfer"}
Duplicates(n) == SameHash(n) \cup SameReference(n) \cup SimilarElsewhere(n)

-----------------------------------------------------------------------------
(* The pool and the transaction.                                           *)

\* The requests that hold a connection for their transaction.
InTransaction ==
  {"layer1", "layer2", "layer3", "append", "wallet", "destination",
   "category", "insert", "event", "commit"}
Holders == {r \in Requests : pc[r] \in InTransaction}

\* A query outside the transaction takes a connection and gives it back.
Connection == free > 0

Goto(r, step) == pc' = [pc EXCEPT ![r] = step]
Reply(r, status) ==
  /\ Goto(r, "done")
  /\ answer' = [answer EXCEPT ![r] = status]

\* Wrong: keeps the connection.
RollbackLeaks(r, status) ==
  /\ Reply(r, status)
  /\ work' = [work EXCEPT ![r] = NoWork]
  /\ UNCHANGED <<tables, pushed, free, locals, seen>>
\* withTx after an error of fn: nothing of the transaction stays.
Rollback(r, status) ==
  /\ Reply(r, status)
  /\ free' = free + 1
  /\ work' = [work EXCEPT ![r] = NoWork]
  /\ UNCHANGED <<tables, pushed, locals, seen>>

-----------------------------------------------------------------------------
(* handleAndroidNotification.                                              *)

Arrive(r) ==
  /\ pc[r] = "new"
  /\ \E n \in Notifications : note' = [note EXCEPT ![r] = n]
  /\ Goto(r, "heartbeat")
  /\ UNCHANGED <<tables, pushed, free, verdict, lookups, work, answer, seen>>

\* upsertDeviceRegistration, whose failure is ignored, and android.Parse.
Heartbeat(r) ==
  /\ pc[r] = "heartbeat"
  /\ Connection
  /\ devices' = devices \cup {r}
  /\ CASE note[r].kind = "malformed" -> Reply(r, "badRequest")
       [] note[r].kind = "promo" -> Reply(r, "filtered")
       [] OTHER -> Goto(r, "begin") /\ UNCHANGED answer
  /\ UNCHANGED <<row, events, pushed, free, locals, work, seen>>

Begin(r) ==
  /\ pc[r] = "begin"
  /\ Connection
  /\ free' = free - 1
  /\ Goto(r, "layer1")
  /\ UNCHANGED <<tables, pushed, locals, work, answer, seen>>

\* One query of the check: a hit decides, and the first row found is named.
Layer(r, here, hits, action, onHit, onMiss) ==
  /\ pc[r] = here
  /\ \/ /\ hits # {}
        /\ \E t \in hits :
             verdict' = [verdict EXCEPT ![r] = [action |-> action, of |-> t]]
        /\ Goto(r, onHit)
     \/ /\ hits = {}
        /\ Goto(r, onMiss)
        /\ UNCHANGED verdict
  /\ UNCHANGED <<tables, pushed, free, note, lookups, work, answer>>

Layer1(r) ==
  /\ Layer(r, "layer1", SameHash(note[r]), "drop", "event", "layer2")
  /\ seen' = [seen EXCEPT ![r] = {t \in Ids : Live(t)}]

\* Wrong: the window of the first tier.
Layer2Narrow(r) ==
  /\ Layer(r, "layer2", {t \in SameReference(note[r]) : Within(t, note[r].at, 5)},
           "merge", "append", "layer3")
  /\ UNCHANGED seen
Layer2(r) ==
  /\ Layer(r, "layer2", SameReference(note[r]), "merge", "append", "layer3")
  /\ UNCHANGED seen

Layer3(r) ==
  /\ Layer(r, "layer3", SimilarElsewhere(note[r]), "warn", "wallet", "wallet")
  /\ UNCHANGED seen

\* A row another transaction has updated is waited for.
Locked(t) == \E r \in Requests : work[r].merged = t

\* appendTransactionEvidence: nothing to update where the owner has deleted
\* the row since the check.
AppendEvidence(r) ==
  LET t == verdict[r].of IN
  /\ pc[r] = "append"
  /\ ~Locked(t)
  /\ IF Live(t)
     THEN /\ work' = [work EXCEPT ![r].merged = t]
          /\ Goto(r, "event")
          /\ UNCHANGED <<tables, pushed, free, locals, answer, seen>>
     ELSE Rollback(r, "notFound")

\* findBestWalletForAndroid: the wallet of the provider, else any.  Without a
\* wallet, or when the query fails, the empty transaction is committed.
FindWallet(r) ==
  LET own == Wallets \cap {note[r].app} IN
  /\ pc[r] = "wallet"
  /\ Connection
  /\ \/ /\ \E w \in IF own # {} THEN own ELSE Wallets :
             source' = [source EXCEPT ![r] = w]
        /\ Goto(r, IF IsTransfer(note[r]) /\ note[r].hint # None
                THEN "destination" ELSE "category")
     \/ /\ Wallets = {} \/ "query" \in Faults
        /\ Goto(r, "commit")
        /\ UNCHANGED source
  /\ UNCHANGED <<tables, pushed, free, note, verdict, destination, work,
                 answer, seen>>

\* bestDestinationWalletID: the hinted wallet, which a top-up sets to the
\* provider itself, else any other than the source.
FindDestination(r) ==
  LET others == Wallets \ {source[r]}
      hinted == others \cap {note[r].hint} IN
  /\ pc[r] = "destination"
  /\ Connection
  /\ \/ \E w \in IF hinted # {} THEN hinted ELSE others :
          destination' = [destination EXCEPT ![r] = w]
     \/ /\ others = {} \/ "query" \in Faults
        /\ UNCHANGED destination
  /\ Goto(r, "category")
  /\ UNCHANGED <<tables, pushed, free, note, verdict, source, work, answer,
                 seen>>

\* bestCategoryID: a missing category is no obstacle.
FindCategory(r) ==
  /\ pc[r] = "category"
  /\ Connection
  /\ Goto(r, "insert")
  /\ UNCHANGED <<tables, pushed, free, locals, work, answer, seen>>

Draft(r) ==
  [source |-> "android", hash |-> ComputeHash(note[r]), ref |-> note[r].ref,
   amount |-> note[r].amount, at |-> note[r].at, wallet |-> source[r],
   destination |-> destination[r], duplicate |-> verdict[r].of,
   evidence |-> {}, live |-> TRUE]

\* insertAndroidTransaction: a transfer needs a destination.
InsertDraft(r) ==
  /\ pc[r] = "insert"
  /\ IF IsTransfer(note[r]) /\ destination[r] = None
     THEN Rollback(r, "error")
     ELSE /\ work' = [work EXCEPT ![r].draft = Draft(r)]
          /\ Goto(r, "event")
          /\ UNCHANGED <<tables, pushed, free, locals, answer, seen>>

EventOf(r) ==
  [request |-> r, of |-> verdict[r].of,
   status |-> IF verdict[r].action = "drop" THEN "duplicate" ELSE "processed"]

\* Wrong: writes the event on the pool instead of the transaction.
RecordEventOutside(r) ==
  /\ pc[r] = "event"
  /\ Connection
  /\ events' = IF verdict[r].of = None THEN events \cup {EventOf(r)} ELSE events
  /\ Goto(r, "commit")
  /\ UNCHANGED <<row, devices, pushed, free, locals, work, answer, seen>>
\* recordWebhookEvent, inside the transaction; its error is ignored.
RecordEvent(r) ==
  /\ pc[r] = "event"
  /\ work' = [work EXCEPT ![r].event = EventOf(r)]
  /\ Goto(r, "commit")
  /\ UNCHANGED <<tables, pushed, free, locals, answer, seen>>

\* duplicate_of_id references webhook_events and is given a transaction: the
\* insert of such an event has aborted the transaction.
Aborted(r) == work[r].event # None /\ work[r].event.of # None

Success(r) ==
  IF work[r].event = None THEN "badRequest"
  ELSE IF verdict[r].action = "drop" THEN "dropped" ELSE "merged"

\* The transaction of r becomes visible.
Apply(r) ==
  /\ row' = [t \in Ids |->
       IF t = r /\ work[r].draft # None THEN work[r].draft
       ELSE IF t = work[r].merged THEN [row[t] EXCEPT !.evidence = @ \cup {r}]
       ELSE row[t]]
  /\ events' = IF work[r].event = None THEN events
               ELSE events \cup {work[r].event}
  /\ work' = [work EXCEPT ![r] = NoWork]
  /\ free' = free + 1

\* An aborted transaction is rolled back by its commit, which reports it.  A
\* new draft is announced before the answer.
Commit(r) ==
  /\ pc[r] = "commit"
  /\ \/ Aborted(r) /\ Rollback(r, "error")
     \/ /\ ~Aborted(r)
        /\ Apply(r)
        /\ IF work[r].draft # None
           THEN Goto(r, "push") /\ UNCHANGED answer
           ELSE Reply(r, Success(r))
        /\ UNCHANGED <<devices, pushed, locals, seen>>

\* notifyNewInboxItem never fails the request; it gives up after three seconds.
NotifyNewInboxItem(r) ==
  /\ pc[r] = "push"
  /\ \/ Connection /\ pushed' = pushed \cup {r}
     \/ UNCHANGED pushed
  /\ Reply(r, "accepted")
  /\ UNCHANGED <<tables, free, locals, work, seen>>

Handle(r) ==
  \/ Heartbeat(r) \/ Begin(r)
  \/ Layer1(r) \/ Layer2(r) \/ Layer3(r)
  \/ AppendEvidence(r)
  \/ FindWallet(r) \/ FindDestination(r) \/ FindCategory(r)
  \/ InsertDraft(r) \/ RecordEvent(r) \/ Commit(r)
  \/ NotifyNewInboxItem(r)

-----------------------------------------------------------------------------
(* What else happens.                                                      *)

\* A statement of the transaction fails.  A commit that fails towards the
\* handler may have taken effect, its answer being lost: the request gets an
\* error all the same, and nothing is announced.
Fail(r) ==
  /\ "statement" \in Faults
  /\ \/ /\ pc[r] \in InTransaction
        /\ Rollback(r, "error")
     \/ /\ pc[r] = "commit"
        /\ ~Aborted(r)
        /\ Apply(r)
        /\ Reply(r, "error")
        /\ UNCHANGED <<devices, pushed, locals, seen>>

\* The phone gives up, or the instance is frozen or dies: no answer is
\* received, and an open transaction is rolled back unless its commit had
\* already reached the database.
Vanish(r) ==
  /\ "gone" \in Faults
  /\ pc[r] \notin {"new", "done"}
  /\ \/ /\ r \in Holders
        /\ Rollback(r, None)
     \/ /\ r \notin Holders
        /\ Reply(r, None)
        /\ UNCHANGED <<tables, pushed, free, locals, work, seen>>
     \/ /\ pc[r] = "commit"
        /\ ~Aborted(r)
        /\ Apply(r)
        /\ Reply(r, None)
        /\ UNCHANGED <<devices, pushed, locals, seen>>

\* Another source (a manual entry, a shortcut, a Gmail import) adds a
\* transaction.
AddOther(t) ==
  /\ row[t] = None
  /\ row' = [row EXCEPT ![t] = Written[t]]
  /\ UNCHANGED <<events, devices, pushed, free, pc, locals, work, answer, seen>>

\* The owner deletes a transaction; softDelete waits for a row lock.
SoftDelete(t) ==
  /\ Live(t)
  /\ ~Locked(t)
  /\ row' = [row EXCEPT ![t].live = FALSE]
  /\ UNCHANGED <<events, devices, pushed, free, pc, locals, work, answer, seen>>

Next ==
  \/ \E r \in Requests : Arrive(r) \/ Handle(r) \/ Fail(r) \/ Vanish(r)
  \/ \E t \in Others : AddOther(t)
  \/ \E t \in Ids : SoftDelete(t)

Spec == Init /\ [][Next]_vars
FairSpec == Spec /\ \A r \in Requests : WF_vars(Handle(r))

-----------------------------------------------------------------------------
(* Properties.                                                             *)

\* Type invariant: the tables hold rows of their types, a request has answered
\* exactly when it is done, and the pool has given out one connection for
\* every transaction that is open and none besides.
TypeOK ==
  /\ row \in [Ids -> Row \cup {None}]
  /\ events \subseteq Event
  /\ devices \subseteq Requests
  /\ pushed \subseteq Requests
  /\ pc \in [Requests -> Step]
  /\ note \in [Requests -> Notifications \cup {None}]
  /\ verdict \in [Requests -> Verdict]
  /\ source \in [Requests -> Wallets \cup {None}]
  /\ destination \in [Requests -> Wallets \cup {None}]
  /\ work \in [Requests -> [draft : Row \cup {None}, merged : Ids \cup {None},
                            event : Event \cup {None}]]
  /\ answer \in [Requests -> Answer]
  /\ seen \in [Requests -> SUBSET Ids]
  /\ free = MaxConns - Cardinality(Holders)
  /\ \A r \in Requests : answer[r] # None => pc[r] = "done"

\* Draft and event appear together or not at all, whatever fails in between;
\* an accepted or announced request has both, and one that is told what is
\* wrong with it has neither (the transaction of handleAndroidNotification
\* around steps 3 to 6).  An error says nothing of which it is: a commit may
\* take effect although its answer is lost.
DraftWithEvent ==
  \A r \in Requests :
    LET recorded == \E e \in events : e.request = r IN
    /\ row[r] # None => recorded
    /\ recorded /\ verdict[r].action \in {"pass", "warn"} => row[r] # None
    /\ answer[r] = "accepted" \/ r \in pushed => row[r] # None
    /\ answer[r] \in {"badRequest", "notFound"} => ~recorded

\* No unflagged duplicate by the engine's own rules: a draft without
\* duplicate_of_id never stands beside a live transaction that one of the
\* three tiers matches and that was there when the check began (dedup.Check).
DuplicatesOnlyByRace ==
  \A r \in Requests :
    row[r] # None /\ row[r].live /\ row[r].duplicate = None =>
      \A t \in seen[r] : Live(t) => t \notin Duplicates(note[r])

\* Every connection is held by a request that waits for a second one.
Wedged ==
  /\ Cardinality(Holders) = MaxConns
  /\ \A r \in Holders : pc[r] \in {"wallet", "destination", "category"}

\* A request that arrived is answered, unless the requests have taken the
\* whole pool and wait for each other (the lookups on s.db inside withTx).
AnsweredUnlessWedged ==
  \A r \in Requests : pc[r] = "heartbeat" ~> (pc[r] = "done" \/ Wedged)
=============================================================================
