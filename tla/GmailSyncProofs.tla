--------------------------- MODULE GmailSyncProofs ---------------------------
(***************************************************************************)
(* Theorems about GmailSync for any number of processes, wallets, accounts *)
(* and messages, any page and batch size and any number of failures.       *)
(***************************************************************************)
EXTENDS GmailSync, TLAPS

-----------------------------------------------------------------------------
(* Types of the values the actions assign.                                 *)

\* 0 stands for no position.
LEMMA ZeroType == 0 \in Pos
BY BoundAssumption DEF Pos

\* Every message has a position, and it is not 0.
LEMMA MsgType == \A m \in Msg : m \in Pos /\ m # 0
BY BoundAssumption DEF Msg, Pos

\* The blanks the records start from have their types.
LEMMA EmptyTypes == NoWish \in Wish /\ "none" \in Outcome
BY DEF NoWish, Wish, Outcome

LEMMA NoJobType == NoJob \in Job
BY ZeroType, EmptyTypes DEF Job, NoJob

LEMMA EmptyRowType == EmptyRow \in Row
BY ZeroType DEF Row, EmptyRow

LEMMA FreeLeaseType == FreeLease \in Lease
BY DEF FreeLease, Lease

\* What the listings return lies within the mailbox.
LEMMA ListingTypes ==
  ASSUME MailTypes, NEW since \in Pos, NEW token \in Pos
  PROVE  /\ HistoryPage(since, token) \in SUBSET Msg
         /\ HistoryToken(since, token) \in Pos
         /\ SearchPage(since, token) \in SUBSET Msg
         /\ SearchToken(since, token) \in Pos
<1>1. HistoryPage(since, token) \in SUBSET Msg
  BY DEF HistoryPage
<1>2. HistoryToken(since, token) \in Pos
  BY BoundAssumption DEF HistoryToken, HistoryFrom, Pos, MailTypes
<1>3. SearchPage(since, token) \in SUBSET Msg
  BY DEF SearchPage, Matches
<1>4. SearchToken(since, token) \in Pos
  <2>1. CASE \E m \in Msg : SearchFills(since, token, m)
    <3>1. (CHOOSE m \in Msg : SearchFills(since, token, m)) \in Msg
      BY <2>1
    <3> QED
      BY <2>1, <3>1, MsgType DEF SearchToken
  <2>2. CASE ~(\E m \in Msg : SearchFills(since, token, m))
    BY <2>2, ZeroType DEF SearchToken
  <2> QED
    BY <2>1, <2>2
<1> QED
  BY <1>1, <1>2, <1>3, <1>4

\* The verdict on a message is an outcome.
LEMMA ClassifyType ==
  ASSUME NEW c, NEW m, NEW explicit
  PROVE  Classify(c, m, explicit) \in Outcome
BY DEF Classify, Outcome

\* Setting fields of the locals to values of their types keeps their type.
LEMMA JobUpdates ==
  ASSUME NEW j \in Job
  PROVE  /\ \A s \in SUBSET Msg, t \in Pos, h \in Pos :
              [j EXCEPT !.todo = s, !.page = t, !.history = h] \in Job
         /\ \A s \in SUBSET Msg, t \in Pos, h \in Pos, r \in Pos :
              [j EXCEPT !.todo = s, !.page = t, !.history = h,
                        !.recovery = r] \in Job
         /\ \A h \in Pos, t \in Pos, r \in Pos, a \in Pos :
              [j EXCEPT !.history = h, !.page = t, !.recovery = r,
                        !.activated = a] \in Job
         /\ \A h \in Pos, a \in Pos :
              [j EXCEPT !.history = h, !.activated = a] \in Job
         /\ \A h \in Pos : [j EXCEPT !.history = h] \in Job
         /\ \A a \in Pos : [j EXCEPT !.activated = a] \in Job
         /\ \A r \in Pos, t \in Pos :
              [j EXCEPT !.recovery = r, !.page = t] \in Job
         /\ \A m \in Msg : [j EXCEPT !.msg = m] \in Job
         /\ \A m \in Msg : [j EXCEPT !.todo = @ \ {m}] \in Job
         /\ \A v \in Outcome : [j EXCEPT !.verdict = v] \in Job
         /\ \A s \in SUBSET Msg, n \in Nat :
              [j EXCEPT !.todo = s, !.msg = 0, !.verdict = "none",
                        !.spent = n] \in Job
BY EmptyTypes DEF Job

\* The groups of variables a step leaves alone keep their types.
LEMMA UnchangedTypes ==
  ASSUME TypeOK
  PROVE  /\ UNCHANGED <<conn, lease>> => RowTypes'
         /\ UNCHANGED mailbox => MailTypes'
         /\ UNCHANGED records => RecordTypes'
         /\ UNCHANGED budgets => BudgetTypes'
         /\ UNCHANGED <<pc, op, snap, job>> => ProcessTypes'
BY DEF TypeOK, RowTypes, MailTypes, RecordTypes, BudgetTypes, ProcessTypes,
       mailbox, records, budgets

\* Counting a failure or a request keeps within the bounds.
LEMMA BudgetStep ==
  ASSUME TypeOK, NEW kind
  PROVE  /\ Fault(kind) => BudgetTypes'
         /\ Request => BudgetTypes'
BY BoundAssumption DEF TypeOK, BudgetTypes, Fault, Request

\* Starting, leaving and finishing a handler keep the types of the locals.
LEMMA HandlerTypes ==
  ASSUME TypeOK, NEW p \in Procs
  PROVE  /\ \A s \in Step : Goto(p, s) => pc' \in [Procs -> Step]
         /\ Leave(p) => ProcessTypes'
         /\ Finish(p) => ProcessTypes'
         /\ \A o \in Op, j \in Job :
              Begin(p, o, j) => /\ ProcessTypes' /\ RowTypes'
                                /\ MailTypes' /\ RecordTypes'
         /\ \A s \in Step, j \in Job :
              Load(p, s, j) => /\ ProcessTypes' /\ RowTypes'
                               /\ MailTypes' /\ RecordTypes' /\ BudgetTypes'
<1>1. ProcessTypes /\ conn \in Row
  BY DEF TypeOK, RowTypes
<1>2. \A s \in Step : Goto(p, s) => pc' \in [Procs -> Step]
  BY <1>1 DEF Goto, ProcessTypes
<1>3. {"idle", "lease", "release"} \subseteq Step /\ "none" \in Op
  BY DEF Step, Op
<1>4. Leave(p) => ProcessTypes'
  BY <1>1, <1>2, <1>3 DEF Leave, ProcessTypes
<1>5. Finish(p) => ProcessTypes'
  BY <1>1, <1>2, <1>3, EmptyRowType, NoJobType DEF Finish, ProcessTypes
<1>6. \A o \in Op, j \in Job : Begin(p, o, j) =>
        ProcessTypes' /\ RowTypes' /\ MailTypes' /\ RecordTypes'
  BY <1>1, <1>2, <1>3, UnchangedTypes DEF Begin, ProcessTypes
<1>7. \A s \in Step, j \in Job : Load(p, s, j) =>
        ProcessTypes' /\ RowTypes' /\ MailTypes' /\ RecordTypes' /\ BudgetTypes'
  BY <1>1, <1>2, UnchangedTypes DEF Load, ProcessTypes
<1> QED
  BY <1>2, <1>4, <1>5, <1>6, <1>7

-----------------------------------------------------------------------------
(* Every action keeps the types, one group of actions at a time.           *)

\* Writing fields of the row with values of their types keeps its type.
LEMMA RowUpdates ==
  ASSUME TypeOK
  PROVE  /\ \A b \in BOOLEAN : [conn EXCEPT !.watch = b] \in Row
         /\ \A b \in BOOLEAN : [conn EXCEPT !.cipher = b] \in Row
         /\ \A b \in BOOLEAN : [conn EXCEPT !.enabled = b] \in Row
         /\ \A r \in Pos : [conn EXCEPT !.recovery = r, !.page = 0] \in Row
         /\ [conn EXCEPT !.page = 0] \in Row
         /\ \A h \in Pos, t \in Pos, r \in Pos :
              [conn EXCEPT !.history = h, !.page = t, !.recovery = r] \in Row
         /\ \A h \in Pos, a \in Pos, w \in Wish :
              [conn EXCEPT !.wallet = w.wallet, !.account = w.account,
                           !.enabled = w.enabled, !.history = h,
                           !.activated = a] \in Row
         /\ [EmptyRow EXCEPT !.enabled = conn.enabled,
                             !.wallet = conn.wallet] \in Row
BY ZeroType, EmptyRowType DEF TypeOK, RowTypes, Row, Wish

\* The locals of a process and the fields of a row have the types of Job, Row.
LEMMA FieldTypes ==
  ASSUME TypeOK
  PROVE  /\ last \in Pos
         /\ conn \in Row
         /\ \A p \in Procs : snap[p] \in Row /\ job[p] \in Job
         /\ \A r \in Row : /\ r.history \in Pos /\ r.page \in Pos
                           /\ r.recovery \in Pos /\ r.activated \in Pos
         /\ \A j \in Job : /\ j.history \in Pos /\ j.page \in Pos
                           /\ j.recovery \in Pos /\ j.activated \in Pos
                           /\ j.todo \in SUBSET Msg /\ j.spent \in Nat
                           /\ j.verdict \in Outcome /\ j.want \in Wish
                           /\ j.msg \in Msg \cup {0}
<1>1. last \in Pos
  BY BoundAssumption DEF TypeOK, MailTypes, Pos
<1>2. conn \in Row /\ \A p \in Procs : snap[p] \in Row /\ job[p] \in Job
  BY DEF TypeOK, RowTypes, ProcessTypes
<1> QED
  BY <1>1, <1>2 DEF Row, Job

\* Taking and giving back the lease, failing and crashing keep the types.
LEMMA TypeLease ==
  ASSUME TypeOK, NEW p \in Procs,
         LeaseStep(p) \/ CallFails(p) \/ Crash(p)
  PROVE  TypeOK'
<1>1. CASE AcquireLease(p)
  <2>1. lease' \in Lease /\ conn' \in Row
    BY <1>1 DEF AcquireLease, Lease, TypeOK, RowTypes
  <2>2. ProcessTypes'
    BY <1>1, HandlerTypes DEF AcquireLease, TypeOK, ProcessTypes, Step
  <2> QED
    BY <1>1, <2>1, <2>2, UnchangedTypes DEF AcquireLease, TypeOK, RowTypes
<1>2. CASE LeaseBusy(p)
  BY <1>2, HandlerTypes, UnchangedTypes DEF LeaseBusy, TypeOK
<1>3. CASE ReleaseLease(p)
  <2>1. lease' \in Lease /\ conn' \in Row
    BY <1>3, FreeLeaseType DEF ReleaseLease, TypeOK, RowTypes
  <2> QED
    BY <1>3, <2>1, HandlerTypes, UnchangedTypes
       DEF ReleaseLease, TypeOK, RowTypes
<1>4. CASE CallFails(p)
  BY <1>4, HandlerTypes, UnchangedTypes, BudgetStep DEF CallFails, TypeOK
<1>5. CASE Crash(p)
  <2>1. lease' \in Lease /\ conn' \in Row
    BY <1>5 DEF Crash, TypeOK, RowTypes, Lease
  <2> QED
    BY <1>5, <2>1, HandlerTypes, UnchangedTypes, BudgetStep
       DEF Crash, TypeOK, RowTypes
<1> QED
  BY <1>1, <1>2, <1>3, <1>4, <1>5 DEF LeaseStep

\* So does the start of a handler ...
LEMMA TypeStart ==
  ASSUME TypeOK, NEW p \in Procs, Start(p)
  PROVE  TypeOK'
<1>0. {"sync", "import", "settings", "disconnect"} \subseteq Op
  BY DEF Op
<1>1. CASE SyncStart(p)
  BY <1>0, <1>1, HandlerTypes, UnchangedTypes, NoJobType DEF SyncStart, TypeOK
<1>2. CASE ImportStart(p)
  <2>1. PICK m \in 2 .. last : Begin(p, "import", [NoJob EXCEPT !.msg = m])
    BY <1>2 DEF ImportStart
  <2>2. m \in Msg
    BY BoundAssumption DEF Msg, TypeOK, MailTypes
  <2>3. [NoJob EXCEPT !.msg = m] \in Job
    BY <2>2, NoJobType, JobUpdates
  <2> QED
    BY <1>0, <1>2, <2>1, <2>3, HandlerTypes, BudgetStep
       DEF ImportStart, TypeOK
<1>3. CASE SettingsStart(p)
  <2>1. PICK e \in BOOLEAN, w \in Wallets, a \in Accounts :
          Begin(p, "settings", [NoJob EXCEPT !.want =
                  [enabled |-> e, wallet |-> w, account |-> a]])
    BY <1>3 DEF SettingsStart
  <2>2. [enabled |-> e, wallet |-> w, account |-> a] \in Wish
    BY DEF Wish
  <2>3. [NoJob EXCEPT !.want = [enabled |-> e, wallet |-> w, account |-> a]]
          \in Job
    BY <2>2, NoJobType DEF Job
  <2> QED
    BY <1>0, <1>3, <2>1, <2>3, HandlerTypes, BudgetStep
       DEF SettingsStart, TypeOK
<1>4. CASE DisconnectStart(p)
  BY <1>0, <1>4, HandlerTypes, BudgetStep, NoJobType DEF DisconnectStart, TypeOK
<1> QED
  BY <1>1, <1>2, <1>3, <1>4 DEF Start

\* A step that moves the process, may update its locals and leaves the rest.
LEMMA MoveTypes ==
  ASSUME TypeOK, NEW p \in Procs, NEW s \in Step, NEW j \in Job,
         Goto(p, s), job' = [job EXCEPT ![p] = j], UNCHANGED <<op, snap>>
  PROVE  ProcessTypes'
BY HandlerTypes DEF TypeOK, ProcessTypes

\* The steps of the handlers, for the goals that name one.
LEMMA StepNames ==
  {"idle", "lease", "reload", "watch", "list", "search", "pick", "check",
   "fetch", "record", "profile", "stamp", "write", "disable", "revoke",
   "clear", "release"} \subseteq Step
BY DEF Step

\* ... every step of a sync ...
LEMMA TypeSync ==
  ASSUME TypeOK, NEW p \in Procs,
         SyncStep(p) \/ HistoryExpired(p) \/ PageTokenExpired(p)
  PROVE  TypeOK'
<1>0. Listing(p) \in Step
  BY StepNames DEF Listing
<1>1. CASE SyncReload(p)
  BY <1>1, StepNames, FieldTypes, JobUpdates, HandlerTypes
     DEF SyncReload, TypeOK
<1>2. CASE WatchValid(p)
  <2>1. ProcessTypes'
    BY <1>0, <1>2, HandlerTypes DEF WatchValid, TypeOK, ProcessTypes
  <2> QED
    BY <1>2, <2>1, UnchangedTypes DEF WatchValid, TypeOK
<1>3. CASE RenewWatch(p)
  <2>1. ProcessTypes'
    BY <1>0, <1>3, HandlerTypes DEF RenewWatch, TypeOK, ProcessTypes
  <2>2. RowTypes'
    BY <1>3, RowUpdates DEF RenewWatch, TypeOK, RowTypes
  <2> QED
    BY <1>3, <2>1, <2>2, UnchangedTypes DEF RenewWatch, TypeOK
<1>4. CASE ListHistory(p)
  <2> DEFINE t == HistoryToken(job[p].history, job[p].page)
             s == HistoryPage(job[p].history, job[p].page)
             h == IF t = 0 THEN last ELSE job[p].history
             j == [job[p] EXCEPT !.todo = s, !.page = t, !.history = h]
  <2>1. t \in Pos /\ s \in SUBSET Msg /\ h \in Pos
    BY FieldTypes, ListingTypes DEF TypeOK
  <2>2. j \in Job
    BY <2>1, FieldTypes, JobUpdates
  <2>3. job' = [job EXCEPT ![p] = j]
    BY <1>4 DEF ListHistory
  <2>4. ProcessTypes'
    BY <1>4, <2>2, <2>3, StepNames, MoveTypes DEF ListHistory
  <2> QED
    BY <1>4, <2>4, UnchangedTypes DEF ListHistory, TypeOK
<1>5. CASE HistoryExpired(p)
  <2>1. CASE Holds(p) /\ pc' = [pc EXCEPT ![p] = "search"]
             /\ conn' = [conn EXCEPT !.recovery = last, !.page = 0]
             /\ job' = [job EXCEPT ![p].recovery = last, ![p].page = 0]
             /\ UNCHANGED <<op, snap, lease>>
    <3>1. RowTypes'
      BY <2>1, RowUpdates, FieldTypes DEF TypeOK, RowTypes
    <3>2. [job[p] EXCEPT !.recovery = last, !.page = 0] \in Job
      BY FieldTypes, JobUpdates, ZeroType
    <3>3. job' = [job EXCEPT ![p] =
                    [job[p] EXCEPT !.recovery = last, !.page = 0]]
      BY <2>1 DEF TypeOK, ProcessTypes
    <3>4. ProcessTypes'
      BY <2>1, <3>2, <3>3, StepNames, MoveTypes DEF Goto
    <3> QED
      BY <1>5, <3>1, <3>4, UnchangedTypes, BudgetStep
         DEF HistoryExpired, TypeOK
  <2>2. CASE Leave(p) /\ UNCHANGED <<conn, lease>>
    BY <1>5, <2>2, HandlerTypes, UnchangedTypes, BudgetStep
       DEF HistoryExpired, TypeOK
  <2> QED
    BY <1>5, <2>1, <2>2 DEF HistoryExpired, Goto
<1>6. CASE PageTokenExpired(p)
  <2>1. RowTypes'
    BY <1>6, RowUpdates DEF PageTokenExpired, TypeOK, RowTypes
  <2> QED
    BY <1>6, <2>1, HandlerTypes, UnchangedTypes, BudgetStep
       DEF PageTokenExpired, TypeOK
<1>7. CASE SearchSinceActivation(p)
  <2> DEFINE t == SearchToken(job[p].activated, job[p].page)
             s == SearchPage(job[p].activated, job[p].page)
             h == IF t = 0 THEN job[p].recovery ELSE job[p].history
             r == IF t = 0 THEN 0 ELSE job[p].recovery
             j == [job[p] EXCEPT !.todo = s, !.page = t, !.history = h,
                                 !.recovery = r]
  <2>1. t \in Pos /\ s \in SUBSET Msg /\ h \in Pos /\ r \in Pos
    BY FieldTypes, ListingTypes, ZeroType DEF TypeOK
  <2>2. j \in Job
    BY <2>1, FieldTypes, JobUpdates
  <2>3. job' = [job EXCEPT ![p] = j]
    BY <1>7 DEF SearchSinceActivation
  <2>4. ProcessTypes'
    BY <1>7, <2>2, <2>3, StepNames, MoveTypes DEF SearchSinceActivation
  <2> QED
    BY <1>7, <2>4, UnchangedTypes DEF SearchSinceActivation, TypeOK
<1>8. CASE PickMessage(p)
  <2>1. PICK m \in job[p].todo : job' = [job EXCEPT ![p].msg = m]
    BY <1>8 DEF PickMessage
  <2>2. [job[p] EXCEPT !.msg = m] \in Job
    BY <2>1, FieldTypes, JobUpdates
  <2>3. job' = [job EXCEPT ![p] = [job[p] EXCEPT !.msg = m]]
    BY <2>1 DEF TypeOK, ProcessTypes
  <2>4. ProcessTypes'
    BY <1>8, <2>2, <2>3, StepNames, MoveTypes DEF PickMessage
  <2> QED
    BY <1>8, <2>4, UnchangedTypes DEF PickMessage, TypeOK
<1>9. CASE SkipKnown(p)
  <2>1. PICK m \in job[p].todo : job' = [job EXCEPT ![p].todo = @ \ {m}]
    BY <1>9 DEF SkipKnown
  <2>2. [job[p] EXCEPT !.todo = @ \ {m}] \in Job
    BY <2>1, FieldTypes, JobUpdates
  <2>3. ProcessTypes'
    BY <1>9, <2>1, <2>2, FieldTypes DEF SkipKnown, TypeOK, ProcessTypes
  <2> QED
    BY <1>9, <2>3, UnchangedTypes DEF SkipKnown, TypeOK
<1>10. CASE BatchFull(p)
  BY <1>10, HandlerTypes, UnchangedTypes DEF BatchFull, TypeOK
<1>11. CASE CommitCursor(p)
  <2>1. RowTypes'
    BY <1>11, RowUpdates, FieldTypes DEF CommitCursor, TypeOK, RowTypes
  <2> QED
    BY <1>11, <2>1, HandlerTypes, UnchangedTypes DEF CommitCursor, TypeOK
<1> QED
  BY <1>1, <1>2, <1>3, <1>4, <1>5, <1>6, <1>7, <1>8, <1>9, <1>10, <1>11
     DEF SyncStep

\* Where recording an outcome leads: the draft is appended for a wallet.
LEMMA RecordIntoTypes ==
  ASSUME TypeOK, NEW p \in Procs, NEW m \in Msg \cup {0}, NEW new \in BOOLEAN,
         new => outcome[m] # "imported", Bookable(p), job[p].msg = m,
         RecordInto(p, m, new)
  PROVE  RecordTypes'
<1>1. outcome' \in [Msg -> Outcome]
  BY FieldTypes DEF RecordInto, TypeOK, RecordTypes
<1>2. PICK w \in BookTo(p, m) :
        drafts' = IF new /\ job[p].verdict = "imported"
                  THEN [drafts EXCEPT ![m] = Append(@, w)] ELSE drafts
  BY DEF RecordInto
<1>3. new /\ job[p].verdict = "imported" => w \in Wallets
  BY FieldTypes DEF BookTo, Bookable, Row
<1>4. drafts' \in [Msg -> Seq(Wallets)]
  <2>1. CASE new /\ job[p].verdict = "imported"
    <3>1. m \in Msg => Append(drafts[m], w) \in Seq(Wallets)
      BY <1>3, <2>1 DEF TypeOK, RecordTypes
    <3>2. drafts' = [drafts EXCEPT ![m] = Append(drafts[m], w)]
      BY <1>2, <2>1
    <3> QED
      BY <3>1, <3>2 DEF TypeOK, RecordTypes
  <2>2. CASE ~(new /\ job[p].verdict = "imported")
    BY <1>2, <2>2 DEF TypeOK, RecordTypes
  <2> QED
    BY <2>1, <2>2
<1> QED
  BY <1>1, <1>4 DEF RecordTypes

\* ... every step about one message ...
LEMMA TypeMessage ==
  ASSUME TypeOK, NEW p \in Procs, MessageStep(p)
  PROVE  TypeOK'
<1>1. CASE ImportReload(p)
  BY <1>1, StepNames, FieldTypes, HandlerTypes DEF ImportReload, TypeOK
<1>2. CASE ImportCheck(p)
  <2>1. ProcessTypes'
    BY <1>2, StepNames, HandlerTypes DEF ImportCheck, TypeOK, ProcessTypes
  <2> QED
    BY <1>2, <2>1, UnchangedTypes DEF ImportCheck, TypeOK
<1>3. CASE Fetch(p)
  <2> DEFINE v == Classify(snap[p], job[p].msg, op[p] = "import")
  <2>1. v \in Outcome
    BY ClassifyType
  <2>2. [job[p] EXCEPT !.verdict = v] \in Job
    BY <2>1, FieldTypes, JobUpdates
  <2>3. job' = [job EXCEPT ![p] = [job[p] EXCEPT !.verdict = v]]
    BY <1>3 DEF Fetch, TypeOK, ProcessTypes
  <2>4. ProcessTypes'
    BY <1>3, <2>2, <2>3, StepNames, MoveTypes DEF Fetch
  <2> QED
    BY <1>3, <2>4, UnchangedTypes DEF Fetch, TypeOK
<1>4. CASE RecordOutcome(p)
  <2> DEFINE m == job[p].msg
             new == outcome[m] # "imported"
             n == IF new THEN job[p].spent + 1 ELSE job[p].spent
             j == [job[p] EXCEPT !.todo = job[p].todo \ {m}, !.msg = 0,
                                 !.verdict = "none", !.spent = n]
  <2>1. RecordTypes'
    BY <1>4, FieldTypes, RecordIntoTypes DEF RecordOutcome
  <2>2. n \in Nat /\ job[p].todo \ {m} \in SUBSET Msg
    BY FieldTypes
  <2>3. j \in Job
    BY <2>2, FieldTypes, JobUpdates
  <2>4. job' = [job EXCEPT ![p] = j]
    BY <1>4 DEF RecordOutcome, TypeOK, ProcessTypes
  <2>5. ProcessTypes'
    BY <1>4, <2>3, <2>4, StepNames, MoveTypes DEF RecordOutcome
  <2> QED
    BY <1>4, <2>1, <2>5, UnchangedTypes DEF RecordOutcome, TypeOK
<1>5. CASE RecordRefused(p)
  BY <1>5, HandlerTypes, UnchangedTypes DEF RecordRefused, TypeOK
<1> QED
  BY <1>1, <1>2, <1>3, <1>4, <1>5 DEF MessageStep

\* ... every step of a settings change or a disconnect ...
LEMMA TypeSettings ==
  ASSUME TypeOK, NEW p \in Procs, SettingsStep(p) \/ DisconnectStep(p)
  PROVE  TypeOK'
<1>1. CASE SettingsReload(p)
  BY <1>1, StepNames, FieldTypes, JobUpdates, HandlerTypes
     DEF SettingsReload, TypeOK
<1>2. CASE ReadProfile(p)
  <2>1. [job[p] EXCEPT !.history = last] \in Job
    BY FieldTypes, JobUpdates
  <2>2. job' = [job EXCEPT ![p] = [job[p] EXCEPT !.history = last]]
    BY <1>2 DEF ReadProfile, TypeOK, ProcessTypes
  <2>3. ProcessTypes'
    BY <1>2, <2>1, <2>2, StepNames, MoveTypes DEF ReadProfile
  <2> QED
    BY <1>2, <2>3, UnchangedTypes DEF ReadProfile, TypeOK
<1>3. CASE StampActivation(p)
  <2>1. [job[p] EXCEPT !.activated = last] \in Job
    BY FieldTypes, JobUpdates
  <2>2. job' = [job EXCEPT ![p] = [job[p] EXCEPT !.activated = last]]
    BY <1>3 DEF StampActivation, TypeOK, ProcessTypes
  <2>3. ProcessTypes'
    BY <1>3, <2>1, <2>2, StepNames, MoveTypes DEF StampActivation
  <2> QED
    BY <1>3, <2>3, UnchangedTypes DEF StampActivation, TypeOK
<1>4. CASE WriteSettings(p)
  <2>1. RowTypes'
    BY <1>4, RowUpdates, FieldTypes DEF WriteSettings, TypeOK, RowTypes
  <2> QED
    BY <1>4, <2>1, HandlerTypes, UnchangedTypes DEF WriteSettings, TypeOK
<1>5. CASE DisconnectReload(p)
  BY <1>5, StepNames, FieldTypes, HandlerTypes DEF DisconnectReload, TypeOK
<1>6. CASE Disable(p)
  <2>1. RowTypes'
    BY <1>6, RowUpdates DEF Disable, TypeOK, RowTypes
  <2>2. ProcessTypes'
    BY <1>6, StepNames, HandlerTypes DEF Disable, TypeOK, ProcessTypes
  <2> QED
    BY <1>6, <2>1, <2>2, UnchangedTypes DEF Disable, TypeOK
<1>7. CASE Revoked(p)
  <2>1. ProcessTypes'
    BY <1>7, StepNames, HandlerTypes DEF Revoked, TypeOK, ProcessTypes
  <2> QED
    BY <1>7, <2>1, UnchangedTypes DEF Revoked, TypeOK
<1>8. CASE ClearConnection(p)
  <2>1. RowTypes'
    BY <1>8, RowUpdates DEF ClearConnection, TypeOK, RowTypes
  <2> QED
    BY <1>8, <2>1, HandlerTypes, UnchangedTypes DEF ClearConnection, TypeOK
<1> QED
  BY <1>1, <1>2, <1>3, <1>4, <1>5, <1>6, <1>7, <1>8
     DEF SettingsStep, DisconnectStep

\* ... and whatever happens around the handlers.
LEMMA TypeEnvironment ==
  ASSUME TypeOK, Environment
  PROVE  TypeOK'
<1>1. CASE Arrive
  <2>1. MailTypes'
    BY <1>1, BoundAssumption DEF Arrive, TypeOK, MailTypes
  <2> QED
    BY <1>1, <2>1, UnchangedTypes DEF Arrive, TypeOK
<1>2. CASE DeleteMail
  <2>1. MailTypes'
    BY <1>2, BoundAssumption DEF DeleteMail, TypeOK, MailTypes, Msg
  <2> QED
    BY <1>2, <2>1, UnchangedTypes, BudgetStep DEF DeleteMail, TypeOK
<1>3. CASE LeaseExpires
  <2>1. RowTypes'
    BY <1>3 DEF LeaseExpires, TypeOK, RowTypes, Lease
  <2> QED
    BY <1>3, <2>1, UnchangedTypes, BudgetStep DEF LeaseExpires, TypeOK
<1>4. CASE OrphanExpires
  <2>1. RowTypes'
    BY <1>4 DEF OrphanExpires, TypeOK, RowTypes, Lease
  <2> QED
    BY <1>4, <2>1, UnchangedTypes DEF OrphanExpires, TypeOK
<1>5. CASE WatchLapses
  <2>1. RowTypes'
    BY <1>5, RowUpdates DEF WatchLapses, TypeOK, RowTypes
  <2> QED
    BY <1>5, <2>1, UnchangedTypes, BudgetStep DEF WatchLapses, TypeOK
<1>6. CASE Callback
  <2>1. RowTypes'
    BY <1>6, RowUpdates DEF Callback, TypeOK, RowTypes
  <2> QED
    BY <1>6, <2>1, UnchangedTypes, BudgetStep DEF Callback, TypeOK
<1>7. CASE Pause
  <2>1. RowTypes'
    BY <1>7, RowUpdates DEF Pause, TypeOK, RowTypes
  <2> QED
    BY <1>7, <2>1, UnchangedTypes, BudgetStep DEF Pause, TypeOK
<1> QED
  BY <1>1, <1>2, <1>3, <1>4, <1>5, <1>6, <1>7 DEF Environment

\* The types hold at the start, and every step keeps them.
LEMMA TypeInit == Init => TypeOK
<1> SUFFICES ASSUME Init PROVE TypeOK
  OBVIOUS
<1>1. RowTypes
  BY EmptyRowType, FreeLeaseType DEF Init, RowTypes
<1>2. MailTypes /\ BudgetTypes
  BY BoundAssumption DEF Init, MailTypes, BudgetTypes
<1>3. RecordTypes
  BY EmptyTypes DEF Init, RecordTypes
<1>4. ProcessTypes
  BY StepNames, EmptyRowType, NoJobType DEF Init, ProcessTypes, Op
<1> QED
  BY <1>1, <1>2, <1>3, <1>4 DEF TypeOK

LEMMA TypeStep == TypeOK /\ [Next]_vars => TypeOK'
<1> SUFFICES ASSUME TypeOK, [Next]_vars PROVE TypeOK'
  OBVIOUS
<1>1. CASE Environment
  BY <1>1, TypeEnvironment
<1>2. CASE \E p \in Procs : Start(p) \/ Progress(p) \/ Failure(p)
  BY <1>2, TypeStart, TypeLease, TypeSync, TypeMessage, TypeSettings
     DEF Progress, Failure
<1>3. CASE UNCHANGED vars
  BY <1>3, UnchangedTypes DEF vars, mailbox, records, budgets, TypeOK
<1> QED
  BY <1>1, <1>2, <1>3 DEF Next

\* Every variable keeps its type in every behaviour.
THEOREM TypeCorrect == Spec => []TypeOK
BY TypeInit, TypeStep, PTL DEF Spec

-----------------------------------------------------------------------------
(* One draft per import.                                                   *)

\* Only recording an outcome touches the records.
LEMMA RecordsChange ==
  ASSUME [Next]_vars
  PROVE  UNCHANGED records \/ \E p \in Procs : RecordOutcome(p)
<1>1. CASE Environment
  BY <1>1 DEF Environment, Arrive, DeleteMail, LeaseExpires, OrphanExpires,
              WatchLapses, Callback, Pause
<1>2. ASSUME NEW p \in Procs, Start(p) \/ LeaseStep(p) \/ Failure(p)
      PROVE  UNCHANGED records
  BY <1>2 DEF Start, SyncStart, ImportStart, SettingsStart, DisconnectStart,
              Begin, LeaseStep, AcquireLease, LeaseBusy, ReleaseLease, Failure,
              CallFails, HistoryExpired, PageTokenExpired, Crash
<1>3. ASSUME NEW p \in Procs, SyncStep(p)
      PROVE  UNCHANGED records
  BY <1>3 DEF SyncStep, SyncReload, Load, WatchValid, RenewWatch, ListHistory,
              SearchSinceActivation, PickMessage, SkipKnown, BatchFull,
              CommitCursor
<1>4. ASSUME NEW p \in Procs, SettingsStep(p) \/ DisconnectStep(p)
      PROVE  UNCHANGED records
  BY <1>4 DEF SettingsStep, SettingsReload, Load, ReadProfile, StampActivation,
              WriteSettings, DisconnectStep, DisconnectReload, Disable, Revoked,
              ClearConnection
<1>5. ASSUME NEW p \in Procs, MessageStep(p)
      PROVE  UNCHANGED records \/ RecordOutcome(p)
  BY <1>5 DEF MessageStep, ImportReload, Load, ImportCheck, Fetch, RecordRefused
<1>6. CASE UNCHANGED vars
  BY <1>6 DEF vars, records
<1> QED
  BY <1>1, <1>2, <1>3, <1>4, <1>5, <1>6 DEF Next, Progress

\* A draft is added in the step that records its message as imported, once.
LEMMA OneDraftStep ==
  TypeOK /\ OneDraftPerImport /\ [Next]_vars => OneDraftPerImport'
<1> SUFFICES ASSUME TypeOK, OneDraftPerImport, [Next]_vars, NEW n \in Msg
             PROVE  Len(drafts'[n]) = IF outcome'[n] = "imported" THEN 1 ELSE 0
  BY DEF OneDraftPerImport
<1>1. CASE UNCHANGED records
  BY <1>1 DEF OneDraftPerImport, records
<1>2. CASE \E p \in Procs : RecordOutcome(p)
  <2>1. PICK p \in Procs : RecordOutcome(p)
    BY <1>2
  <2> DEFINE m == job[p].msg
             new == outcome[m] # "imported"
  <2>2. PICK w \in BookTo(p, m) :
          drafts' = IF new /\ job[p].verdict = "imported"
                    THEN [drafts EXCEPT ![m] = Append(@, w)] ELSE drafts
    BY <2>1 DEF RecordOutcome, RecordInto
  <2>3. outcome' = IF new THEN [outcome EXCEPT ![m] = job[p].verdict]
                   ELSE outcome
    BY <2>1 DEF RecordOutcome, RecordInto
  <2>4. drafts[n] \in Seq(Wallets)
    BY DEF TypeOK, RecordTypes
  <2>5. Len(drafts[n]) = IF outcome[n] = "imported" THEN 1 ELSE 0
    BY DEF OneDraftPerImport
  <2>6. CASE n = m /\ new /\ job[p].verdict = "imported"
    <3>1. drafts'[n] = Append(drafts[n], w) /\ outcome'[n] = "imported"
      BY <2>2, <2>3, <2>6 DEF TypeOK, RecordTypes
    <3>2. w \in Wallets
      BY <2>1, <2>6, FieldTypes DEF BookTo, Bookable, RecordOutcome, Row
    <3> QED
      BY <2>4, <2>5, <2>6, <3>1, <3>2
  <2>7. CASE ~(n = m /\ new /\ job[p].verdict = "imported")
    <3>1. drafts'[n] = drafts[n]
      BY <2>2, <2>7 DEF TypeOK, RecordTypes
    <3>2. (outcome'[n] = "imported") <=> (outcome[n] = "imported")
      BY <2>3, <2>7 DEF TypeOK, RecordTypes
    <3> QED
      BY <2>5, <3>1, <3>2
  <2> QED
    BY <2>6, <2>7
<1> QED
  BY <1>1, <1>2, RecordsChange

\* A message has a draft exactly when it is recorded as imported, and never
\* more than one: gmailRecord decides under the row lock and commits both.
THEOREM OneDraftCorrect == Spec => []OneDraftPerImport
<1>1. Init => OneDraftPerImport
  BY DEF Init, OneDraftPerImport
<1> QED
  BY <1>1, TypeInit, TypeStep, OneDraftStep, PTL DEF Spec

-----------------------------------------------------------------------------
(* The configuration under a running sync or import.                       *)

\* Each step belongs to one handler, and a sync only goes on past the reload
\* with an enabled row.
StepOfItsHandler(p) ==
  /\ pc[p] \in {"watch", "list", "search", "pick"} => op[p] = "sync"
  /\ pc[p] = "check" => op[p] = "import"
  /\ pc[p] \in {"fetch", "record"} => op[p] \in {"sync", "import"}
  /\ pc[p] \in {"profile", "stamp", "write"} => op[p] = "settings"
  /\ pc[p] \in {"disable", "revoke", "clear"} => op[p] = "disconnect"
  /\ Running(p) /\ op[p] = "sync" => snap[p].enabled

\* A message about to be imported passed the checks of gmailProcess.
VerdictHolds(p) ==
  /\ pc[p] = "record"
  /\ job[p].verdict = "imported"
  /\ mail[job[p].msg].class = "bifast"
  => mail[job[p].msg].to = snap[p].account

\* What ConfigurationFrozen says of one process.
Frozen(p) ==
  Running(p) /\ Fenced(p) =>
    /\ conn.enabled = snap[p].enabled
    /\ conn.wallet = snap[p].wallet
    /\ conn.account = snap[p].account
    /\ conn.activated = snap[p].activated
    /\ conn.history = snap[p].history

\* The inductive invariant.
HandlerInv ==
  \A p \in Procs : StepOfItsHandler(p) /\ VerdictHolds(p) /\ Frozen(p)

Locals(p) == <<pc[p], op[p], snap[p], job[p]>>

\* A step of one process leaves the locals of every other one alone.
LEMMA OthersKeepLocals ==
  ASSUME TypeOK, NEW p \in Procs, NEW q \in Procs, q # p,
         Start(p) \/ Progress(p) \/ Failure(p)
  PROVE  Locals(q)' = Locals(q) /\ mail' = mail
<1>0. pc \in [Procs -> Step] /\ op \in [Procs -> Op] /\ snap \in [Procs -> Row]
        /\ job \in [Procs -> Job]
  BY DEF TypeOK, ProcessTypes
<1>1. CASE Start(p)
  BY <1>0, <1>1 DEF Start, SyncStart, ImportStart, SettingsStart,
     DisconnectStart, Begin, Goto, Locals, mailbox
<1>2. CASE LeaseStep(p)
  BY <1>0, <1>2 DEF LeaseStep, AcquireLease, LeaseBusy, ReleaseLease, Finish,
     Goto, Locals, mailbox
<1>3. CASE Failure(p)
  BY <1>0, <1>3 DEF Failure, CallFails, HistoryExpired, PageTokenExpired, Crash,
     Leave, Finish, Goto, Locals, mailbox
<1>4. CASE SyncStep(p)
  BY <1>0, <1>4 DEF SyncStep, SyncReload, Load, WatchValid, RenewWatch,
     ListHistory, SearchSinceActivation, PickMessage, SkipKnown, BatchFull,
     CommitCursor, Leave, Goto, Locals, mailbox
<1>5. CASE MessageStep(p)
  BY <1>0, <1>5 DEF MessageStep, ImportReload, Load, ImportCheck, Fetch,
     RecordOutcome, RecordRefused, Leave, Goto, Locals, mailbox
<1>6. CASE SettingsStep(p) \/ DisconnectStep(p)
  BY <1>0, <1>6 DEF SettingsStep, SettingsReload, Load, ReadProfile,
     StampActivation, WriteSettings, DisconnectStep, DisconnectReload, Disable,
     Revoked, ClearConnection, Leave, Goto, Locals, mailbox
<1> QED
  BY <1>1, <1>2, <1>3, <1>4, <1>5, <1>6 DEF Progress

\* The five columns a running sync or import relies on.
Configuration == <<conn.enabled, conn.wallet, conn.account, conn.activated,
                   conn.history>>

\* They change only under the valid or expired lease of the process that
\* changes them, and a process that takes or loses the lease changes none.
LEMMA OthersKeepConfiguration ==
  ASSUME TypeOK, NEW p \in Procs, NEW q \in Procs, q # p, Fenced(q)',
         Start(p) \/ Progress(p) \/ Failure(p)
  PROVE  Fenced(q) /\ Configuration' = Configuration
<1>0. conn \in Row /\ lease \in Lease
  BY DEF TypeOK, RowTypes
<1>1. CASE Start(p)
  BY <1>0, <1>1 DEF Start, SyncStart, ImportStart, SettingsStart,
     DisconnectStart, Begin, Fenced, Configuration
<1>2. CASE LeaseStep(p)
  BY <1>0, <1>2, NamesAssumption DEF LeaseStep, AcquireLease, LeaseBusy,
     ReleaseLease, FreeLease, Fenced, Configuration, Holds
<1>3. CASE Failure(p)
  BY <1>0, <1>3, NamesAssumption DEF Failure, CallFails, HistoryExpired,
     PageTokenExpired, Crash, Fenced, Configuration, Holds, Row, Lease
<1>4. CASE SyncStep(p)
  BY <1>0, <1>4 DEF SyncStep, SyncReload, Load, WatchValid, RenewWatch,
     ListHistory, SearchSinceActivation, PickMessage, SkipKnown, BatchFull,
     CommitCursor, Fenced, Configuration, Holds, Row
<1>5. CASE MessageStep(p)
  BY <1>0, <1>5 DEF MessageStep, ImportReload, Load, ImportCheck, Fetch,
     RecordOutcome, RecordRefused, Fenced, Configuration
<1>6. CASE SettingsStep(p) \/ DisconnectStep(p)
  BY <1>0, <1>6 DEF SettingsStep, SettingsReload, Load, ReadProfile,
     StampActivation, WriteSettings, DisconnectStep, DisconnectReload, Disable,
     Revoked, ClearConnection, Fenced, Configuration, Holds
<1> QED
  BY <1>1, <1>2, <1>3, <1>4, <1>5, <1>6 DEF Progress

\* What a process knows of its own handler survives the steps of the others.
LEMMA OthersKeepInv ==
  ASSUME TypeOK, HandlerInv, NEW p \in Procs, NEW q \in Procs, q # p,
         Start(p) \/ Progress(p) \/ Failure(p)
  PROVE  StepOfItsHandler(q)' /\ VerdictHolds(q)' /\ Frozen(q)'
<1>1. /\ pc'[q] = pc[q] /\ op'[q] = op[q]
      /\ snap'[q] = snap[q] /\ job'[q] = job[q] /\ mail' = mail
  BY OthersKeepLocals DEF Locals
<1>2. StepOfItsHandler(q)'
  BY <1>1 DEF HandlerInv, StepOfItsHandler, Running
<1>3. VerdictHolds(q)'
  BY <1>1 DEF HandlerInv, VerdictHolds
<1>4. Frozen(q)'
  <2>1. CASE Running(q)' /\ Fenced(q)'
    <3>1. Fenced(q) /\ Configuration' = Configuration
      BY <2>1, OthersKeepConfiguration
    <3>2. Running(q)
      BY <1>1, <2>1 DEF Running
    <3> QED
      BY <1>1, <3>1, <3>2 DEF Frozen, HandlerInv, Configuration
  <2>2. CASE ~(Running(q)' /\ Fenced(q)')
    BY <2>2 DEF Frozen
  <2> QED
    BY <2>1, <2>2
<1> QED
  BY <1>2, <1>3, <1>4

\* Wherever a handler ends up after Leave or Finish, nothing is claimed.
LEMMA AtRest ==
  ASSUME TypeOK, NEW p \in Procs,
         pc'[p] \in {"idle", "lease", "reload", "release"}
  PROVE  StepOfItsHandler(p)' /\ VerdictHolds(p)' /\ Frozen(p)'
BY DEF StepOfItsHandler, VerdictHolds, Frozen, Running

\* A step that leaves or enters a handler leaves nothing to know about it.
LEMMA RestingSteps ==
  ASSUME TypeOK, NEW p \in Procs,
         \/ Start(p) \/ LeaseStep(p) \/ CallFails(p) \/ Crash(p)
         \/ PageTokenExpired(p) \/ BatchFull(p) \/ CommitCursor(p)
         \/ RecordRefused(p) \/ WriteSettings(p) \/ ClearConnection(p)
  PROVE  pc'[p] \in {"idle", "lease", "reload", "release"}
BY DEF TypeOK, ProcessTypes, Start, SyncStart, ImportStart, SettingsStart,
       DisconnectStart, Begin, LeaseStep, AcquireLease, LeaseBusy,
       ReleaseLease, CallFails, Crash, PageTokenExpired, BatchFull,
       CommitCursor, RecordRefused, WriteSettings, ClearConnection, Leave,
       Finish, Goto

\* A reload makes the copy and the row agree.
LEMMA LoadKeepsInv ==
  ASSUME TypeOK, NEW p \in Procs,
         SyncReload(p) \/ ImportReload(p) \/ SettingsReload(p)
           \/ DisconnectReload(p)
  PROVE  StepOfItsHandler(p)' /\ VerdictHolds(p)' /\ Frozen(p)'
<1>1. /\ snap'[p] = conn /\ conn' = conn /\ op'[p] = op[p]
  BY DEF TypeOK, ProcessTypes, SyncReload, ImportReload, SettingsReload,
         DisconnectReload, Load
<1>2. Frozen(p)'
  BY <1>1 DEF Frozen
<1>3. StepOfItsHandler(p)' /\ pc'[p] # "record"
  BY <1>1 DEF TypeOK, ProcessTypes, SyncReload, ImportReload, SettingsReload,
     DisconnectReload, Load, Goto, StepOfItsHandler, Running
<1> QED
  BY <1>2, <1>3 DEF VerdictHolds

\* A step inside a handler keeps its copy of the row and the configuration.
LEMMA InnerSteps ==
  ASSUME TypeOK, HandlerInv, NEW p \in Procs,
         \/ WatchValid(p) \/ RenewWatch(p) \/ ListHistory(p)
         \/ HistoryExpired(p) \/ SearchSinceActivation(p) \/ PickMessage(p)
         \/ SkipKnown(p) \/ ImportCheck(p) \/ Fetch(p) \/ RecordOutcome(p)
         \/ ReadProfile(p) \/ StampActivation(p) \/ Revoked(p)
  PROVE  /\ op' = op /\ snap' = snap /\ lease' = lease /\ mail' = mail
         /\ Configuration' = Configuration
         /\ pc[p] \notin {"idle", "lease", "reload", "release"}
BY DEF TypeOK, RowTypes, Row, WatchValid, RenewWatch, ListHistory,
       HistoryExpired, SearchSinceActivation, PickMessage, SkipKnown,
       ImportCheck, Fetch, RecordOutcome, ReadProfile, StampActivation,
       Revoked, Configuration, Leave, mailbox

\* A step inside a handler carries what the process knows on to the next.
LEMMA InnerKeepsInv ==
  ASSUME TypeOK, HandlerInv, NEW p \in Procs,
         \/ WatchValid(p) \/ RenewWatch(p) \/ ListHistory(p)
         \/ HistoryExpired(p) \/ SearchSinceActivation(p) \/ PickMessage(p)
         \/ SkipKnown(p) \/ ImportCheck(p) \/ Fetch(p) \/ RecordOutcome(p)
         \/ ReadProfile(p) \/ StampActivation(p) \/ Revoked(p)
  PROVE  StepOfItsHandler(p)' /\ VerdictHolds(p)' /\ Frozen(p)'
<1>0. /\ op' = op /\ snap' = snap /\ lease' = lease /\ mail' = mail
      /\ Configuration' = Configuration
      /\ pc[p] \notin {"idle", "lease", "reload", "release"}
  BY InnerSteps
<1>1. StepOfItsHandler(p) /\ Frozen(p) /\ pc \in [Procs -> Step]
        /\ job \in [Procs -> Job]
  BY DEF HandlerInv, TypeOK, ProcessTypes
<1>2. Running(p)' => Running(p)
  BY <1>0 DEF Running
<1>3. Frozen(p)'
  BY <1>0, <1>1, <1>2 DEF Frozen, Fenced, Configuration
<1>4. StepOfItsHandler(p)'
  <2>1. Running(p)' /\ op'[p] = "sync" => snap'[p].enabled
    BY <1>0, <1>1, <1>2 DEF StepOfItsHandler
  <2>2. CASE \/ WatchValid(p) \/ RenewWatch(p) \/ ListHistory(p)
             \/ HistoryExpired(p) \/ SearchSinceActivation(p)
             \/ PickMessage(p) \/ SkipKnown(p)
    BY <1>0, <1>1, <2>1, <2>2 DEF StepOfItsHandler, WatchValid, RenewWatch,
       ListHistory, HistoryExpired, SearchSinceActivation, PickMessage,
       SkipKnown, Leave, Goto, Listing
  <2>3. CASE \/ ImportCheck(p) \/ Fetch(p) \/ RecordOutcome(p)
             \/ ReadProfile(p) \/ StampActivation(p) \/ Revoked(p)
    BY <1>0, <1>1, <2>1, <2>3 DEF StepOfItsHandler, ImportCheck, Fetch,
       RecordOutcome, ReadProfile, StampActivation, Revoked, Goto
  <2> QED
    BY <2>2, <2>3
<1>5. VerdictHolds(p)'
  <2>1. CASE Fetch(p)
    <3>1. job'[p].verdict = Classify(snap[p], job[p].msg, op[p] = "import")
            /\ job'[p].msg = job[p].msg
      BY <1>1, <2>1 DEF Fetch, Job
    <3> QED
      BY <1>0, <3>1 DEF VerdictHolds, Classify
  <2>2. CASE ~Fetch(p)
    BY <1>0, <1>1, <2>2 DEF VerdictHolds, WatchValid, RenewWatch, ListHistory,
       HistoryExpired, SearchSinceActivation, PickMessage, SkipKnown,
       ImportCheck, RecordOutcome, ReadProfile, StampActivation, Revoked,
       Leave, Goto, Listing
  <2> QED
    BY <2>1, <2>2
<1> QED
  BY <1>3, <1>4, <1>5

\* Disabling leaves the configuration to nobody: a disconnect is no sync.
LEMMA DisableKeepsInv ==
  ASSUME TypeOK, HandlerInv, NEW p \in Procs, Disable(p)
  PROVE  StepOfItsHandler(p)' /\ VerdictHolds(p)' /\ Frozen(p)'
<1>1. op[p] = "disconnect" /\ op' = op
  BY DEF Disable, HandlerInv, StepOfItsHandler
<1>2. pc'[p] \in {"release", "revoke", "clear"}
  BY DEF Disable, Goto, TypeOK, ProcessTypes
<1> QED
  BY <1>1, <1>2 DEF StepOfItsHandler, VerdictHolds, Frozen, Running

\* Outside a handler the row changes only while no lease is valid.
LEMMA EnvironmentKeepsInv ==
  ASSUME TypeOK, HandlerInv, Environment, NEW p \in Procs
  PROVE  StepOfItsHandler(p)' /\ VerdictHolds(p)' /\ Frozen(p)'
<1>1. UNCHANGED <<pc, op, snap, job, mail>>
  BY DEF Environment, Arrive, DeleteMail, LeaseExpires, OrphanExpires,
         WatchLapses, Callback, Pause, mailbox
<1>2. StepOfItsHandler(p)' /\ VerdictHolds(p)'
  BY <1>1 DEF HandlerInv, StepOfItsHandler, VerdictHolds, Running
<1>3. Fenced(p)' => Fenced(p) /\ Configuration' = Configuration
  BY NamesAssumption DEF TypeOK, RowTypes, Row, Lease, Environment, Arrive,
     DeleteMail, LeaseExpires, OrphanExpires, WatchLapses, Callback, Pause,
     LeaseFree, Fenced, Configuration
<1>4. Frozen(p)'
  BY <1>1, <1>3 DEF HandlerInv, Frozen, Running, Configuration
<1> QED
  BY <1>2, <1>4

\* HandlerInv is inductive.
LEMMA HandlerStep == TypeOK /\ HandlerInv /\ [Next]_vars => HandlerInv'
<1> SUFFICES ASSUME TypeOK, HandlerInv, [Next]_vars, NEW q \in Procs
             PROVE  StepOfItsHandler(q)' /\ VerdictHolds(q)' /\ Frozen(q)'
  BY DEF HandlerInv
<1>1. CASE Environment
  BY <1>1, EnvironmentKeepsInv
<1>2. ASSUME NEW p \in Procs, Start(p) \/ Progress(p) \/ Failure(p)
      PROVE  StepOfItsHandler(q)' /\ VerdictHolds(q)' /\ Frozen(q)'
  <2>1. CASE q # p
    BY <1>2, <2>1, OthersKeepInv
  <2>2. CASE q = p
    BY <1>2, <2>2, RestingSteps, AtRest, LoadKeepsInv, InnerKeepsInv,
       DisableKeepsInv
       DEF Progress, Failure, SyncStep, MessageStep, SettingsStep,
           DisconnectStep
  <2> QED
    BY <2>1, <2>2
<1>3. CASE UNCHANGED vars
  BY <1>3 DEF vars, HandlerInv, StepOfItsHandler, VerdictHolds, Frozen,
              Running, Fenced
<1> QED
  BY <1>1, <1>2, <1>3 DEF Next

LEMMA HandlerInit == Init => HandlerInv
BY DEF Init, HandlerInv, StepOfItsHandler, VerdictHolds, Frozen, Running

\* "Configuration cannot change under a running import/sync", whatever stale
\* processes, reconnects and pauses interleave.
THEOREM FrozenCorrect == Spec => []ConfigurationFrozen
<1>1. HandlerInv => ConfigurationFrozen
  BY DEF HandlerInv, Frozen, ConfigurationFrozen
<1> QED
  BY <1>1, TypeInit, TypeStep, HandlerInit, HandlerStep, PTL DEF Spec

\* A draft is booked by a process whose valid lease froze the settings.
LEMMA BookingStep == TypeOK /\ HandlerInv /\ [Next]_vars => [FollowsSettings]_vars
<1> SUFFICES ASSUME TypeOK, HandlerInv, [Next]_vars, NEW n \in Msg,
                    drafts'[n] # drafts[n]
             PROVE  /\ \/ mail[n].class = "provider"
                       \/ drafts'[n] = Append(drafts[n], conn.wallet)
                    /\ mail[n].class = "bifast" => mail[n].to = conn.account
                    /\ conn.enabled \/ \E p \in Procs : op[p] = "import"
                                                         /\ job[p].msg = n
  BY DEF FollowsSettings
<1>1. PICK p \in Procs : RecordOutcome(p)
  BY RecordsChange DEF records
<1> DEFINE m == job[p].msg
<1>2. PICK w \in BookTo(p, m) :
        drafts' = IF outcome[m] # "imported" /\ job[p].verdict = "imported"
                  THEN [drafts EXCEPT ![m] = Append(@, w)] ELSE drafts
  BY <1>1 DEF RecordOutcome, RecordInto
<1>3. n = m /\ job[p].verdict = "imported" /\ drafts'[n] = Append(drafts[n], w)
  BY <1>2 DEF TypeOK, RecordTypes
<1>4. pc[p] = "record" /\ Fenced(p) /\ op[p] \in {"sync", "import"}
  BY <1>1 DEF RecordOutcome, HandlerInv, StepOfItsHandler
<1>5. Running(p)
  BY <1>4 DEF Running
<1>6. /\ conn.enabled = snap[p].enabled
      /\ conn.wallet = snap[p].wallet
      /\ conn.account = snap[p].account
  BY <1>4, <1>5 DEF HandlerInv, Frozen
<1>7. mail[n].class = "provider" \/ drafts'[n] = Append(drafts[n], conn.wallet)
  BY <1>2, <1>3, <1>6 DEF BookTo
<1>8. mail[n].class = "bifast" => mail[n].to = conn.account
  BY <1>3, <1>4, <1>6 DEF HandlerInv, VerdictHolds
<1>9. op[p] = "sync" => conn.enabled
  BY <1>5, <1>6 DEF HandlerInv, StepOfItsHandler
<1> QED
  BY <1>3, <1>4, <1>7, <1>8, <1>9

\* A BI FAST draft is booked to the wallet and for the account the row names
\* when it is written, and a sync books none while the connection is off.
THEOREM DraftsFollowCorrect == Spec => DraftsFollowSettings
BY TypeInit, TypeStep, HandlerInit, HandlerStep, BookingStep, PTL
   DEF Spec, DraftsFollowSettings

-----------------------------------------------------------------------------
(* An enabled connection is configured.                                    *)

\* An activation comes with a credential and a cursor.
RowInv == (conn.activated # 0 => conn.cipher /\ conn.history # 0)
            /\ EnabledIsConfigured

\* What a handler may still write under its lease keeps RowInv: the settings
\* it asks for are complete, its activation has a cursor and a credential, the
\* cursor of a sync is set, and nobody enables under a disconnect.
Prepared(p) ==
  /\ op[p] = "settings" => job[p].want.wallet # None /\ job[p].want.account # None
  /\ pc[p] \in {"profile", "stamp"} /\ Holds(p) => conn.cipher
  /\ pc[p] = "stamp" => job[p].history # 0
  /\ pc[p] = "write" => /\ job[p].activated # 0 => job[p].history # 0
                        /\ job[p].activated # 0 /\ Holds(p) => conn.cipher
                        /\ job[p].want.enabled => job[p].activated # 0
  /\ pc[p] \in {"revoke", "clear"} /\ Holds(p) => ~conn.enabled
  /\ Running(p) /\ op[p] = "sync" => job[p].history # 0
  /\ pc[p] = "watch" => job[p].recovery = snap[p].recovery
  /\ pc[p] = "search" => job[p].recovery # 0

ConfigInv == RowInv /\ \A p \in Procs : Prepared(p)

\* A step of one process takes no credential away, and enables nothing, under
\* the lease of another.
LEMMA OthersKeepCredential ==
  ASSUME TypeOK, NEW p \in Procs, NEW q \in Procs, q # p, Holds(q)',
         Start(p) \/ Progress(p) \/ Failure(p)
  PROVE  Holds(q) /\ (conn.cipher => conn'.cipher)
                  /\ (conn'.enabled => conn.enabled)
<1>0. conn \in Row /\ lease \in Lease
  BY DEF TypeOK, RowTypes
<1>1. CASE Start(p)
  BY <1>0, <1>1 DEF Start, SyncStart, ImportStart, SettingsStart,
     DisconnectStart, Begin, Holds
<1>2. CASE LeaseStep(p)
  BY <1>0, <1>2, NamesAssumption DEF LeaseStep, AcquireLease, LeaseBusy,
     ReleaseLease, FreeLease, Holds
<1>3. CASE Failure(p)
  BY <1>0, <1>3, NamesAssumption DEF Failure, CallFails, HistoryExpired,
     PageTokenExpired, Crash, Holds, Row, Lease
<1>4. CASE SyncStep(p)
  BY <1>0, <1>4 DEF SyncStep, SyncReload, Load, WatchValid, RenewWatch,
     ListHistory, SearchSinceActivation, PickMessage, SkipKnown, BatchFull,
     CommitCursor, Holds, Row
<1>5. CASE MessageStep(p)
  BY <1>0, <1>5 DEF MessageStep, ImportReload, Load, ImportCheck, Fetch,
     RecordOutcome, RecordRefused, Holds
<1>6. CASE SettingsStep(p) \/ DisconnectStep(p)
  BY <1>0, <1>6 DEF SettingsStep, SettingsReload, Load, ReadProfile,
     StampActivation, WriteSettings, DisconnectStep, DisconnectReload, Disable,
     Revoked, ClearConnection, Holds
<1> QED
  BY <1>1, <1>2, <1>3, <1>4, <1>5, <1>6 DEF Progress

\* What one process has prepared survives the steps of the others ...
LEMMA OthersStayPrepared ==
  ASSUME TypeOK, ConfigInv, NEW p \in Procs, NEW q \in Procs, q # p,
         Start(p) \/ Progress(p) \/ Failure(p)
  PROVE  Prepared(q)'
<1>1. /\ pc'[q] = pc[q] /\ op'[q] = op[q]
      /\ snap'[q] = snap[q] /\ job'[q] = job[q]
  BY OthersKeepLocals DEF Locals
<1>2. Prepared(q)
  BY DEF ConfigInv
<1>3. Holds(q)' => /\ Holds(q)
                   /\ conn.cipher => conn'.cipher
                   /\ conn'.enabled => conn.enabled
  BY OthersKeepCredential
<1>4. Running(q)' <=> Running(q)
  BY <1>1 DEF Running
<1> QED
  BY <1>1, <1>2, <1>3, <1>4 DEF Prepared

\* ... nothing is prepared at the start of a handler ...
LEMMA StartPrepared ==
  ASSUME TypeOK, NEW p \in Procs, Start(p)
  PROVE  Prepared(p)'
<1>0. pc \in [Procs -> Step] /\ op \in [Procs -> Op] /\ job \in [Procs -> Job]
  BY DEF TypeOK, ProcessTypes
<1>1. pc'[p] = "lease" /\ ~Running(p)'
  BY <1>0 DEF Start, SyncStart, ImportStart, SettingsStart, DisconnectStart,
     Begin, Goto, Running
<1>2. op'[p] = "settings" =>
        job'[p].want.wallet # None /\ job'[p].want.account # None
  <2>1. CASE SettingsStart(p)
    <3>1. PICK e \in BOOLEAN, w \in Wallets, a \in Accounts :
            Begin(p, "settings", [NoJob EXCEPT !.want =
                    [enabled |-> e, wallet |-> w, account |-> a]])
      BY <2>1 DEF SettingsStart
    <3>2. job'[p].want = [enabled |-> e, wallet |-> w, account |-> a]
      BY <1>0, <3>1, NoJobType DEF Begin, Job
    <3> QED
      BY <3>2, NamesAssumption
  <2>2. CASE ~SettingsStart(p)
    BY <1>0, <2>2 DEF Start, SyncStart, ImportStart, DisconnectStart, Begin
  <2> QED
    BY <2>1, <2>2
<1> QED
  BY <1>1, <1>2 DEF Prepared

\* The steps that end a handler keep what it asked for, or forget it.
LEMMA RestPrepared ==
  ASSUME TypeOK, NEW p \in Procs, Prepared(p),
         \/ LeaseStep(p) \/ CallFails(p) \/ Crash(p)
         \/ PageTokenExpired(p) \/ BatchFull(p) \/ CommitCursor(p)
         \/ RecordRefused(p) \/ WriteSettings(p) \/ ClearConnection(p)
  PROVE  Prepared(p)'
<1>0. pc \in [Procs -> Step] /\ op \in [Procs -> Op]
  BY DEF TypeOK, ProcessTypes
<1>1. pc'[p] \in {"idle", "lease", "reload", "release"}
  BY RestingSteps
<1>2. op'[p] = "none" \/ (op'[p] = op[p] /\ job'[p] = job[p])
  BY <1>0 DEF LeaseStep, AcquireLease, LeaseBusy, ReleaseLease, CallFails,
     Crash, PageTokenExpired, BatchFull, CommitCursor, RecordRefused,
     WriteSettings, ClearConnection, Leave, Finish
<1> QED
  BY <1>1, <1>2 DEF Prepared, Running

\* ... loading the row prepares what its next step needs ...
LEMMA LoadPrepared ==
  ASSUME TypeOK, RowInv, NEW p \in Procs, Prepared(p),
         SyncReload(p) \/ ImportReload(p) \/ SettingsReload(p)
           \/ DisconnectReload(p)
  PROVE  Prepared(p)'
<1>0. pc \in [Procs -> Step] /\ job[p] \in Job /\ snap \in [Procs -> Row]
        /\ job \in [Procs -> Job] /\ conn \in Row
  BY DEF TypeOK, ProcessTypes, RowTypes
<1>1. op' = op /\ conn' = conn /\ lease' = lease /\ snap'[p] = conn
  BY <1>0 DEF SyncReload, ImportReload, SettingsReload, DisconnectReload, Load
<1>2. CASE SyncReload(p)
  <2>1. /\ job'[p].history = conn.history
        /\ job'[p].recovery = conn.recovery
        /\ job'[p].want = job[p].want
    BY <1>0, <1>2 DEF SyncReload, Load, Job
  <2>2. pc'[p] = IF conn.enabled THEN "watch" ELSE "release"
    BY <1>0, <1>2 DEF SyncReload, Load, Goto
  <2>3. op[p] = "sync"
    BY <1>2 DEF SyncReload
  <2> QED
    BY <1>1, <2>1, <2>2, <2>3 DEF Prepared, Running, RowInv, EnabledIsConfigured
<1>3. CASE SettingsReload(p)
  <2>1. /\ job'[p].history = conn.history
        /\ job'[p].activated = conn.activated
        /\ job'[p].want = job[p].want
    BY <1>0, <1>3 DEF SettingsReload, Load, Job
  <2>2. pc'[p] = IF ~job[p].want.enabled \/ conn.activated # 0 THEN "write"
                 ELSE IF conn.cipher THEN "profile" ELSE "release"
    BY <1>0, <1>3 DEF SettingsReload, Load, Goto
  <2>3. op[p] = "settings"
    BY <1>3 DEF SettingsReload
  <2> QED
    BY <1>1, <2>1, <2>2, <2>3 DEF Prepared, Running, RowInv, Holds
<1>4. CASE ImportReload(p) \/ DisconnectReload(p)
  <2>1. pc'[p] \in {"check", "release", "disable"}
          /\ op[p] \in {"import", "disconnect"}
    BY <1>0, <1>4 DEF ImportReload, DisconnectReload, Load, Goto
  <2> QED
    BY <1>1, <2>1 DEF Prepared, Running
<1> QED
  BY <1>2, <1>3, <1>4

\* ... and so do the steps of a sync or an import ...
LEMMA SyncPrepared ==
  ASSUME TypeOK, NEW p \in Procs, StepOfItsHandler(p), Prepared(p),
         \/ WatchValid(p) \/ RenewWatch(p) \/ ListHistory(p)
         \/ HistoryExpired(p) \/ SearchSinceActivation(p) \/ PickMessage(p)
         \/ SkipKnown(p) \/ ImportCheck(p) \/ Fetch(p) \/ RecordOutcome(p)
  PROVE  Prepared(p)'
<1>0. pc \in [Procs -> Step] /\ job[p] \in Job /\ snap[p] \in Row
        /\ job \in [Procs -> Job] /\ conn \in Row /\ last \in Nat /\ last # 0
  BY BoundAssumption DEF TypeOK, ProcessTypes, RowTypes, MailTypes
<1>1. op' = op /\ snap' = snap /\ op[p] # "settings"
  BY DEF StepOfItsHandler, WatchValid, RenewWatch, ListHistory, HistoryExpired,
     SearchSinceActivation, PickMessage, SkipKnown, ImportCheck, Fetch,
     RecordOutcome, Leave
<1>2. pc'[p] \in {"list", "search", "pick", "fetch", "record", "release"}
  BY <1>0 DEF WatchValid, RenewWatch, ListHistory, HistoryExpired,
     SearchSinceActivation, PickMessage, SkipKnown, ImportCheck, Fetch,
     RecordOutcome, Leave, Goto, Listing
<1>3. Running(p)
  BY DEF StepOfItsHandler, Running, WatchValid, RenewWatch, ListHistory,
     HistoryExpired, SearchSinceActivation, PickMessage, SkipKnown, ImportCheck,
     Fetch, RecordOutcome
<1>4. op[p] = "sync" => job'[p].history # 0
  <2>1. CASE \/ WatchValid(p) \/ RenewWatch(p) \/ HistoryExpired(p)
             \/ PickMessage(p) \/ SkipKnown(p) \/ ImportCheck(p) \/ Fetch(p)
             \/ RecordOutcome(p)
    <3>1. job'[p].history = job[p].history
      BY <1>0, <2>1 DEF WatchValid, RenewWatch, HistoryExpired, PickMessage,
         SkipKnown, ImportCheck, Fetch, RecordOutcome, Leave, Job
    <3> QED
      BY <1>3, <3>1 DEF Prepared
  <2>2. CASE ListHistory(p)
    <3>1. job'[p].history = job[p].history \/ job'[p].history = last
      BY <1>0, <2>2 DEF ListHistory, Job
    <3> QED
      BY <1>0, <1>3, <3>1 DEF Prepared
  <2>3. CASE SearchSinceActivation(p)
    <3>1. job'[p].history = job[p].history \/ job'[p].history = job[p].recovery
      BY <1>0, <2>3 DEF SearchSinceActivation, Job
    <3>2. job[p].recovery # 0
      BY <2>3 DEF SearchSinceActivation, Prepared
    <3> QED
      BY <1>3, <3>1, <3>2 DEF Prepared
  <2> QED
    BY <2>1, <2>2, <2>3
<1>5. pc'[p] = "search" => job'[p].recovery # 0
  <2>1. CASE WatchValid(p) \/ RenewWatch(p)
    BY <1>0, <2>1 DEF WatchValid, RenewWatch, Leave, Goto, Listing, Prepared
  <2>2. CASE HistoryExpired(p)
    BY <1>0, <2>2 DEF HistoryExpired, Leave, Goto, Job
  <2>3. CASE ~(WatchValid(p) \/ RenewWatch(p) \/ HistoryExpired(p))
    BY <1>0, <2>3 DEF ListHistory, SearchSinceActivation, PickMessage,
       SkipKnown, ImportCheck, Fetch, RecordOutcome, Goto
  <2> QED
    BY <2>1, <2>2, <2>3
<1> QED
  BY <1>1, <1>2, <1>4, <1>5 DEF Prepared, Running

\* ... and those of a settings change or a disconnect.
LEMMA SettingsPrepared ==
  ASSUME TypeOK, NEW p \in Procs, StepOfItsHandler(p), Prepared(p),
         ReadProfile(p) \/ StampActivation(p) \/ Disable(p) \/ Revoked(p)
  PROVE  Prepared(p)'
<1>0. pc \in [Procs -> Step] /\ job[p] \in Job /\ job \in [Procs -> Job]
        /\ conn \in Row /\ last \in Nat /\ last # 0
  BY BoundAssumption DEF TypeOK, ProcessTypes, RowTypes, MailTypes
<1>1. CASE ReadProfile(p)
  <2>1. job'[p].history = last /\ job'[p].want = job[p].want
          /\ pc'[p] = "stamp" /\ op' = op /\ lease' = lease /\ conn' = conn
    BY <1>0, <1>1 DEF ReadProfile, Goto, Job
  <2> QED
    BY <1>0, <1>1, <2>1 DEF Prepared, ReadProfile, Holds, Running,
       StepOfItsHandler
<1>2. CASE StampActivation(p)
  <2>1. /\ job'[p].history = job[p].history /\ job'[p].activated = last
        /\ job'[p].want = job[p].want /\ pc'[p] = "write" /\ op' = op
        /\ lease' = lease /\ conn' = conn
    BY <1>0, <1>2 DEF StampActivation, Goto, Job
  <2> QED
    BY <1>0, <1>2, <2>1 DEF Prepared, StampActivation, Holds, Running,
       StepOfItsHandler
<1>3. CASE Disable(p) \/ Revoked(p)
  <2>1. pc'[p] \in {"release", "revoke", "clear"} /\ op' = op /\ lease' = lease
          /\ op[p] = "disconnect" /\ (Holds(p) => ~conn'.enabled)
    BY <1>0, <1>3 DEF Disable, Revoked, Goto, StepOfItsHandler, Prepared, Row
  <2> QED
    BY <2>1 DEF Prepared, Holds, Running
<1> QED
  BY <1>1, <1>2, <1>3

\* Every write to the row keeps it configured.
LEMMA RowStep ==
  ASSUME TypeOK, ConfigInv, HandlerInv, [Next]_vars
  PROVE  RowInv'
<1>0. conn \in Row /\ RowInv
  BY DEF TypeOK, RowTypes, ConfigInv
<1>1. CASE Environment
  BY <1>0, <1>1 DEF Environment, Arrive, DeleteMail, LeaseExpires,
     OrphanExpires, WatchLapses, Callback, Pause, RowInv, EnabledIsConfigured,
     Row
<1>2. ASSUME NEW p \in Procs, Start(p) \/ LeaseStep(p) \/ Failure(p)
      PROVE  RowInv'
  BY <1>0, <1>2 DEF Start, SyncStart, ImportStart, SettingsStart,
     DisconnectStart, Begin, LeaseStep, AcquireLease, LeaseBusy, ReleaseLease,
     Failure, CallFails, HistoryExpired, PageTokenExpired, Crash, RowInv,
     EnabledIsConfigured, Row
<1>3. ASSUME NEW p \in Procs, SyncStep(p) \/ MessageStep(p)
      PROVE  RowInv'
  <2>1. CASE CommitCursor(p)
    <3>1. job[p].history # 0
      BY <2>1 DEF CommitCursor, HandlerInv, StepOfItsHandler, ConfigInv,
         Prepared, Running
    <3> QED
      BY <1>0, <2>1, <3>1 DEF CommitCursor, RowInv, EnabledIsConfigured, Row
  <2>2. CASE RenewWatch(p)
    BY <1>0, <2>2 DEF RenewWatch, RowInv, EnabledIsConfigured, Row
  <2>3. CASE ~CommitCursor(p) /\ ~RenewWatch(p)
    BY <1>0, <1>3, <2>3 DEF SyncStep, MessageStep, SyncReload, Load, WatchValid,
       ListHistory, SearchSinceActivation, PickMessage, SkipKnown, BatchFull,
       ImportReload, ImportCheck, Fetch, RecordOutcome, RecordRefused, RowInv,
       EnabledIsConfigured
  <2> QED
    BY <2>1, <2>2, <2>3
<1>4. ASSUME NEW p \in Procs, SettingsStep(p) \/ DisconnectStep(p)
      PROVE  RowInv'
  <2>1. CASE WriteSettings(p) /\ Holds(p)
    <3> DEFINE j == job[p]
    <3>1. /\ j.want.wallet # None /\ j.want.account # None
          /\ j.activated # 0 => j.history # 0 /\ conn.cipher
          /\ j.want.enabled => j.activated # 0
      BY <2>1 DEF WriteSettings, ConfigInv, Prepared, HandlerInv,
         StepOfItsHandler
    <3>2. /\ conn'.enabled = j.want.enabled /\ conn'.wallet = j.want.wallet
          /\ conn'.account = j.want.account /\ conn'.history = j.history
          /\ conn'.activated = j.activated /\ conn'.cipher = conn.cipher
      BY <1>0, <2>1 DEF WriteSettings, Row
    <3> QED
      BY <3>1, <3>2 DEF RowInv, EnabledIsConfigured
  <2>2. CASE ClearConnection(p) /\ Holds(p)
    <3>1. ~conn.enabled
      BY <2>2 DEF ClearConnection, ConfigInv, Prepared
    <3>2. conn'.enabled = conn.enabled /\ conn'.activated = 0
      BY <2>2 DEF ClearConnection, EmptyRow
    <3> QED
      BY <3>1, <3>2 DEF RowInv, EnabledIsConfigured
  <2>3. CASE Disable(p)
    BY <1>0, <2>3 DEF Disable, RowInv, EnabledIsConfigured, Row
  <2>4. CASE ~Disable(p) /\ ~(WriteSettings(p) /\ Holds(p))
               /\ ~(ClearConnection(p) /\ Holds(p))
    BY <1>0, <1>4, <2>4 DEF SettingsStep, DisconnectStep, SettingsReload, Load,
       ReadProfile, StampActivation, WriteSettings, DisconnectReload, Revoked,
       ClearConnection, RowInv, EnabledIsConfigured
  <2> QED
    BY <2>1, <2>2, <2>3, <2>4
<1>5. CASE UNCHANGED vars
  BY <1>0, <1>5 DEF vars, RowInv, EnabledIsConfigured
<1> QED
  BY <1>1, <1>2, <1>3, <1>4, <1>5 DEF Next, Progress

\* ConfigInv is inductive.
LEMMA ConfigStep == TypeOK /\ HandlerInv /\ ConfigInv /\ [Next]_vars => ConfigInv'
<1> SUFFICES ASSUME TypeOK, HandlerInv, ConfigInv, [Next]_vars, NEW q \in Procs
             PROVE  Prepared(q)'
  BY RowStep DEF ConfigInv
<1>0. Prepared(q) /\ StepOfItsHandler(q) /\ RowInv
  BY DEF ConfigInv, HandlerInv
<1>1. CASE Environment
  <2>1. UNCHANGED <<pc, op, snap, job>> /\ (Holds(q)' => Holds(q))
          /\ (conn.cipher => conn'.cipher) /\ (conn'.enabled => conn.enabled)
    BY <1>1 DEF TypeOK, RowTypes, Row, Lease, Environment, Arrive, DeleteMail,
       LeaseExpires, OrphanExpires, WatchLapses, Callback, Pause, Holds
  <2> QED
    BY <1>0, <2>1 DEF Prepared, Running
<1>2. ASSUME NEW p \in Procs, Start(p) \/ Progress(p) \/ Failure(p)
      PROVE  Prepared(q)'
  <2>1. CASE q # p
    BY <1>2, <2>1, OthersStayPrepared
  <2>2. CASE q = p
    BY <1>0, <1>2, <2>2, StartPrepared, RestPrepared, LoadPrepared,
       SyncPrepared, SettingsPrepared
       DEF Progress, Failure, SyncStep, MessageStep, SettingsStep,
           DisconnectStep
  <2> QED
    BY <2>1, <2>2
<1>3. CASE UNCHANGED vars
  BY <1>0, <1>3 DEF vars, Prepared, Running, Holds
<1> QED
  BY <1>1, <1>2, <1>3 DEF Next

LEMMA ConfigInit == Init => ConfigInv
BY DEF Init, ConfigInv, RowInv, EnabledIsConfigured, EmptyRow, Prepared, Running

\* The check constraint gmail_enabled_config never refuses a write.
THEOREM ConfiguredCorrect == Spec => []EnabledIsConfigured
<1>1. ConfigInv => EnabledIsConfigured
  BY DEF ConfigInv, RowInv
<1> QED
  BY <1>1, TypeInit, TypeStep, HandlerInit, HandlerStep, ConfigInit, ConfigStep,
     PTL DEF Spec

-----------------------------------------------------------------------------
(* No receipt is lost behind the cursor.  The argument follows the three   *)
(* columns a sync resumes from: the cursor, the token of the page it is on *)
(* and the position a recovery started at.  Together they cover a part of  *)
(* the mailbox, and whatever is covered has an outcome or is on the page   *)
(* the process is working through.                                         *)
(*                                                                         *)
(* An expired cursor is recovered by a search that finds BI FAST           *)
(* notifications only, so the theorem holds where the history never        *)
(* expires or the mailbox holds no receipts of other providers; otherwise  *)
(* a receipt of another provider is skipped.                               *)
(*                                                                         *)
(* With this, and with a cursor that never goes back, the integration      *)
(* implements InboxDelivery.                                               *)

RecoverySafe ==
  "history" \notin Faults \/ \A c \in Content : c.class \notin {"provider", "topup"}

Done == {m \in Msg : outcome[m] # "none"}
Owing == {m \in Msg : Owed(m)}

\* What the cursor h, the page token t and the recovery position r, all
\* counted from the activation a, say about the mailbox.
Covers(a, h, t, r, owing, done) ==
  \A m \in owing : a < m =>
    /\ m <= h => m \in done
    /\ r = 0 /\ t # 0 /\ m <= t => m \in done
    /\ r # 0 /\ t # 0 /\ t <= m /\ m <= r => m \in done

RowCovers ==
  /\ conn.activated # 0 => Covers(conn.activated, conn.history, conn.page,
                                  conn.recovery, Owing, Done)
  /\ conn.activated = 0 => conn.history = 0 /\ conn.page = 0 /\ conn.recovery = 0
  /\ conn.recovery <= last
  /\ conn.recovery # 0 => "history" \in Faults

Syncing(p) == Running(p) /\ op[p] = "sync"

\* The same of the locals of a sync, where the page it works through counts
\* as covered already.
JobCovers(p) ==
  Syncing(p) =>
    /\ job[p].activated # 0
    /\ job[p].activated = snap[p].activated
    /\ Covers(job[p].activated, job[p].history, job[p].page, job[p].recovery,
              Owing, Done \cup job[p].todo)
    /\ job[p].recovery <= last
    /\ job[p].recovery # 0 => "history" \in Faults
    /\ pc[p] \in {"watch", "list", "search"} => job[p].todo = {}
    /\ pc[p] = "list" => job[p].recovery = 0

\* Whoever holds the lease, valid or not, knows the activation and the cursor,
\* and a first activation starts at or after the cursor it brings.
HeldRow(p) ==
  /\ Running(p) /\ Holds(p) => conn.activated = snap[p].activated
  /\ pc[p] \in {"profile", "stamp"} /\ Holds(p) => conn.activated = 0
  /\ pc[p] = "stamp" => job[p].history <= last
  /\ pc[p] = "write" /\ Holds(p) =>
       \/ job[p].activated = conn.activated /\ job[p].history = conn.history
       \/ conn.activated = 0 /\ job[p].history <= job[p].activated
            /\ job[p].activated # 0
  /\ pc[p] = "record" => job[p].verdict # "none"

\* A receipt on no list yet: a sync that waits in its start has no page.
Fresh(p) ==
  op[p] = "sync" /\ pc[p] \in {"lease", "reload"} => job[p].todo = {}

CursorInv ==
  RowCovers /\ \A p \in Procs : JobCovers(p) /\ HeldRow(p) /\ Fresh(p)

Types == TypeOK /\ HandlerInv /\ ConfigInv

-----------------------------------------------------------------------------
(* Coverage is never lost.                                                 *)

\* Outcomes are durable, deletions are for good, and mail keeps its content.
LEMMA DoneGrows ==
  ASSUME Types, CursorInv, [Next]_vars
  PROVE  /\ Done \subseteq Done'
         /\ Owing' \subseteq Owing
         /\ last' \in Nat /\ last <= last'
<1>1. Done \subseteq Done'
  <2>1. CASE UNCHANGED records
    BY <2>1 DEF Done, records
  <2>2. CASE \E p \in Procs : RecordOutcome(p)
    <3>1. PICK p \in Procs : RecordOutcome(p)
      BY <2>2
    <3>2. job[p].verdict # "none"
      BY <3>1 DEF RecordOutcome, CursorInv, HeldRow
    <3>3. outcome' = outcome
            \/ outcome' = [outcome EXCEPT ![job[p].msg] = job[p].verdict]
      BY <3>1 DEF RecordOutcome, RecordInto
    <3> QED
      BY <3>2, <3>3 DEF Done, Types, TypeOK, RecordTypes
  <2> QED
    BY <2>1, <2>2, RecordsChange
<1>2. gone \subseteq gone' /\ mail' = mail /\ last' \in Nat /\ last <= last'
  <2>0. last \in Nat
    BY BoundAssumption DEF Types, TypeOK, MailTypes
  <2>1. CASE Environment
    BY <2>0, <2>1 DEF Environment, Arrive, DeleteMail, LeaseExpires,
       OrphanExpires, WatchLapses, Callback, Pause, mailbox
  <2>2. ASSUME NEW p \in Procs, Start(p) \/ Progress(p) \/ Failure(p)
        PROVE  UNCHANGED mailbox
    <3>1. CASE Start(p) \/ LeaseStep(p) \/ Failure(p)
      BY <3>1 DEF Start, SyncStart, ImportStart, SettingsStart,
         DisconnectStart, Begin, LeaseStep, AcquireLease, LeaseBusy,
         ReleaseLease, Failure, CallFails, HistoryExpired, PageTokenExpired,
         Crash
    <3>2. CASE SyncStep(p) \/ MessageStep(p)
      BY <3>2 DEF SyncStep, SyncReload, Load, WatchValid, RenewWatch,
         ListHistory, SearchSinceActivation, PickMessage, SkipKnown, BatchFull,
         CommitCursor, MessageStep, ImportReload, ImportCheck, Fetch,
         RecordOutcome, RecordRefused
    <3>3. CASE SettingsStep(p) \/ DisconnectStep(p)
      BY <3>3 DEF SettingsStep, SettingsReload, Load, ReadProfile,
         StampActivation, WriteSettings, DisconnectStep, DisconnectReload,
         Disable, Revoked, ClearConnection
    <3> QED
      BY <2>2, <3>1, <3>2, <3>3 DEF Progress
  <2>3. CASE UNCHANGED vars
    BY <2>0, <2>3 DEF vars
  <2> QED
    BY <2>0, <2>1, <2>2, <2>3 DEF Next, mailbox
<1> QED
  BY <1>1, <1>2 DEF Owing, Owed

\* So what was covered stays covered, also by more and of less.
LEMMA CoversGrows ==
  ASSUME NEW a \in Pos, NEW h \in Pos, NEW t \in Pos, NEW r \in Pos,
         NEW owing, NEW fewer, fewer \subseteq owing,
         NEW some, NEW more, some \subseteq more,
         Covers(a, h, t, r, owing, some)
  PROVE  Covers(a, h, t, r, fewer, more)
BY DEF Covers

-----------------------------------------------------------------------------
(* What a page adds to the coverage.                                       *)

\* The next page of the history: up to its token, or up to the position the
\* mailbox has where there is no token.
LEMMA HistoryCovers ==
  ASSUME Types, NEW a \in Pos, NEW h \in Pos, NEW t \in Pos, NEW done,
         Covers(a, h, t, 0, Owing, done)
  PROVE  LET token == HistoryToken(h, t)
         IN  Covers(a, IF token = 0 THEN last ELSE h, token, 0, Owing,
                    done \cup HistoryPage(h, t))
<1> DEFINE token == HistoryToken(h, t)
           from == HistoryFrom(h, t)
<1>0. last \in Nat /\ h \in Nat /\ t \in Nat /\ a \in Nat /\ PageSize \in Nat
        /\ PageSize # 0 /\ \A m \in Owing : m \in Msg /\ m \in Nat
  BY BoundAssumption DEF Types, TypeOK, MailTypes, Pos, Owing, Msg
<1>1. \A m \in Owing : a < m /\ m <= from => m \in done
  BY <1>0 DEF Covers, HistoryFrom
<1>2. CASE token = 0
  <2>1. last <= from + PageSize
    BY <1>0, <1>2 DEF HistoryToken, HistoryFrom
  <2>2. \A m \in Owing : m <= last /\ from < m => m \in HistoryPage(h, t)
    BY <1>0, <2>1 DEF HistoryPage, HistoryFrom
  <2>3. from \in Nat
    BY <1>0 DEF HistoryFrom
  <2> HIDE DEF from
  <2> QED
    BY <1>0, <1>1, <1>2, <2>2, <2>3 DEF Covers
<1>3. CASE token # 0
  <2>1. token = from + PageSize /\ token < last
    BY <1>0, <1>3 DEF HistoryToken, HistoryFrom
  <2>2. \A m \in Owing : m <= token /\ from < m => m \in HistoryPage(h, t)
    BY <1>0, <2>1 DEF HistoryPage, HistoryFrom
  <2>3. from \in Nat
    BY <1>0 DEF HistoryFrom
  <2>4. \A m \in Owing : a < m /\ m <= h => m \in done
    BY DEF Covers
  <2> HIDE DEF from
  <2> QED
    BY <1>0, <1>1, <1>3, <2>2, <2>3, <2>4 DEF Covers
<1> QED
  BY <1>2, <1>3

\* The next page of the search, newest first: down to its token, or down to
\* the activation where there is no token.
LEMMA SearchCovers ==
  ASSUME Types, RecoverySafe, "history" \in Faults,
         NEW a \in Pos, NEW h \in Pos, NEW t \in Pos, NEW r \in Pos, NEW done,
         r # 0, r <= last, Covers(a, h, t, r, Owing, done)
  PROVE  LET token == SearchToken(a, t)
         IN  Covers(a, IF token = 0 THEN r ELSE h, token,
                    IF token = 0 THEN 0 ELSE r, Owing,
                    done \cup SearchPage(a, t))
<1> DEFINE token == SearchToken(a, t)
<1>0. last \in Nat /\ h \in Nat /\ t \in Nat /\ a \in Nat /\ r \in Nat
        /\ \A m \in Owing : m \in Msg /\ m \in Nat
  BY BoundAssumption DEF Types, TypeOK, MailTypes, Pos, Owing, Msg
<1>1. token \in Pos
  BY ListingTypes DEF Types, TypeOK
<1>2. \A m \in Owing : m <= last => Searchable(m)
  BY MailAssumption DEF Owing, Owed, Searchable, RecoverySafe, Class, Types,
     TypeOK, MailTypes
<1>3. \A m \in Owing : a < m /\ m <= r /\ token <= m =>
        m \in done \cup SearchPage(a, t)
  <2> SUFFICES ASSUME NEW m \in Owing, a < m, m <= r, token <= m
               PROVE  m \in done \cup SearchPage(a, t)
    OBVIOUS
  <2>1. CASE t # 0 /\ t <= m
    BY <2>1 DEF Covers
  <2>2. CASE t = 0 \/ m < t
    <3>1. m \in Matches(a, t)
      BY <1>0, <1>2, <2>2 DEF Matches
    <3> QED
      BY <3>1 DEF SearchPage
  <2> QED
    BY <1>0, <2>1, <2>2
<1>4. \A m \in Owing : a < m /\ m <= h => m \in done
  BY DEF Covers
<1> QED
  BY <1>0, <1>1, <1>3, <1>4 DEF Covers, Pos

-----------------------------------------------------------------------------
(* What the holder of the lease knows.                                     *)

\* Nobody moves the activation or the cursor under the lease of another.
LEMMA OthersKeepActivation ==
  ASSUME TypeOK, NEW p \in Procs, NEW q \in Procs, q # p, Holds(q)',
         Start(p) \/ Progress(p) \/ Failure(p)
  PROVE  Holds(q) /\ conn'.activated = conn.activated
                  /\ conn'.history = conn.history
<1>0. conn \in Row /\ lease \in Lease
  BY DEF TypeOK, RowTypes
<1>1. CASE Start(p)
  BY <1>0, <1>1 DEF Start, SyncStart, ImportStart, SettingsStart,
     DisconnectStart, Begin, Holds
<1>2. CASE LeaseStep(p)
  BY <1>0, <1>2, NamesAssumption DEF LeaseStep, AcquireLease, LeaseBusy,
     ReleaseLease, FreeLease, Holds
<1>3. CASE Failure(p)
  BY <1>0, <1>3, NamesAssumption DEF Failure, CallFails, HistoryExpired,
     PageTokenExpired, Crash, Holds, Row, Lease
<1>4. CASE SyncStep(p)
  BY <1>0, <1>4 DEF SyncStep, SyncReload, Load, WatchValid, RenewWatch,
     ListHistory, SearchSinceActivation, PickMessage, SkipKnown, BatchFull,
     CommitCursor, Holds, Fenced, Row
<1>5. CASE MessageStep(p)
  BY <1>0, <1>5 DEF MessageStep, ImportReload, Load, ImportCheck, Fetch,
     RecordOutcome, RecordRefused, Holds
<1>6. CASE SettingsStep(p) \/ DisconnectStep(p)
  BY <1>0, <1>6 DEF SettingsStep, SettingsReload, Load, ReadProfile,
     StampActivation, WriteSettings, DisconnectStep, DisconnectReload, Disable,
     Revoked, ClearConnection, Holds, Row
<1> QED
  BY <1>1, <1>2, <1>3, <1>4, <1>5, <1>6 DEF Progress

\* A message that is looked at gets an outcome.
LEMMA ClassifyDecides ==
  ASSUME NEW c, NEW m, NEW explicit
  PROVE  Classify(c, m, explicit) # "none"
BY DEF Classify

\* What the holder of the lease knows about the row survives every step.
LEMMA HeldStep ==
  ASSUME Types, CursorInv, [Next]_vars, NEW q \in Procs
  PROVE  HeldRow(q)'
<1>0. /\ pc \in [Procs -> Step] /\ op \in [Procs -> Op]
      /\ job \in [Procs -> Job] /\ snap \in [Procs -> Row]
      /\ conn \in Row /\ lease \in Lease /\ last \in Nat /\ last # 0
      /\ HeldRow(q) /\ StepOfItsHandler(q) /\ TypeOK /\ HandlerInv
      /\ job[q].history \in Pos /\ job[q].history \in Nat
  BY BoundAssumption, FieldTypes
     DEF Types, TypeOK, ProcessTypes, RowTypes, MailTypes, CursorInv,
         HandlerInv, Pos
<1>g. last' \in Nat /\ last <= last'
  BY DoneGrows
<1>1. CASE Environment \/ UNCHANGED vars
  <2>1. /\ UNCHANGED <<pc, op, snap, job>> /\ (Holds(q)' => Holds(q))
        /\ conn'.activated = conn.activated /\ conn'.history = conn.history
    BY <1>0, <1>1 DEF Row, Lease, Environment, Arrive, DeleteMail, LeaseExpires,
       OrphanExpires, WatchLapses, Callback, Pause, Holds, vars
  <2> QED
    BY <1>0, <1>g, <2>1 DEF HeldRow, Running
<1>2. ASSUME NEW p \in Procs, Start(p) \/ Progress(p) \/ Failure(p), q # p
      PROVE  HeldRow(q)'
  <2>1. /\ pc'[q] = pc[q] /\ op'[q] = op[q]
        /\ snap'[q] = snap[q] /\ job'[q] = job[q]
    BY <1>0, <1>2, OthersKeepLocals DEF Locals
  <2>2. Holds(q)' => Holds(q) /\ conn'.activated = conn.activated
                              /\ conn'.history = conn.history
    BY <1>0, <1>2, OthersKeepActivation
  <2> QED
    BY <1>0, <1>g, <2>1, <2>2 DEF HeldRow, Running
<1>3. ASSUME pc'[q] \in {"idle", "lease", "reload", "release"}
      PROVE  HeldRow(q)'
  BY <1>3 DEF HeldRow, Running
<1>4. CASE SyncReload(q) \/ ImportReload(q) \/ SettingsReload(q)
             \/ DisconnectReload(q)
  <2>1. snap'[q] = conn /\ conn' = conn /\ lease' = lease
    BY <1>0, <1>4 DEF SyncReload, ImportReload, SettingsReload,
       DisconnectReload, Load
  <2>2. CASE SettingsReload(q)
    <3>1. /\ job'[q].history = conn.history
          /\ job'[q].activated = conn.activated
          /\ pc'[q] \in {"write", "profile", "release"}
          /\ pc'[q] = "profile" => conn.activated = 0
      BY <1>0, <2>2 DEF SettingsReload, Load, Goto, Job
    <3> QED
      BY <2>1, <3>1 DEF HeldRow
  <2>3. CASE ~SettingsReload(q)
    <3>1. pc'[q] \in {"watch", "check", "release", "disable"}
      BY <1>0, <1>4, <2>3 DEF SyncReload, ImportReload, DisconnectReload, Load,
         Goto
    <3> QED
      BY <2>1, <3>1 DEF HeldRow
  <2> QED
    BY <2>2, <2>3
<1>5. CASE \/ WatchValid(q) \/ RenewWatch(q) \/ ListHistory(q)
           \/ HistoryExpired(q) \/ SearchSinceActivation(q) \/ PickMessage(q)
           \/ SkipKnown(q) \/ ImportCheck(q) \/ Fetch(q) \/ RecordOutcome(q)
           \/ ReadProfile(q) \/ StampActivation(q) \/ Revoked(q)
  <2>1. /\ op' = op /\ snap' = snap /\ lease' = lease
        /\ conn'.activated = conn.activated /\ conn'.history = conn.history
        /\ Running(q)' => Running(q)
    BY <1>0, <1>5, InnerSteps DEF Configuration, Running
  <2>2. pc'[q] = "profile" => FALSE
    BY <1>0, <1>5 DEF WatchValid, RenewWatch, ListHistory, HistoryExpired,
       SearchSinceActivation, PickMessage, SkipKnown, ImportCheck, Fetch,
       RecordOutcome, ReadProfile, StampActivation, Revoked, Leave, Goto,
       Listing
  <2>3. pc'[q] = "stamp" => /\ pc[q] = "profile"
                            /\ job'[q].history = last /\ last' = last
    BY <1>0, <1>5 DEF WatchValid, RenewWatch, ListHistory, HistoryExpired,
       SearchSinceActivation, PickMessage, SkipKnown, ImportCheck, Fetch,
       RecordOutcome, ReadProfile, StampActivation, Revoked, Leave, Goto,
       Listing, mailbox, Job
  <2>4. pc'[q] = "write" => /\ pc[q] = "stamp"
                            /\ job'[q].history = job[q].history
                            /\ job'[q].activated = last
    BY <1>0, <1>5 DEF WatchValid, RenewWatch, ListHistory, HistoryExpired,
       SearchSinceActivation, PickMessage, SkipKnown, ImportCheck, Fetch,
       RecordOutcome, ReadProfile, StampActivation, Revoked, Leave, Goto,
       Listing, Job
  <2>5. pc'[q] = "record" => job'[q].verdict # "none"
    <3>1. CASE Fetch(q)
      BY <1>0, <3>1, ClassifyDecides DEF Fetch, Job
    <3>2. CASE ~Fetch(q)
      BY <1>0, <1>5, <3>2 DEF WatchValid, RenewWatch, ListHistory,
         HistoryExpired, SearchSinceActivation, PickMessage, SkipKnown,
         ImportCheck, RecordOutcome, ReadProfile, StampActivation, Revoked,
         Leave, Goto, Listing
    <3> QED
      BY <3>1, <3>2
  <2>6. Holds(q)' <=> Holds(q)
    BY <2>1 DEF Holds
  <2> QED
    BY <1>0, <2>1, <2>2, <2>3, <2>4, <2>5, <2>6 DEF HeldRow
<1>6. CASE Disable(q)
  BY <1>0, <1>6 DEF HeldRow, Disable, Goto, Running, StepOfItsHandler
<1>7. ASSUME Start(q) \/ Progress(q) \/ Failure(q)
      PROVE  HeldRow(q)'
  BY <1>0, <1>3, <1>4, <1>5, <1>6, <1>7, RestingSteps
     DEF Progress, Failure, SyncStep, MessageStep, SettingsStep, DisconnectStep
<1> QED
  BY <1>1, <1>2, <1>7 DEF Next

-----------------------------------------------------------------------------
(* A sync never forgets what it has not handled.                           *)

\* No sync starts with a page of an earlier one.
LEMMA FreshStep ==
  ASSUME Types, CursorInv, [Next]_vars, NEW q \in Procs
  PROVE  Fresh(q)'
<1>0. /\ pc \in [Procs -> Step] /\ op \in [Procs -> Op]
      /\ job \in [Procs -> Job] /\ Fresh(q) /\ TypeOK
  BY DEF Types, TypeOK, ProcessTypes, CursorInv
<1>1. CASE Environment \/ UNCHANGED vars
  BY <1>0, <1>1 DEF Environment, Arrive, DeleteMail, LeaseExpires,
     OrphanExpires, WatchLapses, Callback, Pause, vars, Fresh
<1>2. ASSUME NEW p \in Procs, Start(p) \/ Progress(p) \/ Failure(p), q # p
      PROVE  Fresh(q)'
  BY <1>0, <1>2, OthersKeepLocals DEF Locals, Fresh
<1>3. CASE Start(q)
  BY <1>0, <1>3, NoJobType DEF Start, SyncStart, ImportStart, SettingsStart,
     DisconnectStart, Begin, NoJob, Fresh
<1>4. CASE LeaseStep(q)
  BY <1>0, <1>4 DEF LeaseStep, AcquireLease, LeaseBusy, ReleaseLease, Finish,
     NoJob, Goto, Fresh
<1>5. CASE SyncStep(q) \/ MessageStep(q)
  <2>1. pc'[q] \notin {"lease", "reload"} \/ pc'[q] = "idle"
    BY <1>0, <1>5 DEF SyncStep, SyncReload, Load, WatchValid, RenewWatch,
       ListHistory, SearchSinceActivation, PickMessage, SkipKnown, BatchFull,
       CommitCursor, MessageStep, ImportReload, ImportCheck, Fetch,
       RecordOutcome, RecordRefused, Leave, Goto, Listing
  <2> QED
    BY <2>1 DEF Fresh
<1>6. CASE SettingsStep(q) \/ DisconnectStep(q) \/ Failure(q)
  <2>1. pc'[q] \notin {"lease", "reload"}
    BY <1>0, <1>6 DEF SettingsStep, SettingsReload, Load, ReadProfile,
       StampActivation, WriteSettings, DisconnectStep, DisconnectReload,
       Disable, Revoked, ClearConnection, Failure, CallFails, HistoryExpired,
       PageTokenExpired, Crash, Leave, Finish, Goto
  <2> QED
    BY <2>1 DEF Fresh
<1> QED
  BY <1>1, <1>2, <1>3, <1>4, <1>5, <1>6 DEF Next, Progress

\* A step that keeps the locals of a sync, but for messages of its page that
\* have an outcome now, keeps its coverage.
LEMMA SameCoverage ==
  ASSUME Types, CursorInv, [Next]_vars, NEW q \in Procs, Syncing(q),
         job'[q].activated = job[q].activated,
         job'[q].history = job[q].history, job'[q].page = job[q].page,
         job'[q].recovery = job[q].recovery, snap'[q] = snap[q],
         job[q].todo \subseteq Done' \cup job'[q].todo,
         pc'[q] \in {"watch", "list", "search"} => job'[q].todo = {},
         pc'[q] = "list" => job'[q].recovery = 0
  PROVE  JobCovers(q)'
<1>0. JobCovers(q) /\ last \in Nat /\ last' \in Nat /\ last <= last'
        /\ Done \subseteq Done' /\ Owing' \subseteq Owing
  BY DoneGrows, BoundAssumption DEF CursorInv, Types, TypeOK, MailTypes
<1>1. job[q].activated \in Pos /\ job[q].history \in Pos /\ job[q].page \in Pos
        /\ job[q].recovery \in Pos /\ job[q].recovery \in Nat
  BY FieldTypes DEF Types, Pos
<1>2. Done \cup job[q].todo \subseteq Done' \cup job'[q].todo
  BY <1>0
<1>3. Covers(job[q].activated, job[q].history, job[q].page, job[q].recovery,
             Owing', Done' \cup job'[q].todo)
  <2>1. Covers(job[q].activated, job[q].history, job[q].page, job[q].recovery,
               Owing, Done \cup job[q].todo)
    BY <1>0 DEF JobCovers
  <2> QED
    BY <1>0, <1>1, <1>2, <2>1, CoversGrows
<1> QED
  BY <1>0, <1>1, <1>3 DEF JobCovers

\* The locals of a sync cover what they covered, step by step.
LEMMA JobStep ==
  ASSUME Types, RecoverySafe, CursorInv, [Next]_vars, NEW q \in Procs
  PROVE  JobCovers(q)'
<1>0. /\ pc \in [Procs -> Step] /\ op \in [Procs -> Op]
      /\ job \in [Procs -> Job] /\ snap \in [Procs -> Row]
      /\ last \in Nat /\ JobCovers(q) /\ StepOfItsHandler(q) /\ Prepared(q)
      /\ TypeOK /\ HandlerInv /\ ConfigInv
  BY BoundAssumption DEF Types, TypeOK, ProcessTypes, MailTypes, CursorInv,
     HandlerInv, ConfigInv
<1>j. /\ job[q].activated \in Pos /\ job[q].history \in Pos
      /\ job[q].page \in Pos /\ job[q].recovery \in Pos
      /\ job[q].todo \in SUBSET Msg
  BY <1>0, FieldTypes
<1>g. last' \in Nat /\ last <= last' /\ Done \subseteq Done'
        /\ Owing' \subseteq Owing
  BY DoneGrows
<1>1. ASSUME ~Syncing(q)' PROVE JobCovers(q)'
  BY <1>1 DEF JobCovers, Syncing
<1>2. ASSUME UNCHANGED <<pc, op, snap, job>> \/ Locals(q)' = Locals(q)
      PROVE  JobCovers(q)'
  <2>1. pc'[q] = pc[q] /\ op'[q] = op[q] /\ snap'[q] = snap[q]
          /\ job'[q] = job[q]
    BY <1>2 DEF Locals
  <2>2. CASE Syncing(q)
    BY <1>0, <2>1, <2>2, SameCoverage DEF JobCovers
  <2>3. CASE ~Syncing(q)
    BY <1>1, <2>1, <2>3 DEF Syncing, Running
  <2> QED
    BY <2>2, <2>3
<1>3. CASE Environment \/ UNCHANGED vars
  <2>1. UNCHANGED <<pc, op, snap, job>>
    BY <1>3 DEF Environment, Arrive, DeleteMail, LeaseExpires,
       OrphanExpires, WatchLapses, Callback, Pause, vars
  <2> QED
    BY <1>2, <2>1
<1>4. ASSUME NEW p \in Procs, Start(p) \/ Progress(p) \/ Failure(p), q # p
      PROVE  JobCovers(q)'
  BY <1>0, <1>2, <1>4, OthersKeepLocals
<1>5. ASSUME pc'[q] \in {"idle", "lease", "reload", "release"}
      PROVE  JobCovers(q)'
  BY <1>1, <1>5 DEF Syncing, Running
<1>6. CASE SyncReload(q)
  <2>1. /\ snap'[q] = conn /\ conn' = conn /\ job'[q].todo = job[q].todo
        /\ job'[q].history = conn.history /\ job'[q].page = conn.page
        /\ job'[q].recovery = conn.recovery
        /\ job'[q].activated = conn.activated
        /\ pc'[q] = IF conn.enabled THEN "watch" ELSE "release"
    BY <1>0, <1>6 DEF SyncReload, Load, Goto, Job
  <2>2. job[q].todo = {}
    BY <1>6 DEF SyncReload, Load, CursorInv, Fresh
  <2>3. CASE conn.enabled
    <3>1. conn.activated # 0 /\ RowCovers
      BY <1>0, <2>3 DEF ConfigInv, RowInv, EnabledIsConfigured, CursorInv
    <3>2. conn.activated \in Pos /\ conn.history \in Pos /\ conn.page \in Pos
            /\ conn.recovery \in Pos /\ conn.recovery \in Nat
      BY <1>0, FieldTypes DEF Pos
    <3>3. Covers(conn.activated, conn.history, conn.page, conn.recovery,
                 Owing', Done' \cup {})
      BY <1>g, <3>1, <3>2, CoversGrows DEF RowCovers
    <3>4. conn.recovery <= last' /\ (conn.recovery # 0 => "history" \in Faults)
      BY <1>0, <1>g, <3>1, <3>2 DEF RowCovers
    <3> QED
      BY <2>1, <2>2, <2>3, <3>1, <3>3, <3>4 DEF JobCovers
  <2>4. CASE ~conn.enabled
    BY <1>5, <2>1, <2>4
  <2> QED
    BY <2>3, <2>4
<1>7. CASE WatchValid(q) \/ RenewWatch(q)
  <2>1. Syncing(q)
    BY <1>0, <1>7 DEF WatchValid, RenewWatch, StepOfItsHandler, Syncing, Running
  <2>2. job' = job /\ snap' = snap /\ job[q].todo = {}
    BY <1>0, <1>7, <2>1 DEF WatchValid, RenewWatch, Leave, JobCovers
  <2>3. pc'[q] = "list" => job[q].recovery = 0
    BY <1>0, <1>7 DEF WatchValid, RenewWatch, Listing, Goto, Leave, Prepared
  <2> QED
    BY <2>1, <2>2, <2>3, SameCoverage
<1>8. CASE PickMessage(q) \/ SkipKnown(q) \/ Fetch(q) \/ RecordOutcome(q)
  <2>1. CASE ~Syncing(q)
    BY <1>0, <1>1, <1>8, <2>1 DEF PickMessage, SkipKnown, Fetch, RecordOutcome,
       Syncing, Running, StepOfItsHandler
  <2>2. CASE Syncing(q)
    <3>1. /\ job'[q].activated = job[q].activated
          /\ job'[q].history = job[q].history /\ job'[q].page = job[q].page
          /\ job'[q].recovery = job[q].recovery /\ snap'[q] = snap[q]
      BY <1>0, <1>8 DEF PickMessage, SkipKnown, Fetch, RecordOutcome, Job
    <3>2. pc'[q] \notin {"watch", "list", "search"}
      BY <1>0, <1>8 DEF PickMessage, SkipKnown, Fetch, RecordOutcome, Goto
    <3>3. job[q].todo \subseteq Done' \cup job'[q].todo
      <4>1. CASE PickMessage(q) \/ Fetch(q)
        BY <1>0, <4>1 DEF PickMessage, Fetch, Job
      <4>2. CASE SkipKnown(q)
        <5>1. PICK m \in job[q].todo :
                outcome[m] # "none" /\ job' = [job EXCEPT ![q].todo = @ \ {m}]
          BY <4>2 DEF SkipKnown
        <5>2. job'[q].todo = job[q].todo \ {m} /\ m \in Done
          BY <1>0, <1>j, <5>1 DEF Job, Done
        <5> QED
          BY <1>g, <5>2
      <4>3. CASE RecordOutcome(q)
        <5> DEFINE m == job[q].msg
        <5>1. job'[q].todo = job[q].todo \ {m}
          BY <1>0, <4>3 DEF RecordOutcome, Job
        <5>2. m \in Msg => m \in Done'
          <6>1. job[q].verdict # "none"
            BY <4>3 DEF RecordOutcome, CursorInv, HeldRow
          <6>2. outcome' = IF outcome[m] # "imported"
                           THEN [outcome EXCEPT ![m] = job[q].verdict]
                           ELSE outcome
            BY <4>3 DEF RecordOutcome, RecordInto
          <6> QED
            BY <1>0, <6>1, <6>2 DEF Done, TypeOK, RecordTypes
        <5> QED
          BY <1>j, <5>1, <5>2
      <4> QED
        BY <1>8, <4>1, <4>2, <4>3
    <3> QED
      BY <2>2, <3>1, <3>2, <3>3, SameCoverage
  <2> QED
    BY <2>1, <2>2
<1>9. CASE ListHistory(q)
  <2> DEFINE h == job[q].history
             t == job[q].page
             token == HistoryToken(h, t)
  <2>1. Syncing(q) /\ pc[q] = "list" /\ job[q].recovery = 0
          /\ job[q].todo = {}
    BY <1>0, <1>9 DEF ListHistory, StepOfItsHandler, Syncing, Running, JobCovers
  <2>2. /\ job'[q].todo = HistoryPage(h, t) /\ job'[q].page = token
        /\ job'[q].history = IF token = 0 THEN last ELSE h
        /\ job'[q].recovery = 0 /\ job'[q].activated = job[q].activated
        /\ snap' = snap /\ pc'[q] = "pick"
        /\ Done' = Done /\ Owing' = Owing /\ last' = last
    BY <1>0, <1>9, <2>1 DEF ListHistory, Job, Goto, Done, Owing, Owed, records,
       mailbox
  <2>3. Covers(job[q].activated, h, t, 0, Owing, Done)
    BY <1>0, <2>1 DEF JobCovers
  <2>4. Covers(job[q].activated, IF token = 0 THEN last ELSE h, token, 0, Owing,
               Done \cup HistoryPage(h, t))
    BY <1>j, <2>3, HistoryCovers
  <2>5. job[q].activated # 0 /\ job[q].activated = snap[q].activated
    BY <1>0, <2>1 DEF JobCovers
  <2> HIDE DEF token
  <2> QED
    BY <1>0, <2>2, <2>4, <2>5 DEF JobCovers
<1>10. CASE SearchSinceActivation(q)
  <2> DEFINE a == job[q].activated
             t == job[q].page
             r == job[q].recovery
             token == SearchToken(a, t)
  <2>1. Syncing(q) /\ pc[q] = "search" /\ r # 0 /\ job[q].todo = {}
    BY <1>0, <1>10 DEF SearchSinceActivation, StepOfItsHandler, Syncing,
       Running, JobCovers, Prepared
  <2>2. /\ job'[q].todo = SearchPage(a, t) /\ job'[q].page = token
        /\ job'[q].history = IF token = 0 THEN r ELSE job[q].history
        /\ job'[q].recovery = IF token = 0 THEN 0 ELSE r
        /\ job'[q].activated = a /\ snap' = snap /\ pc'[q] = "pick"
        /\ Done' = Done /\ Owing' = Owing /\ last' = last
    BY <1>0, <1>10 DEF SearchSinceActivation, Job, Goto, Done, Owing, Owed,
       records, mailbox
  <2>3. /\ Covers(a, job[q].history, t, r, Owing, Done)
        /\ r <= last /\ "history" \in Faults
        /\ a # 0 /\ a = snap[q].activated
    BY <1>0, <2>1 DEF JobCovers
  <2>4. Covers(a, IF token = 0 THEN r ELSE job[q].history, token,
               IF token = 0 THEN 0 ELSE r, Owing, Done \cup SearchPage(a, t))
    BY <1>j, <2>1, <2>3, SearchCovers
  <2> HIDE DEF token
  <2> QED
    BY <1>0, <2>2, <2>3, <2>4 DEF JobCovers
<1>11. CASE HistoryExpired(q)
  <2>1. CASE pc'[q] = "release"
    BY <1>5, <2>1
  <2>2. CASE pc'[q] # "release"
    <3>1. Syncing(q) /\ job[q].recovery = 0 /\ job[q].todo = {}
      BY <1>0, <1>11 DEF HistoryExpired, StepOfItsHandler, Syncing, Running,
         JobCovers
    <3>2. /\ job'[q].todo = {} /\ job'[q].page = 0 /\ job'[q].recovery = last
          /\ job'[q].history = job[q].history
          /\ job'[q].activated = job[q].activated
          /\ snap' = snap /\ pc'[q] = "search" /\ "history" \in Faults
          /\ Done' = Done /\ Owing' = Owing /\ last' = last
      BY <1>0, <1>11, <2>2, <3>1 DEF HistoryExpired, Leave, Job, Goto, Done,
         Owing, Owed, records, mailbox, Fault
    <3>3. Covers(job[q].activated, job[q].history, 0, last, Owing, Done)
      BY <1>0, <3>1 DEF JobCovers, Covers
    <3>4. job[q].activated # 0 /\ job[q].activated = snap[q].activated
      BY <1>0, <3>1 DEF JobCovers
    <3> QED
      BY <1>0, <3>2, <3>3, <3>4 DEF JobCovers
  <2> QED
    BY <2>1, <2>2
<1>12. CASE \/ ImportReload(q) \/ SettingsReload(q) \/ DisconnectReload(q)
            \/ ImportCheck(q) \/ ReadProfile(q) \/ StampActivation(q)
            \/ Revoked(q) \/ Disable(q)
  <2>1. op'[q] # "sync"
    BY <1>0, <1>12 DEF ImportReload, SettingsReload, DisconnectReload, Load,
       ImportCheck, ReadProfile, StampActivation, Revoked, Disable,
       StepOfItsHandler
  <2> QED
    BY <1>1, <2>1 DEF Syncing
<1>13. ASSUME Start(q) \/ Progress(q) \/ Failure(q)
       PROVE  JobCovers(q)'
  BY <1>0, <1>5, <1>6, <1>7, <1>8, <1>9, <1>10, <1>11, <1>12, <1>13,
     RestingSteps
     DEF Progress, Failure, SyncStep, MessageStep, SettingsStep, DisconnectStep
<1> QED
  BY <1>3, <1>4, <1>13 DEF Next

-----------------------------------------------------------------------------
(* The row never claims more than is covered.                              *)

\* A write that leaves the cursor, or forgets the page, claims no more.
LEMMA SameRow ==
  ASSUME Types, CursorInv, [Next]_vars,
         conn'.activated = conn.activated, conn'.history = conn.history,
         conn'.recovery = conn.recovery,
         conn'.page = conn.page \/ conn'.page = 0
  PROVE  RowCovers'
<1>0. last \in Nat /\ last' \in Nat /\ last <= last' /\ Done \subseteq Done'
        /\ Owing' \subseteq Owing /\ conn \in Row /\ RowCovers
  BY DoneGrows, BoundAssumption
     DEF Types, TypeOK, MailTypes, RowTypes, CursorInv
<1>1. conn.activated \in Pos /\ conn.history \in Pos /\ conn.page \in Pos
        /\ conn.recovery \in Pos /\ conn.recovery \in Nat /\ 0 \in Pos
  BY FieldTypes, ZeroType DEF Types, Pos
<1>2. ASSUME conn.activated # 0
      PROVE  Covers(conn.activated, conn.history, conn'.page, conn.recovery,
                    Owing', Done')
  <2>1. Covers(conn.activated, conn.history, conn.page, conn.recovery,
               Owing, Done)
    BY <1>0, <1>2 DEF RowCovers
  <2>2. Covers(conn.activated, conn.history, conn'.page, conn.recovery,
               Owing, Done)
    BY <2>1 DEF Covers
  <2>3. conn'.page \in Pos
    BY <1>1
  <2> QED
    BY <1>0, <1>1, <2>2, <2>3, CoversGrows
<1> QED
  BY <1>0, <1>1, <1>2 DEF RowCovers

\* So do the columns of the row, whoever writes them.
LEMMA RowCoversStep ==
  ASSUME Types, CursorInv, [Next]_vars
  PROVE  RowCovers'
<1>0. /\ conn \in Row /\ RowCovers /\ TypeOK /\ HandlerInv /\ ConfigInv
      /\ last \in Nat /\ last # 0
  BY BoundAssumption DEF Types, TypeOK, RowTypes, MailTypes, CursorInv
<1>s. ASSUME UNCHANGED conn PROVE RowCovers'
  BY <1>s, SameRow
<1>1. CASE Environment
  BY <1>0, <1>1, SameRow DEF Environment, Arrive, DeleteMail, LeaseExpires,
     OrphanExpires, WatchLapses, Callback, Pause, Row
<1>2. ASSUME NEW p \in Procs, Start(p) \/ LeaseStep(p) \/ CallFails(p)
                                \/ Crash(p) \/ MessageStep(p)
      PROVE  RowCovers'
  BY <1>2, <1>s DEF Start, SyncStart, ImportStart, SettingsStart,
     DisconnectStart, Begin, LeaseStep, AcquireLease, LeaseBusy, ReleaseLease,
     CallFails, Crash, MessageStep, ImportReload, Load, ImportCheck, Fetch,
     RecordOutcome, RecordRefused
<1>3. ASSUME NEW p \in Procs, PageTokenExpired(p) \/ RenewWatch(p) \/ Disable(p)
      PROVE  RowCovers'
  <2>1. /\ conn'.activated = conn.activated /\ conn'.history = conn.history
        /\ conn'.recovery = conn.recovery
        /\ conn'.page = conn.page \/ conn'.page = 0
    BY <1>0, <1>3 DEF PageTokenExpired, RenewWatch, Disable, Row
  <2> QED
    BY <2>1, SameRow
<1>4. ASSUME NEW p \in Procs, HistoryExpired(p)
      PROVE  RowCovers'
  <2>1. CASE ~Holds(p)
    BY <1>4, <1>s, <2>1 DEF HistoryExpired
  <2>2. CASE Holds(p)
    <3>1. Syncing(p) /\ pc[p] = "list"
      BY <1>0, <1>4 DEF HistoryExpired, HandlerInv, StepOfItsHandler, Syncing,
         Running
    <3>2. conn.activated # 0
      BY <2>2, <3>1 DEF CursorInv, HeldRow, JobCovers, Syncing
    <3>3. /\ conn'.recovery = last /\ conn'.page = 0
          /\ conn'.activated = conn.activated /\ conn'.history = conn.history
          /\ Done' = Done /\ Owing' = Owing /\ last' = last
          /\ "history" \in Faults
      BY <1>0, <1>4, <2>2 DEF HistoryExpired, Row, Done, Owing, Owed, records,
         mailbox, Fault
    <3>4. Covers(conn.activated, conn.history, 0, last, Owing, Done)
      BY <1>0, <3>2 DEF RowCovers, Covers
    <3> QED
      BY <1>0, <3>2, <3>3, <3>4 DEF RowCovers
  <2> QED
    BY <2>1, <2>2
<1>5. ASSUME NEW p \in Procs, CommitCursor(p)
      PROVE  RowCovers'
  <2>1. CASE ~Fenced(p)
    BY <1>5, <1>s, <2>1 DEF CommitCursor
  <2>2. CASE Fenced(p)
    <3>1. Syncing(p) /\ job[p].todo = {} /\ Holds(p)
      BY <1>0, <1>5, <2>2 DEF CommitCursor, HandlerInv, StepOfItsHandler,
         Syncing, Running, Fenced, Holds
    <3>2. /\ job[p].activated # 0 /\ conn.activated = job[p].activated
          /\ Covers(job[p].activated, job[p].history, job[p].page,
                    job[p].recovery, Owing, Done \cup job[p].todo)
          /\ job[p].recovery <= last
          /\ job[p].recovery # 0 => "history" \in Faults
      BY <3>1 DEF CursorInv, JobCovers, HeldRow, Syncing
    <3>3. /\ conn'.history = job[p].history /\ conn'.page = job[p].page
          /\ conn'.recovery = job[p].recovery
          /\ conn'.activated = conn.activated
          /\ Done' = Done /\ Owing' = Owing /\ last' = last
      BY <1>0, <1>5, <2>2 DEF CommitCursor, Row, Done, Owing, Owed, records,
         mailbox
    <3>4. Done \cup job[p].todo = Done
      BY <3>1
    <3> QED
      BY <3>2, <3>3, <3>4 DEF RowCovers
  <2> QED
    BY <2>1, <2>2
<1>6. ASSUME NEW p \in Procs, WriteSettings(p)
      PROVE  RowCovers'
  <2>1. CASE ~Holds(p)
    BY <1>6, <1>s, <2>1 DEF WriteSettings
  <2>2. CASE Holds(p)
    <3>1. /\ conn'.history = job[p].history
          /\ conn'.activated = job[p].activated
          /\ conn'.page = conn.page /\ conn'.recovery = conn.recovery
          /\ last' = last
      BY <1>0, <1>6, <2>2 DEF WriteSettings, Row, mailbox
    <3>2. \/ job[p].activated = conn.activated /\ job[p].history = conn.history
          \/ conn.activated = 0 /\ job[p].history <= job[p].activated
               /\ job[p].activated # 0
      BY <1>6, <2>2 DEF WriteSettings, CursorInv, HeldRow
    <3>3. CASE job[p].activated = conn.activated
                 /\ job[p].history = conn.history
      BY <3>1, <3>3, SameRow
    <3>4. CASE conn.activated = 0 /\ job[p].history <= job[p].activated
                 /\ job[p].activated # 0
      <4>1. conn.page = 0 /\ conn.recovery = 0
        BY <1>0, <3>4 DEF RowCovers
      <4>2. \A m \in Owing' : ~(job[p].activated < m /\ m <= job[p].history)
        <5>1. job[p].activated \in Nat /\ job[p].history \in Nat
          BY <1>0, FieldTypes DEF Pos
        <5>2. \A m \in Owing' : m \in Nat
          BY BoundAssumption DEF Owing, Msg
        <5> QED
          BY <3>4, <5>1, <5>2
      <4>3. Covers(job[p].activated, job[p].history, 0, 0, Owing', Done')
        BY <4>2 DEF Covers
      <4> QED
        BY <1>0, <3>1, <3>4, <4>1, <4>3 DEF RowCovers
    <3> QED
      BY <3>2, <3>3, <3>4
  <2> QED
    BY <2>1, <2>2
<1>7. ASSUME NEW p \in Procs, ClearConnection(p)
      PROVE  RowCovers'
  <2>1. CASE ~Holds(p)
    BY <1>7, <1>s, <2>1 DEF ClearConnection
  <2>2. CASE Holds(p)
    <3>1. /\ conn'.activated = 0 /\ conn'.history = 0 /\ conn'.page = 0
          /\ conn'.recovery = 0 /\ last' = last
      BY <1>7, <2>2 DEF ClearConnection, EmptyRow, mailbox
    <3> QED
      BY <1>0, <3>1 DEF RowCovers
  <2> QED
    BY <2>1, <2>2
<1>8. ASSUME NEW p \in Procs,
             \/ SyncReload(p) \/ WatchValid(p) \/ ListHistory(p)
             \/ SearchSinceActivation(p) \/ PickMessage(p) \/ SkipKnown(p)
             \/ BatchFull(p) \/ SettingsReload(p) \/ ReadProfile(p)
             \/ StampActivation(p) \/ DisconnectReload(p) \/ Revoked(p)
      PROVE  RowCovers'
  BY <1>8, <1>s DEF SyncReload, Load, WatchValid, ListHistory,
     SearchSinceActivation, PickMessage, SkipKnown, BatchFull, SettingsReload,
     ReadProfile, StampActivation, DisconnectReload, Revoked
<1>9. CASE UNCHANGED vars
  BY <1>9, <1>s DEF vars
<1> QED
  BY <1>1, <1>2, <1>3, <1>4, <1>5, <1>6, <1>7, <1>8, <1>9
     DEF Next, Progress, Failure, SyncStep, SettingsStep, DisconnectStep

\* CursorInv is inductive.
LEMMA CursorInit == Init => CursorInv
BY BoundAssumption DEF Init, CursorInv, RowCovers, JobCovers, HeldRow, Fresh,
   Syncing, Running, EmptyRow

LEMMA CursorStep == RecoverySafe /\ Types /\ CursorInv /\ [Next]_vars => CursorInv'
BY RowCoversStep, JobStep, HeldStep, FreshStep DEF CursorInv

\* The invariants the argument rests on, together.
LEMMA TypesStep == Types /\ [Next]_vars => Types'
BY TypeStep, HandlerStep, ConfigStep DEF Types

\* The saved cursor never passes a receipt that has no outcome, whatever
\* syncs, imports, reconnects, stale processes, lost pages and crashes
\* interleave.
THEOREM NothingSkippedCorrect == ASSUME RecoverySafe PROVE Spec => []NothingSkipped
<1>1. Init => Types
  BY TypeInit, HandlerInit, ConfigInit DEF Types
<1>2. CursorInv => NothingSkipped
  BY DEF CursorInv, RowCovers, Covers, Owing, Done, NothingSkipped
<1>3. Types /\ CursorInv /\ [Next]_vars => CursorInv'
  BY RecoverySafe, CursorStep
<1> QED
  BY <1>1, <1>2, <1>3, TypesStep, CursorInit, PTL DEF Spec

-----------------------------------------------------------------------------
(* The cursor never goes back.                                             *)

\* No cursor, saved or held by a sync, is beyond the mailbox, or beyond the
\* position its recovery will save; and a sync only moves the one it loaded
\* forward.
RowAhead ==
  conn.history <= last /\ (conn.recovery # 0 => conn.history <= conn.recovery)
JobAhead(p) ==
  /\ Syncing(p) =>
       /\ snap[p].history <= job[p].history
       /\ job[p].history <= last
       /\ job[p].recovery # 0 => job[p].history <= job[p].recovery
  /\ pc[p] = "write" => job[p].history <= last
Ahead == RowAhead /\ \A p \in Procs : JobAhead(p)

\* The row: only the end of a page, a recovery, the settings and a disconnect
\* write the cursor.
LEMMA RowAheadStep ==
  ASSUME Types, CursorInv, Ahead, [Next]_vars
  PROVE  RowAhead'
<1>0. /\ conn \in Row /\ RowAhead /\ RowCovers
      /\ TypeOK /\ HandlerInv /\ ConfigInv
      /\ last \in Nat /\ last # 0 /\ last' \in Nat /\ last <= last'
      /\ conn.history \in Nat /\ conn.recovery \in Nat
  BY DoneGrows, FieldTypes, BoundAssumption
     DEF Types, TypeOK, RowTypes, MailTypes, CursorInv, Ahead, Pos
<1>s. ASSUME conn'.history = conn.history, conn'.recovery = conn.recovery
      PROVE  RowAhead'
  BY <1>0, <1>s DEF RowAhead
<1>1. CASE Environment
  BY <1>0, <1>1, <1>s DEF Environment, Arrive, DeleteMail, LeaseExpires,
     OrphanExpires, WatchLapses, Callback, Pause, Row
<1>2. ASSUME NEW p \in Procs, Start(p) \/ LeaseStep(p) \/ CallFails(p)
                                \/ Crash(p) \/ MessageStep(p)
      PROVE  RowAhead'
  BY <1>2, <1>s DEF Start, SyncStart, ImportStart, SettingsStart,
     DisconnectStart, Begin, LeaseStep, AcquireLease, LeaseBusy, ReleaseLease,
     CallFails, Crash, MessageStep, ImportReload, Load, ImportCheck, Fetch,
     RecordOutcome, RecordRefused
<1>3. ASSUME NEW p \in Procs, PageTokenExpired(p) \/ RenewWatch(p) \/ Disable(p)
      PROVE  RowAhead'
  BY <1>0, <1>3, <1>s DEF PageTokenExpired, RenewWatch, Disable, Row
<1>4. ASSUME NEW p \in Procs, HistoryExpired(p)
      PROVE  RowAhead'
  <2>1. CASE conn' = conn
    BY <1>s, <2>1
  <2>2. CASE conn' = [conn EXCEPT !.recovery = last, !.page = 0]
    BY <1>0, <2>2 DEF Row, RowAhead
  <2> QED
    BY <1>4, <2>1, <2>2 DEF HistoryExpired
<1>5. ASSUME NEW p \in Procs, CommitCursor(p)
      PROVE  RowAhead'
  <2>1. CASE ~Fenced(p)
    BY <1>5, <1>s, <2>1 DEF CommitCursor
  <2>2. CASE Fenced(p)
    <3>1. Syncing(p)
      BY <1>0, <1>5 DEF CommitCursor, HandlerInv, StepOfItsHandler, Syncing,
         Running
    <3>2. /\ conn'.history = job[p].history /\ conn'.recovery = job[p].recovery
          /\ last' = last
      BY <1>0, <1>5, <2>2 DEF CommitCursor, Row, mailbox
    <3> QED
      BY <3>1, <3>2 DEF Ahead, JobAhead, RowAhead
  <2> QED
    BY <2>1, <2>2
<1>6. ASSUME NEW p \in Procs, WriteSettings(p)
      PROVE  RowAhead'
  <2>1. CASE ~Holds(p)
    BY <1>6, <1>s, <2>1 DEF WriteSettings
  <2>2. CASE Holds(p)
    <3>1. /\ conn'.history = job[p].history /\ conn'.recovery = conn.recovery
          /\ last' = last /\ job[p].history <= last
      BY <1>0, <1>6, <2>2 DEF WriteSettings, Row, mailbox, Ahead, JobAhead
    <3>2. job[p].history = conn.history \/ conn.activated = 0
      BY <1>6, <2>2 DEF WriteSettings, CursorInv, HeldRow
    <3>3. conn.activated = 0 => conn.recovery = 0
      BY <1>0 DEF RowCovers
    <3> QED
      BY <1>0, <3>1, <3>2, <3>3 DEF RowAhead
  <2> QED
    BY <2>1, <2>2
<1>7. ASSUME NEW p \in Procs, ClearConnection(p)
      PROVE  RowAhead'
  <2>1. CASE ~Holds(p)
    BY <1>7, <1>s, <2>1 DEF ClearConnection
  <2>2. CASE Holds(p)
    <3>1. conn'.history = 0 /\ conn'.recovery = 0
      BY <1>7, <2>2 DEF ClearConnection, EmptyRow
    <3> QED
      BY <1>0, <3>1 DEF RowAhead
  <2> QED
    BY <2>1, <2>2
<1>8. ASSUME NEW p \in Procs,
             \/ SyncReload(p) \/ WatchValid(p) \/ ListHistory(p)
             \/ SearchSinceActivation(p) \/ PickMessage(p) \/ SkipKnown(p)
             \/ BatchFull(p) \/ SettingsReload(p) \/ ReadProfile(p)
             \/ StampActivation(p) \/ DisconnectReload(p) \/ Revoked(p)
      PROVE  RowAhead'
  BY <1>8, <1>s DEF SyncReload, Load, WatchValid, ListHistory,
     SearchSinceActivation, PickMessage, SkipKnown, BatchFull, SettingsReload,
     ReadProfile, StampActivation, DisconnectReload, Revoked
<1>9. CASE UNCHANGED vars
  BY <1>9, <1>s DEF vars
<1> QED
  BY <1>1, <1>2, <1>3, <1>4, <1>5, <1>6, <1>7, <1>8, <1>9
     DEF Next, Progress, Failure, SyncStep, SettingsStep, DisconnectStep

\* The locals of a handler.
LEMMA JobAheadStep ==
  ASSUME Types, CursorInv, Ahead, [Next]_vars, NEW q \in Procs
  PROVE  JobAhead(q)'
<1>0. /\ pc \in [Procs -> Step] /\ op \in [Procs -> Op]
      /\ job \in [Procs -> Job] /\ snap \in [Procs -> Row]
      /\ last \in Nat /\ last' \in Nat /\ last <= last'
      /\ JobAhead(q) /\ RowAhead /\ StepOfItsHandler(q) /\ Prepared(q)
      /\ JobCovers(q) /\ HeldRow(q) /\ TypeOK
  BY DoneGrows, BoundAssumption DEF Types, TypeOK, ProcessTypes, MailTypes,
     CursorInv, HandlerInv, ConfigInv, Ahead
<1>j. /\ job[q].history \in Nat /\ job[q].recovery \in Nat
      /\ snap[q].history \in Nat /\ conn.history \in Nat /\ conn.recovery \in Nat
  BY <1>0, FieldTypes DEF Pos
<1>1. ASSUME ~Syncing(q)', pc'[q] # "write" PROVE JobAhead(q)'
  BY <1>1 DEF JobAhead, Syncing
<1>2. ASSUME op'[q] = op[q], snap'[q] = snap[q], job'[q].history = job[q].history,
             job'[q].recovery = job[q].recovery,
             Syncing(q)' => Syncing(q), pc'[q] = "write" => pc[q] = "write"
      PROVE  JobAhead(q)'
  BY <1>0, <1>j, <1>2 DEF JobAhead, Syncing
<1>3. ASSUME UNCHANGED <<pc, op, snap, job>> \/ Locals(q)' = Locals(q)
      PROVE  JobAhead(q)'
  <2>1. pc'[q] = pc[q] /\ op'[q] = op[q] /\ snap'[q] = snap[q]
          /\ job'[q] = job[q]
    BY <1>3 DEF Locals
  <2> QED
    BY <1>2, <2>1 DEF Syncing, Running
<1>4. CASE Environment \/ UNCHANGED vars
  <2>1. UNCHANGED <<pc, op, snap, job>>
    BY <1>4 DEF Environment, Arrive, DeleteMail, LeaseExpires,
       OrphanExpires, WatchLapses, Callback, Pause, vars
  <2> QED
    BY <1>3, <2>1
<1>5. ASSUME NEW p \in Procs, Start(p) \/ Progress(p) \/ Failure(p), q # p
      PROVE  JobAhead(q)'
  BY <1>0, <1>3, <1>5, OthersKeepLocals
<1>6. ASSUME pc'[q] \in {"idle", "lease", "reload", "release"}
      PROVE  JobAhead(q)'
  BY <1>1, <1>6 DEF Syncing, Running
<1>7. CASE SyncReload(q)
  <2>1. /\ snap'[q] = conn /\ job'[q].history = conn.history
        /\ job'[q].recovery = conn.recovery /\ pc'[q] # "write"
    BY <1>0, <1>7 DEF SyncReload, Load, Goto, Job
  <2> QED
    BY <1>0, <1>j, <2>1 DEF JobAhead, RowAhead
<1>8. CASE WatchValid(q) \/ RenewWatch(q) \/ PickMessage(q) \/ SkipKnown(q)
             \/ Fetch(q) \/ RecordOutcome(q)
  <2>1. /\ op' = op /\ snap' = snap /\ job'[q].history = job[q].history
        /\ job'[q].recovery = job[q].recovery
    BY <1>0, <1>8 DEF WatchValid, RenewWatch, Leave, PickMessage, SkipKnown,
       Fetch, RecordOutcome, Job
  <2>2. pc'[q] # "write" /\ (Syncing(q)' => Syncing(q))
    BY <1>0, <1>8, <2>1 DEF WatchValid, RenewWatch, Leave, PickMessage,
       SkipKnown, Fetch, RecordOutcome, Goto, Listing, Syncing, Running
  <2> QED
    BY <1>2, <2>1, <2>2
<1>9. CASE ListHistory(q)
  <2>1. Syncing(q) /\ job[q].recovery = 0
    BY <1>0, <1>9 DEF ListHistory, StepOfItsHandler, Syncing, Running, JobCovers
  <2>2. /\ job'[q].history = last \/ job'[q].history = job[q].history
        /\ job'[q].recovery = job[q].recovery /\ snap' = snap
        /\ pc'[q] # "write" /\ last' = last
    BY <1>0, <1>9 DEF ListHistory, Job, Goto, mailbox
  <2> QED
    BY <1>0, <1>j, <2>1, <2>2 DEF JobAhead
<1>10. CASE SearchSinceActivation(q)
  <2>1. Syncing(q) /\ job[q].recovery # 0 /\ job[q].recovery <= last
    BY <1>0, <1>10 DEF SearchSinceActivation, StepOfItsHandler, Syncing,
       Running, JobCovers, Prepared
  <2>2. /\ \/ job'[q].history = job[q].recovery /\ job'[q].recovery = 0
           \/ /\ job'[q].history = job[q].history
              /\ job'[q].recovery = job[q].recovery
        /\ snap' = snap /\ pc'[q] # "write" /\ last' = last
    BY <1>0, <1>10 DEF SearchSinceActivation, Job, Goto, mailbox
  <2> QED
    BY <1>0, <1>j, <2>1, <2>2 DEF JobAhead
<1>11. CASE HistoryExpired(q)
  <2>1. CASE pc'[q] = "release"
    BY <1>6, <2>1
  <2>2. CASE pc'[q] # "release"
    <3>1. Syncing(q)
      BY <1>0, <1>11 DEF HistoryExpired, StepOfItsHandler, Syncing, Running
    <3>2. /\ job'[q].recovery = last /\ job'[q].history = job[q].history
          /\ snap' = snap /\ pc'[q] # "write" /\ last' = last
      BY <1>0, <1>11, <2>2 DEF HistoryExpired, Leave, Job, Goto, mailbox
    <3> QED
      BY <1>0, <1>j, <3>1, <3>2 DEF JobAhead
  <2> QED
    BY <2>1, <2>2
<1>12. CASE SettingsReload(q) \/ StampActivation(q)
  <2>1. op'[q] # "sync"
    BY <1>0, <1>12 DEF SettingsReload, Load, StampActivation, StepOfItsHandler
  <2>2. job'[q].history = conn.history \/ job'[q].history <= last
    <3>1. CASE SettingsReload(q)
      <4>1. job' = [job EXCEPT ![q] = [job[q] EXCEPT !.history = conn.history,
                                          !.activated = conn.activated]]
        BY <3>1 DEF SettingsReload, Load
      <4> QED
        BY <1>0, <4>1 DEF Job
    <3>2. CASE StampActivation(q)
      <4>1. job'[q].history = job[q].history
        BY <1>0, <3>2 DEF StampActivation, Job
      <4> QED
        BY <1>0, <3>2, <4>1 DEF StampActivation, HeldRow
    <3> QED
      BY <1>12, <3>1, <3>2
  <2>3. last' = last
    BY <1>12 DEF SettingsReload, Load, StampActivation, mailbox
  <2> QED
    BY <1>0, <2>1, <2>2, <2>3 DEF JobAhead, RowAhead, Syncing
<1>13. CASE \/ ImportReload(q) \/ DisconnectReload(q) \/ ImportCheck(q)
            \/ ReadProfile(q) \/ Revoked(q) \/ Disable(q)
  <2>1. op'[q] # "sync" /\ pc'[q] # "write"
    BY <1>0, <1>13 DEF ImportReload, DisconnectReload, Load, ImportCheck,
       ReadProfile, Revoked, Disable, Goto, StepOfItsHandler
  <2> QED
    BY <1>1, <2>1 DEF Syncing
<1>14. ASSUME Start(q) \/ Progress(q) \/ Failure(q)
       PROVE  JobAhead(q)'
  BY <1>0, <1>6, <1>7, <1>8, <1>9, <1>10, <1>11, <1>12, <1>13, <1>14,
     RestingSteps
     DEF Progress, Failure, SyncStep, MessageStep, SettingsStep, DisconnectStep
<1> QED
  BY <1>4, <1>5, <1>14 DEF Next

LEMMA AheadInit == Init => Ahead
BY BoundAssumption DEF Init, Ahead, RowAhead, JobAhead, Syncing, Running, EmptyRow

LEMMA AheadStep == Types /\ CursorInv /\ Ahead /\ [Next]_vars => Ahead'
BY RowAheadStep, JobAheadStep DEF Ahead

-----------------------------------------------------------------------------
(* The integration implements InboxDelivery.                               *)

Acked == {m \in Msg : conn.activated # 0 /\ conn.activated < m
                        /\ m <= conn.history}

RefinementInv == Types /\ CursorInv /\ Ahead /\ OneDraftPerImport

\* Recording an outcome imports a message, dismisses it, or finds it imported.
LEMMA RecordRefines ==
  ASSUME RefinementInv, NEW p \in Procs, RecordOutcome(p)
  PROVE  [Inbox!Next]_(Inbox!vars)
<1> DEFINE m == job[p].msg
           new == outcome[m] # "imported"
<1>0. /\ outcome \in [Msg -> Outcome] /\ drafts \in [Msg -> Seq(Wallets)]
      /\ job[p].verdict # "none" /\ conn' = conn /\ mail' = mail /\ gone' = gone
  BY DEF RefinementInv, Types, TypeOK, RecordTypes, CursorInv, HeldRow,
     RecordOutcome, mailbox
<1>1. outcome' = IF new THEN [outcome EXCEPT ![m] = job[p].verdict] ELSE outcome
  BY DEF RecordOutcome, RecordInto
<1>2. PICK w \in BookTo(p, m) :
        drafts' = IF new /\ job[p].verdict = "imported"
                  THEN [drafts EXCEPT ![m] = Append(@, w)] ELSE drafts
  BY DEF RecordOutcome, RecordInto
<1>3. Acked' = Acked /\ Owing' = Owing
  BY <1>0 DEF Acked, Owing, Owed
<1>4. CASE ~new \/ m \notin Msg
  <2>1. outcome' = outcome /\ drafts' = drafts
    BY <1>0, <1>1, <1>2, <1>4
  <2> QED
    BY <1>3, <2>1 DEF Inbox!vars, Acked, Owing
<1>5. CASE new /\ m \in Msg
  <2>1. drafts[m] = <<>>
    BY <1>0, <1>5 DEF RefinementInv, OneDraftPerImport
  <2>2. Done' = Done \cup {m}
    BY <1>0, <1>1, <1>5 DEF Done
  <2>3. CASE job[p].verdict = "imported"
    <3>1. w \in Wallets
      BY <1>2, <1>5, <2>3, FieldTypes
         DEF RefinementInv, Types, BookTo, Bookable, RecordOutcome, Row
    <3>2. drafts' = [drafts EXCEPT ![m] = <<w>>]
      BY <1>2, <1>5, <2>1, <2>3, <3>1
    <3>3. Inbox!Import(m, w)
      BY <1>3, <2>1, <2>2, <3>2 DEF Inbox!Import, Done, Acked, Owing
    <3> QED
      BY <1>5, <3>1, <3>3 DEF Inbox!Next
  <2>4. CASE job[p].verdict # "imported"
    <3>1. PICK n \in Msg : n = m
      BY <1>5
    <3>2. Inbox!Dismiss(n)
      BY <1>2, <1>3, <2>1, <2>2, <2>4, <3>1 DEF Inbox!Dismiss, Done, Acked, Owing
    <3> QED
      BY <3>2 DEF Inbox!Next
  <2> QED
    BY <2>3, <2>4
<1> QED
  BY <1>4, <1>5

\* What the other steps do to the boundary: nothing, except that the end of a
\* page moves it forward and a disconnect forgets it.
LEMMA BoundaryMoves ==
  ASSUME RefinementInv, [Next]_vars
  PROVE  Acked' = {} \/ Acked \subseteq Acked'
<1>0. /\ conn \in Row /\ conn.activated \in Nat /\ conn.history \in Nat
      /\ \A n \in Msg : n \in Nat
      /\ TypeOK /\ HandlerInv /\ ConfigInv
  BY FieldTypes, BoundAssumption
     DEF RefinementInv, Types, TypeOK, RowTypes, Pos, Msg
<1>s. ASSUME conn'.activated = conn.activated, conn'.history = conn.history
      PROVE  Acked \subseteq Acked'
  BY <1>s DEF Acked
<1>1. CASE Environment
  BY <1>0, <1>1, <1>s DEF Environment, Arrive, DeleteMail, LeaseExpires,
     OrphanExpires, WatchLapses, Callback, Pause, Row
<1>2. ASSUME NEW p \in Procs, Start(p) \/ LeaseStep(p) \/ Failure(p)
                                \/ MessageStep(p)
      PROVE  Acked \subseteq Acked'
  BY <1>0, <1>2, <1>s DEF Start, SyncStart, ImportStart, SettingsStart,
     DisconnectStart, Begin, LeaseStep, AcquireLease, LeaseBusy, ReleaseLease,
     Failure, CallFails, Crash, HistoryExpired, PageTokenExpired, MessageStep,
     ImportReload, Load, ImportCheck, Fetch, RecordOutcome, RecordRefused, Row
<1>3. ASSUME NEW p \in Procs,
             \/ SyncReload(p) \/ WatchValid(p) \/ ListHistory(p)
             \/ SearchSinceActivation(p) \/ PickMessage(p) \/ SkipKnown(p)
             \/ BatchFull(p) \/ SettingsReload(p) \/ ReadProfile(p)
             \/ StampActivation(p) \/ DisconnectReload(p) \/ Revoked(p)
             \/ RenewWatch(p) \/ Disable(p)
      PROVE  Acked \subseteq Acked'
  BY <1>0, <1>3, <1>s DEF SyncReload, Load, WatchValid, ListHistory,
     SearchSinceActivation, PickMessage, SkipKnown, BatchFull, SettingsReload,
     ReadProfile, StampActivation, DisconnectReload, Revoked, RenewWatch,
     Disable, Row
<1>4. ASSUME NEW p \in Procs, CommitCursor(p)
      PROVE  Acked \subseteq Acked'
  <2>1. CASE ~Fenced(p)
    BY <1>4, <1>s, <2>1 DEF CommitCursor
  <2>2. CASE Fenced(p)
    <3>1. Syncing(p) /\ Running(p)
      BY <1>0, <1>4 DEF CommitCursor, HandlerInv, StepOfItsHandler, Syncing,
         Running
    <3>2. conn.history = snap[p].history /\ snap[p].history <= job[p].history
      BY <1>0, <2>2, <3>1 DEF HandlerInv, Frozen, RefinementInv, Ahead, JobAhead
    <3>3. conn'.history = job[p].history /\ conn'.activated = conn.activated
            /\ job[p].history \in Nat
      BY <1>0, <1>4, <2>2, FieldTypes DEF CommitCursor, Row, Pos
    <3> QED
      BY <1>0, <3>2, <3>3 DEF Acked
  <2> QED
    BY <2>1, <2>2
<1>5. ASSUME NEW p \in Procs, WriteSettings(p)
      PROVE  Acked \subseteq Acked'
  <2>1. CASE ~Holds(p)
    BY <1>5, <1>s, <2>1 DEF WriteSettings
  <2>2. CASE Holds(p)
    <3>1. conn'.history = job[p].history /\ conn'.activated = job[p].activated
      BY <1>0, <1>5, <2>2 DEF WriteSettings, Row
    <3>2. \/ job[p].activated = conn.activated /\ job[p].history = conn.history
          \/ conn.activated = 0
      BY <1>5, <2>2 DEF WriteSettings, RefinementInv, CursorInv, HeldRow
    <3> QED
      BY <1>s, <3>1, <3>2 DEF Acked
  <2> QED
    BY <2>1, <2>2
<1>6. ASSUME NEW p \in Procs, ClearConnection(p)
      PROVE  Acked' = {} \/ Acked \subseteq Acked'
  <2>1. CASE ~Holds(p)
    BY <1>6, <1>s, <2>1 DEF ClearConnection
  <2>2. CASE Holds(p)
    BY <1>6, <2>2 DEF ClearConnection, EmptyRow, Acked
  <2> QED
    BY <2>1, <2>2
<1>7. CASE UNCHANGED vars
  BY <1>7, <1>s DEF vars
<1> QED
  BY <1>1, <1>2, <1>3, <1>4, <1>5, <1>6, <1>7
     DEF Next, Progress, SyncStep, SettingsStep, DisconnectStep

\* Only the owner touches mail that is there.
LEMMA MailStays ==
  ASSUME [Next]_vars
  PROVE  \/ UNCHANGED <<mail, gone>>
         \/ DeleteMail
<1>1. CASE Environment
  BY <1>1 DEF Environment, Arrive, LeaseExpires, OrphanExpires, WatchLapses,
     Callback, Pause, mailbox
<1>2. ASSUME NEW p \in Procs, Start(p) \/ LeaseStep(p) \/ Failure(p)
      PROVE  UNCHANGED <<mail, gone>>
  BY <1>2 DEF Start, SyncStart, ImportStart, SettingsStart, DisconnectStart,
     Begin, LeaseStep, AcquireLease, LeaseBusy, ReleaseLease, Failure,
     CallFails, HistoryExpired, PageTokenExpired, Crash, mailbox
<1>3. ASSUME NEW p \in Procs, SyncStep(p) \/ MessageStep(p)
      PROVE  UNCHANGED <<mail, gone>>
  BY <1>3 DEF SyncStep, SyncReload, Load, WatchValid, RenewWatch, ListHistory,
     SearchSinceActivation, PickMessage, SkipKnown, BatchFull, CommitCursor,
     MessageStep, ImportReload, ImportCheck, Fetch, RecordOutcome,
     RecordRefused, mailbox
<1>4. ASSUME NEW p \in Procs, SettingsStep(p) \/ DisconnectStep(p)
      PROVE  UNCHANGED <<mail, gone>>
  BY <1>4 DEF SettingsStep, SettingsReload, Load, ReadProfile, StampActivation,
     WriteSettings, DisconnectStep, DisconnectReload, Disable, Revoked,
     ClearConnection, mailbox
<1>5. CASE UNCHANGED vars
  BY <1>5 DEF vars, mailbox
<1> QED
  BY <1>1, <1>2, <1>3, <1>4, <1>5 DEF Next, Progress

LEMMA StepRefines ==
  ASSUME RefinementInv, CursorInv', [Next]_vars
  PROVE  [Inbox!Next]_(Inbox!vars)
<1>1. CASE \E p \in Procs : RecordOutcome(p)
  BY <1>1, RecordRefines
<1>2. CASE DeleteMail
  <2>1. PICK m \in 2 .. last : gone' = gone \cup {m}
    BY <1>2 DEF DeleteMail
  <2>2. m \in Msg
    BY BoundAssumption DEF RefinementInv, Types, TypeOK, MailTypes, Msg
  <2>3. UNCHANGED <<drafts, outcome, conn, mail>>
    BY <1>2 DEF DeleteMail, records
  <2>4. Owing' = Owing \ {m}
    BY <2>1, <2>2, <2>3 DEF Owing, Owed
  <2>5. Inbox!Withdraw(m)
    BY <2>3, <2>4 DEF Inbox!Withdraw, Owing
  <2> QED
    BY <2>2, <2>5 DEF Inbox!Next
<1>3. CASE UNCHANGED records /\ UNCHANGED <<mail, gone>>
  <2>1. Done' = Done /\ Owing' = Owing /\ drafts' = drafts
    BY <1>3 DEF Done, Owing, Owed, records
  <2>2. CASE Acked' = {}
    <3>1. Inbox!Forget
      BY <2>1, <2>2 DEF Inbox!Forget, Done, Owing, Acked
    <3> QED
      BY <3>1 DEF Inbox!Next
  <2>3. CASE Acked \subseteq Acked'
    <3>1. Acked' \cap Owing \subseteq Done
      <4>1. \A n \in Owing' : n \in Acked' => n \in Done'
        BY DEF CursorInv, RowCovers, Covers, Acked
      <4> QED
        BY <2>1, <4>1
    <3>2. Acked' = Acked \cup Acked'
      BY <2>3
    <3>3. Acked' \in SUBSET Msg
      BY DEF Acked
    <3>4. PICK more \in SUBSET Msg : more = Acked'
      BY <3>3
    <3>5. Inbox!Acknowledge(more)
      BY <2>1, <3>1, <3>2, <3>4 DEF Inbox!Acknowledge, Done, Owing, Acked
    <3>6. \E n \in SUBSET Msg : Inbox!Acknowledge(n)
      BY <3>5
    <3> QED
      BY <3>6 DEF Inbox!Next
  <2> QED
    BY <2>2, <2>3, BoundaryMoves
<1> QED
  BY <1>1, <1>2, <1>3, RecordsChange, MailStays

\* The integration implements InboxDelivery: every step of its handlers, of
\* the owner and of Gmail is an import, a dismissal, a true acknowledgement, a
\* disconnect, a withdrawal, or nothing the owner can see.
THEOREM DeliveryRefinement == ASSUME RecoverySafe PROVE Spec => DeliversOnce
<1>1. Init => RefinementInv
  BY TypeInit, HandlerInit, ConfigInit, CursorInit, AheadInit
     DEF RefinementInv, Types, Init, OneDraftPerImport
<1>2. RefinementInv /\ [Next]_vars => RefinementInv' /\ CursorInv'
  BY RecoverySafe, TypesStep, CursorStep, AheadStep, OneDraftStep
     DEF RefinementInv, Types
<1>3. Init => Inbox!Init
  BY DEF Init, Inbox!Init, EmptyRow
<1>4. RefinementInv /\ CursorInv' /\ [Next]_vars => [Inbox!Next]_(Inbox!vars)
  BY StepRefines
<1> QED
  BY <1>1, <1>2, <1>3, <1>4, PTL DEF Spec, DeliversOnce, Inbox!Spec
=============================================================================
