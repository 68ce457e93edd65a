------------------------------ MODULE GmailSync ------------------------------
(***************************************************************************)
(* The Gmail integration of the backend (internal/httpserver/gmail.go and  *)
(* gmail_sync.go): one connection row, guarded by a 90-second lease held   *)
(* in that row, over which scheduled syncs, explicit imports, settings     *)
(* changes and disconnects of any number of server instances compete,      *)
(* while the mailbox grows and Gmail, the network and the instances fail.  *)
(*                                                                         *)
(* A Gmail history id is a position in the mailbox: position 1 is the      *)
(* mailbox as it was before the connection, and the message that arrives   *)
(* as the n-th change has position n.  A position also stands for the time *)
(* of arrival, so "received before t" is "at or below the position the     *)
(* mailbox had at t".  0 stands for a NULL column or an empty string.      *)
(***************************************************************************)
EXTENDS Integers, FiniteSets, Sequences

CONSTANTS
  Procs,        \* handler invocations that may run at the same time
  Wallets,      \* wallets of the owner a connection may be configured with
  Accounts,     \* recipient account numbers
  Content,      \* what a message may be: a set of [class, to] records
  None,         \* an unset wallet or account, and the free lease
  Orphan,       \* holder of a lease whose process died
  MaxPos,       \* bound: the last mailbox position
  PageSize,     \* messages on one page of a Gmail listing
  Batch,        \* new outcomes one sync may record (10 in the code)
  Faults,       \* kinds of failure that may happen
  MaxFaults,    \* bound: how many of them
  MaxRequests   \* bound: how many requests of the owner

Class == {"bifast", "provider", "topup", "noise", "garbled", "spam"}
FaultKinds == {"api", "crash", "stall", "history", "page", "watch"}

ASSUME MailAssumption == Content \subseteq [class : Class, to : Accounts]
ASSUME BoundAssumption ==
  /\ MaxPos \in Nat \ {0}
  /\ Faults \subseteq FaultKinds
  /\ PageSize \in Nat \ {0}
  /\ Batch \in Nat \ {0}
  /\ MaxFaults \in Nat
  /\ MaxRequests \in Nat
ASSUME NamesAssumption ==
  /\ None \notin Wallets \cup Accounts \cup Procs
  /\ Orphan \notin Procs
  /\ Orphan # None

VARIABLES
  conn,      \* the gmail_connections row, without its lease columns
  lease,     \* lease_id and whether lease_until is still in the future
  last,      \* position of the newest message of the mailbox
  mail,      \* content of each message (fixed, seen once it has arrived)
  gone,      \* messages the owner has deleted for good
  outcome,   \* gmail_messages: status and error_code of each message
  drafts,    \* wallets of the transactions created from each message
  pc, op,    \* the step each process is at, and the handler it runs
  snap,      \* the row as the process loaded it under its lease (c)
  job,       \* the other locals of the handler
  faults, requests   \* how much of the two bounds is used up

mailbox == <<last, mail, gone>>
records == <<outcome, drafts>>
budgets == <<faults, requests>>
vars == <<conn, lease, last, mail, gone, outcome, drafts, pc, op, snap, job,
          faults, requests>>

Msg == 2 .. MaxPos
Pos == 0 .. MaxPos
Outcome == {"none", "imported", "deleted", "noise", "early", "spam",
            "garbled", "mismatch"}
Op == {"none", "sync", "import", "settings", "disconnect"}
Step == {"idle", "lease", "reload", "watch", "list", "search", "pick", "check",
         "fetch", "record", "profile", "stamp", "write", "disable", "revoke",
         "clear", "release"}

Wish == [enabled : BOOLEAN, wallet : Wallets \cup {None},
         account : Accounts \cup {None}]

Row == [cipher : BOOLEAN, enabled : BOOLEAN, wallet : Wallets \cup {None},
        account : Accounts \cup {None}, activated : Pos, history : Pos,
        page : Pos, recovery : Pos, watch : BOOLEAN]

EmptyRow == [cipher |-> FALSE, enabled |-> FALSE, wallet |-> None,
             account |-> None, activated |-> 0, history |-> 0, page |-> 0,
             recovery |-> 0, watch |-> FALSE]

Job == [todo : SUBSET Msg, spent : Nat, history : Pos, page : Pos,
        recovery : Pos, activated : Pos, msg : Msg \cup {0},
        verdict : Outcome, want : Wish]

NoWish == [enabled |-> FALSE, wallet |-> None, account |-> None]
NoJob == [todo |-> {}, spent |-> 0, history |-> 0, page |-> 0, recovery |-> 0,
          activated |-> 0, msg |-> 0, verdict |-> "none", want |-> NoWish]

Lease == [holder : Procs \cup {None, Orphan}, live : BOOLEAN]
FreeLease == [holder |-> None, live |-> FALSE]

Init ==
  /\ conn = EmptyRow
  /\ lease = FreeLease
  /\ last = 1
  /\ mail \in [Msg -> Content]
  /\ gone = {}
  /\ outcome = [m \in Msg |-> "none"]
  /\ drafts = [m \in Msg |-> <<>>]
  /\ pc = [p \in Procs |-> "idle"]
  /\ op = [p \in Procs |-> "none"]
  /\ snap = [p \in Procs |-> EmptyRow]
  /\ job = [p \in Procs |-> NoJob]
  /\ faults = 0
  /\ requests = 0

-----------------------------------------------------------------------------
(* The mailbox as Gmail answers about it.                                  *)

\* What the metadata prefilter lets through.
Candidate(m) == mail[m].class # "noise"

\* What Gmail's search for the Query constant finds: BI FAST notifications
\* only, never spam and nothing that was deleted.
Searchable(m) ==
  /\ m <= last
  /\ m \notin gone
  /\ mail[m].class \in {"bifast", "garbled"}

\* A page of history.list: the oldest additions after the start position, or
\* after the page token where there is one.
HistoryFrom(start, token) == IF token > start THEN token ELSE start
HistoryPage(start, token) ==
  {m \in Msg : /\ HistoryFrom(start, token) < m
               /\ m <= HistoryFrom(start, token) + PageSize
               /\ m <= last}
HistoryToken(start, token) ==
  IF HistoryFrom(start, token) + PageSize < last
  THEN HistoryFrom(start, token) + PageSize ELSE 0

\* A page of messages.list: the newest matches, or those below the token.
Matches(since, token) ==
  {m \in Msg : Searchable(m) /\ since < m /\ (token = 0 \/ m < token)}
SearchFills(since, token, m) ==
  LET found == Matches(since, token)
  IN  /\ m \in found
      /\ Cardinality({n \in found : m <= n}) = PageSize
      /\ \E n \in found : n < m
SearchToken(since, token) ==
  IF \E m \in Msg : SearchFills(since, token, m)
  THEN CHOOSE m \in Msg : SearchFills(since, token, m) ELSE 0
SearchPage(since, token) ==
  {m \in Matches(since, token) : SearchToken(since, token) <= m}

-----------------------------------------------------------------------------
(* Steps every handler shares.                                             *)

Goto(p, step) == pc' = [pc EXCEPT ![p] = step]

\* The budget of failures: each one that happens is one of the kinds the
\* instance allows.
Fault(kind) ==
  /\ kind \in Faults
  /\ faults < MaxFaults
  /\ faults' = faults + 1
  /\ UNCHANGED requests

Request ==
  /\ requests < MaxRequests
  /\ requests' = requests + 1
  /\ UNCHANGED faults

\* The WHERE clause lease_id = $lease of the writes to the row, and the
\* stronger one that also asks for lease_until > now().
Holds(p) == lease.holder = p
\* Wrong: a lease that has run out still counts.
HoldsForever(p) == Holds(p)
Fenced(p) == lease.holder = p /\ lease.live

\* Wrong: the lease has no expiry, so that of a dead process stays.
LeaseNeverExpires == lease.holder = None
LeaseFree == lease.holder = None \/ ~lease.live

\* A process starts handler o with the locals j.
Begin(p, o, j) ==
  /\ pc[p] = "idle"
  /\ op' = [op EXCEPT ![p] = o]
  /\ job' = [job EXCEPT ![p] = j]
  /\ Goto(p, "lease")
  /\ UNCHANGED <<conn, lease, mailbox, records, snap>>

\* The handler is over: the deferred release is what is left to do.
Leave(p) ==
  /\ Goto(p, "release")
  /\ UNCHANGED <<op, snap, job>>

Finish(p) ==
  /\ Goto(p, "idle")
  /\ op' = [op EXCEPT ![p] = "none"]
  /\ snap' = [snap EXCEPT ![p] = EmptyRow]
  /\ job' = [job EXCEPT ![p] = NoJob]

AcquireLease(p) ==
  /\ pc[p] = "lease"
  /\ LeaseFree
  /\ lease' = [holder |-> p, live |-> TRUE]
  /\ Goto(p, "reload")
  /\ UNCHANGED <<conn, mailbox, records, op, snap, job, budgets>>

LeaseBusy(p) ==
  /\ pc[p] = "lease"
  /\ ~LeaseFree
  /\ Finish(p)
  /\ UNCHANGED <<conn, lease, mailbox, records, budgets>>

ReleaseLease(p) ==
  /\ pc[p] = "release"
  /\ lease' = IF Holds(p) THEN FreeLease ELSE lease
  /\ Finish(p)
  /\ UNCHANGED <<conn, mailbox, records, budgets>>

\* Re-reading the row once the lease is held.
Load(p, next, j) ==
  /\ pc[p] = "reload"
  /\ snap' = [snap EXCEPT ![p] = conn]
  /\ job' = [job EXCEPT ![p] = j]
  /\ Goto(p, next)
  /\ UNCHANGED <<conn, lease, mailbox, records, op, budgets>>

\* A call to Google or to the database fails and the handler returns.
CallFails(p) ==
  /\ pc[p] \notin {"idle", "lease", "stamp", "release"}
  /\ Fault("api")
  /\ Leave(p)
  /\ UNCHANGED <<conn, lease, mailbox, records>>

-----------------------------------------------------------------------------
(* Sync: a push, the scheduler or the owner asks for the new messages.     *)

SyncStart(p) ==
  /\ conn.enabled
  /\ conn.cipher
  /\ Begin(p, "sync", NoJob)
  /\ UNCHANGED budgets

SyncReload(p) ==
  /\ op[p] = "sync"
  /\ Load(p, IF conn.enabled THEN "watch" ELSE "release",
          [job[p] EXCEPT !.history = conn.history, !.page = conn.page,
                         !.recovery = conn.recovery,
                         !.activated = conn.activated])

\* Where the listing starts: a recovery under way goes on with its search.
\* An enabled row always has an activation (EnabledIsConfigured), so the
\* activation_required error of the code is never returned.
Listing(p) == IF snap[p].recovery = 0 THEN "list" ELSE "search"

\* A watch that lasts another 24 hours is left alone.
WatchValid(p) ==
  /\ pc[p] = "watch"
  /\ snap[p].watch
  /\ Goto(p, Listing(p))
  /\ UNCHANGED <<conn, lease, mailbox, records, op, snap, job, budgets>>

\* Wrong: the position the watch answers with becomes the cursor.
WatchMovesCursor(p) ==
  /\ pc[p] = "watch"
  /\ ~snap[p].watch
  /\ Holds(p)
  /\ conn' = [conn EXCEPT !.watch = TRUE, !.history = last]
  /\ Goto(p, Listing(p))
  /\ UNCHANGED <<lease, mailbox, records, op, snap, job, budgets>>

RenewWatch(p) ==
  /\ pc[p] = "watch"
  /\ ~snap[p].watch
  /\ \/ /\ Holds(p)
        /\ conn' = [conn EXCEPT !.watch = TRUE]
        /\ Goto(p, Listing(p))
        /\ UNCHANGED <<op, snap, job>>
     \/ /\ ~Holds(p)
        /\ Leave(p)
        /\ UNCHANGED conn
  /\ UNCHANGED <<lease, mailbox, records, budgets>>

ListHistory(p) ==
  /\ pc[p] = "list"
  /\ LET j == job[p]
         token == HistoryToken(j.history, j.page)
     IN  job' = [job EXCEPT ![p] =
                   [j EXCEPT !.todo = HistoryPage(j.history, j.page),
                             !.page = token,
                             !.history = IF token = 0 THEN last ELSE @]]
  /\ Goto(p, "pick")
  /\ UNCHANGED <<conn, lease, mailbox, records, op, snap, budgets>>

\* History answers 404, the saved cursor is too old: remember where the
\* mailbox is now and search for what arrived since the activation instead.
\* Reading the profile and writing the row are one step: nothing that happens
\* between the two reads the one or disturbs the other but new mail, which
\* might as well have come after both.
HistoryExpired(p) ==
  /\ pc[p] = "list"
  /\ Fault("history")
  /\ \/ /\ Holds(p)
        /\ conn' = [conn EXCEPT !.recovery = last, !.page = 0]
        /\ job' = [job EXCEPT ![p].recovery = last, ![p].page = 0]
        /\ Goto(p, "search")
        /\ UNCHANGED <<op, snap>>
     \/ /\ ~Holds(p)
        /\ Leave(p)
        /\ UNCHANGED conn
  /\ UNCHANGED <<lease, mailbox, records>>

\* Gmail answers 400 to a page token: drop it, start over from the cursor.
PageTokenExpired(p) ==
  /\ pc[p] \in {"list", "search"}
  /\ job[p].page # 0
  /\ Fault("page")
  /\ conn' = IF Holds(p) THEN [conn EXCEPT !.page = 0] ELSE conn
  /\ Leave(p)
  /\ UNCHANGED <<lease, mailbox, records>>

SearchSinceActivation(p) ==
  /\ pc[p] = "search"
  /\ LET j == job[p]
         token == SearchToken(j.activated, j.page)
     IN  job' = [job EXCEPT ![p] =
                   [j EXCEPT !.todo = SearchPage(j.activated, j.page),
                             !.page = token,
                             !.history = IF token = 0 THEN j.recovery ELSE @,
                             !.recovery = IF token = 0 THEN 0 ELSE @]]
  /\ Goto(p, "pick")
  /\ UNCHANGED <<conn, lease, mailbox, records, op, snap, budgets>>

\* The loop over the page, in the order Gmail listed it.  A message that has
\* an outcome already costs nothing.
PickMessage(p) ==
  /\ pc[p] = "pick"
  /\ job[p].spent < Batch
  /\ \E m \in job[p].todo :
       /\ outcome[m] = "none"
       /\ job' = [job EXCEPT ![p].msg = m]
  /\ Goto(p, "fetch")
  /\ UNCHANGED <<conn, lease, mailbox, records, op, snap, budgets>>

SkipKnown(p) ==
  /\ pc[p] = "pick"
  /\ job[p].spent < Batch
  /\ \E m \in job[p].todo :
       /\ outcome[m] # "none"
       /\ job' = [job EXCEPT ![p].todo = @ \ {m}]
  /\ UNCHANGED <<conn, lease, mailbox, records, pc, op, snap, budgets>>

\* Ten new outcomes: return More without saving the cursor.
BatchFull(p) ==
  /\ pc[p] = "pick"
  /\ job[p].todo # {}
  /\ job[p].spent >= Batch
  /\ Leave(p)
  /\ UNCHANGED <<conn, lease, mailbox, records, budgets>>

\* Wrong: the cursor is saved without asking whose lease it is.
CommitUnfenced(p) ==
  /\ pc[p] = "pick"
  /\ job[p].todo = {}
  /\ conn' = [conn EXCEPT !.history = job[p].history,
                         !.page = job[p].page,
                         !.recovery = job[p].recovery]
  /\ Leave(p)
  /\ UNCHANGED <<lease, mailbox, records, budgets>>

CommitCursor(p) ==
  /\ pc[p] = "pick"
  /\ job[p].todo = {}
  /\ conn' = IF Fenced(p)
             THEN [conn EXCEPT !.history = job[p].history,
                               !.page = job[p].page,
                               !.recovery = job[p].recovery]
             ELSE conn
  /\ Leave(p)
  /\ UNCHANGED <<lease, mailbox, records, budgets>>

-----------------------------------------------------------------------------
(* One message: fetched, classified and recorded.                          *)

\* The checks of gmailProcess, in their order, as a process that loaded row c
\* makes them; an explicit import skips the activation boundary.
Classify(c, m, explicit) ==
  IF m \in gone THEN "deleted"
  ELSE IF ~Candidate(m) THEN "noise"
  ELSE IF ~explicit /\ m <= c.activated THEN "early"
  ELSE IF mail[m].class \in {"spam", "garbled"} THEN mail[m].class
  ELSE IF mail[m].class = "bifast" /\ mail[m].to # c.account THEN "mismatch"
  ELSE "imported"

\* Comparing the recipient of a BI FAST receipt opens the stored account,
\* which a disconnect may have removed: an error, not an outcome.
Fetch(p) ==
  /\ pc[p] = "fetch"
  /\ LET verdict == Classify(snap[p], job[p].msg, op[p] = "import")
     IN  /\ job' = [job EXCEPT ![p].verdict = verdict]
         /\ Goto(p, IF verdict = "mismatch" /\ snap[p].account = None
                    THEN "release" ELSE "record")
  /\ UNCHANGED <<conn, lease, mailbox, records, op, snap, budgets>>

\* The insert into transactions, skipped for a message that is imported
\* already, needs a configured wallet, and the table refuses a transfer without
\* a destination wallet.
Bookable(p) ==
  job[p].verdict = "imported" /\ outcome[job[p].msg] # "imported" =>
    /\ snap[p].wallet # None
    /\ mail[job[p].msg].class # "topup"

\* The wallet a draft of m is booked to: the configured one, except that an
\* expense of another provider may go to a wallet of that provider.
BookTo(p, m) ==
  IF mail[m].class = "provider" THEN Wallets ELSE {snap[p].wallet}

\* Wrong: the upsert keeps the outcome of an earlier attempt.
RecordKeepsFirst(p, m, new) ==
  /\ outcome' = IF outcome[m] = "none"
                THEN [outcome EXCEPT ![m] = job[p].verdict] ELSE outcome
  /\ \E w \in BookTo(p, m) :
       drafts' = IF new /\ job[p].verdict = "imported"
                 THEN [drafts EXCEPT ![m] = Append(@, w)] ELSE drafts

\* What recording the outcome of m does once p may write.
RecordInto(p, m, new) ==
  /\ outcome' = IF new THEN [outcome EXCEPT ![m] = job[p].verdict] ELSE outcome
  /\ \E w \in BookTo(p, m) :
       drafts' = IF new /\ job[p].verdict = "imported"
                 THEN [drafts EXCEPT ![m] = Append(@, w)] ELSE drafts

\* gmailRecord's database transaction: the fence is taken FOR UPDATE on the
\* row, a message that is imported already is left alone, and the draft and
\* the outcome are committed together.
RecordOutcome(p) ==
  /\ pc[p] = "record"
  /\ Fenced(p)
  /\ Bookable(p)
  /\ LET m == job[p].msg
         new == outcome[m] # "imported"
     IN  /\ RecordInto(p, m, new)
         /\ job' = [job EXCEPT ![p].todo = @ \ {m}, ![p].msg = 0,
                      ![p].verdict = "none",
                      ![p].spent = IF new THEN @ + 1 ELSE @]
  /\ Goto(p, IF op[p] = "sync" THEN "pick" ELSE "release")
  /\ UNCHANGED <<conn, lease, mailbox, op, snap, budgets>>

RecordRefused(p) ==
  /\ pc[p] = "record"
  /\ ~Fenced(p) \/ ~Bookable(p)
  /\ Leave(p)
  /\ UNCHANGED <<conn, lease, mailbox, records, budgets>>

-----------------------------------------------------------------------------
(* Import: the owner names one message.                                    *)

ImportStart(p) ==
  /\ Request
  /\ conn.wallet # None
  /\ conn.account # None
  /\ \E m \in 2 .. last : Begin(p, "import", [NoJob EXCEPT !.msg = m])

\* The credential is opened right after the reload; without one the import
\* is over.
ImportReload(p) ==
  /\ op[p] = "import"
  /\ Load(p, IF conn.cipher THEN "check" ELSE "release", job[p])

\* An imported message is a duplicate; one with another outcome is retried.
ImportCheck(p) ==
  /\ pc[p] = "check"
  /\ Goto(p, IF outcome[job[p].msg] = "imported" THEN "release" ELSE "fetch")
  /\ UNCHANGED <<conn, lease, mailbox, records, op, snap, job, budgets>>

-----------------------------------------------------------------------------
(* Settings: the owner chooses wallet and account, enables or pauses.      *)

\* Wrong: pausing does not wait for the lease.
PauseAnyTime ==
  /\ Request
  /\ conn.cipher
  /\ conn' = [conn EXCEPT !.enabled = FALSE]
  /\ UNCHANGED <<lease, mailbox, records, pc, op, snap, job>>

Pause ==
  /\ Request
  /\ conn.cipher
  /\ LeaseFree
  /\ conn' = [conn EXCEPT !.enabled = FALSE]
  /\ UNCHANGED <<lease, mailbox, records, pc, op, snap, job>>

SettingsStart(p) ==
  /\ Request
  /\ conn.cipher
  /\ \E e \in BOOLEAN, w \in Wallets, a \in Accounts :
       Begin(p, "settings", [NoJob EXCEPT !.want =
               [enabled |-> e, wallet |-> w, account |-> a]])

\* The first activation asks Gmail for the position of the mailbox, which
\* takes the credential.
SettingsReload(p) ==
  /\ op[p] = "settings"
  /\ Load(p, IF ~job[p].want.enabled \/ conn.activated # 0 THEN "write"
             ELSE IF conn.cipher THEN "profile" ELSE "release",
          [job[p] EXCEPT !.history = conn.history,
                         !.activated = conn.activated])

ReadProfile(p) ==
  /\ pc[p] = "profile"
  /\ job' = [job EXCEPT ![p].history = last]
  /\ Goto(p, "stamp")
  /\ UNCHANGED <<conn, lease, mailbox, records, op, snap, budgets>>

\* time.Now(), read after Gmail has answered.
StampActivation(p) ==
  /\ pc[p] = "stamp"
  /\ job' = [job EXCEPT ![p].activated = last]
  /\ Goto(p, "write")
  /\ UNCHANGED <<conn, lease, mailbox, records, op, snap, budgets>>

\* The row's check constraint gmail_enabled_config is EnabledIsConfigured
\* below, which no write of the code violates.
WriteSettings(p) ==
  /\ pc[p] = "write"
  /\ LET want == job[p].want
     IN  conn' = IF Holds(p)
                 THEN [conn EXCEPT !.wallet = want.wallet,
                         !.account = want.account, !.enabled = want.enabled,
                         !.history = job[p].history,
                         !.activated = job[p].activated]
                 ELSE conn
  /\ Leave(p)
  /\ UNCHANGED <<lease, mailbox, records, budgets>>

-----------------------------------------------------------------------------
(* Connect and disconnect.                                                 *)

\* The OAuth callback stores a credential; it takes no lease and leaves the
\* activation, the cursor and the settings alone.
Callback ==
  /\ Request
  /\ conn' = [conn EXCEPT !.cipher = TRUE]
  /\ UNCHANGED <<lease, mailbox, records, pc, op, snap, job>>

DisconnectStart(p) ==
  /\ Request
  /\ Begin(p, "disconnect", NoJob)

DisconnectReload(p) ==
  /\ op[p] = "disconnect"
  /\ Load(p, "disable", job[p])

Disable(p) ==
  /\ pc[p] = "disable"
  /\ conn' = IF Holds(p) THEN [conn EXCEPT !.enabled = FALSE] ELSE conn
  /\ Goto(p, IF ~Holds(p) THEN "release"
             ELSE IF snap[p].cipher THEN "revoke" ELSE "clear")
  /\ UNCHANGED <<lease, mailbox, records, op, snap, job, budgets>>

\* Stop and Revoke answered, or the credential was dead already.
Revoked(p) ==
  /\ pc[p] = "revoke"
  /\ Goto(p, "clear")
  /\ UNCHANGED <<conn, lease, mailbox, records, op, snap, job, budgets>>

\* Wrong: the credential is dropped without asking whose lease it is.
ClearUnfenced(p) ==
  /\ pc[p] = "clear"
  /\ conn' = [EmptyRow EXCEPT !.enabled = conn.enabled, !.wallet = conn.wallet]
  /\ Leave(p)
  /\ UNCHANGED <<lease, mailbox, records, budgets>>

ClearConnection(p) ==
  /\ pc[p] = "clear"
  /\ conn' = IF Holds(p)
             THEN [EmptyRow EXCEPT !.enabled = conn.enabled,
                                   !.wallet = conn.wallet]
             ELSE conn
  /\ Leave(p)
  /\ UNCHANGED <<lease, mailbox, records, budgets>>

-----------------------------------------------------------------------------
(* The surroundings: mail, time and crashes.                               *)

Arrive ==
  /\ last < MaxPos
  /\ last' = last + 1
  /\ UNCHANGED <<conn, lease, mail, gone, records, pc, op, snap, job, budgets>>

DeleteMail ==
  /\ Request
  /\ \E m \in (2 .. last) \ gone : gone' = gone \cup {m}
  /\ UNCHANGED <<conn, lease, last, mail, records, pc, op, snap, job>>

\* 90 seconds have passed since the lease of a process that is still running,
\* because the instance was frozen or the database slow.
LeaseExpires ==
  /\ lease.live
  /\ lease.holder \in Procs
  /\ Fault("stall")
  /\ lease' = [lease EXCEPT !.live = FALSE]
  /\ UNCHANGED <<conn, mailbox, records, pc, op, snap, job>>

\* The lease of a process that is gone always expires.
OrphanExpires ==
  /\ lease.live
  /\ lease.holder = Orphan
  /\ lease' = [lease EXCEPT !.live = FALSE]
  /\ UNCHANGED <<conn, mailbox, records, pc, op, snap, job, budgets>>

Crash(p) ==
  /\ pc[p] # "idle"
  /\ Fault("crash")
  /\ lease' = IF Holds(p) THEN [lease EXCEPT !.holder = Orphan] ELSE lease
  /\ Finish(p)
  /\ UNCHANGED <<conn, mailbox, records>>

\* Less than 24 hours are left of the watch.
WatchLapses ==
  /\ conn.watch
  /\ Fault("watch")
  /\ conn' = [conn EXCEPT !.watch = FALSE]
  /\ UNCHANGED <<lease, mailbox, records, pc, op, snap, job>>

-----------------------------------------------------------------------------
Start(p) == SyncStart(p) \/ ImportStart(p) \/ SettingsStart(p)
              \/ DisconnectStart(p)

SyncStep(p) ==
  \/ SyncReload(p)
  \/ WatchValid(p)
  \/ RenewWatch(p)
  \/ ListHistory(p)
  \/ SearchSinceActivation(p)
  \/ PickMessage(p)
  \/ SkipKnown(p)
  \/ BatchFull(p)
  \/ CommitCursor(p)

MessageStep(p) ==
  \/ ImportReload(p)
  \/ ImportCheck(p)
  \/ Fetch(p)
  \/ RecordOutcome(p)
  \/ RecordRefused(p)

SettingsStep(p) ==
  \/ SettingsReload(p)
  \/ ReadProfile(p)
  \/ StampActivation(p)
  \/ WriteSettings(p)

DisconnectStep(p) ==
  \/ DisconnectReload(p)
  \/ Disable(p)
  \/ Revoked(p)
  \/ ClearConnection(p)

LeaseStep(p) == AcquireLease(p) \/ LeaseBusy(p) \/ ReleaseLease(p)

\* What a process that has started goes on to do when nothing fails.
Progress(p) == LeaseStep(p) \/ SyncStep(p) \/ MessageStep(p)
                 \/ SettingsStep(p) \/ DisconnectStep(p)

Failure(p) == CallFails(p) \/ HistoryExpired(p) \/ PageTokenExpired(p)
                \/ Crash(p)

Environment == Arrive \/ DeleteMail \/ LeaseExpires \/ OrphanExpires
                 \/ WatchLapses \/ Callback \/ Pause

Next == Environment \/ \E p \in Procs : Start(p) \/ Progress(p) \/ Failure(p)

Spec == Init /\ [][Next]_vars

\* A started handler runs to its end, the lease of a dead one runs out, and
\* the scheduler keeps calling the maintenance endpoint.
Fairness ==
  /\ \A p \in Procs : WF_vars(Progress(p))
  /\ WF_vars(OrphanExpires)
  /\ WF_vars(\E p \in Procs : SyncStart(p))

FairSpec == Spec /\ Fairness

-----------------------------------------------------------------------------
(* What the integration promises.                                          *)

\* Every variable keeps its type.
RowTypes == conn \in Row /\ lease \in Lease
MailTypes ==
  /\ last \in 1 .. MaxPos
  /\ mail \in [Msg -> Content]
  /\ gone \subseteq Msg
RecordTypes ==
  /\ outcome \in [Msg -> Outcome]
  /\ drafts \in [Msg -> Seq(Wallets)]
ProcessTypes ==
  /\ pc \in [Procs -> Step]
  /\ op \in [Procs -> Op]
  /\ snap \in [Procs -> Row]
  /\ job \in [Procs -> Job]
BudgetTypes == faults \in 0 .. MaxFaults /\ requests \in 0 .. MaxRequests
TypeOK == RowTypes /\ MailTypes /\ RecordTypes /\ ProcessTypes /\ BudgetTypes

\* A message has a draft transaction exactly when it is recorded as imported,
\* and never more than one, whatever imports, syncs, reconnects, crashes and
\* lost leases interleave: gmailRecord's one database transaction.
OneDraftPerImport ==
  \A m \in Msg : Len(drafts[m]) = IF outcome[m] = "imported" THEN 1 ELSE 0

\* "Configuration cannot change under a running import/sync" (gmail.go): while
\* the lease of a sync or import is valid, what it loaded is what the row says.
Running(p) ==
  /\ op[p] \in {"sync", "import"}
  /\ pc[p] \notin {"idle", "lease", "reload", "release"}
ConfigurationFrozen ==
  \A p \in Procs : Running(p) /\ Fenced(p) =>
    /\ conn.enabled = snap[p].enabled
    /\ conn.wallet = snap[p].wallet
    /\ conn.account = snap[p].account
    /\ conn.activated = snap[p].activated
    /\ conn.history = snap[p].history

\* The check constraint gmail_enabled_config is never what stops a write: an
\* enabled connection has credential, wallet, account, activation and cursor.
EnabledIsConfigured ==
  conn.enabled =>
    /\ conn.cipher
    /\ conn.wallet # None
    /\ conn.account # None
    /\ conn.activated # 0
    /\ conn.history # 0

\* The saved cursor never passes a receipt that has no outcome: whatever
\* arrived after the activation and at or before the cursor was recorded,
\* through page resumes, expired cursors and stale instances.
Owed(m) == /\ mail[m].class \notin {"noise", "spam"}
           /\ m \notin gone
NothingSkipped ==
  conn.activated # 0 =>
    \A m \in Msg : conn.activated < m /\ m <= conn.history /\ Owed(m)
                     => outcome[m] # "none"

\* A BI FAST draft is booked to the wallet and for the account the row names at
\* that moment, and while the connection is paused or disconnected no sync books
\* one: only the owner's explicit import does.
FollowsSettings ==
  \A m \in Msg : drafts'[m] # drafts[m] =>
    /\ mail[m].class = "provider" \/ drafts'[m] = Append(drafts[m], conn.wallet)
    /\ mail[m].class = "bifast" => mail[m].to = conn.account
    /\ conn.enabled \/ \E p \in Procs : op[p] = "import" /\ job[p].msg = m
DraftsFollowSettings == [][FollowsSettings]_vars

\* With a scheduler that keeps calling, every receipt that arrives while the
\* connection is enabled gets an outcome, unless the owner deletes it or
\* turns the connection off first.
EveryReceiptHandled ==
  \A m \in Msg :
    (m <= last /\ conn.enabled /\ conn.activated < m /\ Owed(m))
      ~> (outcome[m] # "none" \/ m \in gone \/ ~conn.enabled)

\* The integration implements InboxDelivery: its cursor acknowledges what
\* arrived after the activation and at or before the saved position.
Inbox == INSTANCE InboxDelivery WITH
  handled <- {m \in Msg : outcome[m] # "none"},
  acked <- {m \in Msg : conn.activated # 0 /\ conn.activated < m
                          /\ m <= conn.history},
  owed <- {m \in Msg : Owed(m)}

\* At-most-once import and no receipt lost behind the cursor, step by step.
DeliversOnce == Inbox!Spec

=============================================================================
