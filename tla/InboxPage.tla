------------------------------- MODULE InboxPage -------------------------------
(***************************************************************************)
(* The drafts that wait for review, as one browser shows them: the shared  *)
(* SWR cache (lib/swr.tsx) under the inbox page with ReviewView, the       *)
(* overview with DashboardView, and the captures from the inbox page, the  *)
(* camera of the floating bar and the quick drawer.  Other devices, Gmail  *)
(* and Android change the drafts on the server meanwhile.                  *)
(*                                                                         *)
(* SWR is modelled by what the pages use of it.  An answer is taken only   *)
(* when no later fetch of its key was started and no mutation of the key   *)
(* started, ran or ended since the fetch began; a mutation shows its       *)
(* optimistic data at once, replaces it by its result, or rolls back.      *)
(*                                                                         *)
(* Drafts are numbers, the newest the largest, as the server lists them.   *)
(* What a row says is abstracted to the draft whose form was saved to it.  *)
(***************************************************************************)
EXTENDS Browser, FiniteSets

CONSTANTS
  Drafts,     \* drafts, those still to come included
  Waiting,    \* the drafts that wait when the browser opens the page
  Incomes,    \* the drafts that are income
  Duplicates, \* those the anti-duplicate engine suspects
  Awaited     \* a fetch that has not been answered

\* Faults is a subset of {"read", "write", "lost"}.

ASSUME InboxAssumption ==
  /\ Drafts \subseteq Nat /\ IsFiniteSet(Drafts)
  /\ Waiting \cup Incomes \cup Duplicates \subseteq Drafts
  /\ None \notin Drafts /\ Awaited # None
  /\ None \notin {"ok", "mark"}
  /\ \A S \in SUBSET Drafts : S \notin {None, Awaited}

VARIABLES
  status,     \* the server: Drafts -> DraftStatuses
  fields,     \* Drafts -> Drafts: whose form the row holds
  claims,     \* the drafts marked as a claim
  page,       \* the page that is mounted
  cache,      \* SWR's data for each key
  committed,  \* SWR's data under the optimistic one, or None
  polls,      \* for each key None, Awaited, or an answer not yet taken
  selectedId, \* the draft last clicked, or None
  edit,       \* None, or the draft the open edit form was filled from
  rejectTx,   \* None, or the draft of the open reject dialog
  allocation, \* None, or the income of the open split dialog
  busy,       \* the inbox page's flag
  ops,        \* approvals, rejections and saves under way
  captures,   \* extractions under way
  drawer,     \* the quick drawer: whether it is open, and its flag
  done,       \* history: drafts this browser has settled
  listed,     \* history: the last list of the inbox that came from the server
  overlapped  \* history: two saves of the edit form were under way at once

server == <<status, fields, claims>>
swr == <<cache, committed, polls>>
dialogs == <<selectedId, edit, rejectTx, allocation>>
history == <<done, listed, overlapped>>
inboxVars == <<server, page, swr, dialogs, busy, ops, captures, drawer, history,
               events>>

DraftStatuses == {"none", "pending", "approved", "rejected"}
Keys == {"inbox", "overview"}

Pending == {d \in Drafts : status[d] = "pending"}

--------------------------------------------------------------------------------
(* SWR.                                                                    *)

\* Wrong: the layout no longer counts the inbox.
MountedAlone == {page}

\* The keys some mounted component uses: the layout counts the inbox, the
\* overview page reads its own.
Mounted == IF page = "overview" THEN Keys ELSE {"inbox"}

\* A fetch whose answer will not be taken is forgotten at once: the one before
\* of the same key, and one of the inbox's that a mutation overlaps.
Mutating(os) == \E o \in os : o.optimistic /\ o.last

Started(fs, ks, mutating) ==
  [k \in Keys |-> IF k \notin ks THEN fs[k]
                  ELSE IF k = "inbox" /\ mutating THEN None ELSE Awaited]

Spoilt(fs) == [fs EXCEPT !["inbox"] = None]

\* revalidateFinance: every key that is mounted, at once.
Revalidated(fs, os) == Started(fs, Mounted, Mutating(os))

\* The timer, the focus or the network comes back: a fetch, unless the last
\* one is still under way.
Poll(k) ==
  /\ k \in Mounted /\ polls[k] = None /\ ~(k = "inbox" /\ Mutating(ops))
  /\ polls' = Started(polls, {k}, FALSE)
  /\ UNCHANGED <<server, page, cache, committed, dialogs, busy, ops, captures,
                 drawer, history, events>>

\* A failure leaves the data as it was (keepPreviousData).
Answered(k) ==
  /\ polls[k] = Awaited
  /\ \/ polls' = [polls EXCEPT ![k] = Pending] /\ UNCHANGED events
     \/ "read" \in Faults /\ Event /\ polls' = [polls EXCEPT ![k] = None]
  /\ UNCHANGED <<server, page, cache, committed, dialogs, busy, ops, captures,
                 drawer, history>>

TakeAnswer(k) ==
  /\ polls[k] \notin {None, Awaited}
  /\ polls' = [polls EXCEPT ![k] = None]
  /\ cache' = [cache EXCEPT ![k] = polls[k]]
  /\ listed' = IF k = "inbox" THEN polls[k] ELSE listed
  /\ UNCHANGED <<server, page, committed, dialogs, busy, ops, captures, drawer,
                 done, overlapped, events>>

--------------------------------------------------------------------------------
(* Reviewing on the inbox page.                                            *)

Newest(S) == CHOOSE d \in S : \A e \in S : e <= d

\* The draft in the panel on the right: the one last clicked, or else the first.
Selected ==
  IF selectedId \in cache["inbox"] THEN selectedId
  ELSE IF cache["inbox"] = {} THEN None ELSE Newest(cache["inbox"])

NoDialog ==
  edit = None /\ rejectTx = None /\ allocation = None /\ ~drawer.open

OnInbox == page = "inbox" /\ NoDialog

DialogsOnly == Event /\ UNCHANGED <<server, page, swr, busy, ops, captures,
                                    drawer, history>>

Select ==
  /\ OnInbox
  /\ \E d \in cache["inbox"] : selectedId' = d
  /\ DialogsOnly /\ UNCHANGED <<edit, rejectTx, allocation>>

\* The form is filled from the draft that is selected now.
OpenForm ==
  /\ OnInbox /\ ~busy /\ Selected # None
  /\ edit' = Selected
  /\ DialogsOnly /\ UNCHANGED <<selectedId, rejectTx, allocation>>

\* From the panel, or from the warning on any item that may be a duplicate.
AskReject ==
  /\ OnInbox /\ ~busy
  /\ \E d \in cache["inbox"] \cap (Duplicates \cup {Selected}) : rejectTx' = d
  /\ DialogsOnly /\ UNCHANGED <<selectedId, edit, allocation>>

\* Escape closes each dialog, busy or not.
CloseDialog ==
  /\ edit # None \/ rejectTx # None \/ allocation # None
  /\ edit' = None /\ rejectTx' = None /\ allocation' = None
  /\ DialogsOnly /\ UNCHANGED selectedId

\* What the page shows while the request runs.
Without(S, d) == S \ {d}

\* resolveOptimistically: the draft is dropped from the data at once.
Resolve(kind, d, from, income) ==
  LET base == IF committed = None THEN cache["inbox"] ELSE committed
  IN  /\ Event
      /\ cache' = [cache EXCEPT !["inbox"] = Without(base, d)]
      /\ committed' = base
      /\ polls' = Spoilt(polls)
      /\ ops' = {[o EXCEPT !.last = FALSE] : o \in ops}
                  \cup {[kind |-> kind, draft |-> d, from |-> from, income |-> income,
                         base |-> base, optimistic |-> TRUE, last |-> TRUE,
                         result |-> None, n |-> events]}
      /\ busy' = TRUE
      /\ overlapped' = (overlapped \/ ops # {})
      /\ UNCHANGED <<server, page, dialogs, captures, drawer, done, listed>>

\* The button of the panel.
Approve ==
  /\ OnInbox /\ ~busy /\ Selected # None
  /\ Resolve("approve", Selected, None, Selected \in Incomes)

\* "Tetap Simpan" saves no field but the status.
KeepBoth ==
  /\ OnInbox /\ ~busy
  /\ \E d \in cache["inbox"] \cap Duplicates :
       Resolve("keep", d, None, d \in Incomes)

ConfirmReject ==
  /\ rejectTx # None /\ ~busy
  /\ Resolve("reject", rejectTx, None, FALSE)

\* The form offers each type of a transaction: what is saved may be an income
\* that was none before.
Typed(d) == {(d \in Incomes), TRUE}

\* The save goes to the draft that is selected by now, and nothing looks at
\* busy: Ctrl+Enter submits again.
SubmitEdit ==
  /\ edit # None /\ Selected # None
  /\ \E income \in Typed(Selected) : Resolve("edit", Selected, edit, income)

--------------------------------------------------------------------------------
(* Reviewing on the overview: no optimistic data, no flag.                 *)

OnOverview == page = "overview" /\ ~drawer.open

\* Four drafts at most are on offer, and a second click deselects.
Toggle ==
  /\ OnOverview
  /\ \E d \in cache["overview"] :
       selectedId' = IF d = selectedId THEN None ELSE d
  /\ DialogsOnly /\ UNCHANGED <<edit, rejectTx, allocation>>

Decide ==
  /\ OnOverview /\ selectedId \in cache["overview"]
  /\ Event
  /\ \E kind \in {"approve", "reject"} :
       ops' = ops \cup {[kind |-> kind, draft |-> selectedId, from |-> None,
                         income |-> FALSE, base |-> {}, optimistic |-> FALSE,
                         last |-> FALSE, result |-> None, n |-> events]}
  /\ UNCHANGED <<server, page, swr, dialogs, busy, captures, drawer, history>>

\* "Koreksi" goes to the inbox page with the draft in its address.
Correct ==
  /\ OnOverview /\ selectedId \in cache["overview"]
  /\ Event
  /\ page' = "inbox"
  /\ UNCHANGED <<server, swr, dialogs, busy, ops, captures, drawer, history>>

--------------------------------------------------------------------------------
(* The requests and what follows them.                                     *)

Outcome(kind) == IF kind = "reject" THEN "rejected" ELSE "approved"

\* The server sets the status whatever it was; a save writes its fields too.
ServeOp(o) ==
  /\ o.result = None
  /\ \E r \in {"ok", "failed", "lost"} :
       /\ r = "failed" => "write" \in Faults
       /\ r = "lost" => "lost" \in Faults
       /\ IF r = "failed" THEN UNCHANGED <<status, fields>>
          ELSE /\ status' = [status EXCEPT ![o.draft] = Outcome(o.kind)]
               /\ fields' = IF o.kind # "edit" THEN fields
                            ELSE [fields EXCEPT ![o.draft] = o.from]
       /\ ops' = (ops \ {o}) \cup {[o EXCEPT !.result = r]}
  /\ UNCHANGED <<claims, page, swr, dialogs, busy, captures, drawer, history,
                 events>>

\* Wrong: the data of before the mutation is put into the cache.
StaleResult(o) == o.base

\* What the mutation puts into the cache.
Result(o) == Without(o.base, o.draft)

\* Wrong: a failed mutation leaves its optimistic data.
NoRollback(o) == Without(o.base, o.draft)

\* What is put back when the request failed.
Rollback(o) == o.base

\* The mutation ends; one that a later mutation has overtaken leaves the
\* cache alone.  Only a success revalidates.
SettleCache(o) ==
  LET data == IF o.result = "ok" THEN Result(o) ELSE Rollback(o)
      rest == ops \ {o}
      after == IF o.optimistic THEN Spoilt(polls) ELSE polls
  IN  /\ cache' = IF o.optimistic /\ o.last
                  THEN [cache EXCEPT !["inbox"] = data] ELSE cache
      /\ committed' = IF o.optimistic /\ o.last THEN None ELSE committed
      /\ polls' = IF o.result = "ok" THEN Revalidated(after, rest) ELSE after

\* The page's flag once a request has ended: finally lowers it.
BusyAfter(o) == FALSE

\* The edit form and the reject dialog close whatever the result, an approved
\* income opens the split dialog, the overview forgets its selection.
EndOp(o) ==
  /\ o.result # None
  /\ ops' = ops \ {o}
  /\ SettleCache(o)
  /\ busy' = IF o.optimistic THEN BusyAfter(o) ELSE busy
  /\ edit' = IF o.kind = "edit" THEN None ELSE edit
  /\ rejectTx' = IF o.kind = "reject" /\ o.optimistic THEN None ELSE rejectTx
  /\ allocation' =
       IF o.optimistic /\ o.result = "ok" /\ o.income THEN o.draft ELSE allocation
  /\ selectedId' = IF ~o.optimistic /\ o.result = "ok" /\ page = "overview"
                   THEN None ELSE selectedId
  /\ done' = IF o.optimistic /\ o.result = "ok" THEN done \cup {o.draft} ELSE done
  /\ UNCHANGED <<server, page, captures, drawer, listed, overlapped, events>>

--------------------------------------------------------------------------------
(* Captures.                                                               *)

CaptureBy(who, claim) ==
  [by |-> who, claim |-> claim, draft |-> None, result |-> None, n |-> events]

\* The text box and the photo of the inbox page.
MayExtract == OnInbox /\ ~busy

Extract ==
  /\ MayExtract /\ Event
  /\ captures' = captures \cup {CaptureBy("inbox", FALSE)}
  /\ busy' = TRUE
  /\ UNCHANGED <<server, page, swr, dialogs, ops, drawer, history>>

\* The camera of the floating bar sets no flag.
Photograph ==
  /\ NoDialog /\ Event
  /\ captures' = captures \cup {CaptureBy("camera", FALSE)}
  /\ UNCHANGED <<server, page, swr, dialogs, busy, ops, drawer, history>>

OpenDrawer ==
  /\ NoDialog /\ Event
  /\ drawer' = [drawer EXCEPT !.open = TRUE]
  /\ UNCHANGED <<server, page, swr, dialogs, busy, ops, captures, history>>

\* The drawer can be closed and opened again while its request runs.
CloseDrawer ==
  /\ drawer.open /\ Event
  /\ drawer' = [drawer EXCEPT !.open = FALSE]
  /\ UNCHANGED <<server, page, swr, dialogs, busy, ops, captures, history>>

\* Text, a screenshot or a file, with or without the switch of a claim.
QuickCapture ==
  /\ drawer.open /\ ~drawer.busy /\ Event
  /\ \E claim \in BOOLEAN :
       captures' = captures \cup {CaptureBy("drawer", claim)}
  /\ drawer' = [drawer EXCEPT !.busy = TRUE]
  /\ UNCHANGED <<server, page, swr, dialogs, busy, ops, history>>

\* The drawer's other tab: a transfer between two wallets, no draft.
QuickTransfer ==
  /\ drawer.open /\ ~drawer.busy /\ Event
  /\ captures' = captures \cup {CaptureBy("transfer", FALSE)}
  /\ drawer' = [drawer EXCEPT !.busy = TRUE]
  /\ UNCHANGED <<server, page, swr, dialogs, busy, ops, history>>

Unused == {d \in Drafts : status[d] = "none"}

\* The server extracts a new draft, or fails.
ServeCapture(c) ==
  /\ c.result = None /\ c.by # "transfer"
  /\ \/ \E d \in Unused :
          /\ status' = [status EXCEPT ![d] = "pending"]
          /\ captures' = (captures \ {c}) \cup
               {[c EXCEPT !.draft = d, !.result = IF c.claim THEN "mark" ELSE "ok"]}
     \/ /\ Unused = {}
        /\ captures' = (captures \ {c}) \cup {[c EXCEPT !.result = "failed"]}
        /\ UNCHANGED status
  /\ UNCHANGED <<fields, claims, page, swr, dialogs, busy, ops, drawer, history,
                 events>>

ServeTransfer(c) ==
  /\ c.result = None /\ c.by = "transfer"
  /\ \E r \in {"ok"} \cup IF "write" \in Faults THEN {"failed"} ELSE {} :
       captures' = (captures \ {c}) \cup {[c EXCEPT !.result = r]}
  /\ UNCHANGED <<server, page, swr, dialogs, busy, ops, drawer, history,
                 events>>

\* The claim is marked by a second request, whose failure is swallowed.
MarkClaim(c) ==
  /\ c.result = "mark"
  /\ \/ claims' = claims \cup {c.draft}
     \/ "write" \in Faults /\ UNCHANGED claims
  /\ captures' = (captures \ {c}) \cup {[c EXCEPT !.result = "ok"]}
  /\ UNCHANGED <<status, fields, page, swr, dialogs, busy, ops, drawer, history,
                 events>>

\* The drawer closes after a success and stays after a failure.
EndCapture(c) ==
  /\ c.result \in {"ok", "failed"}
  /\ captures' = captures \ {c}
  /\ busy' = IF c.by = "inbox" THEN FALSE ELSE busy
  /\ drawer' = IF c.by \notin {"drawer", "transfer"} THEN drawer
               ELSE [open |-> drawer.open /\ c.result # "ok", busy |-> FALSE]
  /\ polls' = IF c.result = "ok" THEN Revalidated(polls, ops) ELSE polls
  /\ UNCHANGED <<server, page, cache, committed, dialogs, ops, history, events>>

--------------------------------------------------------------------------------
(* Elsewhere, and the specification.                                       *)

\* A receipt comes in from Gmail or Android; another device settles a draft.
Elsewhere ==
  /\ Event
  /\ \/ \E d \in Unused : status' = [status EXCEPT ![d] = "pending"]
     \/ \E d \in Pending, s \in {"approved", "rejected"} :
          status' = [status EXCEPT ![d] = s]
  /\ UNCHANGED <<fields, claims, page, swr, dialogs, busy, ops, captures,
                 drawer, history>>

InboxInit ==
  /\ status = [d \in Drafts |-> IF d \in Waiting THEN "pending" ELSE "none"]
  /\ fields = [d \in Drafts |-> d]
  /\ claims = {}
  /\ page \in {"inbox", "overview"}
  /\ cache = [k \in Keys |-> {}]
  /\ committed = None /\ polls = [k \in Keys |-> None]
  /\ selectedId = None /\ edit = None /\ rejectTx = None /\ allocation = None
  /\ busy = FALSE /\ ops = {} /\ captures = {}
  /\ drawer = [open |-> FALSE, busy |-> FALSE]
  /\ done = {} /\ listed = {} /\ overlapped = FALSE
  /\ events = 0

Reviewing == Select \/ OpenForm \/ AskReject \/ CloseDialog \/ Approve \/ KeepBoth
               \/ ConfirmReject \/ SubmitEdit \/ Toggle \/ Decide \/ Correct
Capturing == Extract \/ Photograph \/ OpenDrawer \/ CloseDrawer \/ QuickCapture
               \/ QuickTransfer
Requests ==
  \/ \E o \in ops : ServeOp(o) \/ EndOp(o)
  \/ \E c \in captures :
       ServeCapture(c) \/ ServeTransfer(c) \/ MarkClaim(c) \/ EndCapture(c)
Fetching(k) == Poll(k) \/ Answered(k) \/ TakeAnswer(k)

InboxNext ==
  \/ Reviewing \/ Capturing \/ Requests \/ Elsewhere
  \/ \E k \in Keys : Fetching(k)

InboxSpec == InboxInit /\ [][InboxNext]_inboxVars

\* The browser answers or fails every request, and SWR's interval goes on as
\* long as the window is visible.
InboxFairSpec ==
  InboxSpec /\ WF_inboxVars(Requests) /\ \A k \in Keys : WF_inboxVars(Fetching(k))

--------------------------------------------------------------------------------
(* Properties.                                                             *)

\* A draft this browser has approved, rejected or saved does not come back
\* into the inbox, though polls that were asked before are answered after, and
\* though a rollback of another draft restores older data.  (Two saves of the
\* edit form at once are excepted: the second takes the first one's draft into
\* its own data, until the next answer.)
SettledStaysAway == overlapped \/ done \cap cache["inbox"] = {}

\* No draft drops out of the inbox without being settled: what the server
\* listed last and this browser has not settled is on offer again as soon as
\* no request is under way, failed and overlapping ones included.
UnsettledComesBack ==
  (~\E o \in ops : o.optimistic) => listed \ done \subseteq cache["inbox"]

\* The inbox catches up with the server again and again, whatever failed and
\* whatever other devices did.
InboxCatchesUp == []<>(cache["inbox"] = Pending)
=============================================================================
