--------------------------- MODULE TransactionsPage ---------------------------
(***************************************************************************)
(* The ledger page of the browser (transactions/page.tsx with              *)
(* TransactionsView) against the transactions of the server.               *)
(*                                                                         *)
(* Every change of a filter, of the page, of the page size or of           *)
(* refreshKey runs an effect that fetches a page of rows.  Fetches and     *)
(* writes are answered in any order and while the user goes on; what keeps *)
(* the rows of an old filter off the screen is the flag `active' of the    *)
(* effect that started the fetch.                                          *)
(*                                                                         *)
(* The page is not the only writer of the ledger: the quick drawer of the  *)
(* layout, the import dialog, the phone, Gmail, the webhook, recurring     *)
(* runs and other devices change it, and none of them makes the table      *)
(* fetch, but for the end of an import.                                    *)
(*                                                                         *)
(* Transactions are numbers, the newest the largest: the page asks for     *)
(* transaction_at, descending.  A row keeps the fields the page's controls *)
(* look at.  What a field of the form says is chosen when the form is      *)
(* submitted.                                                              *)
(***************************************************************************)
EXTENDS Browser, FiniteSets

CONSTANTS
  Ids,        \* transactions, those to be created included
  Failed,     \* the answer of a list request that failed
  Start,      \* the ledger when the page is opened: Ids -> Rows \cup {None}
  Sizes,      \* the page sizes of the select
  TypeFilter, StatusFilter, \* bounds: the choices of the filters that are taken
  OtherRows   \* bound: what others than the page make of a transaction

\* Faults is a subset of {"read", "lost"}: failed lists, lost answers.

Types == {"expense", "income", "transfer"}
Statuses == {"approved", "needs_review", "rejected"}
Claims == {"none", "receivable", "reimbursed"}
Rows == [type : Types, status : Statuses, claim : Claims]

ASSUME ConstantsAssumption ==
  /\ Ids \subseteq Nat /\ IsFiniteSet(Ids)
  /\ None \notin Ids /\ None \notin Rows /\ Failed # None /\ None # "ok"
  /\ Start \in [Ids -> Rows \cup {None}]
  /\ Sizes \subseteq Nat \ {0} /\ Sizes # {}
  /\ TypeFilter \subseteq {"all"} \cup Types
  /\ StatusFilter \subseteq {"all"} \cup Statuses
  /\ OtherRows \subseteq Rows

VARIABLES
  ledger,   \* the server: Ids -> Rows \cup {None}
  query,    \* what the effect depends on, without refreshKey
  shown,    \* rows, total, totalPages, loading and loadError
  fetches,  \* list requests under way, each with its flag `active'
  selected, \* ids ticked in the grid
  detail,   \* None, or a copy of the row in the side panel
  cell,     \* the row of activeCell
  del,      \* the delete dialog: isDeleteOpen and deletingId
  hold,     \* None, or the id the running two-second timer deletes
  bulk,     \* the bulk dialog: isBulkOpen and bulkData
  form,     \* the form dialog: isFormOpen and editingTx
  writes,   \* writes under way
  behind,   \* history: a change the page was not told to fetch
  held      \* history: ids whose button was held to the end

vars == <<ledger, query, shown, fetches, selected, detail, cell, del, hold,
          bulk, form, writes, behind, held, events>>

user == <<selected, detail, cell, del, hold, bulk, form>>

--------------------------------------------------------------------------------
(* The server's list.                                                      *)

Wants(filter, value) == filter \in {"all", value}

\* Without a status the list holds what is approved, so the page's "all
\* statuses", which sends none, asks for the approved ones.
Matches(row, q) ==
  /\ row # None
  /\ row.status = IF q.status = "all" THEN "approved" ELSE q.status
  /\ Wants(q.type, row.type)
  /\ Wants(q.claims, IF row.claim = "none" THEN "without" ELSE "with")

Hits(l, q) == {i \in Ids : Matches(l[i], q)}

Rank(S, i) == Cardinality({j \in S : j >= i})

OnPage(S, q) ==
  {i \in S : /\ Rank(S, i) > (q.page - 1) * q.size
             /\ Rank(S, i) <= q.page * q.size}

Pages(n, size) == (n + size - 1) \div size

\* The rows of the page, the number of rows and the number of pages.
List(l, q) ==
  LET hits == Hits(l, q)
  IN  [rows |-> [i \in OnPage(hits, q) |-> l[i]],
       total |-> Cardinality(hits),
       pages |-> Pages(Cardinality(hits), q.size)]

--------------------------------------------------------------------------------
(* Fetching.                                                               *)

FetchOf(q) ==
  [query |-> q, active |-> TRUE, answer |-> None, old |-> FALSE]

Idle(fs) == {[f EXCEPT !.active = FALSE] : f \in fs}

\* The effect runs: the one before it is cleaned up, the list is asked for.
Reload(q) ==
  /\ fetches' = Idle(fetches) \cup {FetchOf(q)}
  /\ shown' = [shown EXCEPT !.loading = TRUE, !.error = FALSE]

\* A control set to what it says already runs no effect.
Turn(q) ==
  /\ Event /\ q # query
  /\ query' = q
  /\ Reload(q)
  /\ UNCHANGED <<ledger, user, writes, behind, held>>

\* The server answers a fetch with the list of this moment, or fails.
ReadList(f) ==
  /\ f.answer = None
  /\ \E a \in {List(ledger, f.query), Failed} :
       /\ a = Failed => "read" \in Faults
       /\ IF a = Failed THEN Event ELSE UNCHANGED events
       /\ fetches' = (fetches \ {f}) \cup {[f EXCEPT !.answer = a]}
  /\ UNCHANGED <<ledger, query, shown, user, writes, behind, held>>

Least(a, b) == IF a <= b THEN a ELSE b

\* The effect on rows.length keeps the active cell on a row.
Clamp(c, n) == IF n = 0 THEN 0 ELSE Least(c, n - 1)

\* What of an answer the page takes over.
Show(f) ==
  /\ shown' = [rows |-> f.answer.rows, total |-> f.answer.total,
               pages |-> f.answer.pages, loading |-> FALSE, error |-> FALSE]
  /\ cell' = Clamp(cell, Cardinality(DOMAIN f.answer.rows))
  /\ behind' = f.old

\* Wrong: the spinner stays after a failure.
ShowFailureSpinning ==
  shown' = [shown EXCEPT !.error = TRUE] /\ UNCHANGED <<cell, behind>>

ShowFailure ==
  /\ shown' = [shown EXCEPT !.loading = FALSE, !.error = TRUE]
  /\ UNCHANGED <<cell, behind>>

\* Wrong: the answer of any effect is shown.
TakesAny(f) == TRUE

Takes(f) == f.active

\* The answer arrives: it is dropped unless the effect is still the last.
TakeList(f) ==
  /\ f.answer # None
  /\ fetches' = fetches \ {f}
  /\ IF ~Takes(f) THEN UNCHANGED <<shown, cell, behind>>
     ELSE IF f.answer = Failed THEN ShowFailure ELSE Show(f)
  /\ UNCHANGED <<ledger, query, selected, detail, del, hold, bulk, form, writes,
                 held, events>>

--------------------------------------------------------------------------------
(* Filters and pages.  None of them goes back to the first page.           *)

\* The modal dialogs cover the page.
Uncovered == ~del.open /\ ~bulk.open /\ ~form.open

\* The chips: all, expense, income, transfer, and the open claims.
Chip ==
  /\ Uncovered
  /\ \/ \E t \in TypeFilter :
          Turn([query EXCEPT !.type = t, !.claims = "all"])
     \/ Turn([query EXCEPT !.type = "all", !.claims = "with"])

\* The selects of the desktop; those for wallet and category and the search
\* field differ in the column only.
Dropdown ==
  /\ Uncovered
  /\ \/ \E t \in TypeFilter : Turn([query EXCEPT !.type = t])
     \/ \E s \in StatusFilter : Turn([query EXCEPT !.status = s])

\* The dialog of further filters, and its reset, which leaves the type.
AdvancedFilter ==
  /\ Uncovered
  /\ \/ \E c \in {"all", "with", "without"} :
          Turn([query EXCEPT !.claims = c])
     \/ Turn([query EXCEPT !.status = "all", !.claims = "all"])

Paging ==
  /\ Uncovered
  /\ \/ query.page > 1 /\ Turn([query EXCEPT !.page = @ - 1])
     \/ query.page < shown.pages /\ Turn([query EXCEPT !.page = @ + 1])
     \/ \E n \in Sizes : Turn([query EXCEPT !.size = n])

--------------------------------------------------------------------------------
(* The rows and the detail panel.                                          *)

Copy(i) == [id |-> i, row |-> shown.rows[i]]

\* An input that neither fetches nor writes.
Local ==
  Event /\ UNCHANGED <<ledger, query, shown, fetches, writes, behind, held>>

\* The checkbox of a row.
ToggleRow(i) ==
  /\ Uncovered /\ ~shown.loading
  /\ Local
  /\ selected' = IF i \in selected THEN selected \ {i} ELSE selected \cup {i}
  /\ UNCHANGED <<detail, cell, del, hold, bulk, form>>

\* A click on a cell of the table, or on an item of the mobile list.
OpenDetail(i) ==
  /\ Uncovered /\ ~shown.loading
  /\ detail' = Copy(i)
  /\ Local
  /\ UNCHANGED <<selected, cell, del, hold, bulk, form>>

RowAt(c) == CHOOSE i \in DOMAIN shown.rows : Rank(DOMAIN shown.rows, i) = c + 1

\* The arrow keys move the active cell, Enter opens its row.
GridKey ==
  /\ Uncovered /\ ~shown.loading /\ DOMAIN shown.rows # {}
  /\ Local
  /\ \/ \E c \in {cell + 1, IF cell = 0 THEN 0 ELSE cell - 1} :
          cell' = Clamp(c, Cardinality(DOMAIN shown.rows))
        /\ UNCHANGED detail
     \/ detail' \in {Copy(RowAt(cell)), None} /\ UNCHANGED cell
  /\ UNCHANGED <<selected, del, hold, bulk, form>>

AskBulk(S, status) == [open |-> TRUE, ids |-> S, status |-> status]

\* The bulk toolbar: the browser's own question, then the dialog.
ApplyBulk ==
  /\ Uncovered /\ selected # {}
  /\ Local
  /\ \E s \in Statuses : bulk' = AskBulk(selected, s)
  /\ selected' = {}
  /\ UNCHANGED <<detail, cell, del, hold, form>>

CancelSelection ==
  /\ Uncovered /\ selected # {}
  /\ Local
  /\ selected' = {}
  /\ UNCHANGED <<detail, cell, del, hold, bulk, form>>

\* The menu of the side panel keeps the panel open.
PanelStatus ==
  /\ Uncovered /\ detail # None
  /\ Local
  /\ \E s \in Statuses : bulk' = AskBulk({detail.id}, s)
  /\ UNCHANGED <<selected, detail, cell, del, hold, form>>

\* The sheet of the phone offers the other two states, and closes.
SheetStatus ==
  /\ Uncovered /\ detail # None
  /\ Local
  /\ \E s \in Statuses \ {detail.row.status} : bulk' = AskBulk({detail.id}, s)
  /\ detail' = None
  /\ UNCHANGED <<selected, cell, del, hold, form>>

\* The delete dialog, from the panel or from the sheet, which closes.
AskDelete ==
  /\ Uncovered /\ detail # None
  /\ Local
  /\ del' = [open |-> TRUE, id |-> detail.id]
  /\ detail' \in {detail, None}
  /\ UNCHANGED <<selected, cell, hold, bulk, form>>

CloseDetail ==
  /\ Uncovered /\ detail # None
  /\ Local
  /\ detail' = None
  /\ UNCHANGED <<selected, cell, del, hold, bulk, form>>

--------------------------------------------------------------------------------
(* The form.                                                               *)

\* A new entry, a new transfer, or the copy of a row: what handleOpenNewForm,
\* handleNewTransfer and handleEdit put into the form.
FormFor(copy) == [open |-> TRUE, editing |-> copy]

\* The toolbar, and ?action=new.
OpenNew ==
  /\ Uncovered
  /\ Local
  /\ form' = FormFor(None)
  /\ UNCHANGED <<selected, detail, cell, del, hold, bulk>>

\* The sheet closes, the panel stays.
OpenEdit ==
  /\ Uncovered /\ detail # None
  /\ Local
  /\ form' = FormFor(detail)
  /\ detail' \in {detail, None}
  /\ UNCHANGED <<selected, cell, del, hold, bulk>>

\* Escape and the close button work while a save is under way.
CloseForm ==
  /\ form.open
  /\ Local
  /\ form' = [form EXCEPT !.open = FALSE]
  /\ UNCHANGED <<selected, detail, cell, del, hold, bulk>>

\* What the fields may say on submission; the checkbox of a claim is there for
\* an expense only.
Fillings == {f \in [type : Types, claimed : BOOLEAN] : f.claimed => f.type = "expense"}

\* Which entry the form writes: a transfer is always a new entry; a claim
\* keeps the state the copy had; the status becomes approved.
Entry(f) ==
  LET had == IF form.editing = None THEN "none" ELSE form.editing.row.claim
  IN  [type |-> f.type, status |-> "approved",
       claim |-> IF ~f.claimed THEN "none"
                 ELSE IF had = "none" THEN "receivable" ELSE had]

Asked(op, S) == [op |-> op, ids |-> S, entry |-> None, status |-> None]

Write(w) ==
  /\ writes' = writes \cup {[op |-> w.op, ids |-> w.ids, entry |-> w.entry,
                             status |-> w.status, n |-> events,
                             result |-> None]}
  /\ UNCHANGED <<ledger, query, shown, fetches, behind>>

\* Nothing here looks at submitBusy: Ctrl+Enter submits again.
SubmitForm ==
  /\ form.open /\ Event
  /\ \E f \in Fillings :
       IF f.type = "transfer" \/ form.editing = None
       THEN Write([Asked("create", {}) EXCEPT !.entry = Entry(f)])
       ELSE Write([Asked("patch", {form.editing.id})
                     EXCEPT !.entry = Entry(f)])
  /\ UNCHANGED <<user, held>>

--------------------------------------------------------------------------------
(* The dialogs.                                                            *)

ConfirmBulk ==
  /\ bulk.open /\ Event
  /\ Write([Asked("bulk", bulk.ids) EXCEPT !.status = bulk.status])
  /\ UNCHANGED <<user, held>>

CloseBulk ==
  /\ bulk.open
  /\ Local
  /\ bulk' = [bulk EXCEPT !.open = FALSE]
  /\ UNCHANGED <<selected, detail, cell, del, hold, form>>

\* The danger button is pressed: the timer keeps the id of this moment.
PressDelete ==
  /\ del.open /\ hold = None
  /\ Local
  /\ hold' = del.id
  /\ UNCHANGED <<selected, detail, cell, del, bulk, form>>

ReleaseDelete ==
  /\ del.open /\ hold # None
  /\ Local
  /\ hold' = None
  /\ UNCHANGED <<selected, detail, cell, del, bulk, form>>

HoldEnds ==
  /\ hold # None
  /\ Write(Asked("delete", {hold}))
  /\ hold' = None /\ UNCHANGED events
  /\ held' = IF del.open THEN held \cup {del.id} ELSE held
  /\ UNCHANGED <<selected, detail, cell, del, bulk, form>>

\* Wrong: closing the dialog leaves the timer running.
TimerSurvives == hold

\* What is left of the timer when the dialog closes.
HoldAfterClose == None

CloseDelete ==
  /\ del.open
  /\ Local
  /\ del' = [del EXCEPT !.open = FALSE]
  /\ hold' = HoldAfterClose
  /\ UNCHANGED <<selected, detail, cell, bulk, form>>

\* The switch between own spending and a claim goes by the copy's state.
ClaimOp(row) == IF row.claim = "none" THEN "mark" ELSE "unmark"

ToggleClaim ==
  /\ Uncovered /\ detail # None /\ detail.row.type = "expense"
  /\ Event
  /\ Write(Asked(ClaimOp(detail.row), {detail.id}))
  /\ UNCHANGED <<user, held>>

--------------------------------------------------------------------------------
(* Writes.                                                                 *)

Live(S) == {i \in S : ledger[i] # None}

Fresh == {i \in Ids : Start[i] = None /\ ledger[i] = None}

\* Whether the server finds what a write names: a bulk change may find none of
\* its rows, but wants to name one.
Finds(w) == IF w.op = "bulk" THEN w.ids # {} ELSE Live(w.ids) # {}

\* What the server makes of a write.
Changed(w, l) ==
  \/ /\ w.op = "create"
     /\ \E i \in Fresh : l = [ledger EXCEPT ![i] = w.entry]
  \/ /\ w.op \in {"patch", "bulk", "delete", "mark", "unmark"}
     /\ Finds(w)
     /\ l = [i \in Ids |->
               IF i \notin Live(w.ids) THEN ledger[i]
               ELSE CASE w.op = "patch" -> w.entry
                      [] w.op = "bulk" -> [ledger[i] EXCEPT !.status = w.status]
                      [] w.op = "delete" -> None
                      [] w.op = "mark" -> [ledger[i] EXCEPT !.claim = "receivable"]
                      [] w.op = "unmark" -> [ledger[i] EXCEPT !.claim = "none"]]

\* Whether the page fetches again once the write has succeeded.
Refreshes(op) == op \in {"create", "patch", "bulk", "delete"}

Old(fs) == {[f EXCEPT !.old = @ \/ f.answer # None] : f \in fs}

\* The server carries a write out; its answer may still be lost.
ServeWrite(w) ==
  /\ w.result = None
  /\ \E r \in {"ok", "lost"} :
       /\ r = "lost" => "lost" \in Faults
       /\ IF r = "lost" THEN Event ELSE UNCHANGED events
       /\ Changed(w, ledger')
       /\ writes' = (writes \ {w}) \cup {[w EXCEPT !.result = r]}
       /\ IF r = "lost" \/ w.op \in {"mark", "unmark"}
          THEN behind' = TRUE /\ fetches' = Old(fetches)
          ELSE UNCHANGED <<behind, fetches>>
  /\ UNCHANGED <<query, shown, user, held>>

\* It refuses what it does not find.
RefuseWrite(w) ==
  /\ w.result = None
  /\ IF w.op = "create" THEN Fresh = {} ELSE ~Finds(w)
  /\ writes' = (writes \ {w}) \cup {[w EXCEPT !.result = "failed"]}
  /\ UNCHANGED <<ledger, query, shown, fetches, user, behind, held, events>>

\* The handler goes on.  A form stays open after a failure, the two
\* confirmations close either way, and a changed claim asks for a bulk change
\* of no rows in place of a refresh.
EndWrite(w) ==
  /\ w.result # None
  /\ writes' = writes \ {w}
  /\ del' = IF w.op = "delete" THEN [del EXCEPT !.open = FALSE] ELSE del
  /\ hold' = IF w.op = "delete" THEN HoldAfterClose ELSE hold
  /\ bulk' = IF w.op = "bulk" THEN [bulk EXCEPT !.open = FALSE]
             ELSE IF w.op \in {"mark", "unmark"} /\ w.result = "ok"
             THEN AskBulk({}, "approved") ELSE bulk
  /\ form' = IF w.op \in {"create", "patch"} /\ w.result = "ok"
             THEN [form EXCEPT !.open = FALSE] ELSE form
  /\ detail' = IF w.op \in {"mark", "unmark"} /\ w.result = "ok"
               THEN None ELSE detail
  /\ IF Refreshes(w.op) /\ w.result = "ok"
     THEN Reload(query)
     ELSE UNCHANGED <<fetches, shown>>
  /\ UNCHANGED <<ledger, query, selected, cell, behind, held, events>>

--------------------------------------------------------------------------------
(* The other writers.                                                      *)

\* A transaction is added, changed or deleted by another writer than the page's
\* own dialogs; the table is not told.
OtherWriter(i) ==
  /\ Event
  /\ \E row \in (OtherRows \cup {None}) \ {ledger[i]} :
       ledger' = [ledger EXCEPT ![i] = row]
  /\ ledger[i] = None => i \in Fresh
  /\ behind' = TRUE /\ fetches' = Old(fetches)
  /\ UNCHANGED <<query, shown, user, writes, held>>

\* The loop of an import is through, whether its dialog is open or not and
\* whatever became of its rows.
ImportEnds ==
  /\ Event
  /\ Reload(query)
  /\ UNCHANGED <<ledger, query, user, writes, behind, held>>

--------------------------------------------------------------------------------
(* The specification.                                                      *)

Opening ==
  [type |-> "all", status |-> "all", claims |-> "all", page |-> 1,
   size |-> CHOOSE n \in Sizes : \A m \in Sizes : n <= m]

\* The page is mounted and its effect has run once.
Init ==
  /\ ledger = Start
  /\ query = Opening
  /\ shown = [rows |-> [i \in {} |-> None], total |-> 0, pages |-> 1,
              loading |-> TRUE, error |-> FALSE]
  /\ fetches = {FetchOf(Opening)}
  /\ selected = {} /\ detail = None /\ cell = 0
  /\ del = [open |-> FALSE, id |-> None] /\ hold = None
  /\ bulk = [open |-> FALSE, ids |-> {}, status |-> "approved"]
  /\ form = [open |-> FALSE, editing |-> None]
  /\ writes = {} /\ behind = FALSE /\ held = {}
  /\ events = 0

Filtering == Chip \/ Dropdown \/ AdvancedFilter \/ Paging
Reading == \E i \in DOMAIN shown.rows : ToggleRow(i) \/ OpenDetail(i)
Panel == PanelStatus \/ SheetStatus \/ AskDelete \/ CloseDetail \/ ToggleClaim
Editing == OpenNew \/ OpenEdit \/ CloseForm \/ SubmitForm
Confirming ==
  ConfirmBulk \/ CloseBulk \/ PressDelete \/ ReleaseDelete \/ HoldEnds \/ CloseDelete
Answering ==
  \/ \E f \in fetches : ReadList(f) \/ TakeList(f)
  \/ \E w \in writes : ServeWrite(w) \/ RefuseWrite(w) \/ EndWrite(w)

Next ==
  \/ Filtering \/ Reading \/ GridKey \/ ApplyBulk \/ CancelSelection
  \/ Panel \/ Editing \/ Confirming \/ Answering
  \/ ImportEnds \/ \E i \in Ids : OtherWriter(i)

Spec == Init /\ [][Next]_vars

\* Every request is answered or fails in the end, as the browser sees to;
\* nobody is obliged to touch the page.
FairSpec == Spec /\ WF_vars(Answering)

--------------------------------------------------------------------------------
(* Properties.                                                             *)

\* A page that shows neither the spinner nor an error shows what the server
\* has for the filters and the page number on the screen, whatever order the
\* answers came in: the flag `active' of the effect and the refresh after each
\* write see to it.  Excepted is what the page is not told until its next
\* fetch: a write whose answer was lost, the change of a claim, after which it
\* fetches nothing, and whatever another writer than the page's own dialogs
\* has changed since the server answered the list: the quick drawer over this
\* page, an import under way, the phone, Gmail, the webhook, recurring runs and
\* other devices.
RowsMatchFilters ==
  (/\ ~shown.loading /\ ~shown.error /\ ~behind
   /\ \A w \in writes : w.result # "ok")
  => LET l == List(ledger, query)
     IN  /\ shown.rows = l.rows
         /\ shown.total = l.total /\ shown.pages = l.pages

\* A transaction is deleted only after its button was held for two seconds in
\* a dialog that was still open: the end of an earlier delete closes whatever
\* delete dialog is open by then, and takes the running timer with it.
DeletedWasHeld ==
  \A w \in writes : w.op = "delete" => w.ids \subseteq held

\* The spinner goes away again.
LoadingEnds == shown.loading ~> ~shown.loading
=============================================================================
