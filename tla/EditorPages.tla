----------------------------- MODULE EditorPages -----------------------------
(***************************************************************************)
(* The pages of the browser that keep a list of rows and a form or row     *)
(* buttons beside it: wallets and the transfer between them, categories,   *)
(* tags, saving goals, sinking funds, recurring rules, claims, and the     *)
(* dead letters of the automation page.                                    *)
(*                                                                         *)
(* All of them live the same life: a form is filled and sent, a row is     *)
(* deleted or settled, the answer ends the busy flag and closes a dialog,  *)
(* the list is loaded again.  They differ in what guards a submission,     *)
(* what an answer closes, what a load hides and which of two loads wins;   *)
(* these differences are the records below, one for each handler, read off *)
(* its code.  A behaviour looks at one page.                               *)
(*                                                                         *)
(* What the user types is a token; a row of the server holds the token it  *)
(* was last written with.                                                  *)
(***************************************************************************)
EXTENDS Browser, FiniteSets

CONSTANTS
  Pages,      \* the pages looked at
  Items,      \* rows, those to be created included
  First,      \* the rows that are there when the page is opened
  Entries,    \* what the user types
  Old, Done,  \* what the first rows hold; a row that is settled or deleted
  Failed      \* the answer of a load that failed

\* Faults is a subset of {"load", "refuse", "lost"}.

AllPages == {"wallets", "transfer", "categories", "tags", "goals", "funds",
             "rules", "claims", "letters"}

Contents == Entries \cup {Old, Done, None}

ASSUME ConstantsAssumption ==
  /\ Pages \subseteq AllPages
  /\ Items \subseteq Nat \ {0} /\ IsFiniteSet(Items) /\ First \subseteq Items
  /\ IsFiniteSet(Entries)
  /\ Old # Done /\ {Old, Done} \cap Entries = {}
  /\ None \notin Entries \cup {Old, Done} /\ None \notin Items
  /\ None \notin {"ok", "lost", "no"}
  /\ Failed \notin [Items -> Contents]

VARIABLES
  page,
  stored,   \* what the rows of the server hold: Items -> Contents
  list,     \* what the page shows of it
  form,     \* the form: its stage, the row that is edited, what was typed
  submitting,  \* submitBusy, isSubmitting or transferBusy
  asked,    \* None, or the row the open delete dialog is about
  acting,   \* None, or the row of deleteBusy, actionId or busyId
  calls,    \* writes under way
  loads,    \* loads of the list under way
  loading, failed, \* the flags loading and loadError
  typed,    \* history: the entries used up
  mixed,    \* history: entries typed while an earlier save was under way
  refused,  \* history: entries the server refused, or never got
  gone,     \* history: entries that vanished without being on the server
  unsure,   \* history: entries saved by a call whose answer was lost
  muddled   \* history: loads overlapped, failed, or missed a change of
            \* the page's own or of another writer

editorVars == <<page, stored, list, form, submitting, asked, acting, calls,
                loads, loading, failed, typed, mixed, refused, gone, unsure,
                muddled, events>>

history == <<typed, mixed, refused, gone, unsure>>

--------------------------------------------------------------------------------
(* The forms.  guarded: the handler returns at once while busy.  native:   *)
(* the handler leaves the event alone, so the browser sends the form       *)
(* itself and loads the document anew.  waits: busy lasts until the list   *)
(* is there again.  failing: what a refusal does to the form.              *)

Form(guarded, native, waits, failing) ==
  [guarded |-> guarded, native |-> native, waits |-> waits, failing |-> failing]

\* Wrong: a save that is sent twice is not held back.
WalletsSubmitTwice == Form(FALSE, FALSE, FALSE, "keep")

\* Wrong: the dialog closes whatever the answer is.
WalletsSubmitClosing == Form(TRUE, FALSE, FALSE, "close")

WalletsSubmit == Form(TRUE, FALSE, FALSE, "keep")
TransferExecute == Form(FALSE, FALSE, FALSE, "reopen")
CategoriesSubmit == Form(FALSE, FALSE, TRUE, "close")
TagsSubmit == Form(FALSE, TRUE, TRUE, "keep")
GoalsSubmit == Form(TRUE, TRUE, TRUE, "keep")
FundsSubmit == Form(TRUE, TRUE, TRUE, "keep")
RulesSubmit == Form(FALSE, FALSE, FALSE, "keep")

Submission ==
  CASE page = "wallets" -> WalletsSubmit
    [] page = "transfer" -> TransferExecute
    [] page = "categories" -> CategoriesSubmit
    [] page = "tags" -> TagsSubmit
    [] page = "goals" -> GoalsSubmit
    [] page = "funds" -> FundsSubmit
    [] page = "rules" -> RulesSubmit

\* The form is a card beside the list, always there.
TagsForm == {"tags"}
GoalsForm == {"goals"}
FundsForm == {"funds"}
Inline == TagsForm \cup GoalsForm \cup FundsForm

\* The form is a dialog over the list.
WalletsForm == {"wallets"}
TransferForm == {"transfer"}
CategoriesForm == {"categories"}
RulesForm == {"rules"}
FormPages ==
  Inline \cup WalletsForm \cup TransferForm \cup CategoriesForm \cup RulesForm

(* The buttons of a row.  asks: a dialog asks first.  guard: what of the   *)
(* busy flag keeps a second call back.  waits: the flag lasts until the    *)
(* list is there again.  closes: what closes the dialog.  locked: the      *)
(* dialog stays open while the call is under way.                          *)

Row(asks, guard, waits, closes, locked) ==
  [asks |-> asks, guard |-> guard, waits |-> waits, closes |-> closes,
   locked |-> locked]

WalletsDelete == Row({TRUE}, "none", FALSE, "answer", FALSE)
CategoriesDelete == Row({TRUE}, "any", TRUE, "end", FALSE)
TagsDelete == Row({TRUE}, "any", TRUE, "end", FALSE)
GoalsDelete == Row({TRUE}, "any", TRUE, "success", TRUE)
RulesDelete == Row({TRUE}, "any", FALSE, "success", FALSE)
ClaimsAction == Row({FALSE}, "any", FALSE, "success", FALSE)
LettersAction == Row(BOOLEAN, "same", TRUE, "end", FALSE)

Buttons ==
  CASE page = "wallets" -> WalletsDelete
    [] page = "categories" -> CategoriesDelete
    [] page = "tags" -> TagsDelete
    [] page \in {"goals", "funds"} -> GoalsDelete
    [] page = "rules" -> RulesDelete
    [] page = "claims" -> ClaimsAction
    [] page = "letters" -> LettersAction

\* While the list is loading, and after a load failed, there is nothing but
\* a placeholder.
CategoriesPlaceholder == {"categories", "tags"}
PlanningPlaceholder == {"goals", "funds"}
ClaimsPlaceholder == {"claims"}
Hiding == CategoriesPlaceholder \cup PlanningPlaceholder \cup ClaimsPlaceholder

Hidden == page \in Hiding /\ (loading \/ failed)

\* Wallets and their balances come from the cache of SWR, which drops the
\* answer of a request that was followed by another.
Cached == {"wallets", "transfer"}

--------------------------------------------------------------------------------
(* Loading.                                                                *)

Unused(S) == CHOOSE n \in 1 .. Cardinality(S) + 1 : n \notin {x.n : x \in S}

Fetch(then) ==
  [n |-> Unused(loads), newest |-> TRUE, then |-> then, answer |-> None]

FirstLoad == [n |-> 1, newest |-> TRUE, then |-> "rest", answer |-> None]

\* Wrong: the answer of any request is taken.
OlderCounts(ls) == ls

Older(ls) ==
  IF page \in Cached THEN {[l EXCEPT !.newest = FALSE] : l \in ls} ELSE ls

\* The pages without a cache take the answers of two loads in any order.
Overlaps == page \notin Cached /\ loads # {}

Load(then) ==
  /\ loads' = Older(loads) \cup {Fetch(then)}
  /\ loading' = (page \in Hiding)
  /\ failed' = FALSE
  /\ muddled' = Overlaps

Shut == [stage |-> "shut", row |-> None, entry |-> None]
Blank == [stage |-> "fill", row |-> None, entry |-> None]

EditorInit ==
  /\ page \in Pages
  /\ stored = [i \in Items |-> IF i \in First THEN Old ELSE None]
  /\ list = [i \in Items |-> None]
  /\ form = IF page \in Inline THEN Blank ELSE Shut
  /\ submitting = FALSE /\ asked = None /\ acting = None
  /\ calls = {}
  /\ loads = {FirstLoad}
  /\ loading = (page \in Hiding) /\ failed = FALSE
  /\ typed = {} /\ mixed = {} /\ refused = {} /\ gone = {} /\ unsure = {}
  /\ muddled = FALSE
  /\ events = 0

ServeLoad(l) ==
  /\ l.answer = None
  /\ \E a \in {stored, Failed} :
       /\ a = Failed => "load" \in Faults
       /\ IF a = Failed THEN Event ELSE UNCHANGED events
       /\ loads' = (loads \ {l}) \cup {[l EXCEPT !.answer = a]}
  /\ UNCHANGED <<page, stored, list, form, submitting, asked, acting, calls,
                 loading, failed, history, muddled>>

\* What the end of a load that a handler waited for still does.
AfterWait(then) ==
  /\ submitting' = (submitting /\ then # "save")
  /\ acting' = IF then = "row" THEN None ELSE acting
  /\ asked' = IF then = "row" /\ Buttons.closes = "end" THEN None ELSE asked
  /\ IF then = "save" /\ page = "categories"
     THEN /\ form' = Shut
          /\ gone' = gone \cup ({form.entry} \ {None})
     ELSE UNCHANGED <<form, gone>>

TakeLoad(l) ==
  /\ l.answer # None
  /\ loads' = loads \ {l}
  /\ IF l.answer = Failed
     THEN failed' = TRUE /\ muddled' = TRUE /\ UNCHANGED list
     ELSE /\ list' = IF l.newest THEN l.answer ELSE list
          /\ UNCHANGED <<failed, muddled>>
  /\ loading' = FALSE
  /\ AfterWait(l.then)
  /\ UNCHANGED <<page, stored, calls, typed, mixed, refused, unsure, events>>

\* The retry button of the placeholder; SWR asks again by itself when the
\* window gets the focus.
LoadAgain ==
  /\ \/ page \in Hiding /\ failed
     \/ page \in Cached
  /\ Event
  /\ Load("rest")
  /\ UNCHANGED <<page, stored, list, form, submitting, asked, acting, calls,
                 history>>

--------------------------------------------------------------------------------
(* The form.                                                               *)

\* An input that stays in the browser.  Only those that open a form or a
\* dialog count as events.
InBrowser ==
  UNCHANGED <<page, stored, list, submitting, acting, calls, loads, loading,
              failed, refused, gone, unsure, muddled>>

Unblocked == ~Hidden /\ asked = None

\* Done is a deleted row here.
Listed == {i \in Items : list[i] \notin {None, Done}}

\* The rows the page shows with their buttons; a wallet has them on its card
\* and on its sheet, a letter that is closed is not shown.
WalletsCards == Listed
WalletsSheet == Listed
CategoriesRows == Listed
TagsRows == Listed
GoalsRows == Listed
FundsRows == Listed
RulesRows == Listed
ClaimsRows == {i \in Items : list[i] \in {Old, Done}}
LettersRows == {i \in Items : list[i] = Old}

Rows ==
  CASE page = "wallets" -> WalletsCards \cup WalletsSheet
    [] page = "categories" -> CategoriesRows
    [] page = "tags" -> TagsRows
    [] page = "goals" -> GoalsRows
    [] page = "funds" -> FundsRows
    [] page = "rules" -> RulesRows
    [] page = "claims" -> ClaimsRows
    [] page = "letters" -> LettersRows
    [] OTHER -> {}

\* A form for a new row, or for one of the list.
OpenForm ==
  /\ page \in FormPages \ Inline /\ Unblocked /\ form.stage = "shut"
  /\ Event /\ InBrowser
  /\ \E r \in {None} \cup Rows : form' = [Blank EXCEPT !.row = r]
  /\ UNCHANGED <<asked, typed, mixed>>

\* The edit button of a list that stands beside its form overwrites it.
EditBeside(r) ==
  /\ page \in Inline /\ Unblocked /\ r \in Rows
  /\ Event /\ InBrowser
  /\ form' = [Blank EXCEPT !.row = r]
  /\ UNCHANGED <<asked, typed, mixed>>

Saving == (\E c \in calls : c.kind = "save") \/ (\E l \in loads : l.then = "save")

\* The fields stay editable while a save is under way.
Type ==
  /\ page \in FormPages /\ Unblocked /\ form.stage = "fill"
  /\ InBrowser
  /\ typed # Entries
  /\ LET e == CHOOSE e \in Entries : e \notin typed
     IN  /\ form' = [form EXCEPT !.entry = e]
         /\ typed' = typed \cup {e}
         /\ mixed' = IF Saving THEN mixed \cup {e} ELSE mixed
  /\ UNCHANGED <<asked, events>>

\* What closing leaves of the form.
Closed == IF page \in Inline THEN Blank ELSE Shut

\* Escape works while a save is under way; the card has a cancel button while
\* a row is edited.
CloseForm ==
  /\ page \in FormPages /\ Unblocked /\ form.stage # "shut"
  /\ page \in Inline => form.row # None
  /\ InBrowser
  /\ form' = Closed
  /\ UNCHANGED <<asked, typed, mixed, events>>

Fresh == {i \in Items : i \notin First /\ stored[i] = None}

Call(kind, row, what) ==
  [kind |-> kind, row |-> row, what |-> what, n |-> events, orphan |-> FALSE,
   answer |-> None]

Orphaned(cs) == {[c EXCEPT !.orphan = TRUE] : c \in {d \in cs : d.answer = None}}

\* The browser leaves the document: nobody waits for the answers any more,
\* and the page starts over.
LeaveDocument(cs) ==
  /\ calls' = Orphaned(cs)
  /\ list' = [i \in Items |-> None]
  /\ form' = Blank
  /\ submitting' = FALSE /\ asked' = None /\ acting' = None
  /\ loads' = {FirstLoad}
  /\ loading' = TRUE /\ failed' = FALSE
  /\ muddled' = TRUE

\* Bound: there is a row left for what is sent to be created.
Room ==
  Cardinality({c \in calls : c.kind = "save" /\ c.row = None /\ c.answer = None})
    < Cardinality(Fresh)

Send(cs) ==
  /\ calls' = cs
  /\ submitting' = TRUE
  /\ UNCHANGED <<list, form, asked, acting, loads, loading, failed, muddled>>

\* The button is off while the form is busy, but Ctrl+Enter is not: what
\* holds a second submission back is the guard of the handler.
Submit ==
  /\ page \in FormPages \ {"transfer"}
  /\ Unblocked /\ form.stage = "fill" /\ form.entry # None
  /\ Submission.guarded => ~submitting
  /\ form.row = None => Room
  /\ Event
  /\ LET cs == calls \cup {Call("save", form.row, form.entry)}
     IN  IF Submission.native THEN LeaveDocument(cs) ELSE Send(cs)
  /\ UNCHANGED <<page, stored, history>>

\* The transfer is looked at before it is carried out.
ReviewTransfer ==
  /\ page = "transfer" /\ Unblocked /\ form.stage = "fill" /\ form.entry # None
  /\ InBrowser
  /\ form' = [form EXCEPT !.stage = "review"]
  /\ UNCHANGED <<asked, typed, mixed, events>>

\* The button of the review is never off.
ExecuteTransfer ==
  /\ page = "transfer" /\ Unblocked /\ form.stage = "review"
  /\ Room /\ Event
  /\ Send(calls \cup {Call("save", None, form.entry)})
  /\ UNCHANGED <<page, stored, history>>

Vanishes(kept) == {form.entry} \ {None, kept}

\* The handler empties the draft and closes the dialog.  The category dialog
\* closes when the list is there again, the transfer closes its review only.
AfterSuccess(c) ==
  CASE page = "transfer" ->
         /\ form' = IF form.stage = "review" THEN Shut ELSE form
         /\ gone' = IF form.stage = "review" THEN gone \cup Vanishes(c.what)
                    ELSE gone
    [] page = "categories" ->
         /\ form' = [form EXCEPT !.row = None, !.entry = None]
         /\ gone' = gone \cup Vanishes(c.what)
    [] OTHER -> form' = Shut /\ gone' = gone \cup Vanishes(c.what)

AfterFailure(c) ==
  CASE Submission.failing = "keep" -> UNCHANGED <<form, gone>>
    [] Submission.failing = "close" ->
         /\ form' = Shut
         /\ gone' = gone \cup Vanishes(IF c.answer = "lost" THEN c.what ELSE None)
    [] Submission.failing = "reopen" ->
         /\ form' = IF form.entry = None THEN Blank
                    ELSE [form EXCEPT !.stage = "fill"]
         /\ UNCHANGED gone

BusyAfter(c) == submitting /\ c.answer = "ok" /\ Submission.waits

\* The answer of a save arrives.
TakeSave(c) ==
  /\ c.kind = "save" /\ c.answer # None
  /\ calls' = calls \ {c}
  /\ IF c.answer = "ok"
     THEN /\ AfterSuccess(c)
          /\ Load(IF Submission.waits THEN "save" ELSE "rest")
     ELSE /\ AfterFailure(c)
          /\ muddled' = (muddled \/ c.answer = "lost")
          /\ UNCHANGED <<loads, loading, failed>>
  /\ submitting' = BusyAfter(c)
  /\ UNCHANGED <<page, stored, list, asked, acting, typed, mixed, refused,
                 unsure, events>>

--------------------------------------------------------------------------------
(* The buttons of the rows.                                                *)

RowPages == AllPages \ {"transfer"}

\* No dialog is open over the list.
Reachable == ~Hidden /\ asked = None /\ (page \in Inline \/ form.stage = "shut")

\* The button of the list is off while another deletion is under way.
AskOff == page \in {"categories", "tags"} /\ acting # None

Ask(r) ==
  /\ page \in RowPages /\ Reachable /\ TRUE \in Buttons.asks
  /\ r \in Rows /\ ~AskOff
  /\ page = "letters" => acting # r
  /\ Event /\ InBrowser
  /\ asked' = r
  /\ UNCHANGED <<form, typed, mixed>>

CloseAsk ==
  /\ asked # None
  /\ Buttons.locked => acting = None
  /\ InBrowser
  /\ asked' = None
  /\ UNCHANGED <<form, typed, mixed, events>>

Allowed(r) ==
  CASE Buttons.guard = "none" -> TRUE
    [] Buttons.guard = "any" -> acting = None
    [] Buttons.guard = "same" -> acting # r

Act(r, what) ==
  /\ calls' = calls \cup {Call("row", r, what)}
  /\ acting' = IF Buttons.guard = "none" THEN None ELSE r
  /\ UNCHANGED <<page, stored, list, form, submitting, asked, loads, loading,
                 failed, history, muddled>>

\* The danger button of the dialog was held for two seconds.  The dialog of
\* the dead letters is not told that it is busy.
Confirm ==
  /\ asked # None
  /\ page = "letters" \/ Allowed(asked)
  /\ Event
  /\ Act(asked, IF page = "letters" THEN "close" ELSE "delete")

\* A claim is settled or opened again; a letter is resolved or tried again.
Press(r) ==
  /\ page \in RowPages /\ Reachable /\ FALSE \in Buttons.asks
  /\ r \in Rows /\ Allowed(r)
  /\ Event
  /\ \/ page = "claims" /\ list[r] = Old /\ Act(r, "settle")
     \/ page = "claims" /\ list[r] = Done /\ Act(r, "reopen")
     \/ page = "letters" /\ \E w \in {"close", "retry"} : Act(r, w)

TakeAct(c) ==
  /\ c.kind = "row" /\ c.answer # None
  /\ calls' = calls \ {c}
  /\ LET ok == c.answer = "ok"
         over == Buttons.closes = "answer" \/ (ok /\ Buttons.closes = "success")
                   \/ (~ok /\ Buttons.closes = "end")
     IN  /\ asked' = IF over THEN None ELSE asked
         /\ acting' = IF ok /\ Buttons.waits THEN acting ELSE None
         /\ IF ok
            THEN Load(IF Buttons.waits THEN "row" ELSE "rest")
            ELSE /\ failed' = (failed \/ page = "claims")
                 /\ muddled' = (muddled \/ c.answer = "lost")
                 /\ UNCHANGED <<loads, loading>>
  /\ UNCHANGED <<page, stored, list, form, submitting, history, events>>

--------------------------------------------------------------------------------
(* The server.                                                             *)

\* What the server makes of a call that it accepts.
Written(c) ==
  LET row == IF c.row # None THEN c.row
             ELSE CHOOSE i \in Fresh : \A j \in Fresh : i <= j
  IN  [stored EXCEPT ![row] = IF c.kind = "save" THEN c.what
                              ELSE IF c.what \in {"reopen", "retry"} THEN Old
                              ELSE Done]

\* A row that is deleted takes no call.
Refuses(c) ==
  /\ c.kind = "save" \/ c.what = "delete"
  /\ c.row # None /\ stored[c.row] = Done

\* The page sends no body, so the handler has written the error of its decoder
\* before it settles the claim: the page sees a failure.
SettleAnswers == {"lost"}

Answers(c) ==
  IF c.what = "settle" THEN SettleAnswers
  ELSE {"ok"} \cup IF c.orphan THEN {} ELSE {"lost"} \cap Faults

Answered(c, a) ==
  calls' = (calls \ {c}) \cup IF c.orphan THEN {} ELSE {[c EXCEPT !.answer = a]}

ServeCall(c) ==
  /\ c.answer = None /\ ~Refuses(c)
  /\ stored' = Written(c)
  /\ \E a \in Answers(c) :
       /\ Answered(c, a)
       /\ unsure' = IF a = "lost" /\ c.kind = "save" THEN unsure \cup {c.what}
                    ELSE unsure
       /\ IF a = "lost" /\ c.what # "settle" THEN Event ELSE UNCHANGED events
  /\ muddled' = (muddled \/ c.orphan)
  /\ UNCHANGED <<page, list, form, submitting, asked, acting, loads, loading,
                 failed, typed, mixed, refused, gone>>

\* The server says no, to a row that is gone or to what was typed.  Or the
\* browser, on leaving the document, took the call back.
RefuseCall(c) ==
  /\ c.answer = None
  /\ \/ (Refuses(c) \/ c.orphan) /\ UNCHANGED events
     \/ "refuse" \in Faults /\ Event
  /\ Answered(c, "no")
  /\ IF c.kind = "save"
     THEN /\ refused' = refused \cup {c.what}
          /\ gone' = IF c.orphan THEN gone \cup {c.what} ELSE gone
     ELSE UNCHANGED <<refused, gone>>
  /\ UNCHANGED <<page, stored, list, form, submitting, asked, acting, loads,
                 loading, failed, typed, mixed, unsure, muddled>>

\* A load that the server has still to answer will bring what changed.
Awaited == \E l \in loads : l.newest /\ l.answer = None

\* A row is added, changed, deleted or settled by another writer than the page:
\* the webhook adds dead letters, the quick drawer over the page adds claims,
\* and other devices do what this one does.  The page does not load again.
OtherWriter(i) ==
  /\ Event
  /\ stored[i] = None => i \in Fresh /\ Room
  /\ \E w \in {Old, Done} \ {stored[i]} :
       /\ stored[i] = None => w = Old
       /\ stored[i] = Done => page \in {"claims", "letters"}
       /\ stored' = [stored EXCEPT ![i] = w]
  /\ muddled' = (muddled \/ ~Awaited)
  /\ UNCHANGED <<page, list, form, submitting, asked, acting, calls, loads,
                 loading, failed, history>>

EditorNext ==
  \/ \E l \in loads : ServeLoad(l) \/ TakeLoad(l)
  \/ \E c \in calls : ServeCall(c) \/ RefuseCall(c) \/ TakeSave(c) \/ TakeAct(c)
  \/ LoadAgain
  \/ OpenForm \/ Type \/ CloseForm \/ Submit
  \/ ReviewTransfer \/ ExecuteTransfer
  \/ CloseAsk \/ Confirm
  \/ \E r \in Items : EditBeside(r) \/ Ask(r) \/ Press(r) \/ OtherWriter(r)

EditorSpec == EditorInit /\ [][EditorNext]_editorVars

--------------------------------------------------------------------------------
(* Properties.                                                             *)

\* What was typed and is not on the server is still in its form, unless the
\* user closed it: a refused save keeps the entry.  The exceptions are what is
\* typed while an earlier save is under way, whose success empties the form;
\* the category dialog, which closes on a refusal as well; and the cards of
\* tags, goals and funds, whose document is loaded anew.
RefusedEntryIsKept ==
  gone \subseteq
    mixed \cup IF page \in Inline \cup {"categories"} THEN refused ELSE {}

\* Where the handler guards against a second submission, or leaves the page,
\* an entry makes one row however often it is sent, unless an answer was lost.
EntryIsSavedOnce ==
  page \in {"wallets"} \cup Inline =>
    \A e \in Entries \ unsure : Cardinality({i \in Items : stored[i] = e}) <= 1

\* When nothing is under way the page shows the rows of the server, unless
\* since the last load began loads crossed each other without a cache, one
\* failed, the answer of a change was lost, or another writer changed a row
\* after the server had answered, of which the page is not told.
ListIsCurrent == calls = {} /\ loads = {} /\ ~muddled => list = stored
=============================================================================
