------------------------------- MODULE CsvImport -------------------------------
(***************************************************************************)
(* The dialog that imports a CSV file (import-csv-dialog.tsx): the file is *)
(* read in the background, its valid rows are sent to the server one by    *)
(* one, and nothing stops the dialog from being closed meanwhile.          *)
(***************************************************************************)
EXTENDS Browser, CsvText, FiniteSets

CONSTANTS
  Files       \* the files that may be chosen: a text, and the transactions it
              \* was exported from, or None

\* Faults is a subset of {"read", "write", "lost"}.

\* A file that was exported holds sound transactions, of amounts below ten.
ASSUME FilesAssumption ==
  /\ None \notin Files
  /\ \A f \in Files : f.txs # None =>
       /\ f.text = ExportedFile(f.txs) /\ f.txs \in Seq(ToSet(f.txs))
       /\ \A tx \in ToSet(f.txs) :
            /\ IsText(tx.merchant) /\ IsText(tx.note)
            /\ tx.date = "date" /\ tx.amount \in 1 .. 99
            /\ tx.wallet \notin Blank
            /\ tx.type \in {"expense", "income", "transfer", "adjustment"}
            /\ tx.status \in {"approved", "pending", "needs_review", "rejected"}
            /\ tx.category \in {None} \cup {Categories[i].id : i \in DOMAIN Categories}

VARIABLES
  open,       \* whether the dialog is open
  file,       \* selectedFile, or None
  rows,       \* parsedRows
  parsing,    \* isParsing
  reads,      \* the files being read, with the rows that will be found
  importing,  \* isImporting
  imports,    \* the loops of handleStartImport that run
  message,    \* None, "ok", "partial" or "error"
  timers,     \* how many timers wait to close the dialog after a success
  ledger,     \* the rows the server has booked, as the dialog sent them
  shown       \* history: the file the rows were read from, or None

dialog == <<file, rows, shown, parsing, importing, message>>
csvVars == <<open, dialog, reads, imports, timers, ledger, events>>

CsvInit ==
  /\ open = FALSE /\ file = None /\ rows = <<>> /\ shown = None /\ parsing = FALSE
  /\ reads = {} /\ importing = FALSE /\ imports = {} /\ message = None /\ timers = 0
  /\ ledger = {} /\ events = 0

Open ==
  /\ ~open /\ open' = TRUE
  /\ UNCHANGED <<dialog, reads, imports, timers, ledger, events>>

\* The effect on open clears the form; readings and loops run on.
Cleared ==
  /\ open' = FALSE
  /\ file' = None /\ rows' = <<>> /\ shown' = None /\ parsing' = FALSE
  /\ importing' = FALSE /\ message' = None

\* Escape, the backdrop and the cross: also during an import, when only the
\* button is off.
Close ==
  /\ open /\ Event
  /\ Cleared
  /\ UNCHANGED <<reads, imports, timers, ledger>>

\* handleFileChange, by the file picker or by dropping.  The reading keeps the
\* wallets of this moment, and so the rows it will give.
Choose ==
  /\ open /\ file = None /\ Event
  /\ \/ \E f \in Files :
          /\ file' = f
          /\ reads' = reads \cup {[file |-> f, rows |-> ReadFile(f.text)]}
          /\ parsing' = TRUE /\ message' = None
     \/ \* a file of another kind
        /\ message' = "error" /\ UNCHANGED <<file, reads, parsing>>
  /\ UNCHANGED <<open, rows, shown, importing, imports, timers, ledger>>

\* The button of another file.
ChangeFile ==
  /\ open /\ file # None /\ ~importing /\ Event
  /\ file' = None /\ rows' = <<>> /\ shown' = None
  /\ UNCHANGED <<open, parsing, reads, importing, message, imports, timers,
                 ledger>>

\* The reading ends: whichever file is chosen by now, its rows are shown.
ReadEnds(r) ==
  /\ reads' = reads \ {r}
  /\ parsing' = FALSE
  /\ \/ rows' = r.rows /\ shown' = r.file /\ UNCHANGED message
     \/ "read" \in Faults /\ message' = "error" /\ UNCHANGED <<rows, shown>>
  /\ UNCHANGED <<open, file, importing, imports, timers, ledger, events>>

--------------------------------------------------------------------------------
(* The import.                                                             *)

\* The places of the rows that will be sent, in the order of the file.
ValidRows(found) == {k \in DOMAIN found : found[k].valid}

\* The button is off during an import; the rows are only shown, but can be
\* imported, while another file is read.
MayImport == open /\ ValidRows(rows) # {} /\ ~importing

StartImport ==
  /\ MayImport /\ Event
  /\ importing' = TRUE /\ message' = None
  /\ imports' = imports \cup
       {[rows |-> rows, todo |-> ValidRows(rows), booked |-> {}, ok |-> 0, fail |-> 0,
         n |-> events]}
  /\ UNCHANGED <<open, file, rows, shown, parsing, reads, timers, ledger>>

\* What the server books: a transfer needs a destination, which no row has.
Bookable(r) == r.type # "transfer"

\* Wrong: a row whose answer is lost is counted as imported.
CountedAnyway(i, k, result) ==
  [i EXCEPT !.todo = @ \ {k}, !.ok = @ + 1,
            !.booked = IF result = "failed" THEN @ ELSE @ \cup {k}]

\* The loop goes on after a failure, and counts.
Sent(i, k, result) ==
  [i EXCEPT !.todo = @ \ {k},
            !.ok = IF result = "ok" THEN @ + 1 ELSE @,
            !.fail = IF result = "ok" THEN @ ELSE @ + 1,
            !.booked = IF result = "failed" THEN @ ELSE @ \cup {k}]

\* One round of the loop: the request is answered, refused or lost, before or
\* after the server has booked the row.
SendRow(i) ==
  /\ \E k \in i.todo, result \in {"ok", "failed", "lost"} :
       LET r == i.rows[k]
       IN  /\ \A j \in i.todo : k <= j
           /\ IF Bookable(r) THEN result = "failed" => "write" \in Faults
              ELSE result = "failed"
           /\ result = "lost" => "lost" \in Faults
           /\ imports' = (imports \ {i}) \cup {Sent(i, k, result)}
           /\ ledger' = IF result = "failed" THEN ledger ELSE ledger \cup {r}
  /\ UNCHANGED <<open, dialog, reads, timers, events>>

\* The end of handleStartImport, whichever import the dialog shows by now.
EndImport(i) ==
  /\ i.todo = {}
  /\ imports' = imports \ {i}
  /\ importing' = FALSE
  /\ message' = IF i.fail = 0 THEN "ok" ELSE "partial"
  /\ timers' = IF i.fail = 0 THEN timers + 1 ELSE timers
  /\ UNCHANGED <<open, file, rows, shown, parsing, reads, ledger, events>>

\* 1.2 seconds after a success, whatever the dialog does by now.
TimerCloses ==
  /\ timers > 0 /\ timers' = timers - 1
  /\ IF open THEN Cleared ELSE UNCHANGED <<open, dialog>>
  /\ UNCHANGED <<reads, imports, ledger, events>>

Importing == \E i \in imports : SendRow(i) \/ EndImport(i)
FileReading == \E r \in reads : ReadEnds(r)

CsvNext ==
  \/ Open \/ Close \/ Choose \/ ChangeFile \/ StartImport
  \/ FileReading \/ Importing \/ TimerCloses

CsvSpec == CsvInit /\ [][CsvNext]_csvVars

--------------------------------------------------------------------------------
(* Properties.                                                             *)

\* The names of a list are told apart, from each other and from the ids, as the
\* look-up by a name or an id needs.  The schema does not see to it: two wallets
\* may have one name, and so may two categories of different parents or types.
ToldApart(list) ==
  /\ list \in Seq(ToSet(list))
  /\ \A i \in 1 .. Len(list) :
       /\ list[i].id # None /\ IsText(list[i].name)
       /\ list[i].name # <<>> /\ Trim(list[i].name) = list[i].name
       /\ \A j \in 1 .. Len(list) : i # j =>
            /\ list[j].id # list[i].id /\ list[j].name # list[i].name
            /\ <<list[j].id>> # list[i].name

\* While names are told apart, what was exported is read back as it was, whatever commas, quotes and line
\* breaks the texts and the names contain: except for blanks around a text, for
\* a wallet the page no longer knows, and for an amount that is not whole,
\* whose decimal point is dropped.
ReadsBack ==
  shown # None /\ shown.txs # None =>
    /\ Len(rows) = Len(shown.txs)
    /\ \A i \in 1 .. Len(rows) :
         LET tx == shown.txs[i]
         IN  /\ rows[i].merchant = Trim(tx.merchant) /\ rows[i].note = Trim(tx.note)
             /\ <<rows[i].date, rows[i].type, rows[i].status>>
                  = <<tx.date, tx.type, tx.status>>
             /\ rows[i].category = tx.category
             /\ NameOf(Wallets, tx.wallet) # <<>> => rows[i].wallet = tx.wallet
             /\ tx.amount % 10 = 0 => rows[i].amount = tx.amount /\ rows[i].valid

\* A row that is booked had a positive amount and a wallet of the page, and is
\* no transfer, whatever the file said.
BookedRowsAreSound ==
  \A r \in ledger : r.amount > 0 /\ r.wallet # None /\ r.type # "transfer"

\* The report of a success is true: when the loop that reports it ends, every
\* valid row has been booked.  (The report of a failure may not be: an answer
\* that is lost counts as a failure of a row that was booked.)
SuccessIsComplete ==
  [][\A i \in imports \ imports' :
       i.todo = {} /\ message' = "ok" => i.booked = ValidRows(i.rows)]_csvVars
================================================================================
