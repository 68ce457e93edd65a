-------------------------------- MODULE CsvText --------------------------------
(***************************************************************************)
(* The CSV texts of lib/csv-utils.ts: how rows are written, and how a file *)
(* is read into rows that can be imported.                                 *)
(*                                                                         *)
(* A text is a sequence of characters.  A word the code looks for, such as *)
(* "income" or a column's title, is one character of its own, and so is a  *)
(* date; "tanggal" in a text stands for the code's test whether the text   *)
(* includes the word.  Amounts are counted in tenths.                      *)
(***************************************************************************)
EXTENDS Nothing, SequencesExt

CONSTANTS
  Wallets,     \* the wallets of the page, a sequence of [id, name]
  Categories   \* the categories, a sequence of [id, name]

ASSUME TextAssumption ==
  /\ None # "\"" /\ None \notin Nat
  /\ Wallets \in Seq(ToSet(Wallets))
  /\ \A i \in 1 .. Len(Wallets) : Wallets[i].id # None /\ Len(Wallets[i].name) > 0

Quote == "\""
Comma == ","
Numerals == <<"0", "1", "2", "3", "4", "5", "6", "7", "8", "9">>
Digits == [c \in ToSet(Numerals) |-> CHOOSE d \in 0 .. 9 : Numerals[d + 1] = c]

IsText(text) == text \in Seq(ToSet(text))

Includes(text, word) == \E i \in 1 .. Len(text) : text[i] = word

\* String.trim
Blank == {" ", "\n", "\r"}
Trim(text) ==
  LET solid == {i \in 1 .. Len(text) : text[i] \notin Blank}
  IN  IF solid = {} THEN <<>> ELSE SubSeq(text, Min(solid), Max(solid))

--------------------------------------------------------------------------------
(* Writing.                                                                *)

\* Wrong: quotes inside a quoted field are not doubled.
EscapeUndoubled(text) ==
  IF \E i \in 1 .. Len(text) : text[i] \in {Comma, Quote, "\n", "\r"}
  THEN <<Quote>> \o text \o <<Quote>> ELSE text

\* escapeCSVField
Escape(text) ==
  LET doubled == [i \in 1 .. Len(text) |->
                    IF text[i] = Quote THEN <<Quote, Quote>> ELSE <<text[i]>>]
  IN  IF \E i \in 1 .. Len(text) : text[i] \in {Comma, Quote, "\n", "\r"}
      THEN <<Quote>> \o FlattenSeq(doubled) \o <<Quote>> ELSE text

Joined(texts, separator) ==
  IF texts = <<>> THEN <<>>
  ELSE texts[1] \o FlattenSeq([i \in 1 .. Len(texts) - 1 |-> <<separator>> \o texts[i + 1]])

Line(cells) == Joined([i \in 1 .. Len(cells) |-> Escape(cells[i])], Comma)

Columns == <<"tanggal", "merchant", "nominal", "tipe", "dompet", "kategori",
             "status", "catatan">>
Header == [i \in 1 .. 8 |-> <<Columns[i]>>]

\* A number as JavaScript writes it.
NumberText(tenths) ==
  LET whole == Numerals[((tenths \div 10) % 10) + 1]
      part == Numerals[(tenths % 10) + 1]
  IN  IF tenths % 10 = 0 THEN <<whole>> ELSE <<whole, ".", part>>

NameOf(list, id) ==
  LET at == {i \in 1 .. Len(list) : list[i].id = id}
  IN  IF at = {} THEN <<>> ELSE list[Max(at)].name

\* exportTransactionsToCSV: the date without the time; a wallet the page does
\* not know is written by its id.
Exported(tx) ==
  << <<tx.date>>, tx.merchant, NumberText(tx.amount), <<tx.type>>,
     IF NameOf(Wallets, tx.wallet) = <<>> THEN <<tx.wallet>>
     ELSE NameOf(Wallets, tx.wallet),
     NameOf(Categories, tx.category), <<tx.status>>, tx.note >>

FileOf(rows) == Joined([i \in 1 .. Len(rows) |-> Line(rows[i])], "\n")

ExportedFile(txs) ==
  FileOf(<<Header>> \o [i \in 1 .. Len(txs) |-> Exported(txs[i])])

\* generateCSVTemplate: an expense and an income of the first wallet.
Template ==
  LET sample(type, n) == << <<"date">>, <<"x">>, NumberText(n), <<type>>,
                            <<"Dompet Utama">>, <<"x">>, <<"approved">>, <<"x">> >>
  IN  FileOf(<<Header, sample("expense", 50), sample("income", 90)>>)

\* exportAnalyticsSummaryToCSV: a title, the totals, then categories and tags.
SummaryFile(sums, categories, tags) ==
  LET part(points) == [i \in 1 .. Len(points) |->
                         <<points[i].name, NumberText(points[i].amount)>>]
  IN  FileOf(<< << <<"title">> >>, <<>>,
                [i \in 1 .. Len(sums) |-> NumberText(sums[i])], <<>> >>
             \o part(categories) \o << <<>> >> \o part(tags))

--------------------------------------------------------------------------------
(* Reading.                                                                *)

EndRow(acc) ==
  LET row == Append(acc.row, Trim(acc.cell))
  IN  IF \E i \in 1 .. Len(row) : row[i] # <<>> THEN Append(acc.rows, row) ELSE acc.rows

\* Before the first character.
Begun == [rows |-> <<>>, row |-> <<>>, cell |-> <<>>, inside |-> FALSE,
          skip |-> FALSE]

\* One character of parseCSVLines, with the one after it in sight: a doubled
\* quote inside quotes and "\r\n" outside are taken together.
ReadChar(acc, c, next) ==
  LET quote == ~acc.skip /\ c = Quote
      plain == ~acc.skip /\ c # Quote /\ ~acc.inside
  IN  CASE acc.skip -> [acc EXCEPT !.skip = FALSE]
        [] quote /\ ~acc.inside -> [acc EXCEPT !.inside = TRUE]
        [] quote /\ acc.inside /\ next = Quote ->
             [acc EXCEPT !.cell = Append(@, Quote), !.skip = TRUE]
        [] quote /\ acc.inside /\ next # Quote -> [acc EXCEPT !.inside = FALSE]
        [] plain /\ c = Comma ->
             [acc EXCEPT !.row = Append(@, Trim(acc.cell)), !.cell = <<>>]
        [] plain /\ c \in {"\n", "\r"} ->
             [acc EXCEPT !.rows = EndRow(acc), !.row = <<>>, !.cell = <<>>,
                         !.skip = (c = "\r" /\ next = "\n")]
        [] OTHER -> [acc EXCEPT !.cell = Append(@, c)]

\* The character after the i-th.
Following(text, i) == IF i < Len(text) THEN text[i + 1] ELSE None

\* parseCSVLines: one character after the other.
ParseLines(text) ==
  LET after[i \in 0 .. Len(text)] ==
        IF i = 0 THEN Begun
        ELSE ReadChar(after[i - 1], text[i], Following(text, i))
      end == after[Len(text)]
  IN  IF end.cell # <<>> \/ end.row # <<>> THEN EndRow(end) ELSE end.rows

\* "Rp", blanks and dots are dropped, the first comma is the decimal point, and
\* parseFloat reads as far as the digits go, of which the first decimal counts
\* here; None is NaN.  Signs, exponents and "Infinity" are left out.
NumberOf(text) ==
  LET cleaned == FlattenSeq([i \in 1 .. Len(text) |->
                   IF text[i] \in Blank \cup {".", "Rp"} THEN <<>> ELSE <<text[i]>>])
      whole == Max({n \in 0 .. Len(cleaned) :
                      \A i \in 1 .. n : cleaned[i] \in DOMAIN Digits})
      value[n \in 0 .. whole] ==
        IF n = 0 THEN 0 ELSE 10 * value[n - 1] + Digits[cleaned[n]]
      broken == /\ whole + 2 <= Len(cleaned) /\ cleaned[whole + 1] = Comma
                /\ cleaned[whole + 2] \in DOMAIN Digits
      part == IF broken THEN Digits[cleaned[whole + 2]] ELSE 0
  IN  IF whole = 0 /\ ~broken THEN None ELSE 10 * value[whole] + part

\* The last wallet or category of that name, or of that id.
Lookup(list, text) ==
  LET at == {i \in 1 .. Len(list) : list[i].name = text \/ <<list[i].id>> = text}
  IN  IF at = {} THEN None ELSE list[Max(at)].id

TypeOf(text) ==
  CASE Includes(text, "income") -> "income"
    [] Includes(text, "transfer") -> "transfer"
    [] Includes(text, "adjustment") -> "adjustment"
    [] OTHER -> "expense"

StatusOf(text) ==
  CASE Includes(text, "pending") -> "pending"
    [] Includes(text, "needs_review") -> "needs_review"
    [] Includes(text, "rejected") -> "rejected"
    [] OTHER -> "approved"

\* The columns are found by their titles; a file without any is read in the
\* order of the template.
HasHeader(lines) ==
  \E i \in 1 .. Len(lines[1]), c \in ToSet(Columns) : Includes(lines[1][i], c)

\* A title stands for the first column whose word it includes, and of the titles
\* that stand for a column the last counts.
CellOf(lines, row, column) ==
  LET place == CHOOSE n \in 1 .. 8 : Columns[n] = column
      titled == {i \in 1 .. Len(lines[1]) :
                   /\ Includes(lines[1][i], column)
                   /\ \A n \in 1 .. place - 1 : ~Includes(lines[1][i], Columns[n])}
      i == IF HasHeader(lines) /\ titled # {} THEN Max(titled) ELSE place
  IN  IF i <= Len(row) THEN row[i] ELSE <<>>

\* Wrong: an amount that is no number counts as valid.
AmountUnchecked(n) == TRUE

\* A number above zero.
AmountValid(n) == n # None /\ n > 0

\* A wallet nobody knows becomes the first one, and the row stays valid.
WalletFor(text) ==
  LET known == IF text = <<>> THEN None ELSE Lookup(Wallets, text)
  IN  IF known # None THEN known ELSE IF Wallets = <<>> THEN None ELSE Wallets[1].id

\* One row of parseTransactionsCSV.
ReadRow(lines, row) ==
  LET cell(column) == CellOf(lines, row, column)
      number == NumberOf(cell("nominal"))
  IN  [date     |-> IF cell("tanggal") = <<>> THEN "now" ELSE cell("tanggal")[1],
       merchant |-> cell("merchant"),
       amount   |-> IF number = None THEN 0 ELSE number,
       type     |-> TypeOf(cell("tipe")),
       wallet   |-> WalletFor(cell("dompet")),
       category |-> Lookup(Categories, cell("kategori")),
       status   |-> StatusOf(cell("status")),
       note     |-> cell("catatan"),
       valid    |-> /\ cell("tanggal") \in {<<>>, <<"date">>}
                    /\ AmountValid(number)
                    /\ cell("dompet") # <<>> /\ Wallets # <<>>]

\* parseTransactionsCSV
ReadFile(text) ==
  LET lines == ParseLines(text)
      data == IF lines = <<>> THEN <<>>
              ELSE IF HasHeader(lines) THEN Tail(lines) ELSE lines
  IN  [i \in 1 .. Len(data) |-> ReadRow(lines, data[i])]
================================================================================
