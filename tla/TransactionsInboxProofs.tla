------------------------ MODULE TransactionsInboxProofs ------------------------
(***************************************************************************)
(* Theorems about TransactionsPage, for any transactions, start, filters    *)
(* and number of inputs, and about InboxPage, for any drafts, faults and    *)
(* number of inputs.  The second part says Inbox where both parts need a    *)
(* name.                                                                    *)
(***************************************************************************)
EXTENDS TransactionsPage, InboxPage, FiniteSetTheorems, WellFoundedInduction, TLAPS

--------------------------------------------------------------------------------
(* TransactionsPage: the inductive invariant.                               *)

Queries == [type : {"all"} \cup Types, status : {"all"} \cup Statuses,
            claims : {"all", "with", "without"}, page : Nat \ {0}, size : Sizes]

RowSets == UNION {[S -> Rows] : S \in SUBSET Ids}
Lists == [rows : RowSets, total : Nat, pages : Nat]
FetchType == [query : Queries, active : BOOLEAN,
              answer : {None, Failed} \cup Lists, old : BOOLEAN]
WriteType == [op : {"create", "patch", "bulk", "delete", "mark", "unmark"},
              ids : SUBSET Ids, entry : Rows \cup {None},
              status : Statuses \cup {None}, n : Nat,
              result : {None, "ok", "lost", "failed"}]
Copies == [id : Ids, row : Rows]

\* A created or changed entry says what, a bulk change says which status.
WriteOK(w) ==
  /\ w \in WriteType
  /\ w.op \in {"create", "patch"} => w.entry \in Rows
  /\ w.op = "bulk" => w.status \in Statuses

\* What the server, the fetches and the writes hold, and what the user changes.
DataTypes ==
  /\ ledger \in [Ids -> Rows \cup {None}]
  /\ query \in Queries
  /\ shown \in [rows : RowSets, total : Nat, pages : Nat, loading : BOOLEAN,
                error : BOOLEAN]
  /\ fetches \subseteq FetchType
  /\ \A w \in writes : WriteOK(w)
  /\ behind \in BOOLEAN /\ held \subseteq Ids /\ events \in Nat

UserTypes ==
  /\ selected \subseteq Ids
  /\ detail \in Copies \cup {None}
  /\ cell \in Nat
  /\ del \in [open : BOOLEAN, id : Ids \cup {None}]
  /\ hold \in Ids \cup {None}
  /\ bulk \in [open : BOOLEAN, ids : SUBSET Ids, status : Statuses]
  /\ form \in [open : BOOLEAN, editing : Copies \cup {None}]

TypeOK == DataTypes /\ UserTypes

\* The active cell is on a row.
CellOnRow ==
  DOMAIN shown.rows # {} => cell < Cardinality(DOMAIN shown.rows)

\* Nothing is to be fetched again.
Settled == \A w \in writes : w.result = "ok" => ~Refreshes(w.op)

\* Only a fetch of the page's query is active, and what it was answered is
\* what the server has, unless it is marked or a refresh is to follow.
ActiveIsCurrent ==
  \A f \in fetches : f.active =>
    /\ f.query = query
    /\ f.answer \notin {None, Failed} /\ ~f.old /\ Settled
         => f.answer = List(ledger, query)

ShownIsCurrent ==
  ~shown.loading /\ ~shown.error /\ ~behind /\ Settled
  => LET l == List(ledger, query)
     IN  /\ shown.rows = l.rows
         /\ shown.total = l.total /\ shown.pages = l.pages

HeldButton == hold # None => del.open /\ hold = del.id

IInv == TypeOK /\ CellOnRow /\ ActiveIsCurrent /\ ShownIsCurrent /\ HeldButton
          /\ DeletedWasHeld

\* A set of natural numbers has a least element.
LEMMA LeastNumber ==
  ASSUME NEW S, S \subseteq Nat, S # {}
  PROVE  \E m \in S : \A n \in S : m <= n
<1>1. \E m \in S : \A n \in S : <<n, m>> \notin OpToRel(<, Nat)
  BY NatLessThanWellFounded, WFMin
<1>2. PICK m \in S : \A n \in S : <<n, m>> \notin OpToRel(<, Nat)
  BY <1>1
<1>3. \A n \in S : ~(n < m)
  BY <1>2 DEF OpToRel
<1> QED
  BY <1>3

LEMMA RankType ==
  ASSUME NEW S, S \subseteq Ids, NEW i
  PROVE  Rank(S, i) \in Nat /\ Rank(S, i) <= Cardinality(S) /\ Cardinality(S) \in Nat
         /\ IsFiniteSet(S)
<1>1. IsFiniteSet(S) /\ Cardinality(S) \in Nat
  BY ConstantsAssumption, FS_Subset, FS_CardinalityType
<1>2. {j \in S : j >= i} \in SUBSET S
  OBVIOUS
<1> QED
  BY <1>1, <1>2, FS_Subset, FS_CardinalityType DEF Rank

\* Every place of a list holds a row.
LEMMA EveryPlace ==
  ASSUME NEW S, S \subseteq Ids, NEW c \in 1 .. Cardinality(S)
  PROVE  \E i \in S : Rank(S, i) = c
<1> DEFINE Places(T) == \A d \in 1 .. Cardinality(T) : \E i \in T : Rank(T, i) = d
           Bad == {n \in Nat : \E T \in SUBSET Ids : Cardinality(T) = n /\ ~Places(T)}
<1>1. ASSUME Bad # {} PROVE FALSE
  <2>1. PICK n \in Bad : \A k \in Bad : n <= k
    <3>1. Bad \subseteq Nat /\ Bad # {}
      BY <1>1
    <3> HIDE DEF Bad
    <3>2. \E m \in Bad : \A k \in Bad : m <= k
      BY <3>1, LeastNumber
    <3> QED
      BY <3>2
  <2>2. PICK T \in SUBSET Ids : Cardinality(T) = n /\ ~Places(T)
    OBVIOUS
  <2>3. PICK d \in 1 .. n : ~\E i \in T : Rank(T, i) = d
    BY <2>2
  <2>4. IsFiniteSet(T) /\ T \subseteq Nat /\ T # {}
    <3>1. IsFiniteSet(T) /\ T \subseteq Nat
      BY RankType, ConstantsAssumption
    <3>2. n # 0
      BY <2>3
    <3> QED
      BY <2>2, <3>1, <3>2, FS_EmptySet
  <2>5. PICK m \in T : \A j \in T : m <= j
    BY <2>4, LeastNumber
  <2>6. Rank(T, m) = n
    <3>1. {j \in T : j >= m} = T
      BY <2>4, <2>5
    <3> QED
      BY <2>2, <3>1 DEF Rank
  <2>7. Cardinality(T \ {m}) = n - 1 /\ n - 1 \in Nat /\ d <= n - 1
    <3>1. Cardinality(T \ {m}) = n - 1
      BY <2>2, <2>4, FS_RemoveElement
    <3>2. d # n
      BY <2>3, <2>6
    <3> QED
      BY <3>1, <3>2
  <2>8. Places(T \ {m})
    BY <2>1, <2>7
  <2>9. PICK i \in T \ {m} : Rank(T \ {m}, i) = d
    BY <2>7, <2>8
  <2>10. {j \in T \ {m} : j >= i} = {j \in T : j >= i}
    BY <2>4, <2>5
  <2> QED
    BY <2>3, <2>9, <2>10 DEF Rank
<1>2. Cardinality(S) \in Nat
  BY RankType
<1> QED
  BY <1>1, <1>2


--------------------------------------------------------------------------------
(* The server's list.                                                      *)

LEMMA ListType ==
  ASSUME NEW l \in [Ids -> Rows \cup {None}], NEW q \in Queries
  PROVE  List(l, q) \in Lists
<1> DEFINE hits == Hits(l, q)
<1>1. hits \subseteq Ids /\ \A i \in hits : l[i] \in Rows
  BY DEF Hits, Matches
<1>2. Cardinality(hits) \in Nat
  BY <1>1, RankType
<1>3. OnPage(hits, q) \subseteq hits
  BY DEF OnPage
<1>4. [i \in OnPage(hits, q) |-> l[i]] \in RowSets
  <2>1. [i \in OnPage(hits, q) |-> l[i]] \in [OnPage(hits, q) -> Rows]
    BY <1>1, <1>3
  <2>2. OnPage(hits, q) \in SUBSET Ids
    BY <1>1, <1>3
  <2> HIDE DEF hits
  <2> QED
    BY <2>1, <2>2 DEF RowSets
<1>5. Pages(Cardinality(hits), q.size) \in Nat
  <2>1. q.size \in Nat \ {0}
    BY ConstantsAssumption DEF Queries
  <2>2. Cardinality(hits) + q.size - 1 \in Nat
    BY <1>2, <2>1
  <2> QED
    BY <2>1, <2>2 DEF Pages
<1> QED
  BY <1>2, <1>4, <1>5 DEF List, Lists

\* The rows on the screen are finitely many.
LEMMA RowsOnScreen ==
  ASSUME NEW rows \in RowSets
  PROVE  /\ DOMAIN rows \subseteq Ids /\ IsFiniteSet(DOMAIN rows)
         /\ Cardinality(DOMAIN rows) \in Nat
         /\ DOMAIN rows # {} => Cardinality(DOMAIN rows) > 0
         /\ \A i \in DOMAIN rows : rows[i] \in Rows
<1>1. DOMAIN rows \subseteq Ids /\ \A i \in DOMAIN rows : rows[i] \in Rows
  BY DEF RowSets
<1> QED
  BY <1>1, RankType, FS_EmptySet

\* A clamped cell is on a row.
LEMMA ClampsToRow ==
  ASSUME NEW c \in Nat, NEW n \in Nat
  PROVE  Clamp(c, n) \in Nat /\ (n # 0 => Clamp(c, n) < n)
BY DEF Clamp, Least

LEMMA RowAtCell ==
  ASSUME TypeOK, CellOnRow, DOMAIN shown.rows # {}
  PROVE  RowAt(cell) \in DOMAIN shown.rows
<1>1. shown.rows \in RowSets /\ cell \in Nat
  BY DEF TypeOK, DataTypes, UserTypes
<1>2. cell + 1 \in 1 .. Cardinality(DOMAIN shown.rows)
  BY <1>1, RowsOnScreen DEF CellOnRow
<1>3. \E i \in DOMAIN shown.rows : Rank(DOMAIN shown.rows, i) = cell + 1
  BY <1>1, <1>2, RowsOnScreen, EveryPlace
<1> QED
  BY <1>3 DEF RowAt
--------------------------------------------------------------------------------
(* Types.                                                                  *)

LEMMA TypeInit == Init => TypeOK /\ CellOnRow
<1> SUFFICES ASSUME Init PROVE TypeOK /\ CellOnRow
  OBVIOUS
<1>1. Opening \in Queries
  <2>1. \E n \in Sizes : \A m \in Sizes : n <= m
    BY ConstantsAssumption, LeastNumber
  <2>2. Opening.size \in Sizes
    BY <2>1 DEF Opening
  <2> QED
    BY <2>2 DEF Opening, Queries
<1>2. [i \in {} |-> None] \in RowSets /\ DOMAIN [i \in {} |-> None] = {}
  <2>1. [i \in {} |-> None] \in [{} -> Rows]
    OBVIOUS
  <2> QED
    BY <2>1 DEF RowSets
<1>3. fetches \subseteq FetchType
  BY <1>1 DEF Init, FetchOf, FetchType
<1> QED
  BY <1>1, <1>2, <1>3, ConstantsAssumption DEF Init, TypeOK, DataTypes, UserTypes, CellOnRow, Statuses

\* The fetches after the effect has run.
LEMMA ReloadType ==
  ASSUME TypeOK, NEW q \in Queries, Reload(q)
  PROVE  /\ fetches' \subseteq FetchType
         /\ shown' \in [rows : RowSets, total : Nat, pages : Nat, loading : BOOLEAN,
                        error : BOOLEAN]
         /\ shown'.rows = shown.rows /\ shown'.loading = TRUE
<1>1. FetchOf(q) \in FetchType
  BY DEF FetchOf, FetchType
<1>2. Idle(fetches) \subseteq FetchType
  BY DEF TypeOK, DataTypes, Idle, FetchType
<1> QED
  BY <1>1, <1>2 DEF Reload, TypeOK, DataTypes

LEMMA TurnType ==
  ASSUME TypeOK, CellOnRow, Filtering
  PROVE  \E q \in Queries : Turn(q)
<1>1. query \in Queries /\ query.page \in Nat \ {0} /\ shown.pages \in Nat
  BY DEF TypeOK, DataTypes, Queries
<1>2. CASE Chip
  <2>1. ASSUME NEW t \in TypeFilter
        PROVE  [query EXCEPT !.type = t, !.claims = "all"] \in Queries
    BY <1>1, ConstantsAssumption DEF Queries
  <2>2. [query EXCEPT !.type = "all", !.claims = "with"] \in Queries
    BY <1>1 DEF Queries
  <2> QED
    BY <1>2, <2>1, <2>2 DEF Chip
<1>3. CASE Dropdown
  <2>1. ASSUME NEW t \in TypeFilter PROVE [query EXCEPT !.type = t] \in Queries
    BY <1>1, ConstantsAssumption DEF Queries
  <2>2. ASSUME NEW t \in StatusFilter PROVE [query EXCEPT !.status = t] \in Queries
    BY <1>1, ConstantsAssumption DEF Queries
  <2> QED
    BY <1>3, <2>1, <2>2 DEF Dropdown
<1>4. CASE AdvancedFilter
  <2>1. ASSUME NEW c \in {"all", "with", "without"}
        PROVE  [query EXCEPT !.claims = c] \in Queries
    BY <1>1 DEF Queries
  <2>2. [query EXCEPT !.status = "all", !.claims = "all"] \in Queries
    BY <1>1 DEF Queries
  <2> QED
    BY <1>4, <2>1, <2>2 DEF AdvancedFilter
<1>5. CASE Paging
  <2>1. query.page > 1 => [query EXCEPT !.page = @ - 1] \in Queries
    BY <1>1 DEF Queries
  <2>2. [query EXCEPT !.page = @ + 1] \in Queries
    BY <1>1 DEF Queries
  <2>3. ASSUME NEW n \in Sizes PROVE [query EXCEPT !.size = n] \in Queries
    BY <1>1 DEF Queries
  <2> QED
    BY <1>5, <2>1, <2>2, <2>3 DEF Paging
<1> QED
  BY <1>2, <1>3, <1>4, <1>5 DEF Filtering

\* The inputs that neither fetch nor write.
Inputs ==
  \/ Reading \/ GridKey \/ ApplyBulk \/ CancelSelection
  \/ PanelStatus \/ SheetStatus \/ AskDelete \/ CloseDetail
  \/ OpenNew \/ OpenEdit \/ CloseForm
  \/ CloseBulk \/ PressDelete \/ ReleaseDelete \/ CloseDelete

LEMMA InputIsLocal == Inputs => Local
BY DEF Inputs, Reading, ToggleRow, OpenDetail, GridKey, ApplyBulk, CancelSelection,
   PanelStatus, SheetStatus, AskDelete, CloseDetail, OpenNew, OpenEdit, CloseForm,
   CloseBulk, PressDelete, ReleaseDelete, CloseDelete

LEMMA CopyType ==
  ASSUME TypeOK, NEW i \in DOMAIN shown.rows
  PROVE  Copy(i) \in Copies
BY RowsOnScreen DEF TypeOK, DataTypes, Copy, Copies

LEMMA LocalTypes == TypeOK /\ Local => DataTypes' /\ shown' = shown
BY DEF TypeOK, DataTypes, Local, Event

LEMMA InputType ==
  ASSUME TypeOK, CellOnRow, Inputs
  PROVE  TypeOK' /\ CellOnRow'
<1>0. DataTypes' /\ shown' = shown /\ UserTypes /\ shown.rows \in RowSets
  BY InputIsLocal, LocalTypes DEF TypeOK, DataTypes
<1>1. ASSUME NEW i \in DOMAIN shown.rows, ToggleRow(i) \/ OpenDetail(i)
      PROVE  UserTypes' /\ cell' = cell
  BY <1>0, <1>1, CopyType, RowsOnScreen DEF ToggleRow, OpenDetail, UserTypes
<1>2. ASSUME GridKey
      PROVE  UserTypes' /\ (cell' = cell \/ cell' < Cardinality(DOMAIN shown.rows))
  <2>1. Copy(RowAt(cell)) \in Copies
    BY <1>2, RowAtCell, CopyType DEF GridKey
  <2>2. cell' = cell \/ (cell' \in Nat /\ cell' < Cardinality(DOMAIN shown.rows))
    <3>1. Cardinality(DOMAIN shown.rows) \in Nat /\ Cardinality(DOMAIN shown.rows) # 0
      BY <1>0, <1>2, RowsOnScreen DEF GridKey
    <3>2. /\ cell \in Nat /\ (IF cell = 0 THEN 0 ELSE cell - 1) \in Nat
          /\ cell + 1 \in Nat
      BY <1>0 DEF UserTypes
    <3> QED
      BY <1>2, <3>1, <3>2, ClampsToRow DEF GridKey
  <2> QED
    BY <1>0, <1>2, <2>1, <2>2 DEF GridKey, UserTypes
<1>3. ASSUME ApplyBulk PROVE UserTypes' /\ cell' = cell
  BY <1>0, <1>3 DEF ApplyBulk, AskBulk, UserTypes
<1>4. ASSUME CancelSelection PROVE UserTypes' /\ cell' = cell
  BY <1>0, <1>4 DEF CancelSelection, UserTypes
<1>5. ASSUME CloseBulk PROVE UserTypes' /\ cell' = cell
  BY <1>0, <1>5 DEF CloseBulk, UserTypes
<1>6. ASSUME PanelStatus PROVE UserTypes' /\ cell' = cell
  BY <1>0, <1>6 DEF PanelStatus, AskBulk, Copies, UserTypes
<1>7. ASSUME SheetStatus PROVE UserTypes' /\ cell' = cell
  BY <1>0, <1>7 DEF SheetStatus, AskBulk, Copies, UserTypes
<1>8. ASSUME AskDelete PROVE UserTypes' /\ cell' = cell
  BY <1>0, <1>8 DEF AskDelete, Copies, UserTypes
<1>9. ASSUME CloseDetail PROVE UserTypes' /\ cell' = cell
  BY <1>0, <1>9 DEF CloseDetail, UserTypes
<1>10. ASSUME PressDelete PROVE UserTypes' /\ cell' = cell
  BY <1>0, <1>10 DEF PressDelete, UserTypes
<1>11. ASSUME ReleaseDelete PROVE UserTypes' /\ cell' = cell
  BY <1>0, <1>11 DEF ReleaseDelete, UserTypes
<1>12. ASSUME CloseDelete PROVE UserTypes' /\ cell' = cell
  BY <1>0, <1>12 DEF CloseDelete, HoldAfterClose, UserTypes
<1>13. ASSUME OpenNew PROVE UserTypes' /\ cell' = cell
  BY <1>0, <1>13 DEF OpenNew, FormFor, UserTypes
<1>14. ASSUME OpenEdit PROVE UserTypes' /\ cell' = cell
  BY <1>0, <1>14 DEF OpenEdit, FormFor, UserTypes
<1>15. ASSUME CloseForm PROVE UserTypes' /\ cell' = cell
  BY <1>0, <1>15 DEF CloseForm, UserTypes
<1> QED
  BY <1>0, <1>1, <1>2, <1>3, <1>4, <1>5, <1>6, <1>7, <1>8,
     <1>9, <1>10, <1>11, <1>12, <1>13, <1>14, <1>15
     DEF Inputs, Reading, TypeOK, CellOnRow

\* The inputs that write.
SentOK(w) == WriteOK([op |-> w.op, ids |-> w.ids, entry |-> w.entry,
                             status |-> w.status, n |-> events, result |-> None])

LEMMA AskedTypes ==
  ASSUME TypeOK
  PROVE  /\ \A f \in Fillings : Entry(f) \in Rows
         /\ \A e \in Rows : SentOK([Asked("create", {}) EXCEPT !.entry = e])
         /\ \A e \in Rows, i \in Ids : SentOK([Asked("patch", {i}) EXCEPT !.entry = e])
         /\ \A S \in SUBSET Ids, s \in Statuses :
              SentOK([Asked("bulk", S) EXCEPT !.status = s])
         /\ \A i \in Ids, op \in {"delete", "mark", "unmark"} :
              SentOK(Asked(op, {i}))
<1>1. events \in Nat
  BY DEF TypeOK, DataTypes
<1>2. ASSUME NEW f \in Fillings PROVE Entry(f) \in Rows
  BY DEF Entry, Fillings, Rows, Claims, Statuses, TypeOK, UserTypes, Copies
<1>3. \A i \in Ids, op \in {"delete", "mark", "unmark"} : SentOK(Asked(op, {i}))
  BY <1>1 DEF SentOK, WriteOK, WriteType, Asked
<1>4. ASSUME NEW e \in Rows, NEW i \in Ids
      PROVE  /\ SentOK([Asked("create", {}) EXCEPT !.entry = e])
             /\ SentOK([Asked("patch", {i}) EXCEPT !.entry = e])
  BY <1>1 DEF SentOK, WriteOK, WriteType, Asked
<1>5. \A e \in Rows : SentOK([Asked("create", {}) EXCEPT !.entry = e])
  BY <1>1 DEF SentOK, WriteOK, WriteType, Asked
<1>6. \A S \in SUBSET Ids, s \in Statuses :
        SentOK([Asked("bulk", S) EXCEPT !.status = s])
  BY <1>1 DEF SentOK, WriteOK, WriteType, Asked
<1> QED
  BY <1>2, <1>3, <1>4, <1>5, <1>6

Writing == ToggleClaim \/ SubmitForm \/ ConfirmBulk \/ HoldEnds

LEMMA WritingType ==
  ASSUME TypeOK, CellOnRow, HeldButton, Writing
  PROVE  TypeOK' /\ CellOnRow'
<1>1. ASSUME NEW w, Write(w), SentOK(w)
      PROVE  /\ \A v \in writes' : WriteOK(v)
             /\ UNCHANGED <<ledger, query, shown, fetches, behind>>
  BY <1>1 DEF Write, SentOK, TypeOK, DataTypes
<1>2. CASE ToggleClaim
  <2>1. detail.id \in Ids /\ ClaimOp(detail.row) \in {"mark", "unmark"}
    BY <1>2 DEF ToggleClaim, TypeOK, UserTypes, Copies, ClaimOp
  <2>2. SentOK(Asked(ClaimOp(detail.row), {detail.id}))
    BY <2>1, AskedTypes
  <2> QED
    BY <1>1, <1>2, <2>2
       DEF ToggleClaim, user, Event, TypeOK, DataTypes, UserTypes, CellOnRow
<1>3. CASE SubmitForm
  <2>1. \E w : Write(w) /\ SentOK(w)
    <3>1. PICK f \in Fillings :
            IF f.type = "transfer" \/ form.editing = None
            THEN Write([Asked("create", {}) EXCEPT !.entry = Entry(f)])
            ELSE Write([Asked("patch", {form.editing.id}) EXCEPT !.entry = Entry(f)])
      BY <1>3 DEF SubmitForm
    <3>2. form.editing # None => form.editing.id \in Ids
      BY DEF TypeOK, UserTypes, Copies
    <3> QED
      BY <3>1, <3>2, AskedTypes
  <2> QED
    BY <1>1, <1>3, <2>1
       DEF SubmitForm, user, Event, TypeOK, DataTypes, UserTypes, CellOnRow
<1>4. CASE ConfirmBulk
  <2>1. SentOK([Asked("bulk", bulk.ids) EXCEPT !.status = bulk.status])
    BY AskedTypes DEF TypeOK, UserTypes
  <2> QED
    BY <1>1, <1>4, <2>1
       DEF ConfirmBulk, user, Event, TypeOK, DataTypes, UserTypes, CellOnRow
<1>5. CASE HoldEnds
  <2>1. hold \in Ids
    BY <1>5 DEF HoldEnds, TypeOK, UserTypes
  <2>2. SentOK(Asked("delete", {hold}))
    BY <2>1, AskedTypes
  <2> QED
    <3>1. /\ \A v \in writes' : WriteOK(v)
          /\ UNCHANGED <<ledger, query, shown, fetches, behind>>
      BY <1>1, <1>5, <2>2 DEF HoldEnds
    <3>2. UserTypes' /\ cell' = cell
      BY <1>5 DEF HoldEnds, TypeOK, UserTypes
    <3>3. held' \subseteq Ids
      BY <1>5, <2>1 DEF HoldEnds, HeldButton, TypeOK, DataTypes
    <3> QED
      BY <1>5, <3>1, <3>2, <3>3 DEF HoldEnds, TypeOK, DataTypes, CellOnRow
<1> QED
  BY <1>2, <1>3, <1>4, <1>5 DEF Writing

\* The answers.
LEMMA ReadListType ==
  ASSUME TypeOK, CellOnRow, NEW f \in fetches, ReadList(f)
  PROVE  TypeOK' /\ CellOnRow'
<1>1. f \in FetchType /\ List(ledger, f.query) \in Lists
  BY ListType DEF TypeOK, DataTypes, FetchType
<1>2. PICK a \in {List(ledger, f.query), Failed} :
        fetches' = (fetches \ {f}) \cup {[f EXCEPT !.answer = a]}
  BY DEF ReadList
<1>3. [f EXCEPT !.answer = a] \in FetchType
  BY <1>1 DEF FetchType
<1>4. fetches' \subseteq FetchType /\ events' \in Nat
  BY <1>2, <1>3 DEF ReadList, Event, TypeOK, DataTypes
<1> QED
  BY <1>4 DEF ReadList, user, TypeOK, DataTypes, UserTypes, CellOnRow

LEMMA TakeListType ==
  ASSUME TypeOK, CellOnRow, NEW f \in fetches, TakeList(f)
  PROVE  TypeOK' /\ CellOnRow'
<1>1. f \in FetchType /\ fetches' \subseteq FetchType
  BY DEF TakeList, TypeOK, DataTypes
<1>2. CASE UNCHANGED <<shown, cell, behind>>
  BY <1>1, <1>2 DEF TakeList, TypeOK, DataTypes, UserTypes, CellOnRow
<1>3. CASE ShowFailure
  BY <1>1, <1>3 DEF ShowFailure, TakeList, TypeOK, DataTypes, UserTypes, CellOnRow
<1>4. CASE f.answer # Failed /\ Show(f)
  <2>1. f.answer \in Lists /\ f.answer.rows \in RowSets
    BY <1>1, <1>4 DEF TakeList, FetchType, Lists
  <2>2. Cardinality(DOMAIN f.answer.rows) \in Nat
          /\ (DOMAIN f.answer.rows # {} => Cardinality(DOMAIN f.answer.rows) # 0)
    BY <2>1, RowsOnScreen
  <2>3. cell' \in Nat /\ (DOMAIN f.answer.rows # {} => cell' < Cardinality(DOMAIN f.answer.rows))
    BY <1>4, <2>2, ClampsToRow DEF Show, TypeOK, UserTypes
  <2>4. shown'.rows = f.answer.rows
          /\ shown' \in [rows : RowSets, total : Nat, pages : Nat, loading : BOOLEAN,
                         error : BOOLEAN]
    BY <1>4, <2>1 DEF Show, Lists
  <2>5. behind' \in BOOLEAN
    BY <1>1, <1>4 DEF Show, FetchType
  <2> QED
    BY <1>1, <2>3, <2>4, <2>5 DEF TakeList, TypeOK, DataTypes, UserTypes, CellOnRow
<1> QED
  BY <1>2, <1>3, <1>4 DEF TakeList

\* What the server makes of a write is a ledger.
LEMMA ChangedType ==
  ASSUME TypeOK, NEW w \in writes, NEW l, Changed(w, l)
  PROVE  l \in [Ids -> Rows \cup {None}]
<1>1. WriteOK(w) /\ ledger \in [Ids -> Rows \cup {None}]
  BY DEF TypeOK, DataTypes
<1>2. CASE w.op = "create"
  BY <1>1, <1>2 DEF Changed, WriteOK, Fresh
<1>3. CASE w.op # "create"
  <2> DEFINE new(i) == IF i \notin Live(w.ids) THEN ledger[i]
               ELSE CASE w.op = "patch" -> w.entry
                      [] w.op = "bulk" -> [ledger[i] EXCEPT !.status = w.status]
                      [] w.op = "delete" -> None
                      [] w.op = "mark" -> [ledger[i] EXCEPT !.claim = "receivable"]
                      [] w.op = "unmark" -> [ledger[i] EXCEPT !.claim = "none"]
  <2>1. l = [i \in Ids |-> new(i)] /\ w.op \in {"patch", "bulk", "delete", "mark", "unmark"}
    BY <1>3 DEF Changed
  <2>2. ASSUME NEW i \in Ids PROVE new(i) \in Rows \cup {None}
    <3>1. CASE i \notin Live(w.ids)
      BY <1>1, <3>1
    <3>2. CASE i \in Live(w.ids)
      <4>1. ledger[i] \in Rows
        BY <1>1, <3>2 DEF Live
      <4>2. \A s \in Statuses : [ledger[i] EXCEPT !.status = s] \in Rows
        BY <4>1 DEF Rows
      <4>3. \A c \in Claims : [ledger[i] EXCEPT !.claim = c] \in Rows
        BY <4>1 DEF Rows
      <4>4. "receivable" \in Claims /\ "none" \in Claims
        BY DEF Claims
      <4>5. w.op = "patch" => w.entry \in Rows
        BY <1>1 DEF WriteOK
      <4>6. w.op = "bulk" => w.status \in Statuses
        BY <1>1 DEF WriteOK
      <4> QED
        BY <2>1, <3>2, <4>2, <4>3, <4>4, <4>5, <4>6
    <3> QED
      BY <3>1, <3>2
  <2> HIDE DEF new
  <2> QED
    BY <2>1, <2>2
<1> QED
  BY <1>2, <1>3

LEMMA ServeWriteType ==
  ASSUME TypeOK, CellOnRow, NEW w \in writes, ServeWrite(w) \/ RefuseWrite(w)
  PROVE  TypeOK' /\ CellOnRow'
<1>1. WriteOK(w)
  BY DEF TypeOK, DataTypes
<1>2. \A r \in {"ok", "lost", "failed"} : WriteOK([w EXCEPT !.result = r])
  BY <1>1 DEF WriteOK, WriteType
<1>3. \E r \in {"ok", "lost", "failed"} :
        writes' = (writes \ {w}) \cup {[w EXCEPT !.result = r]}
  BY DEF ServeWrite, RefuseWrite
<1>4. \A v \in writes' : WriteOK(v)
  BY <1>2, <1>3 DEF TypeOK, DataTypes
<1>5. CASE ServeWrite(w)
  <2>1. ledger' \in [Ids -> Rows \cup {None}]
    BY <1>5, ChangedType DEF ServeWrite
  <2>2. Old(fetches) \subseteq FetchType
    BY DEF Old, TypeOK, DataTypes, FetchType
  <2>3. fetches' \subseteq FetchType /\ behind' \in BOOLEAN
    <3>1. (fetches' = Old(fetches) /\ behind' = TRUE) \/ UNCHANGED <<behind, fetches>>
      BY <1>5 DEF ServeWrite
    <3> QED
      BY <2>2, <3>1 DEF TypeOK, DataTypes
  <2>4. events' \in Nat
    <3>1. Event \/ UNCHANGED events
      BY <1>5 DEF ServeWrite
    <3> QED
      BY <3>1 DEF Event, TypeOK, DataTypes
  <2> QED
    BY <1>4, <1>5, <2>1, <2>3, <2>4
       DEF ServeWrite, user, TypeOK, DataTypes, UserTypes, CellOnRow
<1>6. CASE RefuseWrite(w)
  BY <1>4, <1>6 DEF RefuseWrite, user, TypeOK, DataTypes, UserTypes, CellOnRow
<1> QED
  BY <1>5, <1>6

LEMMA EndWriteType ==
  ASSUME TypeOK, CellOnRow, NEW w \in writes, EndWrite(w)
  PROVE  TypeOK' /\ CellOnRow'
<1>1. \A v \in writes' : WriteOK(v)
  BY DEF EndWrite, TypeOK, DataTypes
<1>2. /\ fetches' \subseteq FetchType /\ shown'.rows = shown.rows
      /\ shown' \in [rows : RowSets, total : Nat, pages : Nat, loading : BOOLEAN,
                     error : BOOLEAN]
  BY ReloadType DEF EndWrite, TypeOK, DataTypes
<1>3. del' \in [open : BOOLEAN, id : Ids \cup {None}] /\ hold' \in Ids \cup {None}
  BY DEF EndWrite, HoldAfterClose, TypeOK, UserTypes
<1>4. bulk' \in [open : BOOLEAN, ids : SUBSET Ids, status : Statuses]
  BY DEF EndWrite, AskBulk, TypeOK, UserTypes, Statuses
<1>5. form' \in [open : BOOLEAN, editing : Copies \cup {None}]
        /\ detail' \in Copies \cup {None}
  BY DEF EndWrite, TypeOK, UserTypes
<1>6. UNCHANGED <<ledger, query, selected, cell, behind, held, events>>
  BY DEF EndWrite
<1> QED
  BY <1>1, <1>2, <1>3, <1>4, <1>5, <1>6 DEF TypeOK, DataTypes, UserTypes, CellOnRow

\* The other writers and the end of an import.
LEMMA BesideType ==
  ASSUME TypeOK, CellOnRow, ImportEnds \/ \E i \in Ids : OtherWriter(i)
  PROVE  TypeOK' /\ CellOnRow'
<1>1. CASE ImportEnds
  <2>1. Reload(query) /\ query \in Queries
    BY <1>1 DEF ImportEnds, TypeOK, DataTypes
  <2>2. UNCHANGED <<ledger, query, writes, behind, held, user>> /\ events' \in Nat
    BY <1>1 DEF ImportEnds, Event, TypeOK, DataTypes
  <2>3. UserTypes' /\ cell' = cell
    BY <2>2 DEF user, TypeOK, UserTypes
  <2>4. fetches' \subseteq FetchType /\ shown'.rows = shown.rows
          /\ shown' \in [rows : RowSets, total : Nat, pages : Nat, loading : BOOLEAN,
                         error : BOOLEAN]
    BY <2>1, ReloadType
  <2> QED
    BY <2>2, <2>3, <2>4 DEF TypeOK, DataTypes, CellOnRow
<1>2. ASSUME NEW i \in Ids, OtherWriter(i)
      PROVE  TypeOK' /\ CellOnRow'
  <2>1. ledger' \in [Ids -> Rows \cup {None}]
    BY <1>2, ConstantsAssumption DEF OtherWriter, TypeOK, DataTypes
  <2>2. fetches' \subseteq FetchType
    <3>1. Old(fetches) \subseteq FetchType
      BY DEF Old, TypeOK, DataTypes, FetchType
    <3> QED
      BY <1>2, <3>1 DEF OtherWriter
  <2>3. UNCHANGED <<query, shown, writes, held, user>> /\ behind' = TRUE
          /\ events' \in Nat
    BY <1>2 DEF OtherWriter, Event, TypeOK, DataTypes
  <2>4. UserTypes' /\ cell' = cell
    BY <2>3 DEF user, TypeOK, UserTypes
  <2> QED
    BY <2>1, <2>2, <2>3, <2>4 DEF TypeOK, DataTypes, CellOnRow
<1> QED
  BY <1>1, <1>2

LEMMA TypeStep ==
  ASSUME TypeOK, CellOnRow, HeldButton, [Next]_vars
  PROVE  TypeOK' /\ CellOnRow'
<1>1. CASE Filtering
  <2>1. PICK q \in Queries : Turn(q)
    BY <1>1, TurnType
  <2>2. Reload(q)
    BY <2>1 DEF Turn
  <2>3. UserTypes' /\ cell' = cell
    BY <2>1 DEF Turn, user, TypeOK, UserTypes
  <2>4. UNCHANGED <<ledger, writes, behind, held>> /\ query' = q /\ events' \in Nat
    BY <2>1 DEF Turn, Event, TypeOK, DataTypes
  <2> QED
    BY <2>2, <2>3, <2>4, ReloadType DEF TypeOK, DataTypes, CellOnRow
<1>2. CASE UNCHANGED vars
  BY <1>2 DEF vars, TypeOK, DataTypes, UserTypes, CellOnRow
<1>3. CASE Answering
  BY <1>3, ReadListType, TakeListType, ServeWriteType, EndWriteType DEF Answering
<1> QED
  BY <1>1, <1>2, <1>3, InputType, WritingType, BesideType
     DEF Next, Inputs, Writing, Panel, Editing, Confirming

--------------------------------------------------------------------------------
(* What the page is still to be told.                                      *)

\* The effect has run for the page's query: only its own fetch is active.
LEMMA ReloadCurrent ==
  ASSUME TypeOK, NEW q, Reload(q), query' = q
  PROVE  ActiveIsCurrent' /\ ShownIsCurrent'
<1>1. ASSUME NEW f \in Idle(fetches) PROVE f.active = FALSE
  BY DEF Idle, TypeOK, DataTypes, FetchType
<1>2. FetchOf(q).query = q /\ FetchOf(q).answer = None
  BY DEF FetchOf
<1>3. ActiveIsCurrent'
  BY <1>1, <1>2 DEF Reload, ActiveIsCurrent
<1>4. shown'.loading = TRUE
  BY DEF Reload, TypeOK, DataTypes
<1> QED
  BY <1>3, <1>4 DEF ShownIsCurrent

\* With the same ledger and query, what was to be fetched again still is.
LEMMA CurrentStays ==
  ASSUME ActiveIsCurrent, ShownIsCurrent, Settled' => Settled,
         UNCHANGED <<ledger, query, shown, fetches, behind>>
  PROVE  ActiveIsCurrent' /\ ShownIsCurrent'
BY DEF ActiveIsCurrent, ShownIsCurrent

LEMMA WritingIsCurrent ==
  ASSUME ActiveIsCurrent, ShownIsCurrent, Writing
  PROVE  ActiveIsCurrent' /\ ShownIsCurrent'
<1>1. \E w : Write(w)
  BY DEF Writing, ToggleClaim, SubmitForm, ConfirmBulk, HoldEnds
<1>2. writes \subseteq writes' /\ UNCHANGED <<ledger, query, shown, fetches, behind>>
  BY <1>1 DEF Write
<1>3. Settled' => Settled
  BY <1>2 DEF Settled, Refreshes
<1> QED
  BY <1>2, <1>3, CurrentStays

LEMMA ReadListIsCurrent ==
  ASSUME TypeOK, ActiveIsCurrent, ShownIsCurrent, NEW f \in fetches, ReadList(f)
  PROVE  ActiveIsCurrent' /\ ShownIsCurrent'
<1>1. PICK a \in {List(ledger, f.query), Failed} :
        fetches' = (fetches \ {f}) \cup {[f EXCEPT !.answer = a]}
  BY DEF ReadList
<1>2. UNCHANGED <<ledger, query, shown, writes, behind>>
  BY DEF ReadList
<1>3. Settled' <=> Settled
  BY <1>2 DEF Settled
<1>4. f.active => f.query = query
  BY DEF ActiveIsCurrent
<1> DEFINE g == [f EXCEPT !.answer = a]
<1>5. /\ g.active = f.active /\ g.query = f.query /\ g.old = f.old /\ g.answer = a
  BY DEF TypeOK, DataTypes, FetchType
<1>6. fetches' = (fetches \ {f}) \cup {g}
  BY <1>1
<1> HIDE DEF g
<1>7. ActiveIsCurrent'
  BY <1>2, <1>3, <1>4, <1>5, <1>6 DEF ActiveIsCurrent
<1> QED
  BY <1>2, <1>3, <1>7 DEF ShownIsCurrent

LEMMA TakeListIsCurrent ==
  ASSUME TypeOK, ActiveIsCurrent, ShownIsCurrent, NEW f \in fetches, TakeList(f)
  PROVE  ActiveIsCurrent' /\ ShownIsCurrent'
<1>1. fetches' \subseteq fetches /\ UNCHANGED <<ledger, query, writes>> /\ f.answer # None
  BY DEF TakeList
<1>2. Settled' <=> Settled
  BY <1>1 DEF Settled
<1>3. ActiveIsCurrent'
  BY <1>1, <1>2 DEF ActiveIsCurrent
<1>4. CASE UNCHANGED <<shown, cell, behind>>
  BY <1>1, <1>2, <1>3, <1>4 DEF ShownIsCurrent
<1>5. CASE ShowFailure
  BY <1>3, <1>5 DEF ShowFailure, ShownIsCurrent, TypeOK, DataTypes
<1>6. CASE f.active /\ f.answer # Failed /\ Show(f)
  <2>1. Settled /\ ~f.old => f.answer = List(ledger, query)
    BY <1>1, <1>6 DEF ActiveIsCurrent
  <2>2. /\ shown'.rows = f.answer.rows /\ shown'.total = f.answer.total
        /\ shown'.pages = f.answer.pages /\ behind' = f.old
    BY <1>6 DEF Show
  <2> QED
    BY <1>1, <1>2, <1>3, <2>1, <2>2 DEF ShownIsCurrent
<1> QED
  BY <1>4, <1>5, <1>6 DEF TakeList, Takes

LEMMA ServeWriteIsCurrent ==
  ASSUME TypeOK, ActiveIsCurrent, ShownIsCurrent, NEW w \in writes, ServeWrite(w)
  PROVE  ActiveIsCurrent' /\ ShownIsCurrent'
<1>1. PICK r \in {"ok", "lost"} :
        /\ writes' = (writes \ {w}) \cup {[w EXCEPT !.result = r]}
        /\ IF r = "lost" \/ w.op \in {"mark", "unmark"}
           THEN behind' = TRUE /\ fetches' = Old(fetches)
           ELSE UNCHANGED <<behind, fetches>>
  BY DEF ServeWrite
<1>2. WriteOK(w) /\ query' = query
  BY DEF TypeOK, DataTypes, ServeWrite
<1>3. CASE r = "ok" /\ w.op \notin {"mark", "unmark"}
  <2>1. [w EXCEPT !.result = r].result = "ok" /\ Refreshes([w EXCEPT !.result = r].op)
    BY <1>2, <1>3 DEF WriteOK, WriteType, Refreshes
  <2>2. ~Settled'
    BY <1>1, <2>1 DEF Settled, Refreshes
  <2>3. fetches' = fetches
    BY <1>1, <1>3
  <2> QED
    BY <1>2, <2>2, <2>3 DEF ActiveIsCurrent, ShownIsCurrent
<1>4. CASE r = "lost" \/ w.op \in {"mark", "unmark"}
  <2>1. behind' = TRUE /\ fetches' = Old(fetches)
    BY <1>1, <1>4
  <2>2. ASSUME NEW f \in fetches, NEW g, g = [f EXCEPT !.old = @ \/ f.answer # None]
        PROVE  /\ g.active = f.active /\ g.query = f.query /\ g.answer = f.answer
               /\ (g.answer # None => g.old)
    BY <2>2 DEF TypeOK, DataTypes, FetchType
  <2>3. ActiveIsCurrent'
    BY <1>2, <2>1, <2>2 DEF Old, ActiveIsCurrent
  <2> QED
    BY <2>1, <2>3 DEF ShownIsCurrent
<1> QED
  BY <1>3, <1>4

LEMMA RefuseWriteIsCurrent ==
  ASSUME TypeOK, ActiveIsCurrent, ShownIsCurrent, NEW w \in writes, RefuseWrite(w)
  PROVE  ActiveIsCurrent' /\ ShownIsCurrent'
<1>1. UNCHANGED <<ledger, query, shown, fetches, behind>> /\ w.result = None
        /\ writes \ {w} \subseteq writes'
  BY DEF RefuseWrite
<1>2. Settled' => Settled
  BY <1>1, ConstantsAssumption DEF Settled, Refreshes
<1> QED
  BY <1>1, <1>2, CurrentStays

LEMMA EndWriteIsCurrent ==
  ASSUME TypeOK, ActiveIsCurrent, ShownIsCurrent, NEW w \in writes, EndWrite(w)
  PROVE  ActiveIsCurrent' /\ ShownIsCurrent'
<1>1. UNCHANGED <<ledger, query, behind>> /\ writes' = writes \ {w}
  BY DEF EndWrite
<1>2. CASE Refreshes(w.op) /\ w.result = "ok"
  <2>1. Reload(query)
    BY <1>2 DEF EndWrite
  <2> QED
    BY <1>1, <2>1, ReloadCurrent
<1>3. CASE ~(Refreshes(w.op) /\ w.result = "ok")
  <2>1. UNCHANGED <<fetches, shown>>
    BY <1>3 DEF EndWrite
  <2>2. Settled' => Settled
    BY <1>1, <1>3 DEF Settled, Refreshes
  <2> QED
    BY <1>1, <2>1, <2>2, CurrentStays
<1> QED
  BY <1>2, <1>3

\* What another writer changes is marked until the next fetch is answered.
LEMMA BesideIsCurrent ==
  ASSUME TypeOK, ActiveIsCurrent, ShownIsCurrent,
         ImportEnds \/ \E i \in Ids : OtherWriter(i)
  PROVE  ActiveIsCurrent' /\ ShownIsCurrent'
<1>1. CASE ImportEnds
  BY <1>1, ReloadCurrent DEF ImportEnds
<1>2. ASSUME NEW i \in Ids, OtherWriter(i)
      PROVE  ActiveIsCurrent' /\ ShownIsCurrent'
  <2>1. behind' = TRUE /\ fetches' = Old(fetches) /\ query' = query
    BY <1>2 DEF OtherWriter
  <2>2. ASSUME NEW f \in fetches, NEW g, g = [f EXCEPT !.old = @ \/ f.answer # None]
        PROVE  /\ g.active = f.active /\ g.query = f.query /\ g.answer = f.answer
               /\ (g.answer # None => g.old)
    BY <2>2 DEF TypeOK, DataTypes, FetchType
  <2>3. ActiveIsCurrent'
    BY <2>1, <2>2 DEF Old, ActiveIsCurrent
  <2> QED
    BY <2>1, <2>3 DEF ShownIsCurrent
<1> QED
  BY <1>1, <1>2

LEMMA CurrentStep ==
  ASSUME TypeOK, CellOnRow, ActiveIsCurrent, ShownIsCurrent, [Next]_vars
  PROVE  ActiveIsCurrent' /\ ShownIsCurrent'
<1>1. CASE Filtering
  <2>1. PICK q \in Queries : Turn(q)
    BY <1>1, TurnType
  <2> QED
    BY <2>1, ReloadCurrent DEF Turn
<1>2. CASE Inputs \/ UNCHANGED vars
  <2>1. UNCHANGED <<ledger, query, shown, fetches, writes, behind>>
    BY <1>2, InputIsLocal DEF Local, vars
  <2> QED
    BY <2>1, CurrentStays DEF Settled, Refreshes
<1>3. CASE Writing
  BY <1>3, WritingIsCurrent
<1>4. CASE Answering
  BY <1>4, ReadListIsCurrent, TakeListIsCurrent, ServeWriteIsCurrent,
     RefuseWriteIsCurrent, EndWriteIsCurrent DEF Answering
<1> QED
  BY <1>1, <1>2, <1>3, <1>4, BesideIsCurrent
     DEF Next, Inputs, Writing, Panel, Editing, Confirming

--------------------------------------------------------------------------------
(* The button that is held.                                                *)

LEMMA WriteIsHeld ==
  ASSUME DeletedWasHeld, NEW w, Write(w), held \subseteq held',
         w.op = "delete" => w.ids \subseteq held'
  PROVE  DeletedWasHeld'
<1> DEFINE v == [op |-> w.op, ids |-> w.ids, entry |-> w.entry, status |-> w.status,
                 n |-> events, result |-> None]
<1>1. writes' = writes \cup {v}
  BY DEF Write
<1>2. v.op = w.op /\ v.ids = w.ids
  OBVIOUS
<1> HIDE DEF v
<1> QED
  BY <1>1, <1>2 DEF DeletedWasHeld

\* What leaves the button, the dialog and the deletions under way alone.
LEMMA NobodyHolds ==
  ASSUME HeldButton, DeletedWasHeld, UNCHANGED <<del, hold, writes, held>>
  PROVE  HeldButton' /\ DeletedWasHeld'
BY DEF HeldButton, DeletedWasHeld

LEMMA InputHeld ==
  ASSUME TypeOK, HeldButton, DeletedWasHeld, Inputs
  PROVE  HeldButton' /\ DeletedWasHeld'
<1>1. UNCHANGED <<writes, held>>
  BY InputIsLocal DEF Local
<1>2. DeletedWasHeld'
  BY <1>1 DEF DeletedWasHeld
<1>3. CASE UNCHANGED <<del, hold>>
  BY <1>2, <1>3 DEF HeldButton
<1>4. CASE AskDelete
  BY <1>2, <1>4 DEF AskDelete, Uncovered, HeldButton
<1>5. CASE PressDelete
  BY <1>2, <1>5 DEF PressDelete, HeldButton
<1>6. CASE ReleaseDelete \/ CloseDelete
  BY <1>2, <1>6 DEF ReleaseDelete, CloseDelete, HoldAfterClose, HeldButton
<1>7. Inputs => UNCHANGED <<del, hold>> \/ AskDelete \/ PressDelete
                 \/ ReleaseDelete \/ CloseDelete
  BY DEF Inputs, Reading, ToggleRow, OpenDetail, GridKey, ApplyBulk, CancelSelection,
     PanelStatus, SheetStatus, CloseDetail, OpenNew, OpenEdit, CloseForm, CloseBulk
<1> QED
  BY <1>2, <1>3, <1>4, <1>5, <1>6, <1>7

LEMMA WritingHeld ==
  ASSUME TypeOK, HeldButton, DeletedWasHeld, Writing
  PROVE  HeldButton' /\ DeletedWasHeld'
<1>1. CASE HoldEnds
  <2>1. del.open /\ hold = del.id /\ held' = held \cup {hold} /\ Write(Asked("delete", {hold}))
    BY <1>1 DEF HoldEnds, HeldButton
  <2>2. Asked("delete", {hold}).ids \subseteq held'
    BY <2>1 DEF Asked
  <2> QED
    BY <1>1, <2>1, <2>2, WriteIsHeld DEF HoldEnds, HeldButton
<1>2. ASSUME UNCHANGED <<user, held>>, NEW w, Write(w), w.op # "delete"
      PROVE  HeldButton' /\ DeletedWasHeld'
  BY <1>2, WriteIsHeld DEF HeldButton, user
<1>3. CASE ToggleClaim
  <2>1. Asked(ClaimOp(detail.row), {detail.id}).op # "delete"
    BY DEF Asked, ClaimOp
  <2> QED
    BY <1>2, <1>3, <2>1 DEF ToggleClaim
<1>4. CASE SubmitForm
  <2>1. \A S, e : /\ [Asked("create", S) EXCEPT !.entry = e].op # "delete"
                  /\ [Asked("patch", S) EXCEPT !.entry = e].op # "delete"
    BY DEF Asked
  <2> QED
    BY <1>2, <1>4, <2>1 DEF SubmitForm
<1>5. CASE ConfirmBulk
  <2>1. [Asked("bulk", bulk.ids) EXCEPT !.status = bulk.status].op # "delete"
    BY DEF Asked
  <2> QED
    BY <1>2, <1>5, <2>1 DEF ConfirmBulk
<1> QED
  BY <1>1, <1>3, <1>4, <1>5 DEF Writing

LEMMA AnswerHeld ==
  ASSUME TypeOK, HeldButton, DeletedWasHeld, Answering
  PROVE  HeldButton' /\ DeletedWasHeld'
<1>1. ASSUME NEW w \in writes, NEW r,
             writes' = (writes \ {w}) \cup {[w EXCEPT !.result = r]}, UNCHANGED held
      PROVE  DeletedWasHeld'
  <2>1. [w EXCEPT !.result = r].op = w.op /\ [w EXCEPT !.result = r].ids = w.ids
    BY DEF TypeOK, DataTypes, WriteOK, WriteType
  <2> QED
    BY <1>1, <2>1 DEF DeletedWasHeld
<1>2. ASSUME NEW f \in fetches, ReadList(f) \/ TakeList(f)
      PROVE  HeldButton' /\ DeletedWasHeld'
  BY <1>2, NobodyHolds DEF ReadList, TakeList, user
<1>3. ASSUME NEW w \in writes, ServeWrite(w) \/ RefuseWrite(w)
      PROVE  HeldButton' /\ DeletedWasHeld'
  <2>1. UNCHANGED <<user, held>>
          /\ \E r : writes' = (writes \ {w}) \cup {[w EXCEPT !.result = r]}
    BY <1>3 DEF ServeWrite, RefuseWrite
  <2> QED
    BY <1>1, <2>1 DEF HeldButton, user
<1>4. ASSUME NEW w \in writes, EndWrite(w)
      PROVE  HeldButton' /\ DeletedWasHeld'
  BY <1>4 DEF EndWrite, HoldAfterClose, HeldButton, DeletedWasHeld
<1> QED
  BY <1>2, <1>3, <1>4 DEF Answering

LEMMA HeldStep ==
  ASSUME TypeOK, HeldButton, DeletedWasHeld, [Next]_vars
  PROVE  HeldButton' /\ DeletedWasHeld'
<1>1. CASE Filtering \/ UNCHANGED vars
  <2>1. (\E q : Turn(q)) \/ UNCHANGED vars
    BY <1>1 DEF Filtering, Chip, Dropdown, AdvancedFilter, Paging
  <2> QED
    BY <2>1, NobodyHolds DEF Turn, user, vars
<1>2. CASE ImportEnds \/ \E i \in Ids : OtherWriter(i)
  BY <1>2, NobodyHolds DEF ImportEnds, OtherWriter, user
<1> QED
  BY <1>1, <1>2, InputHeld, WritingHeld, AnswerHeld
     DEF Next, Inputs, Writing, Panel, Editing, Confirming

--------------------------------------------------------------------------------
(* The theorems.                                                           *)

\* The inductive invariant always holds on the transactions page: the initial
\* state has it and every step of the page, the server and the network keeps it.
THEOREM Inductive == Spec => []IInv
<1>1. Init => IInv
  <2> SUFFICES ASSUME Init PROVE IInv
    OBVIOUS
  <2>1. ActiveIsCurrent /\ ShownIsCurrent
    BY DEF Init, FetchOf, ActiveIsCurrent, ShownIsCurrent
  <2>2. HeldButton /\ DeletedWasHeld
    BY DEF Init, HeldButton, DeletedWasHeld
  <2> QED
    BY <2>1, <2>2, TypeInit DEF IInv
<1>2. IInv /\ [Next]_vars => IInv'
  BY TypeStep, CurrentStep, HeldStep DEF IInv
<1> QED
  BY <1>1, <1>2, PTL DEF Spec

\* Every part of the page has its type: what the table shows, the dialogs, the
\* queries under way and the writes.
THEOREM TypeCorrect == Spec => []TypeOK
BY Inductive, PTL DEF IInv

\* fetchTransactions: once nothing is loading or failed, the table shows what the
\* server has for the filters and the page on the screen, though answers may come
\* in any order, unless a change the page is not told of (a lost answer, a changed
\* claim, another writer) came after the server answered the list.
THEOREM RowsMatchFiltersCorrect == Spec => []RowsMatchFilters
<1>1. IInv => RowsMatchFilters
  BY DEF IInv, ShownIsCurrent, Settled, RowsMatchFilters
<1> QED
  BY <1>1, Inductive, PTL

\* The delete dialog: a transaction is deleted only after its own button was held
\* for two seconds, though the end of an earlier delete closes the open dialog.
THEOREM DeletedWasHeldCorrect == Spec => []DeletedWasHeld
BY Inductive, PTL DEF IInv

\* The keyboard's active cell is on a row of the table whenever it has one: the
\* effect clamps it after every change of the rows.
THEOREM CellIsOnRow == Spec => []CellOnRow
BY Inductive, PTL DEF IInv



--------------------------------------------------------------------------------
(* InboxPage: the inductive invariant.                                      *)

DraftLists == SUBSET Drafts
OpType == [kind : {"approve", "keep", "reject", "edit"}, draft : Drafts,
           from : Drafts \cup {None}, income : BOOLEAN, base : DraftLists,
           optimistic : BOOLEAN, last : BOOLEAN,
           result : {None, "ok", "failed", "lost"}, n : Nat]
CaptureType == [by : {"inbox", "camera", "drawer", "transfer"}, claim : BOOLEAN,
                draft : Drafts \cup {None},
                result : {None, "mark", "ok", "failed"}, n : Nat]

ServerTypes ==
  /\ status \in [Drafts -> DraftStatuses] /\ fields \in [Drafts -> Drafts]
  /\ claims \subseteq Drafts

CacheTypes ==
  /\ cache \in [Keys -> DraftLists] /\ committed \in DraftLists \cup {None}
  /\ polls \in [Keys -> DraftLists \cup {None, Awaited}]

PageTypes ==
  /\ page \in {"inbox", "overview"}
  /\ selectedId \in Drafts \cup {None} /\ edit \in Drafts \cup {None}
  /\ rejectTx \in Drafts \cup {None} /\ allocation \in Drafts \cup {None}
  /\ busy \in BOOLEAN /\ drawer \in [open : BOOLEAN, busy : BOOLEAN]

RequestTypes ==
  /\ \A o \in ops : o \in OpType /\ (o.kind = "edit" => o.from \in Drafts)
  /\ \A c \in captures : c \in CaptureType /\ (c.result = "mark" => c.draft \in Drafts)

HistoryTypes ==
  /\ done \subseteq Drafts /\ listed \subseteq Drafts /\ overlapped \in BOOLEAN
  /\ events \in Nat

InboxTypeOK == ServerTypes /\ CacheTypes /\ PageTypes /\ RequestTypes /\ HistoryTypes

\* At most one mutation has the last word.  While it runs, the data under it is
\* kept, its own is shown and no answer will be taken.
Lasts == {o \in ops : o.last}
Base == IF committed = None THEN cache["inbox"] ELSE committed

OneMutation ==
  /\ \A o \in Lasts : o.optimistic
  /\ \A o, p \in Lasts : o = p
  /\ committed # None <=> Lasts # {}
  /\ \A o \in Lasts : /\ committed = o.base
                      /\ cache["inbox"] = Without(o.base, o.draft)
                      /\ polls["inbox"] = None

\* What was listed is there, or under the optimistic data.
ShownIsKept == listed \ done \subseteq Base

\* What is settled stays settled, and no answer still to be taken lists it.
Final == {d \in Drafts : status[d] \in {"approved", "rejected"}}

DoneIsFinal ==
  /\ done \subseteq Final
  /\ \A o \in ops : o.result = "ok" => o.draft \in Final
  /\ polls["inbox"] \notin {None, Awaited} => done \cap polls["inbox"] = {}

DoneStaysAway ==
  ~overlapped =>
    /\ done \cap Base = {}
    /\ \A o \in ops : o.optimistic => o.last

\* A list of drafts that is not empty has a newest.
LEMMA NewestIsThere ==
  ASSUME NEW S \in DraftLists, S # {}
  PROVE  Newest(S) \in S
<1> DEFINE HasNewest(T) == \E d \in T : \A e \in T : e <= d
           Bad == {n \in Nat :
                     \E T \in DraftLists : T # {} /\ Cardinality(T) = n /\ ~HasNewest(T)}
<1>1. ASSUME NEW T \in DraftLists
      PROVE  IsFiniteSet(T) /\ Cardinality(T) \in Nat /\ T \subseteq Nat
  BY InboxAssumption, FS_Subset, FS_CardinalityType DEF DraftLists
<1>2. ASSUME Bad # {} PROVE FALSE
  <2>1. PICK n \in Bad : \A k \in Bad : n <= k
    <3>1. Bad \subseteq Nat /\ Bad # {}
      BY <1>2
    <3> HIDE DEF Bad
    <3>2. \E m \in Bad : \A k \in Bad : m <= k
      BY <3>1, LeastNumber
    <3> QED
      BY <3>2
  <2>2. PICK T \in DraftLists : T # {} /\ Cardinality(T) = n /\ ~HasNewest(T)
    OBVIOUS
  <2>3. PICK x \in T : TRUE
    BY <2>2
  <2>4. Cardinality(T \ {x}) = n - 1 /\ n - 1 \in Nat /\ T \ {x} \in DraftLists
    <3>1. Cardinality(T \ {x}) = n - 1
      BY <1>1, <2>2, <2>3, FS_RemoveElement
    <3>2. T \ {x} \in DraftLists
      BY DEF DraftLists
    <3> QED
      BY <1>1, <3>1, <3>2
  <2>5. n - 1 \notin Bad
    BY <2>1, <2>4
  <2>6. T \ {x} # {} => HasNewest(T \ {x})
    BY <2>4, <2>5
  <2>7. T \subseteq Nat
    BY <1>1
  <2>8. CASE T \ {x} = {}
    <3>1. T = {x}
      BY <2>3, <2>8
    <3>2. x <= x
      BY <2>3, <2>7
    <3> QED
      BY <2>2, <3>1, <3>2
  <2>9. CASE T \ {x} # {}
    <3>1. PICK m \in T \ {x} : \A e \in T \ {x} : e <= m
      BY <2>6, <2>9
    <3>2. CASE m <= x
      BY <2>2, <2>3, <2>7, <3>1, <3>2
    <3>3. CASE x <= m
      BY <2>2, <2>3, <2>7, <3>1, <3>3
    <3> QED
      BY <2>7, <3>1, <3>2, <3>3
  <2> QED
    BY <2>8, <2>9
<1>3. HasNewest(S)
  <2>1. Cardinality(S) \in Nat
    BY <1>1
  <2> QED
    BY <1>2, <2>1
<1> QED
  BY <1>3 DEF Newest

LEMMA SelectedType ==
  ASSUME InboxTypeOK
  PROVE  Selected \in Drafts \cup {None}
<1>1. cache["inbox"] \in DraftLists
  BY DEF InboxTypeOK, CacheTypes, Keys
<1> QED
  BY <1>1, NewestIsThere DEF Selected, DraftLists

--------------------------------------------------------------------------------
(* Types.                                                                  *)

LEMMA InboxTypeInit == InboxInit => InboxTypeOK
<1> SUFFICES ASSUME InboxInit PROVE InboxTypeOK
  OBVIOUS
<1>1. ServerTypes
  BY DEF InboxInit, ServerTypes, DraftStatuses
<1>2. CacheTypes
  BY DEF InboxInit, CacheTypes, Keys, DraftLists
<1>3. PageTypes
  BY DEF InboxInit, PageTypes
<1>4. RequestTypes
  BY DEF InboxInit, RequestTypes
<1>5. HistoryTypes
  BY DEF InboxInit, HistoryTypes
<1> QED
  BY <1>1, <1>2, <1>3, <1>4, <1>5 DEF InboxTypeOK

\* The inputs that only open, close and select.
InboxInputs == Select \/ OpenForm \/ AskReject \/ CloseDialog \/ Toggle

LEMMA InboxInputType ==
  ASSUME InboxTypeOK, InboxInputs
  PROVE  InboxTypeOK'
<1>1. UNCHANGED <<server, page, swr, busy, ops, captures, drawer, history>> /\ events' \in Nat
  <2>1. DialogsOnly
    BY DEF InboxInputs, Select, OpenForm, AskReject, CloseDialog, Toggle
  <2> QED
    BY <2>1 DEF DialogsOnly, Event, InboxTypeOK, HistoryTypes
<1>2. \A k \in Keys : cache[k] \subseteq Drafts
  BY DEF InboxTypeOK, CacheTypes, DraftLists
<1>3. /\ selectedId' \in Drafts \cup {None} /\ edit' \in Drafts \cup {None}
      /\ rejectTx' \in Drafts \cup {None} /\ allocation' \in Drafts \cup {None}
  <2>1. CASE Select
    BY <1>2, <2>1 DEF Select, Keys, InboxTypeOK, PageTypes
  <2>2. CASE OpenForm
    BY <2>2, SelectedType DEF OpenForm, InboxTypeOK, PageTypes
  <2>3. CASE AskReject
    BY <1>2, <2>3 DEF AskReject, Keys, InboxTypeOK, PageTypes
  <2>4. CASE CloseDialog
    BY <2>4 DEF CloseDialog, InboxTypeOK, PageTypes
  <2>5. CASE Toggle
    BY <1>2, <2>5 DEF Toggle, Keys, InboxTypeOK, PageTypes
  <2> QED
    BY <2>1, <2>2, <2>3, <2>4, <2>5 DEF InboxInputs
<1> QED
  BY <1>1, <1>3 DEF server, swr, history, InboxTypeOK, ServerTypes, CacheTypes, PageTypes,
     RequestTypes, HistoryTypes

LEMMA BaseType == InboxTypeOK => Base \in DraftLists
BY DEF Base, InboxTypeOK, CacheTypes, Keys

\* A mutation of the inbox begins.
Resolving ==
  \E kind \in {"approve", "keep", "reject", "edit"}, d \in Drafts,
     from \in Drafts \cup {None}, income \in BOOLEAN :
    /\ kind = "edit" => from \in Drafts
    /\ Resolve(kind, d, from, income)

LEMMA ReviewingResolves ==
  ASSUME InboxTypeOK, Approve \/ KeepBoth \/ ConfirmReject \/ SubmitEdit
  PROVE  Resolving
<1>1. \A d : (d \in Incomes) \in BOOLEAN
  OBVIOUS
<1>2. CASE Approve
  <2>1. Selected \in Drafts
    BY <1>2, SelectedType DEF Approve
  <2>2. \E i \in BOOLEAN : Resolve("approve", Selected, None, i)
    <3> DEFINE i == Selected \in Incomes
    <3>1. i \in BOOLEAN
      BY <1>1
    <3>2. Resolve("approve", Selected, None, i)
      BY <1>2 DEF Approve
    <3> HIDE DEF i
    <3> QED
      BY <3>1, <3>2
  <2> QED
    BY <2>1, <2>2 DEF Resolving
<1>3. CASE KeepBoth
  <2>1. PICK d \in Duplicates : Resolve("keep", d, None, d \in Incomes)
    BY <1>3 DEF KeepBoth
  <2>2. \E i \in BOOLEAN : Resolve("keep", d, None, i)
    <3> DEFINE i == d \in Incomes
    <3>1. i \in BOOLEAN
      BY <1>1
    <3>2. Resolve("keep", d, None, i)
      BY <2>1
    <3> HIDE DEF i
    <3> QED
      BY <3>1, <3>2
  <2>3. d \in Drafts
    BY InboxAssumption
  <2> QED
    BY <2>2, <2>3 DEF Resolving
<1>4. CASE ConfirmReject
  BY <1>4 DEF ConfirmReject, Resolving, InboxTypeOK, PageTypes
<1>5. CASE SubmitEdit
  <2>1. Selected \in Drafts /\ edit \in Drafts
    BY <1>5, SelectedType DEF SubmitEdit, InboxTypeOK, PageTypes
  <2>2. PICK i \in Typed(Selected) : Resolve("edit", Selected, edit, i)
    BY <1>5 DEF SubmitEdit
  <2>3. i \in BOOLEAN
    <3> DEFINE j == Selected \in Incomes
    <3>1. j \in BOOLEAN
      BY <1>1
    <3>2. i \in {TRUE, j}
      BY <2>2 DEF Typed
    <3> HIDE DEF j
    <3> QED
      BY <3>1, <3>2
  <2> QED
    BY <2>1, <2>2, <2>3 DEF Resolving
<1> QED
  BY <1>2, <1>3, <1>4, <1>5

\* What has begun: the mutation that has the last word from now on.
LEMMA ResolvingIs ==
  ASSUME InboxTypeOK, Resolving
  PROVE  \E m \in OpType :
           /\ m.kind = "edit" => m.from \in Drafts
           /\ m.base = Base /\ m.optimistic /\ m.last /\ m.result = None
           /\ cache' = [cache EXCEPT !["inbox"] = Without(Base, m.draft)]
           /\ committed' = Base
           /\ polls' = Spoilt(polls)
           /\ ops' = {[o EXCEPT !.last = FALSE] : o \in ops} \cup {m}
           /\ busy' = TRUE
           /\ overlapped' = (overlapped \/ ops # {})
           /\ events' \in Nat
           /\ UNCHANGED <<server, page, dialogs, captures, drawer, done, listed>>
<1>1. PICK kind \in {"approve", "keep", "reject", "edit"}, d \in Drafts,
           from \in Drafts \cup {None}, income \in BOOLEAN :
        /\ kind = "edit" => from \in Drafts
        /\ Resolve(kind, d, from, income)
  BY DEF Resolving
<1> DEFINE m == [kind |-> kind, draft |-> d, from |-> from, income |-> income,
                 base |-> Base, optimistic |-> TRUE, last |-> TRUE,
                 result |-> None, n |-> events]
<1>2. m \in OpType
  BY BaseType DEF OpType, InboxTypeOK, HistoryTypes
<1>3. events' \in Nat
  BY <1>1 DEF Resolve, Event, InboxTypeOK, HistoryTypes
<1>4. /\ cache' = [cache EXCEPT !["inbox"] = Without(Base, m.draft)]
      /\ committed' = Base
      /\ polls' = Spoilt(polls)
      /\ ops' = {[o EXCEPT !.last = FALSE] : o \in ops} \cup {m}
      /\ busy' = TRUE
      /\ overlapped' = (overlapped \/ ops # {})
      /\ UNCHANGED <<server, page, dialogs, captures, drawer, done, listed>>
  BY <1>1 DEF Resolve, Base
<1>5. /\ m.kind = "edit" => m.from \in Drafts
      /\ m.base = Base /\ m.optimistic /\ m.last /\ m.result = None
  BY <1>1
<1> HIDE DEF m
<1> QED
  BY <1>2, <1>3, <1>4, <1>5

LEMMA RestTyped ==
  ASSUME InboxTypeOK, UNCHANGED <<server, swr, history>>, events' \in Nat
  PROVE  ServerTypes' /\ CacheTypes' /\ HistoryTypes'
BY DEF InboxTypeOK, ServerTypes, CacheTypes, HistoryTypes, server, swr, history

LEMMA ResolvingType ==
  ASSUME InboxTypeOK, Resolving
  PROVE  InboxTypeOK'
<1>1. PICK m \in OpType :
        /\ m.kind = "edit" => m.from \in Drafts
        /\ cache' = [cache EXCEPT !["inbox"] = Without(Base, m.draft)]
        /\ committed' = Base
        /\ polls' = Spoilt(polls)
        /\ ops' = {[o EXCEPT !.last = FALSE] : o \in ops} \cup {m}
        /\ busy' = TRUE
        /\ overlapped' = (overlapped \/ ops # {})
        /\ events' \in Nat
        /\ UNCHANGED <<server, page, dialogs, captures, drawer, done, listed>>
  BY ResolvingIs
<1>2. ServerTypes'
  BY <1>1 DEF InboxTypeOK, ServerTypes, server
<1>3. CacheTypes'
  <2>1. Base \in DraftLists /\ Without(Base, m.draft) \in DraftLists
    BY BaseType DEF Without, DraftLists
  <2>2. cache' \in [Keys -> DraftLists] /\ committed' \in DraftLists \cup {None}
    BY <1>1, <2>1 DEF InboxTypeOK, CacheTypes
  <2>3. polls' \in [Keys -> DraftLists \cup {None, Awaited}]
    BY <1>1 DEF InboxTypeOK, CacheTypes, Spoilt
  <2> QED
    BY <2>2, <2>3 DEF CacheTypes
<1>4. PageTypes'
  BY <1>1 DEF InboxTypeOK, PageTypes, dialogs
<1>5. RequestTypes'
  <2>1. ASSUME NEW p \in ops' PROVE p \in OpType /\ (p.kind = "edit" => p.from \in Drafts)
    <3>1. CASE p = m
      BY <1>1, <3>1
    <3>2. CASE p # m
      <4>1. PICK o \in ops : p = [o EXCEPT !.last = FALSE]
        BY <1>1, <3>2
      <4>2. o \in OpType /\ (o.kind = "edit" => o.from \in Drafts)
        BY DEF InboxTypeOK, RequestTypes
      <4> QED
        BY <4>1, <4>2 DEF OpType
    <3> QED
      BY <3>1, <3>2
  <2>2. captures' = captures
    BY <1>1
  <2> QED
    BY <2>1, <2>2 DEF InboxTypeOK, RequestTypes
<1>6. HistoryTypes'
  <2>1. overlapped' \in BOOLEAN
    BY <1>1 DEF InboxTypeOK, HistoryTypes
  <2> QED
    BY <1>1, <2>1 DEF InboxTypeOK, HistoryTypes
<1> QED
  BY <1>2, <1>3, <1>4, <1>5, <1>6 DEF InboxTypeOK

LEMMA DecideType ==
  ASSUME InboxTypeOK, Decide
  PROVE  InboxTypeOK'
<1>1. PICK kind \in {"approve", "reject"} :
        ops' = ops \cup {[kind |-> kind, draft |-> selectedId, from |-> None,
                          income |-> FALSE, base |-> {}, optimistic |-> FALSE,
                          last |-> FALSE, result |-> None, n |-> events]}
  BY DEF Decide
<1> DEFINE m == [kind |-> kind, draft |-> selectedId, from |-> None,
                 income |-> FALSE, base |-> {}, optimistic |-> FALSE,
                 last |-> FALSE, result |-> None, n |-> events]
<1>2. selectedId \in Drafts
  BY DEF Decide, InboxTypeOK, CacheTypes, Keys, DraftLists
<1>3. m \in OpType /\ m.kind # "edit"
  BY <1>2 DEF OpType, DraftLists, InboxTypeOK, HistoryTypes
<1>4. ops' = ops \cup {m}
  BY <1>1
<1> HIDE DEF m
<1>5. events' \in Nat /\ UNCHANGED <<server, page, swr, dialogs, busy, captures, drawer, history>>
  BY DEF Decide, Event, InboxTypeOK, HistoryTypes
<1>6. ServerTypes' /\ CacheTypes' /\ HistoryTypes'
  BY <1>5, RestTyped
<1>7. PageTypes'
  BY <1>5 DEF InboxTypeOK, PageTypes, dialogs
<1>8. RequestTypes'
  BY <1>3, <1>4, <1>5 DEF InboxTypeOK, RequestTypes
<1> QED
  BY <1>6, <1>7, <1>8 DEF InboxTypeOK

LEMMA CorrectType ==
  ASSUME InboxTypeOK, Correct
  PROVE  InboxTypeOK'
<1>1. /\ page' = "inbox" /\ events' \in Nat
      /\ UNCHANGED <<server, swr, dialogs, busy, ops, captures, drawer, history>>
  BY DEF Correct, Event, InboxTypeOK, HistoryTypes
<1>2. ServerTypes' /\ CacheTypes' /\ HistoryTypes'
  BY <1>1, RestTyped
<1>3. PageTypes'
  BY <1>1 DEF InboxTypeOK, PageTypes, dialogs
<1>4. RequestTypes'
  BY <1>1 DEF InboxTypeOK, RequestTypes
<1> QED
  BY <1>2, <1>3, <1>4 DEF InboxTypeOK

LEMMA CaptureByType ==
  ASSUME InboxTypeOK, NEW who \in {"inbox", "camera", "drawer", "transfer"}, NEW claim \in BOOLEAN
  PROVE  CaptureBy(who, claim) \in CaptureType /\ CaptureBy(who, claim).result = None
BY DEF CaptureBy, CaptureType, InboxTypeOK, HistoryTypes

LEMMA CapturingType ==
  ASSUME InboxTypeOK, Capturing
  PROVE  InboxTypeOK'
<1>1. /\ events' \in Nat
      /\ UNCHANGED <<server, page, swr, dialogs, ops, history>>
  <2>1. Event
    BY DEF Capturing, Extract, Photograph, OpenDrawer, CloseDrawer, QuickCapture, QuickTransfer
  <2>2. events' \in Nat
    BY <2>1 DEF Event, InboxTypeOK, HistoryTypes
  <2>3. CASE Extract \/ Photograph
    BY <2>2, <2>3 DEF Extract, Photograph
  <2>4. CASE OpenDrawer \/ CloseDrawer
    BY <2>2, <2>4 DEF OpenDrawer, CloseDrawer
  <2>5. CASE QuickCapture \/ QuickTransfer
    BY <2>2, <2>5 DEF QuickCapture, QuickTransfer
  <2> QED
    BY <2>3, <2>4, <2>5 DEF Capturing
<1>2. ServerTypes' /\ CacheTypes' /\ HistoryTypes'
  BY <1>1, RestTyped
<1>3. busy' \in BOOLEAN /\ drawer' \in [open : BOOLEAN, busy : BOOLEAN]
  BY DEF Capturing, Extract, Photograph, OpenDrawer, CloseDrawer, QuickCapture, QuickTransfer,
     InboxTypeOK, PageTypes
<1>4. PageTypes'
  BY <1>1, <1>3 DEF InboxTypeOK, PageTypes, dialogs
<1>5. \/ captures' = captures
      \/ \E who \in {"inbox", "camera", "drawer", "transfer"}, claim \in BOOLEAN :
           captures' = captures \cup {CaptureBy(who, claim)}
  <2>1. CASE Extract
    BY <2>1 DEF Extract
  <2>2. CASE Photograph
    BY <2>2 DEF Photograph
  <2>3. CASE OpenDrawer \/ CloseDrawer
    BY <2>3 DEF OpenDrawer, CloseDrawer
  <2>4. CASE QuickCapture
    BY <2>4 DEF QuickCapture
  <2>5. CASE QuickTransfer
    BY <2>5 DEF QuickTransfer
  <2> QED
    BY <2>1, <2>2, <2>3, <2>4, <2>5 DEF Capturing
<1>6. ASSUME NEW c \in captures'
      PROVE  c \in CaptureType /\ (c.result = "mark" => c.draft \in Drafts)
  BY <1>5, CaptureByType, InboxAssumption DEF InboxTypeOK, RequestTypes
<1>7. RequestTypes'
  BY <1>1, <1>6 DEF InboxTypeOK, RequestTypes
<1> QED
  BY <1>2, <1>4, <1>7 DEF InboxTypeOK

LEMMA ServeOpType ==
  ASSUME InboxTypeOK, NEW o \in ops, ServeOp(o)
  PROVE  InboxTypeOK'
<1>1. PICK r \in {"ok", "failed", "lost"} :
        /\ IF r = "failed" THEN UNCHANGED <<status, fields>>
           ELSE /\ status' = [status EXCEPT ![o.draft] = Outcome(o.kind)]
                /\ fields' = IF o.kind # "edit" THEN fields
                             ELSE [fields EXCEPT ![o.draft] = o.from]
        /\ ops' = (ops \ {o}) \cup {[o EXCEPT !.result = r]}
  BY DEF ServeOp
<1>2. UNCHANGED <<claims, page, swr, dialogs, busy, captures, drawer, history, events>>
  BY DEF ServeOp
<1>3. o \in OpType /\ (o.kind = "edit" => o.from \in Drafts)
  BY DEF InboxTypeOK, RequestTypes
<1>4. ServerTypes'
  <2>1. o.draft \in Drafts /\ Outcome(o.kind) \in DraftStatuses
    BY <1>3 DEF OpType, Outcome, DraftStatuses
  <2>2. status' \in [Drafts -> DraftStatuses]
    BY <1>1, <2>1 DEF InboxTypeOK, ServerTypes
  <2>3. fields' \in [Drafts -> Drafts]
    BY <1>1, <1>3, <2>1 DEF InboxTypeOK, ServerTypes
  <2> QED
    BY <1>2, <2>2, <2>3 DEF InboxTypeOK, ServerTypes
<1>5. CacheTypes' /\ HistoryTypes'
  BY <1>2 DEF InboxTypeOK, CacheTypes, HistoryTypes, swr, history
<1>6. PageTypes'
  BY <1>2 DEF InboxTypeOK, PageTypes, dialogs
<1>7. RequestTypes'
  <2>1. LET p == [o EXCEPT !.result = r]
        IN  p \in OpType /\ (p.kind = "edit" => p.from \in Drafts)
    BY <1>3 DEF OpType
  <2> QED
    BY <1>1, <1>2, <2>1 DEF InboxTypeOK, RequestTypes
<1> QED
  BY <1>4, <1>5, <1>6, <1>7 DEF InboxTypeOK

Polls == [Keys -> DraftLists \cup {None, Awaited}]

LEMMA PollTypes ==
  ASSUME NEW fs \in Polls
  PROVE  /\ Spoilt(fs) \in Polls
         /\ \A ks, os : Started(fs, ks, Mutating(os)) \in Polls
         /\ \A ks : Started(fs, ks, FALSE) \in Polls
         /\ \A os : Revalidated(fs, os) \in Polls
BY DEF Polls, Spoilt, Started, Revalidated

LEMMA EndOpType ==
  ASSUME InboxTypeOK, NEW o \in ops, EndOp(o)
  PROVE  InboxTypeOK'
<1>1. o \in OpType /\ o.draft \in Drafts /\ o.base \in DraftLists
  BY DEF InboxTypeOK, RequestTypes, OpType
<1>2. UNCHANGED <<server, page, captures, drawer, listed, overlapped, events>>
  BY DEF EndOp
<1>3. ServerTypes'
  BY <1>2 DEF InboxTypeOK, ServerTypes, server
<1>4. CacheTypes'
  <2>1. Result(o) \in DraftLists /\ Rollback(o) \in DraftLists
    BY <1>1 DEF Result, Rollback, Without, DraftLists
  <2>2. cache' \in [Keys -> DraftLists] /\ committed' \in DraftLists \cup {None}
    BY <2>1 DEF EndOp, SettleCache, InboxTypeOK, CacheTypes
  <2>3. polls \in Polls
    BY DEF Polls, InboxTypeOK, CacheTypes
  <2> DEFINE after == IF o.optimistic THEN Spoilt(polls) ELSE polls
  <2>4. after \in Polls
    BY <2>3, PollTypes
  <2>5. polls' = IF o.result = "ok" THEN Revalidated(after, ops \ {o}) ELSE after
    BY DEF EndOp, SettleCache
  <2> HIDE DEF after
  <2>6. polls' \in Polls
    BY <2>4, <2>5, PollTypes
  <2> QED
    BY <2>2, <2>6 DEF CacheTypes, Polls
<1>5. PageTypes'
  BY <1>1, <1>2 DEF EndOp, BusyAfter, InboxTypeOK, PageTypes
<1>6. RequestTypes'
  BY <1>2 DEF EndOp, InboxTypeOK, RequestTypes
<1>7. HistoryTypes'
  BY <1>1, <1>2 DEF EndOp, InboxTypeOK, HistoryTypes
<1> QED
  BY <1>3, <1>4, <1>5, <1>6, <1>7 DEF InboxTypeOK

LEMMA ServeCaptureType ==
  ASSUME InboxTypeOK, NEW c \in captures, ServeCapture(c)
  PROVE  InboxTypeOK'
<1>1. UNCHANGED <<fields, claims, page, swr, dialogs, busy, ops, drawer, history, events>>
  BY DEF ServeCapture
<1>2. c \in CaptureType
  BY DEF InboxTypeOK, RequestTypes
<1>3. status' \in [Drafts -> DraftStatuses]
  BY DEF ServeCapture, Unused, InboxTypeOK, ServerTypes, DraftStatuses
<1>4. ServerTypes' /\ CacheTypes' /\ HistoryTypes'
  BY <1>1, <1>3 DEF InboxTypeOK, ServerTypes, CacheTypes, HistoryTypes, swr, history
<1>5. PageTypes'
  BY <1>1 DEF InboxTypeOK, PageTypes, dialogs
<1>6. \E e \in CaptureType :
        /\ e.result = "mark" => e.draft \in Drafts
        /\ captures' = (captures \ {c}) \cup {e}
  <2>1. CASE \E d \in Unused :
               captures' = (captures \ {c}) \cup
                 {[c EXCEPT !.draft = d, !.result = IF c.claim THEN "mark" ELSE "ok"]}
    <3>1. PICK d \in Drafts :
            captures' = (captures \ {c}) \cup
              {[c EXCEPT !.draft = d, !.result = IF c.claim THEN "mark" ELSE "ok"]}
      BY <2>1 DEF Unused
    <3> DEFINE e == [c EXCEPT !.draft = d, !.result = IF c.claim THEN "mark" ELSE "ok"]
    <3>2. e \in CaptureType /\ e.draft \in Drafts
      BY <1>2 DEF CaptureType
    <3> HIDE DEF e
    <3> QED
      BY <3>1, <3>2 DEF e
  <2>2. CASE captures' = (captures \ {c}) \cup {[c EXCEPT !.result = "failed"]}
    <3> DEFINE e == [c EXCEPT !.result = "failed"]
    <3>1. e \in CaptureType /\ e.result # "mark"
      BY <1>2 DEF CaptureType
    <3>2. captures' = (captures \ {c}) \cup {e}
      BY <2>2
    <3> HIDE DEF e
    <3> QED
      BY <3>1, <3>2
  <2> QED
    BY <2>1, <2>2 DEF ServeCapture
<1>7. RequestTypes'
  BY <1>1, <1>6 DEF InboxTypeOK, RequestTypes
<1> QED
  BY <1>4, <1>5, <1>7 DEF InboxTypeOK

LEMMA ServeTransferType ==
  ASSUME InboxTypeOK, NEW c \in captures, ServeTransfer(c) \/ MarkClaim(c)
  PROVE  InboxTypeOK'
<1>1. UNCHANGED <<status, fields, page, swr, dialogs, busy, ops, drawer, history, events>>
  BY DEF ServeTransfer, MarkClaim, server
<1>2. c \in CaptureType /\ (c.result = "mark" => c.draft \in Drafts)
  BY DEF InboxTypeOK, RequestTypes
<1>3. claims' \subseteq Drafts
  BY <1>2 DEF ServeTransfer, MarkClaim, server, InboxTypeOK, ServerTypes
<1>4. ServerTypes' /\ CacheTypes' /\ HistoryTypes'
  BY <1>1, <1>3 DEF InboxTypeOK, ServerTypes, CacheTypes, HistoryTypes, swr, history
<1>5. PageTypes'
  BY <1>1 DEF InboxTypeOK, PageTypes, dialogs
<1>6. PICK r \in {"ok", "failed"} : captures' = (captures \ {c}) \cup {[c EXCEPT !.result = r]}
  BY DEF ServeTransfer, MarkClaim
<1>7. [c EXCEPT !.result = r] \in CaptureType /\ [c EXCEPT !.result = r].result # "mark"
  BY <1>2 DEF CaptureType
<1>8. RequestTypes'
  BY <1>1, <1>6, <1>7 DEF InboxTypeOK, RequestTypes
<1> QED
  BY <1>4, <1>5, <1>8 DEF InboxTypeOK

LEMMA EndCaptureType ==
  ASSUME InboxTypeOK, NEW c \in captures, EndCapture(c)
  PROVE  InboxTypeOK'
<1>1. UNCHANGED <<server, page, cache, committed, dialogs, ops, history, events>>
  BY DEF EndCapture
<1>2. polls \in Polls /\ Revalidated(polls, ops) \in Polls
  BY PollTypes DEF Polls, InboxTypeOK, CacheTypes
<1>3. polls' \in Polls
  BY <1>2 DEF EndCapture
<1>4. ServerTypes' /\ CacheTypes' /\ HistoryTypes'
  BY <1>1, <1>3 DEF InboxTypeOK, ServerTypes, CacheTypes, HistoryTypes, server, history, Polls
<1>5. drawer' \in [open : BOOLEAN, busy : BOOLEAN]
  <2>1. (drawer.open /\ c.result # "ok") \in BOOLEAN
    OBVIOUS
  <2> DEFINE b == drawer.open /\ c.result # "ok"
  <2>2. drawer' = drawer \/ drawer' = [open |-> b, busy |-> FALSE]
    BY DEF EndCapture
  <2> HIDE DEF b
  <2>3. b \in BOOLEAN
    BY <2>1 DEF b
  <2>4. [open |-> b, busy |-> FALSE] \in [open : BOOLEAN, busy : BOOLEAN]
    BY <2>3
  <2>5. drawer \in [open : BOOLEAN, busy : BOOLEAN]
    BY DEF InboxTypeOK, PageTypes
  <2> QED
    BY <2>2, <2>4, <2>5
<1>6. PageTypes'
  BY <1>1, <1>5 DEF EndCapture, InboxTypeOK, PageTypes, dialogs
<1>7. RequestTypes'
  BY <1>1 DEF EndCapture, InboxTypeOK, RequestTypes
<1> QED
  BY <1>4, <1>6, <1>7 DEF InboxTypeOK

LEMMA ElsewhereType ==
  ASSUME InboxTypeOK, Elsewhere
  PROVE  InboxTypeOK'
<1>1. UNCHANGED <<fields, claims, page, swr, dialogs, busy, ops, captures, drawer, history>>
  BY DEF Elsewhere
<1>2. status' \in [Drafts -> DraftStatuses] /\ events' \in Nat
  BY DEF Elsewhere, Unused, Pending, Event, InboxTypeOK, ServerTypes, HistoryTypes, DraftStatuses
<1>3. ServerTypes' /\ CacheTypes' /\ HistoryTypes'
  BY <1>1, <1>2 DEF InboxTypeOK, ServerTypes, CacheTypes, HistoryTypes, swr, history
<1>4. PageTypes' /\ RequestTypes'
  BY <1>1 DEF InboxTypeOK, PageTypes, RequestTypes, dialogs
<1> QED
  BY <1>3, <1>4 DEF InboxTypeOK

LEMMA FetchingType ==
  ASSUME InboxTypeOK, NEW k \in Keys, Fetching(k)
  PROVE  InboxTypeOK'
<1>1. UNCHANGED <<server, page, committed, dialogs, busy, ops, captures, drawer, done, overlapped>>
  BY DEF Fetching, Poll, Answered, TakeAnswer, history
<1>2. polls' \in Polls
  <2>1. polls \in Polls /\ Started(polls, {k}, FALSE) \in Polls
    BY PollTypes DEF Polls, InboxTypeOK, CacheTypes
  <2>2. Pending \in DraftLists
    BY DEF Pending, DraftLists
  <2> QED
    BY <2>1, <2>2 DEF Fetching, Poll, Answered, TakeAnswer, Polls
<1>3. cache' \in [Keys -> DraftLists] /\ listed' \subseteq Drafts /\ events' \in Nat
  <2>1. CASE TakeAnswer(k)
    <3>1. polls[k] \in DraftLists
      BY <2>1 DEF TakeAnswer, InboxTypeOK, CacheTypes
    <3>2. polls[k] \subseteq Drafts
      BY <3>1 DEF DraftLists
    <3> QED
      BY <2>1, <3>1, <3>2 DEF TakeAnswer, InboxTypeOK, CacheTypes, HistoryTypes
  <2>2. CASE Poll(k) \/ Answered(k)
    <3>1. cache' = cache /\ listed' = listed
      BY <2>2 DEF Poll, Answered, history
    <3>2. events' \in Nat
      <4>1. events \in Nat
        BY DEF InboxTypeOK, HistoryTypes
      <4>2. CASE Poll(k)
        BY <4>1, <4>2 DEF Poll
      <4>3. CASE Answered(k)
        <5>1. events' = events \/ Event
          BY <4>3 DEF Answered
        <5> QED
          BY <4>1, <5>1 DEF Event
      <4> QED
        BY <2>2, <4>2, <4>3
    <3> QED
      BY <3>1, <3>2 DEF InboxTypeOK, CacheTypes, HistoryTypes
  <2> QED
    BY <2>1, <2>2 DEF Fetching
<1>4. ServerTypes' /\ CacheTypes' /\ HistoryTypes'
  BY <1>1, <1>2, <1>3 DEF InboxTypeOK, ServerTypes, CacheTypes, HistoryTypes, server, Polls
<1>5. PageTypes' /\ RequestTypes'
  BY <1>1 DEF InboxTypeOK, PageTypes, RequestTypes, dialogs
<1> QED
  BY <1>4, <1>5 DEF InboxTypeOK

LEMMA StutterType == ASSUME InboxTypeOK, UNCHANGED inboxVars PROVE InboxTypeOK'
BY DEF inboxVars, server, swr, dialogs, history, InboxTypeOK, ServerTypes, CacheTypes, PageTypes,
   RequestTypes, HistoryTypes

LEMMA InboxTypeStep == ASSUME InboxTypeOK, [InboxNext]_inboxVars PROVE InboxTypeOK'
<1>1. CASE InboxInputs
  BY <1>1, InboxInputType
<1>2. CASE Approve \/ KeepBoth \/ ConfirmReject \/ SubmitEdit
  BY <1>2, ReviewingResolves, ResolvingType
<1>3. CASE Decide
  BY <1>3, DecideType
<1>4. CASE Correct
  BY <1>4, CorrectType
<1>5. CASE Capturing
  BY <1>5, CapturingType
<1>6. CASE \E o \in ops : ServeOp(o) \/ EndOp(o)
  BY <1>6, ServeOpType, EndOpType
<1>7. CASE \E c \in captures : ServeCapture(c) \/ ServeTransfer(c) \/ MarkClaim(c) \/ EndCapture(c)
  BY <1>7, ServeCaptureType, ServeTransferType, EndCaptureType
<1>8. CASE Elsewhere
  BY <1>8, ElsewhereType
<1>9. CASE \E k \in Keys : Fetching(k)
  BY <1>9, FetchingType
<1>10. CASE UNCHANGED inboxVars
  BY <1>10, StutterType
<1> QED
  BY <1>1, <1>2, <1>3, <1>4, <1>5, <1>6, <1>7, <1>8, <1>9, <1>10
  DEF InboxNext, Reviewing, Requests, InboxInputs

--------------------------------------------------------------------------------
(* The invariant.                                                          *)

InboxRest == OneMutation /\ ShownIsKept /\ DoneIsFinal /\ DoneStaysAway
InboxIInv == InboxTypeOK /\ InboxRest

\* A list is neither None nor Asked.
LEMMA ListsApart == \A S \in DraftLists : S # None /\ S # Awaited
BY InboxAssumption DEF DraftLists

LEMMA LastMutates == OneMutation /\ Lasts # {} => Mutating(ops)
BY DEF OneMutation, Lasts, Mutating

LEMMA InboxInitRest == InboxInit => InboxRest
<1> SUFFICES ASSUME InboxInit PROVE InboxRest
  OBVIOUS
<1>1. OneMutation
  BY DEF InboxInit, OneMutation, Lasts
<1>2. ShownIsKept /\ DoneIsFinal /\ DoneStaysAway
  BY DEF InboxInit, ShownIsKept, DoneIsFinal, DoneStaysAway, Keys
<1> QED
  BY <1>1, <1>2 DEF InboxRest

\* A step that leaves the inbox's data and the mutations alone: at most it asks
\* for the list while none is running, or settles a draft from elsewhere.
Mild ==
  /\ cache'["inbox"] = cache["inbox"]
  /\ UNCHANGED <<committed, ops, done, listed, overlapped>>
  /\ Final \subseteq Final'
  /\ \/ polls'["inbox"] \in {polls["inbox"], None}
     \/ polls'["inbox"] = Awaited /\ ~Mutating(ops)

LEMMA MildStep ==
  ASSUME InboxRest, Mild
  PROVE  InboxRest'
<1>1. Base' = Base /\ Lasts' = Lasts
  BY DEF Mild, Base, Lasts
<1>2. Lasts # {} => polls'["inbox"] \in {polls["inbox"], None}
  BY LastMutates DEF Mild, InboxRest
<1>3. OneMutation'
  BY <1>1, <1>2 DEF InboxRest, Mild, OneMutation
<1>4. ShownIsKept' /\ DoneStaysAway'
  BY <1>1 DEF InboxRest, Mild, ShownIsKept, DoneStaysAway
<1>5. DoneIsFinal'
  BY DEF InboxRest, Mild, DoneIsFinal
<1> QED
  BY <1>3, <1>4, <1>5 DEF InboxRest

LEMMA FinalGrows ==
  ASSUME UNCHANGED status PROVE Final \subseteq Final'
BY DEF Final

LEMMA QuietMild ==
  ASSUME UNCHANGED <<server, swr, ops, history>>
  PROVE  Mild
BY DEF Mild, Final, server, swr, history

LEMMA AsksMild ==
  ASSUME InboxTypeOK,
         \/ polls' = polls \/ polls' = Revalidated(polls, ops)
         \/ \E k \in Keys : ~(k = "inbox" /\ Mutating(ops)) /\ polls' = Started(polls, {k}, FALSE)
  PROVE  \/ polls'["inbox"] \in {polls["inbox"], None}
         \/ polls'["inbox"] = Awaited /\ ~Mutating(ops)
<1>1. "inbox" \in Keys
  BY DEF Keys
<1>2. CASE polls' = Revalidated(polls, ops)
  BY <1>1, <1>2 DEF Revalidated, Started
<1>3. CASE \E k \in Keys : ~(k = "inbox" /\ Mutating(ops)) /\ polls' = Started(polls, {k}, FALSE)
  BY <1>1, <1>3 DEF Started
<1> QED
  BY <1>2, <1>3

LEMMA InputMild ==
  ASSUME InboxInputs \/ Correct \/ Capturing
  PROVE  Mild
<1>1. CASE InboxInputs
  BY <1>1, QuietMild DEF InboxInputs, Select, OpenForm, AskReject, CloseDialog, Toggle, DialogsOnly
<1>2. CASE Correct
  BY <1>2, QuietMild DEF Correct
<1>3. CASE Extract \/ Photograph \/ OpenDrawer
  BY <1>3, QuietMild DEF Extract, Photograph, OpenDrawer
<1>4. CASE CloseDrawer \/ QuickCapture \/ QuickTransfer
  BY <1>4, QuietMild DEF CloseDrawer, QuickCapture, QuickTransfer
<1> QED
  BY <1>1, <1>2, <1>3, <1>4 DEF Capturing

LEMMA CaptureMild ==
  ASSUME InboxTypeOK, NEW c \in captures,
         ServeCapture(c) \/ ServeTransfer(c) \/ MarkClaim(c) \/ EndCapture(c)
  PROVE  Mild
<1>1. CASE ServeCapture(c)
  <2>1. UNCHANGED <<swr, ops, history>>
    BY <1>1 DEF ServeCapture
  <2>2. Final \subseteq Final'
    BY <1>1 DEF ServeCapture, Unused, Final, InboxTypeOK, ServerTypes
  <2> QED
    BY <2>1, <2>2 DEF Mild, swr, history
<1>2. CASE ServeTransfer(c)
  BY <1>2, QuietMild DEF ServeTransfer
<1>3. CASE MarkClaim(c)
  BY <1>3 DEF MarkClaim, Mild, Final, swr, history
<1>4. CASE EndCapture(c)
  <2>1. UNCHANGED <<server, cache, committed, ops, history>>
    BY <1>4 DEF EndCapture
  <2>2. \/ polls'["inbox"] \in {polls["inbox"], None}
        \/ polls'["inbox"] = Awaited /\ ~Mutating(ops)
    BY <1>4, AsksMild DEF EndCapture
  <2> QED
    BY <2>1, <2>2 DEF Mild, Final, server, history
<1> QED
  BY <1>1, <1>2, <1>3, <1>4

LEMMA ElsewhereMild ==
  ASSUME InboxTypeOK, Elsewhere
  PROVE  Mild
<1>1. UNCHANGED <<swr, ops, history>>
  BY DEF Elsewhere
<1>2. Final \subseteq Final'
  BY DEF Elsewhere, Unused, Pending, Final, InboxTypeOK, ServerTypes
<1> QED
  BY <1>1, <1>2 DEF Mild, swr, history

LEMMA FetchingStep ==
  ASSUME InboxIInv, NEW k \in Keys, Fetching(k)
  PROVE  InboxRest'
<1>1. InboxTypeOK /\ InboxRest /\ polls \in Polls /\ cache \in [Keys -> DraftLists] /\ "inbox" \in Keys
  BY DEF InboxIInv, InboxTypeOK, CacheTypes, Polls, Keys
<1>2. UNCHANGED <<server, committed, ops, done, overlapped>>
  BY DEF Fetching, Poll, Answered, TakeAnswer, history
<1>3. Final' = Final /\ Lasts' = Lasts
  BY <1>2 DEF Final, server, Lasts
<1>4. Awaited # None
  BY InboxAssumption
<1>5. CASE Poll(k)
  <2>1. \/ polls'["inbox"] \in {polls["inbox"], None}
        \/ polls'["inbox"] = Awaited /\ ~Mutating(ops)
    BY <1>1, <1>5, AsksMild DEF Poll
  <2>2. cache' = cache /\ listed' = listed
    BY <1>5 DEF Poll, history
  <2> QED
    BY <1>1, <1>2, <1>3, <2>1, <2>2, MildStep DEF Mild
<1>6. CASE Answered(k)
  <2>1. cache' = cache /\ listed' = listed
    BY <1>6 DEF Answered, history
  <2>2. polls' = [polls EXCEPT ![k] = Pending] \/ polls' = [polls EXCEPT ![k] = None]
    BY <1>6 DEF Answered
  <2>3. CASE k # "inbox" \/ polls' = [polls EXCEPT ![k] = None]
    <3>1. polls'["inbox"] \in {polls["inbox"], None}
      BY <1>1, <2>2, <2>3 DEF Polls
    <3> QED
      BY <1>1, <1>2, <1>3, <2>1, <3>1, MildStep DEF Mild
  <2>4. CASE k = "inbox" /\ polls' = [polls EXCEPT ![k] = Pending]
    <3>1. polls["inbox"] = Awaited /\ polls'["inbox"] = Pending
      BY <1>1, <1>6, <2>4 DEF Answered, Polls
    <3>2. Lasts = {}
      BY <1>1, <1>4, <3>1 DEF InboxRest, OneMutation
    <3>3. OneMutation'
      BY <1>1, <1>2, <1>3, <3>2 DEF InboxRest, OneMutation
    <3>4. ShownIsKept' /\ DoneStaysAway'
      BY <1>1, <1>2, <2>1 DEF InboxRest, ShownIsKept, DoneStaysAway, Base
    <3>5. done \cap Pending = {}
      BY <1>1 DEF InboxRest, DoneIsFinal, Final, Pending
    <3>6. DoneIsFinal'
      BY <1>1, <1>2, <1>3, <3>1, <3>5 DEF InboxRest, DoneIsFinal
    <3> QED
      BY <3>3, <3>4, <3>6 DEF InboxRest
  <2> QED
    BY <2>2, <2>3, <2>4
<1>7. CASE TakeAnswer(k)
  <2>1. CASE k # "inbox"
    <3>1. /\ cache'["inbox"] = cache["inbox"] /\ listed' = listed
          /\ polls'["inbox"] = polls["inbox"]
      BY <1>1, <1>7, <2>1 DEF TakeAnswer, Polls
    <3> QED
      BY <1>1, <1>2, <1>3, <3>1, MildStep DEF Mild
  <2>2. CASE k = "inbox"
    <3>1. /\ polls["inbox"] \notin {None, Awaited}
          /\ cache'["inbox"] = polls["inbox"] /\ listed' = polls["inbox"]
          /\ polls'["inbox"] = None
      BY <1>1, <1>7, <2>2 DEF TakeAnswer, Polls
    <3>2. Lasts = {} /\ committed = None
      BY <1>1, <3>1 DEF InboxRest, OneMutation
    <3>3. Base' = polls["inbox"]
      BY <1>2, <3>1, <3>2 DEF Base
    <3>4. OneMutation'
      BY <1>1, <1>2, <1>3, <3>2 DEF InboxRest, OneMutation
    <3>5. ShownIsKept'
      BY <3>1, <3>3 DEF ShownIsKept
    <3>6. done \cap polls["inbox"] = {}
      BY <1>1, <3>1 DEF InboxRest, DoneIsFinal
    <3>7. DoneStaysAway'
      BY <1>1, <1>2, <3>3, <3>6 DEF InboxRest, DoneStaysAway
    <3>8. DoneIsFinal'
      BY <1>1, <1>2, <1>3, <3>1 DEF InboxRest, DoneIsFinal
    <3> QED
      BY <3>4, <3>5, <3>7, <3>8 DEF InboxRest
  <2> QED
    BY <2>1, <2>2
<1> QED
  BY <1>5, <1>6, <1>7 DEF Fetching

LEMMA DecideStep ==
  ASSUME InboxIInv, Decide
  PROVE  InboxRest'
<1>1. UNCHANGED <<server, swr, history>> /\ InboxRest
  BY DEF Decide, InboxIInv
<1>2. PICK m : /\ ops' = ops \cup {m}
               /\ ~m.optimistic /\ ~m.last /\ m.result = None
  <2>1. PICK kind : ops' = ops \cup {[kind |-> kind, draft |-> selectedId, from |-> None,
                          income |-> FALSE, base |-> {}, optimistic |-> FALSE,
                          last |-> FALSE, result |-> None, n |-> events]}
    BY DEF Decide
  <2> DEFINE m == [kind |-> kind, draft |-> selectedId, from |-> None,
                 income |-> FALSE, base |-> {}, optimistic |-> FALSE,
                 last |-> FALSE, result |-> None, n |-> events]
  <2>2. ~m.optimistic /\ ~m.last /\ m.result = None
    OBVIOUS
  <2>3. ops' = ops \cup {m}
    BY <2>1
  <2> HIDE DEF m
  <2> QED
    BY <2>2, <2>3
<1>3. Lasts' = Lasts /\ Base' = Base /\ Final' = Final
  BY <1>1, <1>2 DEF Lasts, Base, Final, swr, server
<1>4. OneMutation'
  BY <1>1, <1>3 DEF InboxRest, OneMutation, swr
<1>5. ShownIsKept'
  BY <1>1, <1>3 DEF InboxRest, ShownIsKept, history
<1>6. DoneStaysAway'
  BY <1>1, <1>2, <1>3 DEF InboxRest, DoneStaysAway, history
<1>7. DoneIsFinal'
  BY <1>1, <1>2, <1>3, InboxAssumption DEF InboxRest, DoneIsFinal, history, swr
<1> QED
  BY <1>4, <1>5, <1>6, <1>7 DEF InboxRest

LEMMA ResolvingStep ==
  ASSUME InboxIInv, Resolving
  PROVE  InboxRest'
<1>1. InboxTypeOK /\ InboxRest /\ cache \in [Keys -> DraftLists] /\ polls \in Polls /\ "inbox" \in Keys
  BY DEF InboxIInv, InboxTypeOK, CacheTypes, Polls, Keys
<1>2. PICK m \in OpType :
        /\ m.base = Base /\ m.optimistic /\ m.last /\ m.result = None
        /\ cache' = [cache EXCEPT !["inbox"] = Without(Base, m.draft)]
        /\ committed' = Base
        /\ polls' = Spoilt(polls)
        /\ ops' = {[o EXCEPT !.last = FALSE] : o \in ops} \cup {m}
        /\ overlapped' = (overlapped \/ ops # {})
        /\ UNCHANGED <<server, done, listed>>
  BY <1>1, ResolvingIs
<1>3. \A p \in ops' : p = m \/ \E o \in ops : ~p.last /\ p.result = o.result /\ p.draft = o.draft
  <2>1. ASSUME NEW o \in ops
        PROVE  LET p == [o EXCEPT !.last = FALSE]
               IN  ~p.last /\ p.result = o.result /\ p.draft = o.draft
    <3>1. o \in OpType
      BY <1>1 DEF InboxTypeOK, RequestTypes
    <3> QED
      BY <3>1 DEF OpType
  <2>2. SUFFICES ASSUME NEW p \in ops', p # m
                 PROVE  \E o \in ops : ~p.last /\ p.result = o.result /\ p.draft = o.draft
    OBVIOUS
  <2>3. PICK o \in ops : p = [o EXCEPT !.last = FALSE]
    BY <1>2, <2>2
  <2> QED
    BY <2>1, <2>3
<1>4. Lasts' = {m}
  BY <1>2, <1>3 DEF Lasts
<1>5. Base \in DraftLists /\ Base # None /\ committed' = Base /\ Base' = Base
  BY <1>1, <1>2, BaseType, ListsApart DEF Base
<1>6. cache'["inbox"] = Without(Base, m.draft) /\ polls'["inbox"] = None
  BY <1>1, <1>2 DEF Spoilt, Polls
<1>7. OneMutation'
  BY <1>2, <1>4, <1>5, <1>6 DEF OneMutation
<1>8. ShownIsKept'
  BY <1>1, <1>2, <1>5 DEF InboxRest, ShownIsKept
<1>9. DoneIsFinal'
  <2>1. Final' = Final
    BY <1>2 DEF Final, server
  <2>2. m.result # "ok"
    BY <1>2, InboxAssumption
  <2> QED
    BY <1>1, <1>2, <1>3, <1>6, <2>1, <2>2 DEF InboxRest, DoneIsFinal
<1>10. DoneStaysAway'
  BY <1>1, <1>2, <1>5 DEF InboxRest, DoneStaysAway
<1> QED
  BY <1>7, <1>8, <1>9, <1>10 DEF InboxRest

LEMMA ServeOpStep ==
  ASSUME InboxIInv, NEW o \in ops, ServeOp(o)
  PROVE  InboxRest'
<1>1. InboxTypeOK /\ InboxRest /\ o \in OpType /\ status \in [Drafts -> DraftStatuses]
  BY DEF InboxIInv, InboxTypeOK, RequestTypes, ServerTypes
<1>2. PICK r \in {"ok", "failed", "lost"} :
        /\ IF r = "failed" THEN status' = status
           ELSE status' = [status EXCEPT ![o.draft] = Outcome(o.kind)]
        /\ ops' = (ops \ {o}) \cup {[o EXCEPT !.result = r]}
  BY DEF ServeOp
<1>3. UNCHANGED <<swr, history>>
  BY DEF ServeOp
<1> DEFINE p == [o EXCEPT !.result = r]
<1>4. /\ p.draft = o.draft /\ p.base = o.base /\ p.last = o.last
      /\ p.optimistic = o.optimistic /\ p.result = r
  BY <1>1 DEF OpType
<1>5. ops' = (ops \ {o}) \cup {p}
  BY <1>2
<1> HIDE DEF p
<1>6. Final \subseteq Final' /\ (r = "ok" => o.draft \in Final')
  <2>1. o.draft \in Drafts
    BY <1>1 DEF OpType
  <2> QED
    BY <1>1, <1>2, <2>1 DEF Final, Outcome
<1>7. OneMutation'
  <2>1. CASE o.last
    <3>1. Lasts = {o} /\ Lasts' = {p}
      BY <1>1, <1>4, <1>5, <2>1 DEF InboxRest, OneMutation, Lasts
    <3> QED
      BY <1>1, <1>3, <1>4, <3>1 DEF InboxRest, OneMutation, swr
  <2>2. CASE ~o.last
    <3>1. Lasts' = Lasts
      BY <1>4, <1>5, <2>2 DEF Lasts
    <3> QED
      BY <1>1, <1>3, <3>1 DEF InboxRest, OneMutation, swr
  <2> QED
    BY <2>1, <2>2
<1>8. ShownIsKept'
  BY <1>1, <1>3 DEF InboxRest, ShownIsKept, Base, swr, history
<1>9. DoneStaysAway'
  BY <1>1, <1>3, <1>4, <1>5 DEF InboxRest, DoneStaysAway, Base, swr, history
<1>10. DoneIsFinal'
  BY <1>1, <1>3, <1>4, <1>5, <1>6 DEF InboxRest, DoneIsFinal, swr, history
<1> QED
  BY <1>7, <1>8, <1>9, <1>10 DEF InboxRest

LEMMA EndOpStep ==
  ASSUME InboxIInv, NEW o \in ops, EndOp(o)
  PROVE  InboxRest'
<1>1. InboxTypeOK /\ InboxRest /\ cache \in [Keys -> DraftLists] /\ polls \in Polls /\ "inbox" \in Keys
  BY DEF InboxIInv, InboxTypeOK, CacheTypes, Polls, Keys
<1>2. /\ UNCHANGED <<server, listed, overlapped>> /\ ops' = ops \ {o}
      /\ done' = IF o.optimistic /\ o.result = "ok" THEN done \cup {o.draft} ELSE done
  BY DEF EndOp
<1>3. Final' = Final /\ Lasts' = Lasts \ {o} /\ Lasts' = {p \in ops \ {o} : p.last}
  BY <1>2 DEF Final, server, Lasts
<1>4. /\ o.optimistic => polls'["inbox"] \in {None, Awaited}
      /\ ~o.optimistic => polls'["inbox"] \in {None, Awaited, polls["inbox"]}
      /\ Mutating(ops \ {o}) => polls'["inbox"] \in {None, polls["inbox"]}
  BY <1>1 DEF EndOp, SettleCache, Revalidated, Started, Spoilt, Polls
<1>5. DoneIsFinal'
  <2>1. done' \subseteq Final
    BY <1>1, <1>2 DEF InboxRest, DoneIsFinal
  <2>2. polls'["inbox"] \notin {None, Awaited} => done' \cap polls'["inbox"] = {}
    BY <1>1, <1>2, <1>4 DEF InboxRest, DoneIsFinal
  <2> QED
    BY <1>1, <1>2, <1>3, <2>1, <2>2 DEF InboxRest, DoneIsFinal
<1>6. CASE o.last
  <2>1. o.optimistic /\ Lasts = {o} /\ o \in Lasts
    BY <1>1, <1>6 DEF InboxRest, OneMutation, Lasts
  <2>2. committed = o.base /\ committed # None /\ Base = o.base
    BY <1>1, <2>1 DEF InboxRest, OneMutation, Base
  <2>3. /\ committed' = None
        /\ cache'["inbox"] = IF o.result = "ok" THEN Result(o) ELSE Rollback(o)
    BY <1>1, <1>6, <2>1 DEF EndOp, SettleCache
  <2>4. Base' = IF o.result = "ok" THEN Base \ {o.draft} ELSE Base
    BY <2>2, <2>3 DEF Base, Result, Rollback, Without
  <2>5. Lasts' = {}
    BY <1>3, <2>1
  <2>6. OneMutation'
    BY <2>3, <2>5 DEF OneMutation
  <2>7. ShownIsKept'
    BY <1>1, <1>2, <2>1, <2>4 DEF InboxRest, ShownIsKept
  <2>8. DoneStaysAway'
    BY <1>1, <1>2, <2>1, <2>4 DEF InboxRest, DoneStaysAway
  <2> QED
    BY <1>5, <2>6, <2>7, <2>8 DEF InboxRest
<1>7. CASE ~o.last
  <2>1. cache' = cache /\ committed' = committed /\ Lasts' = Lasts /\ Base' = Base
    BY <1>3, <1>7 DEF EndOp, SettleCache, Base, Lasts
  <2>2. Lasts # {} => polls'["inbox"] = None
    <3>1. Lasts # {} => Mutating(ops \ {o})
      BY <1>1, <1>3, <2>1 DEF InboxRest, OneMutation, Mutating, Lasts
    <3> QED
      BY <1>1, <1>4, <3>1 DEF InboxRest, OneMutation
  <2>3. OneMutation'
    BY <1>1, <2>1, <2>2 DEF InboxRest, OneMutation
  <2>4. ShownIsKept'
    BY <1>1, <1>2, <2>1 DEF InboxRest, ShownIsKept
  <2>5. DoneStaysAway'
    BY <1>1, <1>2, <1>7, <2>1 DEF InboxRest, DoneStaysAway
  <2> QED
    BY <1>5, <2>3, <2>4, <2>5 DEF InboxRest
<1> QED
  BY <1>6, <1>7

LEMMA InboxStepRest == ASSUME InboxIInv, [InboxNext]_inboxVars PROVE InboxRest'
<1>1. InboxTypeOK /\ InboxRest
  BY DEF InboxIInv
<1>2. CASE InboxInputs \/ Correct \/ Capturing
  BY <1>1, <1>2, InputMild, MildStep
<1>3. CASE Approve \/ KeepBoth \/ ConfirmReject \/ SubmitEdit
  BY <1>1, <1>3, ReviewingResolves, ResolvingStep
<1>4. CASE Decide
  BY <1>4, DecideStep
<1>5. CASE \E o \in ops : ServeOp(o) \/ EndOp(o)
  BY <1>5, ServeOpStep, EndOpStep
<1>6. CASE \E c \in captures : ServeCapture(c) \/ ServeTransfer(c) \/ MarkClaim(c) \/ EndCapture(c)
  BY <1>1, <1>6, CaptureMild, MildStep
<1>7. CASE Elsewhere
  BY <1>1, <1>7, ElsewhereMild, MildStep
<1>8. CASE \E k \in Keys : Fetching(k)
  BY <1>8, FetchingStep
<1>9. CASE UNCHANGED inboxVars
  BY <1>1, <1>9, QuietMild, MildStep DEF inboxVars
<1> QED
  BY <1>2, <1>3, <1>4, <1>5, <1>6, <1>7, <1>8, <1>9
  DEF InboxNext, Reviewing, Requests, InboxInputs

--------------------------------------------------------------------------------
(* The results.                                                            *)

\* The inductive invariant always holds: the initial state has it and every step
\* of the page, its requests and the server keeps it.
THEOREM InboxInductive == InboxSpec => []InboxIInv
<1>1. InboxInit => InboxIInv
  BY InboxTypeInit, InboxInitRest DEF InboxIInv
<1>2. InboxIInv /\ [InboxNext]_inboxVars => InboxIInv'
  BY InboxTypeStep, InboxStepRest DEF InboxIInv
<1> QED
  BY <1>1, <1>2, PTL DEF InboxSpec

\* Every part has its type: the client cache, the mutations under way, the
\* captures, the dialogs and the drafts of the server.
THEOREM InboxTypeCorrect == InboxSpec => []InboxTypeOK
<1>1. InboxIInv => InboxTypeOK
  BY DEF InboxIInv
<1> QED
  BY <1>1, InboxInductive, PTL

\* Optimistic removal: a draft this browser has approved, rejected or saved does
\* not come back, whatever polls and rollbacks bring older data, unless two saves
\* of the edit form overlapped.
THEOREM SettledStaysAwayCorrect == InboxSpec => []SettledStaysAway
<1>1. InboxIInv => SettledStaysAway
  BY DEF InboxIInv, InboxRest, OneMutation, DoneStaysAway, SettledStaysAway, Base, Without
<1> QED
  BY <1>1, InboxInductive, PTL

\* Rollback: with no mutation under way, a draft that was listed and was not
\* settled is listed, though any number of requests failed.
THEOREM UnsettledComesBackCorrect == InboxSpec => []UnsettledComesBack
<1>1. InboxIInv => UnsettledComesBack
  <2> SUFFICES ASSUME InboxIInv, ~\E o \in ops : o.optimistic
               PROVE  listed \ done \subseteq cache["inbox"]
    BY DEF UnsettledComesBack
  <2>1. Lasts = {} /\ committed = None
    BY DEF InboxIInv, InboxRest, OneMutation, Lasts
  <2> QED
    BY <2>1 DEF InboxIInv, InboxRest, ShownIsKept, Base
<1> QED
  BY <1>1, InboxInductive, PTL
================================================================================
