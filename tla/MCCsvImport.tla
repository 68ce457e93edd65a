------------------------------ MODULE MCCsvImport ------------------------------
(***************************************************************************)
(* Instances of CsvImport for TLC.                                         *)
(***************************************************************************)
EXTENDS CsvImport

\* The name of the second wallet has a comma and a quote in it.
TwoWallets == << [id |-> "w1", name |-> <<"x">>],
                 [id |-> "w2", name |-> <<"x", Comma, Quote>>] >>
OneCategory == << [id |-> "c1", name |-> <<"food">>] >>

\* ReadsBack is checked, and proved, under this.
ASSUME NamesAreToldApart == ToldApart(Wallets) /\ ToldApart(Categories)

Tx(merchant, amount, type, wallet, category, status, note) ==
  [date |-> "date", merchant |-> merchant, amount |-> amount, type |-> type,
   wallet |-> wallet, category |-> category, status |-> status, note |-> note]

\* Merchants of up to two characters and some longer ones, whole and broken
\* amounts, the wallets of the page and one it does not know.
Merchants ==
  BoundedSeq({"x", Comma, Quote, "\n"}, 2)
    \cup {<<" ", "x">>, <<"x", "\r", "\n", " ">>, <<Quote, Quote, Comma, Quote>>}
Plain(m) == Tx(m, 50, "expense", "w2", None, "pending", <<>>)

Exports ==
  {<<Plain(m)>> : m \in Merchants}
    \cup { << Plain(<<Quote>>), Tx(<<"x">>, 15, "income", "w9", "c1", "approved", <<"x">>) >>,
           << Tx(<<>>, 90, "transfer", "w1", "c1", "approved", <<"\r", "x">>), Plain(<<"x">>) >> }

Typed(lines) == [text |-> FileOf(lines), txs |-> None]

\* The template; a file without titles and with bad cells; the summary of the
\* analysis page; an Indonesian amount; nothing at all.
MCFiles ==
  {[text |-> ExportedFile(txs), txs |-> txs] : txs \in Exports}
    \cup { [text |-> Template, txs |-> None],
           Typed(<< << <<"?">>, <<>>, <<"5">>, <<>>, <<"x">> >>,
                    << <<>>, <<>>, <<"x">>, <<>>, <<"x">> >>,
                    << <<>>, <<>>, <<"0">>, <<>>, <<"x">> >>,
                    << <<>>, <<>>, <<"Rp", " ", "1", ".", "5", "0", Comma, "5">>, <<"transfer">>, <<"w2">> >>,
                    << <<>>, <<>>, <<Comma, "5">>, <<"adjustment">>, <<"y">>, <<>>, <<"needs_review">> >>,
                    << <<>>, <<>>, <<"7">>, <<"income">>, <<>>, <<>>, <<"rejected">> >> >>),
           [text |-> SummaryFile(<<90, 50, 40>>,
                       << [name |-> <<"food">>, amount |-> 50] >>, <<>>), txs |-> None],
           [text |-> <<>>, txs |-> None] }
================================================================================
