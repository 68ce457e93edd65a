----------------------------- MODULE MCGmailSync -----------------------------
(***************************************************************************)
(* Instances of GmailSync for TLC.                                         *)
(***************************************************************************)
EXTENDS GmailSync, TLC

CONSTANTS p1, p2, w1, w2, a1, a2

MCProcs == {p1, p2}
OneWallet == {w1}
TwoWallets == {w1, w2}
OneAccount == {a1}
TwoAccounts == {a1, a2}

Is(class, to) == [class |-> class, to |-> to]

\* Receipts of the bank and of a provider, and a top-up whose target is none
\* of the owner's wallets; the first are foreign to a row that is configured
\* with the account a2.
OwnOrForeign == {Is("bifast", a1), Is("provider", a1), Is("topup", a1)}
\* Receipts, some of which the parser rejects, other mail of the bank, and spam.
ReceiptsAndNoise ==
  {Is("bifast", a1), Is("garbled", a1), Is("noise", a1), Is("spam", a1)}

\* Three receipts; noise between two of them, which only the history lists;
\* one the parser rejects, one it does not and one that went to spam.
Mailboxes ==
  LET r == Is("bifast", a1)
      ThreeOf(a, b, c) == 2 :> a @@ 3 :> b @@ 4 :> c
  IN  {ThreeOf(r, r, r), ThreeOf(r, Is("noise", a1), r),
       ThreeOf(Is("garbled", a1), r, Is("spam", a1))}

MailboxInit == mail \in Mailboxes /\ Init
MailboxSpec == MailboxInit /\ [][Next]_vars /\ Fairness

ProcSymmetry == Permutations(MCProcs)
=============================================================================
