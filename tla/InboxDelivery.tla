---------------------------- MODULE InboxDelivery ----------------------------
(***************************************************************************)
(* What the owner may rely on, whoever does the work: a message becomes at *)
(* most one draft transaction, a message that was handled stays handled,   *)
(* and the integration only acknowledges, that is never looks at again, a  *)
(* message that is handled or that nobody is owed.                         *)
(***************************************************************************)
EXTENDS Sequences

CONSTANTS Msg, Wallets

VARIABLES
  drafts,    \* wallets of the drafts created from each message
  handled,   \* messages with a durable outcome
  acked,     \* messages the sync will not ask Gmail for again
  owed       \* receipts the owner still wants in the inbox

vars == <<drafts, handled, acked, owed>>

Init ==
  /\ drafts = [m \in Msg |-> <<>>]
  /\ handled = {}
  /\ acked = {}
  /\ owed \in SUBSET Msg

Import(m, w) ==
  /\ drafts[m] = <<>>
  /\ drafts' = [drafts EXCEPT ![m] = <<w>>]
  /\ handled' = handled \cup {m}
  /\ UNCHANGED <<acked, owed>>

Dismiss(m) ==
  /\ drafts[m] = <<>>
  /\ handled' = handled \cup {m}
  /\ UNCHANGED <<drafts, acked, owed>>

Acknowledge(more) ==
  /\ more \cap owed \subseteq handled
  /\ acked' = acked \cup more
  /\ UNCHANGED <<drafts, handled, owed>>

\* A disconnect forgets the boundary; a later activation draws a new one.
Forget ==
  /\ acked' = {}
  /\ UNCHANGED <<drafts, handled, owed>>

Withdraw(m) ==
  /\ owed' = owed \ {m}
  /\ UNCHANGED <<drafts, handled, acked>>

Next ==
  \/ \E m \in Msg, w \in Wallets : Import(m, w)
  \/ \E m \in Msg : Dismiss(m)
  \/ \E more \in SUBSET Msg : Acknowledge(more)
  \/ Forget
  \/ \E m \in Msg : Withdraw(m)

Spec == Init /\ [][Next]_vars

=============================================================================
