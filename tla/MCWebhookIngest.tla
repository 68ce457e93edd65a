--------------------------- MODULE MCWebhookIngest ---------------------------
(***************************************************************************)
(* Instances of WebhookIngest for TLC.                                     *)
(***************************************************************************)
EXTENDS WebhookIngest, TLC

CONSTANTS r1, r2, key, good, bad, partial, broken, huge

TwoRequests == {r1, r2}
OneHeader == {key}

\* One body of each kind.
EveryBody == {good, bad, partial, broken, huge}
EveryKind ==
  good :> "complete" @@ bad :> "refused" @@ partial :> "incomplete"
    @@ broken :> "malformed" @@ huge :> "unreadable"

=============================================================================
