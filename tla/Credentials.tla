------------------------------ MODULE Credentials ------------------------------
(***************************************************************************)
(* API keys and webhook tokens: the settings page's tab with the section   *)
(* that creates, lists and revokes them (IntegrationsSection), and the     *)
(* guide card of iOS or Android above it, which creates one and shows the  *)
(* address that contains it.  The server keeps a hash only: the answer to  *)
(* the creation is the one place where the secret is to be had.            *)
(*                                                                         *)
(* The section and the card hold lists of their own.  Every handler is a   *)
(* flow: the request, its answer, the reload that it waits for, its end.   *)
(* A component that is left takes its state with it; what it has sent is   *)
(* still served.  The lists of keys and of tokens are read as one.         *)
(***************************************************************************)
EXTENDS Browser, FiniteSets

CONSTANTS
  Creds,      \* keys and tokens, those still to be created included
  Existing,   \* those that are live when the page is opened
  Failed      \* the answer of a read that failed

\* Faults is a subset of {"lost", "read"}.

ASSUME ConstantsAssumption ==
  /\ Existing \subseteq Creds /\ IsFiniteSet(Creds)
  /\ None \notin Creds /\ Failed # None

VARIABLES
  status,     \* the server: Creds -> Statuses
  view,       \* the tab, and the guide card it shows
  list,       \* the section: the statuses it loaded last
  loading, error,
  busy,       \* the forms that wait
  secret,     \* None, or the credential of the open dialog
  target,     \* None, or the credential that the open dialog is to revoke
  revoking,
  card,       \* the guide card: the credential in its address, and its flags
  flows,      \* the handlers under way
  answered,   \* history: credentials whose creation this page was told of
  seen,       \* history: those whose secret was on the screen
  cut,        \* history: those whose handler was under way when it was left
  told,       \* history: those the section reported as revoked
  crossed     \* history: two reloads of the section were under way at once

section == <<list, loading, error, busy, secret, target, revoking>>
history == <<answered, seen, cut, told, crossed>>
vars == <<status, view, section, card, flows, history, events>>

Statuses == {"unused", "live", "revoked"}
Forms == {"key", "webhook"}
Cards == {"ios", "android"}

--------------------------------------------------------------------------------
(* Flows.  The id is the event that began one, or 0.                       *)

Flow(owner, does, cred, step) ==
  [owner |-> owner, does |-> does, cred |-> cred, step |-> step, data |-> None,
   gone |-> FALSE, id |-> events + 1]

LoadOf(owner) == Flow(owner, "load", None, "asked")

Reading(fs) ==
  {f \in fs : f.owner = "section" /\ f.step \in {"asked", "read"} /\ ~f.gone}

\* flows' with the new ones, and whether two reloads now cross.
Run(fs) ==
  /\ flows' = fs
  /\ crossed' = (crossed \/ \E f, g \in Reading(fs) : f # g)

\* What is left behind when a component is unmounted: requests on their way.
Unmounted(fs, owners) ==
  {f \in fs : f.owner \notin owners}
    \cup {[f EXCEPT !.gone = TRUE] : f \in {g \in fs : g.owner \in owners /\ g.step = "sent"}}

EmptyCard == [token |-> None, creating |-> FALSE, loading |-> TRUE]

\* No dialog is open: they are modal.
Uncovered == secret = None /\ target = None

--------------------------------------------------------------------------------
(* Inputs.                                                                 *)

\* A tab, or the other guide card.  What is mounted anew loads its list.
Go(to) ==
  /\ Uncovered /\ to # view /\ Event
  /\ view' = to
  /\ LET owners == Cards \cup (IF to = "profile" THEN {"section"} ELSE {})
         begun == (IF to = "profile" THEN {} ELSE {LoadOf(to)})
                    \cup (IF view = "profile" THEN {LoadOf("section")} ELSE {})
     IN  /\ Run(Unmounted(flows, owners) \cup begun)
         /\ cut' = cut \cup ({f.cred : f \in {g \in flows : g.owner \in owners}} \ {None})
  /\ card' = EmptyCard
  /\ IF view = "profile" \/ to = "profile"
     THEN /\ list' = [c \in Creds |-> "unused"] /\ error' = FALSE
          /\ loading' = TRUE /\ busy' = {} /\ revoking' = FALSE
     ELSE UNCHANGED <<list, loading, error, busy, revoking>>
  /\ UNCHANGED <<status, secret, target, answered, seen, told>>

Here == view # "profile" /\ Uncovered

\* createKey, createWebhook.
Create(form) ==
  /\ Here /\ form \notin busy /\ Event
  /\ busy' = busy \cup {form}
  /\ Run(flows \cup {Flow("section", form, None, "sent")})
  /\ UNCHANGED <<status, view, list, loading, error, secret, target, revoking,
                 card, answered, seen, cut, told>>

\* The cards' buttons.
Generate(owner) ==
  /\ Here /\ view = owner /\ ~card.creating /\ Event
  /\ card' = [card EXCEPT !.creating = TRUE]
  /\ Run(flows \cup {Flow(owner, "create", None, "sent")})
  /\ UNCHANGED <<status, view, section, answered, seen, cut, told>>

\* An API key that may write transactions, and a webhook token.
GenerateFullUrl == Generate("ios")
GenerateWebhookKey == Generate("android")

\* The cross of the banner.
Dismiss ==
  /\ Here /\ card.token # None /\ Event
  /\ card' = [card EXCEPT !.token = None]
  /\ UNCHANGED <<status, view, section, flows, history>>

\* "Perbarui Status": off until the first answer only.
Refresh ==
  /\ Here /\ ~card.loading /\ Event
  /\ Run(flows \cup {LoadOf(view)})
  /\ UNCHANGED <<status, view, section, card, answered, seen, cut, told>>

\* The rows, which are hidden while the list is loading and after an error.
Offered == {c \in Creds : list[c] = "live" /\ ~loading /\ ~error}

AskRevoke ==
  /\ Here /\ Event
  /\ \E c \in Offered : target' = c
  /\ UNCHANGED <<status, view, list, loading, error, busy, secret, revoking, card,
                 flows, history>>

\* Held for two seconds.
Revoke ==
  /\ target # None /\ secret = None /\ ~revoking /\ Event
  /\ revoking' = TRUE
  /\ Run(flows \cup {Flow("section", "revoke", target, "sent")})
  /\ UNCHANGED <<status, view, list, loading, error, busy, secret, target, card,
                 answered, seen, cut, told>>

CloseTarget ==
  /\ target # None /\ secret = None /\ ~revoking /\ Event
  /\ target' = None
  /\ UNCHANGED <<status, view, list, loading, error, busy, secret, revoking, card,
                 flows, history>>

CloseSecret ==
  /\ secret # None
  /\ secret' = None
  /\ UNCHANGED <<status, view, list, loading, error, busy, target, revoking, card,
                 flows, history, events>>

Retry ==
  /\ Here /\ error /\ ~loading /\ Event
  /\ loading' = TRUE /\ error' = FALSE
  /\ Run(flows \cup {LoadOf("section")})
  /\ UNCHANGED <<status, view, list, busy, secret, target, revoking, card,
                 answered, seen, cut, told>>

--------------------------------------------------------------------------------
(* The server.                                                             *)

\* A request is told "done", or "refused" when it failed or its answer was
\* lost; nobody is told whose component is gone.
Told(f, step, cred) ==
  (flows \ {f}) \cup
    IF f.gone THEN {} ELSE {[f EXCEPT !.step = step, !.cred = cred]}

Serve(f, c, from, to) ==
  /\ status[c] = from
  /\ status' = [status EXCEPT ![c] = to]
  /\ \/ flows' = Told(f, "done", c) /\ UNCHANGED events
     \/ "lost" \in Faults /\ Event /\ flows' = Told(f, "refused", f.cred)
  /\ UNCHANGED <<view, section, card, history>>

Refuse(f) ==
  /\ flows' = Told(f, "refused", f.cred)
  /\ UNCHANGED <<status, view, section, card, history, events>>

Unused == {c \in Creds : status[c] = "unused"}

\* Any request may fail without an effect.
ServeCreate(f) ==
  /\ f.step = "sent" /\ f.does # "revoke"
  /\ \/ Unused # {} /\ Serve(f, CHOOSE c \in Unused : TRUE, "unused", "live")
     \/ Refuse(f)

\* One that has been revoked before is not found.
ServeRevoke(f) ==
  /\ f.step = "sent" /\ f.does = "revoke"
  /\ \/ Serve(f, f.cred, "live", "revoked")
     \/ Refuse(f)

\* The card takes a list that failed for an empty one.
ServeRead(f) ==
  /\ f.step = "asked"
  /\ LET With(data) ==
           flows' = (flows \ {f}) \cup {[f EXCEPT !.step = "read", !.data = data]}
     IN  \/ f.owner # "section" /\ With(None) /\ UNCHANGED events
         \/ f.owner = "section" /\ With(status) /\ UNCHANGED events
         \/ f.owner = "section" /\ "read" \in Faults /\ Event /\ With(Failed)
  /\ UNCHANGED <<status, view, section, card, history>>

\* Another browser.
Elsewhere ==
  /\ Event
  /\ \E c \in Creds :
       \/ status[c] = "unused" /\ status' = [status EXCEPT ![c] = "live"]
       \/ status[c] = "live" /\ status' = [status EXCEPT ![c] = "revoked"]
  /\ UNCHANGED <<view, section, card, flows, history>>

--------------------------------------------------------------------------------
(* Answers.                                                                *)

Asks(f) == Run((flows \ {f}) \cup {[f EXCEPT !.step = "asked"]})

\* The created or revoked one is reported, and the handler waits for a reload.
SectionTold(f) ==
  /\ f.step = "done" /\ f.owner = "section"
  /\ Asks(f)
  /\ loading' = TRUE /\ error' = FALSE
  /\ target' = IF f.does = "revoke" THEN None ELSE target
  /\ told' = IF f.does = "revoke" THEN told \cup {f.cred} ELSE told
  /\ answered' = IF f.does = "revoke" THEN answered ELSE answered \cup {f.cred}
  /\ UNCHANGED <<status, view, list, busy, secret, revoking, card, seen, cut, events>>

\* The card shows the address with the secret at once.
CardTold(f) ==
  /\ f.step = "done" /\ f.owner # "section"
  /\ Asks(f)
  /\ card' = [card EXCEPT !.token = f.cred]
  /\ answered' = answered \cup {f.cred} /\ seen' = seen \cup {f.cred}
  /\ UNCHANGED <<status, view, section, cut, told, events>>

\* Wrong: the flag is lowered after a success only.
LoweredAfterSuccess(f) == IF f.step = "refused" THEN busy ELSE busy \ {f.does}

\* finally: the form's flag once its handler has ended.
Lowered(f) == busy \ {f.does}

\* The end of a handler, whatever came of it.
Settle(f) ==
  /\ flows' = flows \ {f}
  /\ busy' = Lowered(f)
  /\ revoking' = (revoking /\ f.does # "revoke")
  /\ card' = IF f.owner = "section" THEN card
             ELSE [card EXCEPT !.creating = @ /\ f.does # "create",
                               !.loading = @ /\ f.step = "refused"]

ToldRefused(f) ==
  /\ f.step = "refused"
  /\ Settle(f)
  /\ UNCHANGED <<status, view, list, loading, error, secret, target, history, events>>

\* Wrong: the secret is shown after a reload that went well only.
RevealsIfLoaded(f) == f.does \in Forms /\ f.data # Failed

\* Whether the end of the reload opens the dialog with the secret.
Reveals(f) == f.does \in Forms

\* Wrong: a reload that failed leaves no trace.
ShowsNoError(f) == error

\* An error is cleared when a reload begins, not when it goes well.
ShowsError(f) == error \/ f.data = Failed

EndLoad(f) ==
  /\ f.step = "read"
  /\ Settle(f)
  /\ IF f.owner # "section" THEN UNCHANGED <<list, loading, error>>
     ELSE /\ list' = IF f.data = Failed THEN list ELSE f.data
          /\ error' = ShowsError(f) /\ loading' = FALSE
  /\ secret' = IF Reveals(f) THEN f.cred ELSE secret
  /\ seen' = IF Reveals(f) THEN seen \cup {f.cred} ELSE seen
  /\ UNCHANGED <<status, view, target, answered, cut, told, crossed, events>>

--------------------------------------------------------------------------------
(* The specification.                                                      *)

\* The tab, opened by its address (?tab=tokens-status).
Init ==
  /\ status = [c \in Creds |-> IF c \in Existing THEN "live" ELSE "unused"]
  /\ events = 0 /\ view = "ios"
  /\ flows = {[LoadOf(o) EXCEPT !.id = 0] : o \in {"section", view}}
  /\ list = [c \in Creds |-> "unused"] /\ loading = TRUE /\ error = FALSE
  /\ busy = {} /\ secret = None /\ target = None /\ revoking = FALSE
  /\ card = EmptyCard
  /\ answered = {} /\ seen = {} /\ cut = {} /\ told = {} /\ crossed = FALSE

Inputs ==
  \/ \E to \in Cards \cup {"profile"} : Go(to)
  \/ \E form \in Forms : Create(form)
  \/ GenerateFullUrl \/ GenerateWebhookKey \/ Dismiss \/ Refresh
  \/ AskRevoke \/ Revoke \/ CloseTarget \/ CloseSecret \/ Retry

Handlers ==
  \E f \in flows :
    \/ ServeCreate(f) \/ ServeRevoke(f) \/ ServeRead(f)
    \/ SectionTold(f) \/ CardTold(f) \/ ToldRefused(f) \/ EndLoad(f)

Next == Inputs \/ Handlers \/ Elsewhere

Spec == Init /\ [][Next]_vars

\* The browser answers or fails every request.
FairSpec == Spec /\ WF_vars(Handlers)

--------------------------------------------------------------------------------
(* Properties.                                                             *)

\* The variables have their types.
TypeOK ==
  /\ status \in [Creds -> Statuses] /\ list \in [Creds -> Statuses]
  /\ view \in Cards \cup {"profile"} /\ busy \subseteq Forms
  /\ loading \in BOOLEAN /\ error \in BOOLEAN /\ revoking \in BOOLEAN
  /\ secret \in Creds \cup {None} /\ target \in Creds \cup {None}
  /\ card \in [token : Creds \cup {None}, creating : BOOLEAN, loading : BOOLEAN]
  /\ answered \subseteq Creds /\ seen \subseteq Creds /\ cut \subseteq Creds
  /\ told \subseteq Creds /\ crossed \in BOOLEAN

\* Every secret gets onto the screen: a credential whose creation was answered
\* is or was in the dialog or in the card's banner once its handler has ended,
\* though the dialog waits for a reload that may fail, unless the component was
\* left in between.
SecretsAreShown ==
  \A c \in answered : c \in seen \cup cut \/ \E f \in flows : f.cred = c

\* A credential the section reported as revoked is not on offer any more, not
\* even while the list is reloaded or after a reload that failed, unless two
\* reloads were under way at once.
RevokedIsNotOffered == crossed \/ told \cap Offered = {}

\* Each flag goes down again: those of the forms, of the list and of the card,
\* and the one without which the dialog of a revocation cannot be closed.
FlagsGoDown ==
  /\ \A form \in Forms : (form \in busy) ~> (form \notin busy)
  /\ revoking ~> ~revoking
  /\ (view # "profile" /\ loading) ~> (view = "profile" \/ ~loading)
  /\ card.creating ~> ~card.creating
=============================================================================
