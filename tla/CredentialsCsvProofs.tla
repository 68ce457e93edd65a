------------------------- MODULE CredentialsCsvProofs -------------------------
(***************************************************************************)
(* Theorems about Credentials, for any credentials, faults and number of    *)
(* inputs: types, every secret is shown, and what was revoked is not        *)
(* offered.  About the text of a CSV file, for any characters: what is      *)
(* written is read back.  And about CsvImport, for any wallets,             *)
(* categories, files and faults: an exported transaction is read as it      *)
(* was, what is booked is sound, and a reported success is complete.        *)
(***************************************************************************)
EXTENDS Credentials, CsvImport, WellFoundedInduction, TLAPS

--------------------------------------------------------------------------------
(* The inductive invariant.                                                *)

Owners == Cards \cup {"section"}

\* A flow: who waits, for what, and how far it is.  Only a request to the
\* server can have been left behind, and only the section is answered with a
\* list.
FlowOK(f) ==
  /\ f \in [owner : Owners, does : Forms \cup {"load", "create", "revoke"},
            cred : Creds \cup {None}, step : {"sent", "done", "refused", "asked", "read"},
            data : {None, Failed} \cup [Creds -> Statuses], gone : BOOLEAN, id : Nat]
  /\ f.does \in Forms \cup {"revoke"} => f.owner = "section"
  /\ f.step \in {"sent", "done"} => f.does # "load"
  /\ f.owner = "section" => f.does # "create"
  /\ f.step = "done" \/ f.does = "revoke" => f.cred \in Creds
  /\ f.does \in Forms /\ f.step \in {"asked", "read"} => f.cred \in Creds
  /\ f.owner = "section" /\ f.step = "read" => f.data \in {Failed} \cup [Creds -> Statuses]
  /\ f.gone => f.step = "sent"

FlowsOK == \A f \in flows : FlowOK(f)

\* The handler of a creation that waits for the reload.
Waits(f, c) ==
  /\ f.cred = c /\ f.owner = "section" /\ f.does \in Forms
  /\ f.step \in {"asked", "read"} /\ ~f.gone

ToBeShown == \A c \in answered : c \in seen \cup cut \/ \E f \in flows : Waits(f, c)

\* At most one reload of the section, unless two crossed.
OneReload == crossed \/ \A f, g \in Reading(flows) : f = g

\* What a request to revoke was answered, or reported, the server has revoked.
RevokedThere ==
  /\ \A c \in told : status[c] = "revoked"
  /\ \A f \in flows : f.step = "done" /\ f.does = "revoke" => status[f.cred] = "revoked"

\* A list that was read after the report shows it as revoked.
ReadsRevoked ==
  \A f \in Reading(flows), c \in told :
    f.step = "read" /\ f.data # Failed => f.data[c] = "revoked"

\* The section's own list shows it as revoked, or is not to be seen.
ListsRevoked == \A c \in told : list[c] # "live" \/ loading \/ error

Fresh == crossed \/ (ReadsRevoked /\ ListsRevoked)

IInv == TypeOK /\ events \in Nat /\ FlowsOK /\ ToBeShown /\ OneReload /\ RevokedThere /\ Fresh

--------------------------------------------------------------------------------
(* Lemmas about flows.                                                     *)

USE DEF Owners, Cards, Forms

\* Run tells whether two reloads of the section are under way.
LEMMA RunCounts ==
  ASSUME NEW fs, Run(fs)
  PROVE  OneReload' /\ (crossed => crossed') /\ crossed' \in BOOLEAN
  BY DEF Run, OneReload

\* A bare change of a dialog or of the card.
LEMMA QuietStep ==
  ASSUME IInv, TypeOK', events' \in Nat,
         UNCHANGED <<status, list, loading, error, flows, history>>
  PROVE  IInv'
  <1>1. Reading(flows)' = Reading(flows)
    BY DEF Reading
  <1>2. FlowsOK' /\ ToBeShown' /\ RevokedThere'
    BY DEF IInv, FlowsOK, FlowOK, ToBeShown, Waits, RevokedThere, history
  <1>3. OneReload' /\ Fresh'
    BY <1>1 DEF IInv, OneReload, Fresh, ReadsRevoked, ListsRevoked, history
  <1> QED BY <1>2, <1>3 DEF IInv

\* A handler begins that is no reload of the section.
LEMMA BeginStep ==
  ASSUME IInv, TypeOK', events' \in Nat, NEW n, FlowOK(n), Run(flows \cup {n}),
         n.step = "sent" \/ (n.step = "asked" /\ n.owner # "section"),
         UNCHANGED <<status, list, loading, error, answered, seen, cut, told>>
  PROVE  IInv'
  <1>1. flows' = flows \cup {n} /\ OneReload' /\ (crossed => crossed')
    BY RunCounts DEF Run
  <1>2. Reading(flows)' = Reading(flows)
    BY <1>1 DEF Reading
  <1>3. FlowsOK'
    BY <1>1 DEF IInv, FlowsOK, FlowOK
  <1>4. ToBeShown'
    BY <1>1 DEF IInv, ToBeShown, Waits
  <1>5. RevokedThere'
    BY <1>1 DEF IInv, RevokedThere
  <1>6. Fresh'
    BY <1>1, <1>2 DEF IInv, Fresh, ReadsRevoked, ListsRevoked
  <1> QED BY <1>1, <1>3, <1>4, <1>5, <1>6 DEF IInv

LEMMA BegunOK ==
  ASSUME events \in Nat, NEW owner \in Owners, NEW does \in Forms \cup {"create", "revoke"},
         NEW cred \in Creds \cup {None},
         does \in Forms \cup {"revoke"} <=> owner = "section",
         does = "revoke" => cred \in Creds
  PROVE  FlowOK(Flow(owner, does, cred, "sent"))
  BY DEF FlowOK, Flow

LEMMA LoadOK ==
  ASSUME events \in Nat, NEW owner \in Owners
  PROVE  FlowOK(LoadOf(owner))
  BY DEF FlowOK, Flow, LoadOf

--------------------------------------------------------------------------------
(* The inputs.                                                             *)

LEMMA DismissKeeps == ASSUME IInv, Dismiss PROVE IInv'
  <1>1. TypeOK'
    BY DEF IInv, TypeOK, Dismiss, section, history
  <1>2. events' \in Nat
    BY DEF IInv, Dismiss, Event
  <1> QED BY <1>1, <1>2, QuietStep DEF Dismiss, section

LEMMA AskRevokeKeeps == ASSUME IInv, AskRevoke PROVE IInv'
  <1>1. TypeOK'
    BY DEF IInv, TypeOK, AskRevoke, Offered, history
  <1>2. events' \in Nat
    BY DEF IInv, AskRevoke, Event
  <1> QED BY <1>1, <1>2, QuietStep DEF AskRevoke

LEMMA CloseTargetKeeps == ASSUME IInv, CloseTarget PROVE IInv'
  <1>1. TypeOK'
    BY DEF IInv, TypeOK, CloseTarget, history
  <1>2. events' \in Nat
    BY DEF IInv, CloseTarget, Event
  <1> QED BY <1>1, <1>2, QuietStep DEF CloseTarget

LEMMA CloseSecretKeeps == ASSUME IInv, CloseSecret PROVE IInv'
  <1>1. TypeOK'
    BY DEF IInv, TypeOK, CloseSecret, history
  <1>2. events' \in Nat
    BY DEF IInv, CloseSecret
  <1> QED BY <1>1, <1>2, QuietStep DEF CloseSecret

LEMMA CreateKeeps == ASSUME IInv, NEW form \in Forms, Create(form) PROVE IInv'
  <1> DEFINE n == Flow("section", form, None, "sent")
  <1>1. TypeOK' /\ events' \in Nat
    <2>1. crossed' \in BOOLEAN
      BY RunCounts DEF Create
    <2>2. TypeOK'
      BY <2>1 DEF IInv, TypeOK, Create, Run
    <2> QED BY <2>2 DEF IInv, Create, Event
  <1>2. FlowOK(n)
    BY BegunOK DEF IInv
  <1>3. n.step = "sent"
    BY DEF Flow
  <1>4. Run(flows \cup {n})
        /\ UNCHANGED <<status, list, loading, error, answered, seen, cut, told>>
    BY DEF Create
  <1> HIDE DEF n
  <1> QED BY <1>1, <1>2, <1>3, <1>4, BeginStep

LEMMA GenerateKeeps == ASSUME IInv, NEW owner \in Cards, Generate(owner) PROVE IInv'
  <1> DEFINE n == Flow(owner, "create", None, "sent")
  <1>1. TypeOK' /\ events' \in Nat
    <2>1. crossed' \in BOOLEAN
      BY RunCounts DEF Generate
    <2>2. TypeOK'
      BY <2>1 DEF IInv, TypeOK, Generate, Run, section
    <2> QED BY <2>2 DEF IInv, Generate, Event
  <1>2. FlowOK(n)
    BY BegunOK DEF IInv
  <1>3. n.step = "sent"
    BY DEF Flow
  <1>4. Run(flows \cup {n})
        /\ UNCHANGED <<status, list, loading, error, answered, seen, cut, told>>
    BY DEF Generate, section
  <1> HIDE DEF n
  <1> QED BY <1>1, <1>2, <1>3, <1>4, BeginStep

LEMMA RefreshKeeps == ASSUME IInv, Refresh PROVE IInv'
  <1> DEFINE n == LoadOf(view)
  <1>1. TypeOK' /\ events' \in Nat
    <2>1. crossed' \in BOOLEAN
      BY RunCounts DEF Refresh
    <2>2. TypeOK'
      BY <2>1 DEF IInv, TypeOK, Refresh, Run, section
    <2> QED BY <2>2 DEF IInv, Refresh, Event
  <1>2. view \in Cards
    BY DEF IInv, TypeOK, Refresh, Here
  <1>3. FlowOK(n)
    BY <1>2, LoadOK DEF IInv
  <1>4. n.step = "asked" /\ n.owner # "section"
    BY <1>2 DEF LoadOf, Flow
  <1>5. Run(flows \cup {n})
        /\ UNCHANGED <<status, list, loading, error, answered, seen, cut, told>>
    BY DEF Refresh, section
  <1> HIDE DEF n
  <1> QED BY <1>1, <1>3, <1>4, <1>5, BeginStep

LEMMA RevokeKeeps == ASSUME IInv, Revoke PROVE IInv'
  <1> DEFINE n == Flow("section", "revoke", target, "sent")
  <1>1. TypeOK' /\ events' \in Nat
    <2>1. crossed' \in BOOLEAN
      BY RunCounts DEF Revoke
    <2>2. TypeOK'
      BY <2>1 DEF IInv, TypeOK, Revoke, Run
    <2> QED BY <2>2 DEF IInv, Revoke, Event
  <1>2. target \in Creds
    BY DEF IInv, TypeOK, Revoke
  <1>3. FlowOK(n)
    BY <1>2, BegunOK DEF IInv
  <1>4. n.step = "sent"
    BY DEF Flow
  <1>5. Run(flows \cup {n})
        /\ UNCHANGED <<status, list, loading, error, answered, seen, cut, told>>
    BY DEF Revoke
  <1> HIDE DEF n
  <1> QED BY <1>1, <1>3, <1>4, <1>5, BeginStep

\* The list is hidden by the reload that begins.
LEMMA RetryKeeps == ASSUME IInv, Retry PROVE IInv'
  <1> DEFINE n == LoadOf("section")
  <1>1. TypeOK' /\ events' \in Nat
    <2>1. crossed' \in BOOLEAN
      BY RunCounts DEF Retry
    <2>2. TypeOK'
      BY <2>1 DEF IInv, TypeOK, Retry, Run
    <2> QED BY <2>2 DEF IInv, Retry, Event
  <1>2. FlowOK(n) /\ n.step = "asked" /\ ~n.gone /\ n.does = "load"
    BY LoadOK DEF IInv, LoadOf, Flow
  <1>3. /\ Run(flows \cup {n}) /\ loading'
        /\ UNCHANGED <<status, list, answered, seen, cut, told>>
    BY DEF Retry
  <1> HIDE DEF n
  <1>4. flows' = flows \cup {n} /\ OneReload' /\ (crossed => crossed')
    BY <1>3, RunCounts DEF Run
  <1>5. \A f \in Reading(flows)' : f = n \/ f \in Reading(flows)
    BY <1>4 DEF Reading
  <1>6. FlowsOK' /\ RevokedThere'
    BY <1>2, <1>3, <1>4 DEF IInv, FlowsOK, FlowOK, RevokedThere
  <1>7. ToBeShown'
    BY <1>3, <1>4 DEF IInv, ToBeShown, Waits
  <1>8. Fresh'
    BY <1>2, <1>3, <1>4, <1>5 DEF IInv, Fresh, ReadsRevoked, ListsRevoked
  <1> QED BY <1>1, <1>4, <1>6, <1>7, <1>8 DEF IInv

--------------------------------------------------------------------------------
(* Another tab or card.                                                    *)

\* Requests that are left behind stay on their way; nothing else is kept of
\* those who sent them.
LEMMA LeftBehind ==
  ASSUME NEW fs, \A f \in fs : FlowOK(f), NEW owners, NEW f \in Unmounted(fs, owners)
  PROVE  /\ FlowOK(f)
         /\ f \in fs \/ f.step = "sent"
         /\ f.step = "done" => f \in fs
  BY DEF Unmounted, FlowOK

LEMMA GoKeeps == ASSUME IInv, NEW to \in Cards \cup {"profile"}, Go(to) PROVE IInv'
  <1> DEFINE owners == Cards \cup (IF to = "profile" THEN {"section"} ELSE {})
             begun == (IF to = "profile" THEN {} ELSE {LoadOf(to)})
                        \cup (IF view = "profile" THEN {LoadOf("section")} ELSE {})
             left == Unmounted(flows, owners)
             fs == left \cup begun
  <1>1. /\ Run(fs)
        /\ cut' = cut \cup ({f.cred : f \in {g \in flows : g.owner \in owners}} \ {None})
    BY DEF Go
  <1>2. flows' = fs /\ OneReload' /\ (crossed => crossed') /\ crossed' \in BOOLEAN
    BY <1>1, RunCounts DEF Run
  <1>3. \A f \in begun : FlowOK(f) /\ f.step = "asked" /\ f.does = "load"
    <2>1. \A o \in Owners : FlowOK(LoadOf(o)) /\ LoadOf(o).step = "asked" /\ LoadOf(o).does = "load"
      BY LoadOK DEF IInv, LoadOf, Flow
    <2> QED BY <2>1
  <1>4. \A f \in left : FlowOK(f) /\ (f \in flows \/ f.step = "sent")
    BY LeftBehind DEF IInv, FlowsOK
  <1>5. \A f \in flows : f.owner \notin owners => f \in left
    BY DEF Unmounted
  <1>6. \A f \in flows : f.owner \in owners /\ f.cred # None => f.cred \in cut'
    BY <1>1
  <1>7. cut' \subseteq Creds
    BY <1>1 DEF IInv, TypeOK, FlowsOK, FlowOK
  <1>8. status' = status /\ answered' = answered /\ seen' = seen /\ told' = told
    BY DEF Go
  <1>9. \/ UNCHANGED <<list, loading, error>>
        \/ list' = [c \in Creds |-> "unused"] /\ loading' = TRUE /\ error' = FALSE
    BY DEF Go
  <1>10. TypeOK' /\ events' \in Nat
    <2>1. /\ view' = to /\ card' = EmptyCard /\ secret' = secret /\ target' = target
          /\ busy' = busy \/ busy' = {}
          /\ revoking' = revoking \/ revoking' = FALSE
          /\ Event
      BY DEF Go
    <2>2. TypeOK'
      BY <1>2, <1>7, <1>8, <1>9, <2>1 DEF IInv, TypeOK, EmptyCard, Statuses
    <2> QED BY <2>1, <2>2 DEF IInv, Event
  <1> HIDE DEF begun, left
  <1>11. FlowsOK'
    BY <1>2, <1>3, <1>4 DEF FlowsOK, FlowOK
  <1>12. ToBeShown'
    <2> SUFFICES ASSUME NEW c \in answered
                 PROVE  c \in seen \cup cut' \/ \E f \in fs : Waits(f, c)
      BY <1>2, <1>8 DEF ToBeShown, Waits
    <2>1. c \in seen \cup cut \/ \E f \in flows : Waits(f, c)
      BY DEF IInv, ToBeShown
    <2>2. CASE c \in seen \cup cut
      BY <1>1, <2>2
    <2>3. CASE \E f \in flows : Waits(f, c)
      <3> PICK f \in flows : Waits(f, c)
        BY <2>3
      <3>1. c # None
        BY ConstantsAssumption DEF IInv, TypeOK
      <3> HIDE DEF owners
      <3> QED BY <1>5, <1>6, <3>1 DEF Waits
    <2> QED BY <2>1, <2>2, <2>3
  <1>13. RevokedThere'
    BY <1>2, <1>3, <1>4, <1>8 DEF IInv, RevokedThere
  <1>14. Fresh'
    <2> SUFFICES ASSUME ~crossed' PROVE ReadsRevoked' /\ ListsRevoked'
      BY DEF Fresh
    <2>1. ReadsRevoked /\ ListsRevoked
      BY <1>2 DEF IInv, Fresh
    <2>2. ReadsRevoked'
      BY <1>2, <1>3, <1>4, <1>8, <2>1 DEF ReadsRevoked, Reading
    <2>3. ListsRevoked'
      BY <1>8, <1>9, <2>1 DEF ListsRevoked, IInv, TypeOK
    <2> QED BY <2>2, <2>3
  <1> QED BY <1>2, <1>10, <1>11, <1>12, <1>13, <1>14 DEF IInv

--------------------------------------------------------------------------------
(* The server.                                                             *)

\* A request is answered, or its answer reaches nobody.
LEMMA ToldStep ==
  ASSUME IInv, TypeOK', events' \in Nat, NEW f \in flows, f.step = "sent",
         NEW step \in {"done", "refused"}, NEW c \in Creds \cup {None},
         f.does = "revoke" => c \in Creds, step = "done" => c \in Creds,
         flows' = Told(f, step, c),
         step = "done" /\ f.does = "revoke" => status'[c] = "revoked",
         \A x \in Creds : status[x] = "revoked" => status'[x] = "revoked",
         UNCHANGED <<list, loading, error, history>>
  PROVE  IInv'
  <1> DEFINE g == [f EXCEPT !.step = step, !.cred = c]
  <1>1. FlowOK(f)
    BY DEF IInv, FlowsOK
  <1>2. /\ ~f.gone => FlowOK(g)
        /\ g.step = step /\ g.does = f.does /\ g.cred = c
    BY <1>1 DEF FlowOK
  <1> HIDE DEF g
  <1>3. /\ \A h \in flows' : (h \in flows /\ h # f) \/ (h = g /\ ~f.gone)
        /\ \A h \in flows : h # f => h \in flows'
    BY DEF Told, g
  <1>4. \A h \in Reading(flows)' : h \in Reading(flows)
    BY <1>2, <1>3 DEF Reading
  <1>5. FlowsOK'
    BY <1>2, <1>3 DEF IInv, FlowsOK, FlowOK
  <1>6. ToBeShown'
    BY <1>3 DEF IInv, ToBeShown, Waits, history
  <1>7. OneReload'
    BY <1>4 DEF IInv, OneReload, history
  <1>8. RevokedThere'
    BY <1>2, <1>3 DEF IInv, TypeOK, RevokedThere, FlowsOK, FlowOK, history
  <1>9. Fresh'
    BY <1>4 DEF IInv, Fresh, ReadsRevoked, ListsRevoked, history
  <1> QED BY <1>5, <1>6, <1>7, <1>8, <1>9 DEF IInv

LEMMA RefuseKeeps ==
  ASSUME IInv, NEW f \in flows, f.step = "sent", Refuse(f) PROVE IInv'
  <1>1. TypeOK' /\ events' \in Nat
    BY DEF IInv, TypeOK, Refuse, section, history
  <1>2. f.cred \in Creds \cup {None} /\ (f.does = "revoke" => f.cred \in Creds)
    BY DEF IInv, FlowsOK, FlowOK
  <1>3. /\ flows' = Told(f, "refused", f.cred) /\ status' = status
        /\ UNCHANGED <<list, loading, error, history>>
    BY DEF Refuse, section
  <1> QED BY <1>1, <1>2, <1>3, ToldStep

LEMMA ServeKeeps ==
  ASSUME IInv, NEW f \in flows, f.step = "sent", NEW c \in Creds,
         NEW from \in Statuses, NEW to \in Statuses, from # "revoked",
         f.does = "revoke" => to = "revoked", Serve(f, c, from, to)
  PROVE  IInv'
  <1>1. TypeOK'
    BY DEF IInv, TypeOK, Serve, section, history
  <1>2. events' \in Nat
    BY DEF IInv, Serve, Event
  <1>3. f.cred \in Creds \cup {None} /\ (f.does = "revoke" => f.cred \in Creds)
    BY DEF IInv, FlowsOK, FlowOK
  <1>4. /\ status'[c] = to
        /\ \A x \in Creds : status[x] = "revoked" => status'[x] = "revoked"
        /\ UNCHANGED <<list, loading, error, history>>
    BY DEF IInv, TypeOK, Serve, section
  <1>5. CASE flows' = Told(f, "done", c)
    BY <1>1, <1>2, <1>4, <1>5, ToldStep
  <1>6. CASE flows' = Told(f, "refused", f.cred)
    BY <1>1, <1>2, <1>3, <1>4, <1>6, ToldStep
  <1> QED BY <1>5, <1>6 DEF Serve

LEMMA ServeCreateKeeps == ASSUME IInv, NEW f \in flows, ServeCreate(f) PROVE IInv'
  <1>1. CASE Unused # {} /\ Serve(f, CHOOSE c \in Unused : TRUE, "unused", "live")
    <2>1. (CHOOSE c \in Unused : TRUE) \in Creds
      BY <1>1 DEF Unused
    <2> QED BY <1>1, <2>1, ServeKeeps DEF ServeCreate, Statuses
  <1>2. CASE Refuse(f)
    BY <1>2, RefuseKeeps DEF ServeCreate
  <1> QED BY <1>1, <1>2 DEF ServeCreate

LEMMA ServeRevokeKeeps == ASSUME IInv, NEW f \in flows, ServeRevoke(f) PROVE IInv'
  <1>1. f.cred \in Creds /\ f.step = "sent"
    BY DEF IInv, FlowsOK, FlowOK, ServeRevoke
  <1>2. CASE Serve(f, f.cred, "live", "revoked")
    BY <1>1, <1>2, ServeKeeps DEF Statuses
  <1>3. CASE Refuse(f)
    BY <1>1, <1>3, RefuseKeeps
  <1> QED BY <1>2, <1>3 DEF ServeRevoke

\* A list that is read shows what was revoked before.
LEMMA ServeReadKeeps == ASSUME IInv, NEW f \in flows, ServeRead(f) PROVE IInv'
  <1>1. PICK data \in {None, Failed} \cup [Creds -> Statuses] :
          /\ flows' = (flows \ {f}) \cup {[f EXCEPT !.step = "read", !.data = data]}
          /\ f.owner = "section" => data = status \/ data = Failed
    BY DEF ServeRead, IInv, TypeOK
  <1> DEFINE g == [f EXCEPT !.step = "read", !.data = data]
  <1>2. FlowOK(f) /\ f.step = "asked"
    BY DEF IInv, FlowsOK, ServeRead
  <1>3. /\ FlowOK(g)
        /\ g.step = "read" /\ g.data = data /\ g.owner = f.owner /\ g.cred = f.cred
        /\ g.does = f.does /\ g.gone = f.gone
    BY <1>1, <1>2 DEF FlowOK, IInv, TypeOK
  <1>4. TypeOK'
    BY DEF IInv, TypeOK, ServeRead, section, history
  <1>5. events' \in Nat
    BY DEF IInv, ServeRead, Event
  <1>6. UNCHANGED <<status, list, loading, error, history>>
    BY DEF ServeRead, section
  <1>7. flows' = (flows \ {f}) \cup {g}
    BY <1>1
  <1> HIDE DEF g
  <1>8. \A h \in Reading(flows)' :
          (h \in Reading(flows) /\ h # f) \/ (h = g /\ f \in Reading(flows))
    BY <1>2, <1>3, <1>7 DEF Reading
  <1>9. FlowsOK' /\ RevokedThere'
    BY <1>3, <1>6, <1>7 DEF IInv, FlowsOK, FlowOK, RevokedThere, history
  <1>10. ToBeShown'
    BY <1>3, <1>6, <1>7 DEF IInv, ToBeShown, Waits, history
  <1>11. OneReload'
    BY <1>6, <1>8 DEF IInv, OneReload, history
  <1>12. Fresh'
    BY <1>1, <1>3, <1>6, <1>8
       DEF IInv, Fresh, ReadsRevoked, ListsRevoked, RevokedThere, Reading, history
  <1> QED BY <1>4, <1>5, <1>9, <1>10, <1>11, <1>12 DEF IInv

\* Elsewhere only what is live is revoked, and nothing is made live again.
LEMMA ElsewhereKeeps == ASSUME IInv, Elsewhere PROVE IInv'
  <1>1. TypeOK'
    BY DEF IInv, TypeOK, Elsewhere, Statuses, section, history
  <1>2. events' \in Nat
    BY DEF IInv, Elsewhere, Event
  <1>3. /\ \A x \in Creds : status[x] = "revoked" => status'[x] = "revoked"
        /\ UNCHANGED <<list, loading, error, flows, history>>
    BY DEF IInv, TypeOK, Elsewhere, section
  <1>4. Reading(flows)' = Reading(flows)
    BY <1>3 DEF Reading
  <1>5. FlowsOK' /\ ToBeShown' /\ OneReload' /\ Fresh'
    BY <1>3, <1>4 DEF IInv, FlowsOK, FlowOK, ToBeShown, Waits, OneReload, Fresh,
                      ReadsRevoked, ListsRevoked, history
  <1>6. RevokedThere'
    BY <1>3 DEF IInv, TypeOK, RevokedThere, FlowsOK, FlowOK, history
  <1> QED BY <1>1, <1>2, <1>5, <1>6 DEF IInv

--------------------------------------------------------------------------------
(* The answers.                                                            *)

\* From its answer on the handler of a creation waits for a reload of its own.
LEMMA SectionToldKeeps == ASSUME IInv, NEW f \in flows, SectionTold(f) PROVE IInv'
  <1> DEFINE g == [f EXCEPT !.step = "asked"]
             fs == (flows \ {f}) \cup {g}
  <1>1. FlowOK(f) /\ f.step = "done" /\ f.owner = "section" /\ ~f.gone /\ f.cred \in Creds
    BY DEF IInv, FlowsOK, FlowOK, SectionTold
  <1>2. /\ FlowOK(g) /\ g.step = "asked" /\ g.owner = "section" /\ ~g.gone
        /\ g.cred = f.cred /\ g.does = f.does
    BY <1>1 DEF FlowOK
  <1>3. Run(fs)
    BY DEF SectionTold, Asks
  <1> HIDE DEF g
  <1>4. flows' = fs /\ OneReload' /\ (crossed => crossed') /\ crossed' \in BOOLEAN
    BY <1>3, RunCounts DEF Run
  <1>5. /\ loading' = TRUE /\ UNCHANGED <<status, list, seen, cut>>
        /\ told' = told \/ (told' = told \cup {f.cred} /\ f.does = "revoke")
        /\ answered' = answered \/ (answered' = answered \cup {f.cred} /\ f.does # "revoke")
    BY DEF SectionTold
  <1>6. TypeOK' /\ events' \in Nat
    <2>1. /\ error' = FALSE /\ target' \in {target, None}
          /\ UNCHANGED <<view, busy, secret, revoking, card, events>>
      BY DEF SectionTold
    <2> QED BY <1>1, <1>4, <1>5, <2>1 DEF IInv, TypeOK
  <1>7. FlowsOK'
    BY <1>2, <1>4 DEF IInv, FlowsOK, FlowOK
  <1>8. ToBeShown'
    <2>1. \A c \in answered : c \in seen \cup cut \/ \E h \in flows' : Waits(h, c)
      BY <1>1, <1>4 DEF IInv, ToBeShown, Waits
    <2>2. f.does # "revoke" => Waits(g, f.cred) /\ g \in flows'
      BY <1>1, <1>2, <1>4 DEF Waits, FlowOK
    <2> QED BY <1>5, <2>1, <2>2 DEF ToBeShown, Waits
  <1>9. RevokedThere'
    BY <1>1, <1>2, <1>4, <1>5 DEF IInv, RevokedThere
  <1>10. Fresh'
    <2> SUFFICES ASSUME ~crossed' PROVE ReadsRevoked'
      BY <1>5 DEF Fresh, ListsRevoked
    <2>1. \A h \in Reading(flows)' : h = g
      BY <1>2, <1>4 DEF OneReload, Reading
    <2> QED BY <1>2, <2>1 DEF ReadsRevoked
  <1> QED BY <1>4, <1>6, <1>7, <1>8, <1>9, <1>10 DEF IInv

LEMMA CardToldKeeps == ASSUME IInv, NEW f \in flows, CardTold(f) PROVE IInv'
  <1> DEFINE g == [f EXCEPT !.step = "asked"]
             fs == (flows \ {f}) \cup {g}
  <1>1. FlowOK(f) /\ f.step = "done" /\ f.owner # "section" /\ ~f.gone /\ f.cred \in Creds
    BY DEF IInv, FlowsOK, FlowOK, CardTold
  <1>2. FlowOK(g) /\ g.step = "asked" /\ g.owner # "section"
    BY <1>1 DEF FlowOK
  <1>3. Run(fs)
    BY DEF CardTold, Asks
  <1> HIDE DEF g
  <1>4. flows' = fs /\ OneReload' /\ (crossed => crossed') /\ crossed' \in BOOLEAN
    BY <1>3, RunCounts DEF Run
  <1>5. /\ UNCHANGED <<status, view, section, cut, told, events>>
        /\ card' = [card EXCEPT !.token = f.cred]
        /\ answered' = answered \cup {f.cred} /\ seen' = seen \cup {f.cred}
    BY DEF CardTold
  <1>6. TypeOK' /\ events' \in Nat
    BY <1>1, <1>4, <1>5 DEF IInv, TypeOK, section
  <1>7. FlowsOK'
    BY <1>2, <1>4 DEF IInv, FlowsOK, FlowOK
  <1>8. ToBeShown'
    BY <1>1, <1>4, <1>5 DEF IInv, ToBeShown, Waits
  <1>9. RevokedThere'
    BY <1>2, <1>4, <1>5 DEF IInv, RevokedThere
  <1>10. Reading(flows)' \subseteq Reading(flows)
    BY <1>2, <1>4 DEF Reading
  <1>11. Fresh'
    BY <1>4, <1>5, <1>10 DEF IInv, Fresh, ReadsRevoked, ListsRevoked, section
  <1> QED BY <1>4, <1>6, <1>7, <1>8, <1>9, <1>11 DEF IInv

\* What the end of a handler does to the flags.
LEMMA SettleTypes ==
  ASSUME IInv, NEW f \in flows, Settle(f)
  PROVE  /\ flows' = flows \ {f} /\ busy' \subseteq Forms /\ revoking' \in BOOLEAN
         /\ card' \in [token : Creds \cup {None}, creating : BOOLEAN, loading : BOOLEAN]
  BY DEF IInv, TypeOK, Settle, Lowered

LEMMA ToldRefusedKeeps == ASSUME IInv, NEW f \in flows, ToldRefused(f) PROVE IInv'
  <1>1. /\ flows' = flows \ {f} /\ f.step = "refused"
        /\ UNCHANGED <<status, list, loading, error, history>>
    BY SettleTypes DEF ToldRefused
  <1>2. TypeOK' /\ events' \in Nat
    BY SettleTypes DEF IInv, TypeOK, ToldRefused, history
  <1>3. Reading(flows)' \subseteq Reading(flows)
    BY <1>1 DEF Reading
  <1>4. FlowsOK' /\ RevokedThere'
    BY <1>1 DEF IInv, FlowsOK, FlowOK, RevokedThere, history
  <1>5. ToBeShown'
    BY <1>1 DEF IInv, ToBeShown, Waits, history
  <1>6. OneReload' /\ Fresh'
    BY <1>1, <1>3 DEF IInv, OneReload, Fresh, ReadsRevoked, ListsRevoked, history
  <1> QED BY <1>2, <1>4, <1>5, <1>6 DEF IInv

\* The reload that a handler waited for: its secret is shown whatever was read,
\* and a list that could not be read is hidden by the error.
LEMMA EndLoadKeeps == ASSUME IInv, NEW f \in flows, EndLoad(f) PROVE IInv'
  <1>1. /\ FlowOK(f) /\ f.step = "read" /\ ~f.gone
        /\ flows' = flows \ {f}
        /\ UNCHANGED <<status, view, target, answered, cut, told, crossed, events>>
    BY SettleTypes DEF IInv, FlowsOK, FlowOK, EndLoad
  <1>2. f.does \in Forms => f.cred \in Creds \cup {None} /\ seen' = seen \cup {f.cred}
    BY <1>1 DEF EndLoad, Reveals, FlowOK
  <1>3. seen \subseteq seen'
    BY DEF EndLoad
  <1>4. f.owner # "section" => UNCHANGED <<list, loading, error>>
    BY DEF EndLoad
  <1>5. f.owner = "section" =>
          /\ f.data \in {Failed} \cup [Creds -> Statuses]
          /\ list' = IF f.data = Failed THEN list ELSE f.data
          /\ error' = (error \/ f.data = Failed) /\ loading' = FALSE
    BY <1>1 DEF EndLoad, ShowsError, FlowOK
  <1>6. Reading(flows)' \subseteq Reading(flows)
    BY <1>1 DEF Reading
  <1>7. FlowsOK' /\ RevokedThere'
    BY <1>1 DEF IInv, FlowsOK, FlowOK, RevokedThere
  <1>8. ToBeShown'
    <2> SUFFICES ASSUME NEW c \in answered
                 PROVE  c \in seen' \cup cut \/ \E h \in flows' : Waits(h, c)
      BY <1>1 DEF ToBeShown, Waits
    <2>1. c \in seen \cup cut \/ \E h \in flows : Waits(h, c)
      BY DEF IInv, ToBeShown
    <2>2. Waits(f, c) => c \in seen'
      BY <1>2 DEF Waits
    <2> QED BY <1>1, <1>3, <2>1, <2>2
  <1>9. OneReload'
    BY <1>1, <1>6 DEF IInv, OneReload
  <1>10. Fresh'
    <2> SUFFICES ASSUME ~crossed PROVE ReadsRevoked' /\ ListsRevoked'
      BY <1>1 DEF Fresh
    <2>1. ReadsRevoked /\ ListsRevoked
      BY DEF IInv, Fresh
    <2>2. ReadsRevoked'
      BY <1>1, <1>6, <2>1 DEF ReadsRevoked
    <2>3. ListsRevoked'
      <3>1. CASE f.owner # "section"
        BY <1>1, <1>4, <2>1, <3>1 DEF ListsRevoked
      <3>2. CASE f.owner = "section" /\ f.data = Failed
        BY <1>5, <3>2 DEF ListsRevoked
      <3>3. CASE f.owner = "section" /\ f.data # Failed
        <4>1. f \in Reading(flows)
          BY <1>1, <3>3 DEF Reading
        <4> QED BY <1>1, <1>5, <2>1, <3>3, <4>1 DEF ReadsRevoked, ListsRevoked
      <3> QED BY <3>1, <3>2, <3>3
    <2> QED BY <2>2, <2>3
  <1>11. TypeOK' /\ events' \in Nat
    <2>1. list' \in [Creds -> Statuses] /\ loading' \in BOOLEAN /\ error' \in BOOLEAN
      BY <1>1, <1>4, <1>5 DEF IInv, TypeOK
    <2>2. seen' \subseteq Creds /\ secret' \in Creds \cup {None}
      BY <1>1 DEF EndLoad, Reveals, FlowOK, IInv, TypeOK
    <2>3. Settle(f)
      BY DEF EndLoad
    <2> QED BY <1>1, <2>1, <2>2, <2>3, SettleTypes DEF IInv, TypeOK
  <1> QED BY <1>7, <1>8, <1>9, <1>10, <1>11 DEF IInv

--------------------------------------------------------------------------------
(* Every step.                                                             *)

LEMMA InitHolds == ASSUME Init PROVE IInv
  <1> DEFINE first(o) == [LoadOf(o) EXCEPT !.id = 0]
  <1>1. \A o \in {"section", "ios"} :
          /\ FlowOK(first(o)) /\ first(o).owner = o /\ first(o).step = "asked"
    BY DEF FlowOK, LoadOf, Flow
  <1>2. flows = {first(o) : o \in {"section", "ios"}}
    BY DEF Init
  <1> HIDE DEF first
  <1>3. TypeOK /\ events \in Nat
    BY ConstantsAssumption DEF Init, TypeOK, Statuses, EmptyCard
  <1>4. FlowsOK
    BY <1>1, <1>2 DEF FlowsOK
  <1>5. ToBeShown /\ RevokedThere
    BY <1>1, <1>2 DEF Init, ToBeShown, RevokedThere
  <1>6. OneReload
    BY <1>1, <1>2 DEF OneReload, Reading
  <1>7. Fresh
    BY DEF Init, Fresh, ReadsRevoked, ListsRevoked
  <1> QED BY <1>3, <1>4, <1>5, <1>6, <1>7 DEF IInv

LEMMA StutterKeeps == ASSUME IInv, UNCHANGED vars PROVE IInv'
  <1>1. TypeOK'
    BY DEF IInv, TypeOK, vars, section, history
  <1>2. events' \in Nat
    BY DEF IInv, vars
  <1> QED BY <1>1, <1>2, QuietStep DEF vars, section

LEMMA NextKeeps == ASSUME IInv, [Next]_vars PROVE IInv'
  <1>1. CASE Inputs
    BY <1>1, GoKeeps, CreateKeeps, GenerateKeeps, DismissKeeps, RefreshKeeps,
       AskRevokeKeeps, RevokeKeeps, CloseTargetKeeps, CloseSecretKeeps, RetryKeeps
       DEF Inputs, GenerateFullUrl, GenerateWebhookKey
  <1>2. CASE Handlers
    BY <1>2, ServeCreateKeeps, ServeRevokeKeeps, ServeReadKeeps, SectionToldKeeps,
       CardToldKeeps, ToldRefusedKeeps, EndLoadKeeps DEF Handlers
  <1>3. CASE Elsewhere
    BY <1>3, ElsewhereKeeps
  <1>4. CASE UNCHANGED vars
    BY <1>4, StutterKeeps
  <1> QED BY <1>1, <1>2, <1>3, <1>4 DEF Next

\* The inductive invariant: the handler of a creation carries its credential to
\* the screen, there is one reload of the section at a time unless two crossed,
\* and what it reads after a report shows the credential as revoked.
THEOREM Inductive == Spec => []IInv
  <1>1. Init => IInv
    BY InitHolds
  <1>2. IInv /\ [Next]_vars => IInv'
    BY NextKeeps
  <1> QED BY <1>1, <1>2, PTL DEF Spec

--------------------------------------------------------------------------------
(* The properties.                                                         *)

\* The variables keep their types, for any credentials and any inputs.
THEOREM TypeCorrect == Spec => []TypeOK
  <1>1. IInv => TypeOK
    BY DEF IInv
  <1> QED BY <1>1, Inductive, PTL

\* Every secret gets onto the screen unless its component was left, whatever
\* the reload before the dialog came to.
THEOREM SecretsAreShownCorrect == Spec => []SecretsAreShown
  <1>1. IInv => SecretsAreShown
    BY DEF IInv, ToBeShown, Waits, SecretsAreShown
  <1> QED BY <1>1, Inductive, PTL

\* A credential that was reported as revoked is not on offer while one reload of
\* the section is under way at a time.
THEOREM RevokedIsNotOfferedCorrect == Spec => []RevokedIsNotOffered
  <1>1. IInv => RevokedIsNotOffered
    BY DEF IInv, Fresh, ListsRevoked, RevokedIsNotOffered, Offered
  <1> QED BY <1>1, Inductive, PTL



--------------------------------------------------------------------------------
(* CsvText: a table that is written is read back.                           *)

\* A set of numbers that is not empty has a least one.
LEMMA LeastNumber ==
  ASSUME NEW S, S \subseteq Nat, S # {}
  PROVE  \E m \in S : \A n \in S : m <= n
<1>1. \E m \in S : \A n \in S : <<n, m>> \notin OpToRel(<, Nat)
  BY NatLessThanWellFounded, WFMin
<1>2. PICK m \in S : \A n \in S : <<n, m>> \notin OpToRel(<, Nat)
  BY <1>1
<1>3. \A n \in S : ~(n < m)
  BY <1>2 DEF OpToRel
<1> QED
  BY <1>3

\* Induction on the numbers, for a set.
LEMMA Induction ==
  ASSUME NEW S, 0 \in S, \A n \in Nat : n \in S => n + 1 \in S
  PROVE  Nat \subseteq S
<1> DEFINE Bad == Nat \ S
<1> SUFFICES ASSUME Bad # {} PROVE FALSE
  OBVIOUS
<1>1. Bad \subseteq Nat
  OBVIOUS
<1>2. PICK m \in Bad : \A n \in Bad : m <= n
  <2> HIDE DEF Bad
  <2> QED
    BY <1>1, LeastNumber
<1>3. m # 0 /\ m - 1 \in Nat /\ m - 1 < m
  OBVIOUS
<1>4. m - 1 \in S
  BY <1>2, <1>3
<1> QED
  BY <1>3, <1>4

\* The states of the reader, before and after each character.
Reads(text, after) ==
  /\ after = [i \in 0 .. Len(text) |->
                IF i = 0 THEN Begun
                ELSE ReadChar(after[i - 1], text[i], Following(text, i))]

\* The states of the reader over a text exist: one for each character read.
LEMMA ReaderRuns ==
  ASSUME NEW text, Len(text) \in Nat
  PROVE  \E after : Reads(text, after)
<1> DEFINE N == Len(text)
<1> DEFINE Step(a, i) == ReadChar(a, text[i], Following(text, i))
<1> DEFINE Good == {n \in Nat : \E f : f = [i \in 0 .. n |->
                                 IF i = 0 THEN Begun ELSE Step(f[i - 1], i)]}
<1>1. 0 \in Good
  <2> DEFINE f == [i \in 0 .. 0 |-> Begun]
  <2>1. f = [i \in 0 .. 0 |-> IF i = 0 THEN Begun ELSE Step(f[i - 1], i)]
    BY DEF ReadChar, Following
  <2> QED
    BY <2>1
<1>2. ASSUME NEW n \in Nat, n \in Good PROVE n + 1 \in Good
  <2>1. PICK f : f = [i \in 0 .. n |-> IF i = 0 THEN Begun ELSE Step(f[i - 1], i)]
    BY <1>2
  <2> DEFINE g == [i \in 0 .. n + 1 |-> IF i = n + 1 THEN Step(f[n], n + 1) ELSE f[i]]
  <2> HIDE DEF Step
  <2>2. g = [i \in 0 .. n + 1 |-> IF i = 0 THEN Begun ELSE Step(g[i - 1], i)]
    <3>1. ASSUME NEW i \in 0 .. n + 1
          PROVE  g[i] = IF i = 0 THEN Begun ELSE Step(g[i - 1], i)
      <4>1. CASE i = n + 1
        <5>1. g[i - 1] = f[n] /\ i # 0
          BY <4>1
        <5> QED
          BY <4>1, <5>1
      <4>2. CASE i = 0
        BY <2>1, <4>2
      <4>3. CASE i \in 1 .. n
        <5>1. g[i] = f[i] /\ g[i - 1] = f[i - 1] /\ i \in 0 .. n
          BY <4>3
        <5> QED
          BY <2>1, <4>3, <5>1
      <4> QED
        BY <4>1, <4>2, <4>3
    <3>2. g = [i \in 0 .. n + 1 |-> g[i]]
      OBVIOUS
    <3> HIDE DEF g
    <3> QED
      BY <3>1, <3>2
  <2> HIDE DEF g
  <2>3. \E f2 : f2 = [i \in 0 .. n + 1 |-> IF i = 0 THEN Begun ELSE Step(f2[i - 1], i)]
    BY <2>2
  <2> QED
    BY <2>3
<1>3. N \in Good
  <2> HIDE DEF Good
  <2> QED
    BY <1>1, <1>2, Induction
<1> QED
  BY <1>3 DEF Reads

\* What the reader gives is told by any such states.
LEMMA Parsed ==
  ASSUME NEW text, Len(text) \in Nat
  PROVE  \E after : /\ Reads(text, after)
                    /\ ParseLines(text) = IF after[Len(text)].cell # <<>> \/ after[Len(text)].row # <<>>
                          THEN EndRow(after[Len(text)]) ELSE after[Len(text)].rows
<1> DEFINE a == CHOOSE f : Reads(text, f)
<1>1. Reads(text, a)
  BY ReaderRuns
<1>2. ParseLines(text) = IF a[Len(text)].cell # <<>> \/ a[Len(text)].row # <<>>
                          THEN EndRow(a[Len(text)]) ELSE a[Len(text)].rows
  BY DEF ParseLines, Reads
<1> QED
  BY <1>1, <1>2

--------------------------------------------------------------------------------
State(above, row, cell, inside, skip) ==
  [rows |-> above, row |-> row, cell |-> cell, inside |-> inside, skip |-> skip]

\* The characters the reader tells apart are different ones.
LEMMA Characters == /\ Quote # Comma /\ Quote \notin {"\n", "\r"}
                    /\ Comma \notin {"\n", "\r"} /\ "\n" # "\r" /\ None # Quote
BY TextAssumption DEF Quote, Comma

\* A doubled quote inside quotes adds one quote to the cell.
LEMMA ReadsDoubled ==
  ASSUME NEW rs, NEW r, NEW cell, NEW next
  PROVE  LET first == ReadChar(State(rs, r, cell, TRUE, FALSE), Quote, Quote)
         IN  ReadChar(first, Quote, next)
               = State(rs, r, Append(cell, Quote), TRUE, FALSE)
<1>1. ReadChar(State(rs, r, cell, TRUE, FALSE), Quote, Quote)
        = State(rs, r, Append(cell, Quote), TRUE, TRUE)
  BY DEF ReadChar, State
<1>2. ReadChar(State(rs, r, Append(cell, Quote), TRUE, TRUE), Quote, next)
        = State(rs, r, Append(cell, Quote), TRUE, FALSE)
  BY DEF ReadChar, State
<1> QED
  BY <1>1, <1>2

\* A quote that is not doubled opens or closes.
LEMMA ReadsQuote ==
  ASSUME NEW rs, NEW r, NEW cell, NEW next
  PROVE  /\ ReadChar(State(rs, r, cell, FALSE, FALSE), Quote, next)
              = State(rs, r, cell, TRUE, FALSE)
         /\ next # Quote => ReadChar(State(rs, r, cell, TRUE, FALSE), Quote, next)
              = State(rs, r, cell, FALSE, FALSE)
<1>1. PICK yes, no : yes = TRUE /\ no = FALSE
  OBVIOUS
<1>2. /\ [State(rs, r, cell, no, no) EXCEPT !.inside = yes] = State(rs, r, cell, yes, no)
      /\ [State(rs, r, cell, yes, no) EXCEPT !.inside = no] = State(rs, r, cell, no, no)
  BY DEF State
<1>3. ReadChar(State(rs, r, cell, FALSE, FALSE), Quote, next)
       = [State(rs, r, cell, FALSE, FALSE) EXCEPT !.inside = TRUE]
  BY DEF ReadChar, State
<1>4. next # Quote => ReadChar(State(rs, r, cell, TRUE, FALSE), Quote, next)
       = [State(rs, r, cell, TRUE, FALSE) EXCEPT !.inside = FALSE]
  BY DEF ReadChar, State
<1> QED
  BY <1>1, <1>2, <1>3, <1>4, Zenon

\* A comma outside quotes ends the cell.
LEMMA ReadsComma ==
  ASSUME NEW rs, NEW r, NEW cell, NEW next
  PROVE  ReadChar(State(rs, r, cell, FALSE, FALSE), Comma, next)
           = State(rs, Append(r, Trim(cell)), <<>>, FALSE, FALSE)
BY Characters DEF ReadChar, State

Ended(rs, r, cell) ==
  LET row == Append(r, Trim(cell))
  IN  IF \E i \in 1 .. Len(row) : row[i] # <<>> THEN Append(rs, row) ELSE rs

\* A line break outside quotes ends the row.
LEMMA ReadsBreak ==
  ASSUME NEW rs, NEW r, NEW cell, NEW next
  PROVE  ReadChar(State(rs, r, cell, FALSE, FALSE), "\n", next)
           = State(Ended(rs, r, cell), <<>>, <<>>, FALSE, FALSE)
<1>1. EndRow(State(rs, r, cell, FALSE, FALSE)) = Ended(rs, r, cell)
  BY DEF EndRow, Ended, State
<1> QED
  BY <1>1, Characters DEF ReadChar, State

--------------------------------------------------------------------------------
\* Between two characters, outside quotes and inside.
Outside(above, row, cell) == State(above, row, cell, FALSE, FALSE)
Inside(above, row, cell) == State(above, row, cell, TRUE, FALSE)

\* Characters of a cell, outside quotes and inside.
LEMMA Letters ==
  ASSUME NEW rs, NEW r, NEW cell, NEW c, NEW next
  PROVE  /\ c \notin {Comma, Quote, "\n", "\r"} =>
              ReadChar(Outside(rs, r, cell), c, next) = Outside(rs, r, Append(cell, c))
         /\ c # Quote => ReadChar(Inside(rs, r, cell), c, next)
                           = Inside(rs, r, Append(cell, c))
<1>1. c \notin {Comma, Quote, "\n", "\r"} =>
              ReadChar(Outside(rs, r, cell), c, next) = Outside(rs, r, Append(cell, c))
  BY DEF ReadChar, State, Outside
<1>2. c # Quote => ReadChar(Inside(rs, r, cell), c, next) = Inside(rs, r, Append(cell, c))
  BY DEF ReadChar, State, Inside
<1> QED
  BY <1>1, <1>2

\* The characters that mean something: quotes, the comma and the line break.
LEMMA Marks ==
  ASSUME NEW rs, NEW r, NEW cell, NEW next
  PROVE  /\ ReadChar(ReadChar(Inside(rs, r, cell), Quote, Quote), Quote, next)
              = Inside(rs, r, Append(cell, Quote))
         /\ ReadChar(Outside(rs, r, cell), Quote, next) = Inside(rs, r, cell)
         /\ next # Quote =>
              ReadChar(Inside(rs, r, cell), Quote, next) = Outside(rs, r, cell)
         /\ ReadChar(Outside(rs, r, cell), Comma, next)
              = Outside(rs, Append(r, Trim(cell)), <<>>)
         /\ ReadChar(Outside(rs, r, cell), "\n", next)
              = Outside(Ended(rs, r, cell), <<>>, <<>>)
<1>3. ReadChar(ReadChar(Inside(rs, r, cell), Quote, Quote), Quote, next)
        = Inside(rs, r, Append(cell, Quote))
  BY ReadsDoubled, Zenon DEF Inside
<1>4. /\ ReadChar(Outside(rs, r, cell), Quote, next) = Inside(rs, r, cell)
      /\ next # Quote =>
              ReadChar(Inside(rs, r, cell), Quote, next) = Outside(rs, r, cell)
  BY ReadsQuote, Zenon DEF Inside, Outside
<1>5. ReadChar(Outside(rs, r, cell), Comma, next)
        = Outside(rs, Append(r, Trim(cell)), <<>>)
  BY ReadsComma, Zenon DEF Outside
<1>6. ReadChar(Outside(rs, r, cell), "\n", next)
        = Outside(Ended(rs, r, cell), <<>>, <<>>)
  BY ReadsBreak, Zenon DEF Outside
<1> QED
  BY <1>3, <1>4, <1>5, <1>6

--------------------------------------------------------------------------------
(* Texts within a text.                                                    *)

\* The text a begins after position p of the text T.
Sits(T, p, a) ==
  /\ p \in Nat /\ p + Len(a) <= Len(T)
  /\ \A i \in 1 .. Len(a) : T[p + i] = a[i]

\* Where two texts sit one behind the other, each sits.
LEMMA SitsApart ==
  ASSUME NEW C, NEW T \in Seq(C), NEW a \in Seq(C), NEW b \in Seq(C), NEW p,
         Sits(T, p, a \o b)
  PROVE  Sits(T, p, a) /\ Sits(T, p + Len(a), b) /\ Len(a \o b) = Len(a) + Len(b)
<1>1. Len(a \o b) = Len(a) + Len(b) /\ Len(a) \in Nat /\ Len(b) \in Nat /\ Len(T) \in Nat
  OBVIOUS
<1>2. /\ \A i \in 1 .. Len(a) : (a \o b)[i] = a[i]
      /\ \A i \in 1 .. Len(b) : (a \o b)[Len(a) + i] = b[i]
  OBVIOUS
<1>3. Sits(T, p, a)
  <2>1. p \in Nat /\ p + Len(a) <= Len(T)
    BY <1>1 DEF Sits
  <2>2. \A i \in 1 .. Len(a) : i \in 1 .. Len(a \o b)
    BY <1>1
  <2> QED
    BY <1>2, <2>1, <2>2 DEF Sits
<1>4. ASSUME NEW i \in 1 .. Len(b) PROVE T[(p + Len(a)) + i] = b[i]
  <2>1. Len(a) + i \in 1 .. Len(a \o b)
    BY <1>1
  <2>2. T[p + (Len(a) + i)] = b[i]
    BY <1>2, <2>1 DEF Sits
  <2>3. p + (Len(a) + i) = (p + Len(a)) + i
    BY <1>1 DEF Sits
  <2> QED
    BY <2>2, <2>3
<1>5. Sits(T, p + Len(a), b)
  BY <1>1, <1>4 DEF Sits
<1> QED
  BY <1>1, <1>3, <1>5

\* FlattenSeq, one text after the other.
LEMMA FlattenRuns ==
  ASSUME NEW s, NEW N \in Nat
  PROVE  \E h : h = [i \in 1 .. N |-> IF i = 1 THEN s[i] ELSE h[i - 1] \o s[i]]
<1> DEFINE Runs(h, n) == h = [i \in 1 .. n |-> IF i = 1 THEN s[i] ELSE h[i - 1] \o s[i]]
           Good == {n \in Nat : \E h : Runs(h, n)}
<1>1. 0 \in Good
  <2> DEFINE h == [i \in 1 .. 0 |-> s[i]]
  <2>1. Runs(h, 0)
    OBVIOUS
  <2>2. \E g : Runs(g, 0)
    BY <2>1
  <2> QED
    BY <2>2
<1>2. ASSUME NEW n \in Nat, n \in Good PROVE n + 1 \in Good
  <2>1. PICK h : Runs(h, n)
    BY <1>2
  <2> DEFINE new == IF n = 0 THEN s[1] ELSE h[n] \o s[n + 1]
             g == [i \in 1 .. n + 1 |-> IF i = n + 1 THEN new ELSE h[i]]
  <2>4. ASSUME NEW i \in 1 .. n + 1
        PROVE  g[i] = IF i = 1 THEN s[i] ELSE g[i - 1] \o s[i]
    <3>1. CASE i = n + 1
      <4>1. n # 0 => g[i - 1] = h[n]
        BY <3>1
      <4> QED
        BY <3>1, <4>1
    <3>2. CASE i \in 1 .. n
      <4>1. g[i] = h[i] /\ (i # 1 => g[i - 1] = h[i - 1])
        BY <3>2
      <4> QED
        BY <2>1, <3>2, <4>1
    <3> QED
      BY <3>1, <3>2
  <2>5. g = [i \in 1 .. n + 1 |-> g[i]]
    OBVIOUS
  <2> HIDE DEF g
  <2>6. Runs(g, n + 1)
    BY <2>4, <2>5
  <2>7. \E f : Runs(f, n + 1)
    BY <2>6
  <2> HIDE DEF Runs
  <2> QED
    BY <2>7
<1>3. N \in Good
  <2> HIDE DEF Good
  <2> QED
    BY <1>1, <1>2, Induction
<1> QED
  BY <1>3

\* The pieces put together so far are a text.
LEMMA FlattenTypes ==
  ASSUME NEW C, NEW s \in Seq(Seq(C)), NEW k,
         \A i \in 1 .. Len(s) : k[i] = IF i = 1 THEN s[i] ELSE k[i - 1] \o s[i]
  PROVE  \A i \in 1 .. Len(s) : k[i] \in Seq(C)
<1> DEFINE N == Len(s)
           Typed == {n \in Nat : n \in 1 .. N => k[n] \in Seq(C)}
<1>1. N \in Nat /\ \A i \in 1 .. N : s[i] \in Seq(C)
  OBVIOUS
<1> HIDE DEF N
<1>2. 0 \in Typed
  OBVIOUS
<1>3. ASSUME NEW n \in Nat, n \in Typed PROVE n + 1 \in Typed
  <2>1. ASSUME n + 1 \in 1 .. N PROVE k[n + 1] \in Seq(C)
    <3>1. k[n + 1] = IF n + 1 = 1 THEN s[n + 1] ELSE k[(n + 1) - 1] \o s[n + 1]
      BY <2>1 DEF N
    <3>2. s[n + 1] \in Seq(C)
      BY <1>1, <2>1
    <3>3. CASE n # 0
      <4>1. k[n] \in Seq(C) /\ (n + 1) - 1 = n /\ n + 1 # 1
        BY <1>3, <1>1, <2>1, <3>3
      <4>2. k[n + 1] = k[n] \o s[n + 1]
        BY <3>1, <4>1
      <4> QED
        BY <3>2, <4>1, <4>2
    <3> QED
      BY <3>1, <3>2, <3>3
  <2> QED
    BY <2>1
<1>4. Nat \subseteq Typed
  <2> HIDE DEF Typed
  <2> QED
    BY <1>2, <1>3, Induction
<1> QED
  BY <1>1, <1>4 DEF N

\* FlattenSeq puts one piece behind the other.
LEMMA Flattened ==
  ASSUME NEW C, NEW s \in Seq(Seq(C))
  PROVE  \E f \in [0 .. Len(s) -> Seq(C)] :
           /\ f[0] = <<>>
           /\ \A i \in 1 .. Len(s) : f[i] = f[i - 1] \o s[i]
           /\ FlattenSeq(s) = f[Len(s)]
<1> DEFINE N == Len(s)
           Runs(h) == h = [i \in 1 .. N |-> IF i = 1 THEN s[i] ELSE h[i - 1] \o s[i]]
           k == CHOOSE h : Runs(h)
           f == [i \in 0 .. N |-> IF i = 0 THEN <<>> ELSE k[i]]
<1>1. N \in Nat /\ \A i \in 1 .. N : s[i] \in Seq(C)
  OBVIOUS
<1>2. Runs(k)
  <2>1. \E h : Runs(h)
    BY <1>1, FlattenRuns
  <2> QED
    BY <2>1
<1>3. FlattenSeq(s) = IF N = 0 THEN s ELSE k[N]
  BY DEF FlattenSeq
<1> HIDE DEF k
<1>4. \A i \in 1 .. N : k[i] = IF i = 1 THEN s[i] ELSE k[i - 1] \o s[i]
  BY <1>2
<1>5. \A i \in 1 .. N : k[i] \in Seq(C)
  BY <1>4, FlattenTypes
<1> HIDE DEF N
<1>6. f \in [0 .. N -> Seq(C)]
  <2>1. <<>> \in Seq(C)
    OBVIOUS
  <2>2. \A i \in 0 .. N : (IF i = 0 THEN <<>> ELSE k[i]) \in Seq(C)
    BY <1>1, <1>5, <2>1
  <2> QED
    BY <2>2
<1>7. f[0] = <<>>
  BY <1>1
<1>8. ASSUME NEW i \in 1 .. N PROVE f[i] = f[i - 1] \o s[i]
  <2>1. <<>> \o s[i] = s[i]
    BY <1>1
  <2>2. f[i] = k[i] /\ f[i - 1] = IF i = 1 THEN <<>> ELSE k[i - 1]
    BY <1>1
  <2> QED
    BY <1>4, <2>1, <2>2
<1>9. FlattenSeq(s) = f[N]
  <2>1. N = 0 => s = <<>>
    BY DEF N
  <2> QED
    BY <1>1, <1>3, <2>1
<1> HIDE DEF f
<1> QED
  BY <1>6, <1>7, <1>8, <1>9 DEF N

\* f[i] is what the first i texts of s give together.
Together(f, s, C) ==
  /\ f \in [0 .. Len(s) -> Seq(C)]
  /\ \A i \in 1 .. Len(s) : f[i] = f[i - 1] \o s[i]

\* Where a text sits, its pieces sit one after the other.
LEMMA PiecesSit ==
  ASSUME NEW C, NEW T \in Seq(C), NEW s \in Seq(Seq(C)), NEW p,
         NEW f, Together(f, s, C),
         Sits(T, p, f[Len(s)])
  PROVE  \A i \in 1 .. Len(s) :
           Sits(T, p + Len(f[i - 1]), s[i])
<1> DEFINE N == Len(s)
           Good == {n \in Nat : n <= N => Sits(T, p, f[N - n])}
<1>1. N \in Nat /\ \A i \in 1 .. N : s[i] \in Seq(C) /\ f[i] \in Seq(C) /\ f[i - 1] \in Seq(C)
  <2>1. N \in Nat
    OBVIOUS
  <2>2. ASSUME NEW i \in 1 .. N PROVE s[i] \in Seq(C)
    OBVIOUS
  <2>3. ASSUME NEW i \in 1 .. N PROVE f[i] \in Seq(C) /\ f[i - 1] \in Seq(C)
    <3>1. i \in 0 .. Len(s) /\ i - 1 \in 0 .. Len(s)
      BY <2>1
    <3> QED
      BY <3>1 DEF Together
  <2> QED
    BY <2>1, <2>2, <2>3
<1> HIDE DEF N
<1>2. ASSUME NEW i \in 1 .. N, Sits(T, p, f[i])
      PROVE  /\ Sits(T, p, f[i - 1]) /\ Sits(T, p + Len(f[i - 1]), s[i])
             /\ Len(f[i]) = Len(f[i - 1]) + Len(s[i])
  <2>1. f[i] = f[i - 1] \o s[i]
    BY DEF N, Together
  <2> QED
    BY <1>1, <1>2, <2>1, SitsApart
<1>3. 0 \in Good
  BY <1>1 DEF N
<1>4. ASSUME NEW n \in Nat, n \in Good PROVE n + 1 \in Good
  <2>1. ASSUME n + 1 <= N PROVE Sits(T, p, f[N - (n + 1)])
    <3>1. N - n \in 1 .. N /\ (N - n) - 1 = N - (n + 1) /\ n <= N
      BY <1>1, <2>1
    <3>2. Sits(T, p, f[N - n])
      BY <1>4, <3>1
    <3> QED
      BY <1>2, <3>1, <3>2
  <2> QED
    BY <2>1
<1>5. Nat \subseteq Good
  <2> HIDE DEF Good
  <2> QED
    BY <1>3, <1>4, Induction
<1>6. ASSUME NEW i \in 1 .. N PROVE Sits(T, p, f[i])
  <2>1. N - i \in Nat /\ N - i <= N /\ N - (N - i) = i
    BY <1>1
  <2> QED
    BY <1>5, <2>1
<1> QED
  BY <1>2, <1>6 DEF N

\* at[i] is where the i-th of the joined texts begins in T.
JoinedAt(at, T, texts, sep, p) ==
  /\ at \in [1 .. Len(texts) -> Nat] /\ at[1] = p
  /\ \A i \in 1 .. Len(texts) : Sits(T, at[i], texts[i])
  /\ \A i \in 1 .. Len(texts) - 1 :
       /\ at[i + 1] = at[i] + Len(texts[i]) + 1
       /\ at[i + 1] <= Len(T) /\ T[at[i + 1]] = sep
  /\ at[Len(texts)] + Len(texts[Len(texts)]) = p + Len(Joined(texts, sep))

\* Where joined texts sit, each sits behind a separator.
LEMMA JoinedSits ==
  ASSUME NEW C, NEW T \in Seq(C), NEW texts \in Seq(Seq(C)), NEW sep \in C, NEW p,
         texts # <<>>, Sits(T, p, Joined(texts, sep))
  PROVE  \E at : JoinedAt(at, T, texts, sep, p)
<1> DEFINE N == Len(texts)
           rest == [i \in 1 .. N - 1 |-> <<sep>> \o texts[i + 1]]
<1>1. N \in Nat \ {0} /\ \A i \in 1 .. N : texts[i] \in Seq(C) /\ Len(texts[i]) \in Nat
  OBVIOUS
<1>2. Joined(texts, sep) = texts[1] \o FlattenSeq(rest)
  BY DEF Joined
<1> HIDE DEF N
<1>3. rest \in Seq(Seq(C)) /\ Len(rest) = N - 1
  <2>1. \A i \in 1 .. N - 1 : <<sep>> \o texts[i + 1] \in Seq(C)
    <3>1. <<sep>> \in Seq(C)
      OBVIOUS
    <3>2. \A i \in 1 .. N - 1 : texts[i + 1] \in Seq(C)
      BY <1>1
    <3> QED
      BY <3>1, <3>2
  <2> QED
    BY <1>1, <2>1
<1>4. PICK f \in [0 .. N - 1 -> Seq(C)] :
        /\ f[0] = <<>>
        /\ \A i \in 1 .. N - 1 : f[i] = f[i - 1] \o rest[i]
        /\ FlattenSeq(rest) = f[N - 1]
  <2>1. Len(rest) = N - 1 /\ rest \in Seq(Seq(C))
    BY <1>3
  <2> HIDE DEF rest
  <2> QED
    BY <2>1, Flattened, ZenonT(40)
<1>5. \A i \in 1 .. N - 1 :
        rest[i] = <<sep>> \o texts[i + 1] /\ Len(rest[i]) = 1 + Len(texts[i + 1])
  <2>1. ASSUME NEW i \in 1 .. N - 1
        PROVE  Len(<<sep>> \o texts[i + 1]) = 1 + Len(texts[i + 1])
    BY <1>1
  <2> QED
    BY <2>1
<1> HIDE DEF rest
<1> DEFINE q == p + Len(texts[1])
           at == [i \in 1 .. N |-> IF i = 1 THEN p ELSE q + Len(f[i - 2]) + 1]
<1>6. /\ Sits(T, p, texts[1]) /\ Sits(T, q, f[N - 1])
      /\ Len(Joined(texts, sep)) = Len(texts[1]) + Len(f[N - 1])
  <2>1. f[N - 1] \in Seq(C)
    BY <1>1, <1>4
  <2> QED
    BY <1>1, <1>2, <1>4, <2>1, SitsApart
<1>7. p \in Nat /\ q \in Nat /\ \A i \in 0 .. N - 1 : f[i] \in Seq(C) /\ Len(f[i]) \in Nat
  BY <1>1, <1>4, <1>6 DEF Sits
<1> HIDE DEF q
<1>81. ASSUME NEW i \in 1 .. N - 1 PROVE Sits(T, q + Len(f[i - 1]), rest[i])
  <2> HIDE DEF at
  <2>1. /\ Len(rest) = N - 1 /\ Together(f, rest, C)
        /\ rest \in Seq(Seq(C)) /\ Sits(T, q, f[Len(rest)])
    BY <1>3, <1>4, <1>6 DEF Together
  <2>2. i \in 1 .. Len(rest)
    BY <2>1
  <2> QED
    BY <2>1, <2>2, PiecesSit, Zenon
<1>82. ASSUME NEW i \in 1 .. N - 1 PROVE Len(f[i]) = Len(f[i - 1]) + Len(rest[i])
  <2>1. i \in 0 .. N - 1 /\ i - 1 \in 0 .. N - 1
    BY <1>1
  <2>2. f[i] \in Seq(C) /\ f[i - 1] \in Seq(C) /\ rest[i] \in Seq(C)
    BY <1>3, <1>7, <2>1
  <2>3. f[i] = f[i - 1] \o rest[i]
    BY <1>4
  <2> QED
    BY <2>2, <2>3
<1>8. \A i \in 1 .. N - 1 : /\ Sits(T, q + Len(f[i - 1]), rest[i])
                            /\ Len(f[i]) = Len(f[i - 1]) + Len(rest[i])
  BY <1>81, <1>82
<1>9. ASSUME NEW i \in 1 .. N - 1
      PROVE  /\ Sits(T, q + Len(f[i - 1]) + 1, texts[i + 1])
             /\ q + Len(f[i - 1]) + 1 <= Len(T)
             /\ T[q + Len(f[i - 1]) + 1] = sep
  <2> DEFINE r == q + Len(f[i - 1])
  <2>1. r \in Nat /\ texts[i + 1] \in Seq(C) /\ <<sep>> \in Seq(C)
    BY <1>1, <1>7
  <2>2. Sits(T, r, <<sep>> \o texts[i + 1])
    BY <1>5, <1>8
  <2> HIDE DEF r
  <2>3. Sits(T, r, <<sep>>) /\ Sits(T, r + Len(<<sep>>), texts[i + 1])
    BY <2>1, <2>2, SitsApart
  <2>4. Len(<<sep>>) = 1 /\ <<sep>>[1] = sep
    OBVIOUS
  <2>5. r + 1 <= Len(T) /\ T[r + 1] = sep
    BY <2>3, <2>4 DEF Sits
  <2> QED
    BY <2>3, <2>4, <2>5 DEF r
<1>10. at \in [1 .. N -> Nat] /\ at[1] = p
  BY <1>1, <1>7
<1>11. ASSUME NEW i \in 1 .. N PROVE Sits(T, at[i], texts[i])
  <2>1. CASE i = 1
    BY <1>6, <2>1
  <2>2. CASE i # 1
    <3>1. i - 1 \in 1 .. N - 1 /\ (i - 1) - 1 = i - 2 /\ (i - 1) + 1 = i
      BY <1>1, <2>2
    <3>2. Sits(T, q + Len(f[i - 2]) + 1, texts[i])
      BY <1>9, <3>1
    <3> QED
      BY <2>2, <3>2
  <2> QED
    BY <2>1, <2>2
<1>12. ASSUME NEW i \in 1 .. N - 1
       PROVE  /\ at[i + 1] = at[i] + Len(texts[i]) + 1
              /\ at[i + 1] <= Len(T) /\ T[at[i + 1]] = sep
  <2>1. i + 1 \in 1 .. N /\ i + 1 # 1 /\ (i + 1) - 2 = i - 1
    BY <1>1
  <2>2. at[i + 1] = q + Len(f[i - 1]) + 1
    BY <2>1
  <2>3. at[i + 1] <= Len(T) /\ T[at[i + 1]] = sep
    BY <1>9, <2>2
  <2>4. q + Len(f[i - 1]) = at[i] + Len(texts[i])
    <3>1. CASE i = 1
      <4>1. f[i - 1] = <<>> /\ at[i] = p
        BY <1>1, <1>4, <3>1
      <4>2. Len(f[i - 1]) = 0
        BY <4>1
      <4>3. q = p + Len(texts[i])
        BY <3>1 DEF q
      <4> HIDE DEF at
      <4> QED
        BY <1>7, <4>1, <4>2, <4>3
    <3>2. CASE i # 1
      <4>1. i - 1 \in 1 .. N - 1 /\ (i - 1) - 1 = i - 2 /\ (i - 1) + 1 = i /\ i \in 1 .. N
        BY <1>1, <3>2
      <4>2. /\ Len(f[i - 1]) = Len(f[i - 2]) + Len(rest[i - 1])
            /\ Len(rest[i - 1]) = 1 + Len(texts[i])
        BY <1>5, <1>8, <4>1
      <4>3. at[i] = q + Len(f[i - 2]) + 1
        BY <3>2, <4>1
      <4>4. i - 2 \in 0 .. N - 1 /\ i - 1 \in 0 .. N - 1
        BY <1>1, <4>1
      <4>5. Len(f[i - 2]) \in Nat /\ Len(f[i - 1]) \in Nat /\ Len(texts[i]) \in Nat
        BY <1>1, <1>7, <4>1, <4>4
      <4> DEFINE a == Len(f[i - 1])
                 b == Len(f[i - 2])
                 c == Len(rest[i - 1])
                 d == Len(texts[i])
                 e == at[i]
      <4> HIDE DEF at, a, b, c, d, e
      <4>6. a = b + c /\ c = 1 + d /\ e = q + b + 1 /\ b \in Nat /\ d \in Nat /\ q \in Nat
        BY <1>7, <4>2, <4>3, <4>5 DEF a, b, c, d, e
      <4>7. q + a = e + d
        BY <4>6
      <4> QED
        BY <4>7 DEF a, d, e
    <3> QED
      BY <3>1, <3>2
  <2> QED
    BY <2>2, <2>3, <2>4
<1>13. at[N] + Len(texts[N]) = p + Len(Joined(texts, sep))
  <2>1. CASE N = 1
    <3>1. f[N - 1] = <<>> /\ at[N] = p
      BY <1>1, <1>4, <2>1
    <3>2. Len(f[N - 1]) = 0 /\ Len(texts[1]) \in Nat
      BY <1>1, <3>1
    <3>3. Len(Joined(texts, sep)) = Len(texts[1]) + Len(f[N - 1])
      BY <1>6
    <3> HIDE DEF at
    <3> QED
      BY <1>7, <2>1, <3>1, <3>2, <3>3
  <2>2. CASE N # 1
    <3>1. N - 1 \in 1 .. N - 1 /\ (N - 1) - 1 = N - 2 /\ (N - 1) + 1 = N /\ N \in 1 .. N
      BY <1>1, <2>2
    <3>2. /\ Len(f[N - 1]) = Len(f[N - 2]) + Len(rest[N - 1])
          /\ Len(rest[N - 1]) = 1 + Len(texts[N])
      BY <1>5, <1>8, <3>1
    <3>3. at[N] = q + Len(f[N - 2]) + 1
      BY <2>2, <3>1
    <3>4. N - 2 \in 0 .. N - 1 /\ N - 1 \in 0 .. N - 1
      BY <1>1, <3>1
    <3>5. /\ Len(f[N - 2]) \in Nat /\ Len(f[N - 1]) \in Nat
          /\ Len(texts[N]) \in Nat /\ Len(texts[1]) \in Nat
      BY <1>1, <1>7, <3>1, <3>4
    <3>6. q = p + Len(texts[1])
      BY DEF q
    <3>7. Len(Joined(texts, sep)) = Len(texts[1]) + Len(f[N - 1])
      BY <1>6
    <3> DEFINE a == Len(f[N - 1])
               b == Len(f[N - 2])
               c == Len(rest[N - 1])
               d == Len(texts[N])
               e == at[N]
               g == Len(texts[1])
               j == Len(Joined(texts, sep))
    <3> HIDE DEF at, a, b, c, d, e, g, j
    <3>8. /\ a = b + c /\ c = 1 + d /\ e = q + b + 1 /\ q = p + g /\ j = g + a
          /\ b \in Nat /\ d \in Nat /\ q \in Nat /\ g \in Nat /\ p \in Nat
      BY <1>7, <3>2, <3>3, <3>5, <3>6, <3>7 DEF a, b, c, d, e, g, j
    <3>9. e + d = p + j
      BY <3>8
    <3> QED
      BY <3>9 DEF d, e, j
  <2> QED
    BY <2>1, <2>2
<1> HIDE DEF at
<1>14. JoinedAt(at, T, texts, sep, p)
  BY <1>10, <1>11, <1>12, <1>13 DEF N, JoinedAt
<1> QED
  BY <1>14

--------------------------------------------------------------------------------
(* The reader on what was written.                                         *)

\* The reader begins outside, and reads one character after the other.
LEMMA OnReading ==
  ASSUME NEW T, Len(T) \in Nat, NEW after, Reads(T, after)
  PROVE  /\ after[0] = Outside(<<>>, <<>>, <<>>)
         /\ \A q \in 0 .. Len(T) - 1 :
              after[q + 1] = ReadChar(after[q], T[q + 1], Following(T, q + 1))
<1>1. after[0] = Begun
  BY DEF Reads
<1>2. Begun = Outside(<<>>, <<>>, <<>>)
  BY DEF Begun, State, Outside
<1>3. ASSUME NEW q \in 0 .. Len(T) - 1
      PROVE  after[q + 1] = ReadChar(after[q], T[q + 1], Following(T, q + 1))
  <2>1. q + 1 \in 0 .. Len(T) /\ q + 1 # 0 /\ (q + 1) - 1 = q
    OBVIOUS
  <2> QED
    BY <2>1 DEF Reads
<1> QED
  BY <1>1, <1>2, <1>3

\* A text and one character more of it.
LEMMA OneMore ==
  ASSUME NEW C, NEW t \in Seq(C), NEW n \in Nat, n < Len(t)
  PROVE  /\ Append(SubSeq(t, 1, n), t[n + 1]) = SubSeq(t, 1, n + 1)
         /\ SubSeq(t, 1, 0) = <<>> /\ SubSeq(t, 1, Len(t)) = t
OBVIOUS

Plain(t) == \A i \in 1 .. Len(t) : t[i] \notin {Comma, Quote, "\n", "\r"}

\* A cell without a special character is read as it is.
LEMMA PlainCell ==
  ASSUME NEW C, NEW T \in Seq(C), NEW after, Reads(T, after),
         NEW t \in Seq(C), Plain(t), NEW p, Sits(T, p, t), NEW rs, NEW r,
         after[p] = Outside(rs, r, <<>>)
  PROVE  after[p + Len(t)] = Outside(rs, r, t)
<1> DEFINE N == Len(t)
           S(n) == Outside(rs, r, SubSeq(t, 1, n))
           Good == {n \in Nat : n <= N => after[p + n] = S(n)}
<1>1. p \in Nat /\ N \in Nat /\ p + N <= Len(T) /\ Len(T) \in Nat
  BY DEF Sits
<1>2. 0 \in Good
  <2>1. SubSeq(t, 1, 0) = <<>> /\ p + 0 = p
    BY <1>1
  <2> QED
    BY <1>1, <2>1
<1>3. ASSUME NEW n \in Nat, n \in Good PROVE n + 1 \in Good
  <2>1. ASSUME n + 1 <= N PROVE after[p + (n + 1)] = S(n + 1)
    <3>1. /\ n < N /\ n + 1 \in 1 .. N /\ p + n \in 0 .. Len(T) - 1
          /\ (p + n) + 1 = p + (n + 1)
      BY <1>1, <2>1
    <3>2. after[p + n] = S(n)
      BY <1>3, <3>1
    <3>3. after[(p + n) + 1] = ReadChar(S(n), T[(p + n) + 1], Following(T, (p + n) + 1))
      BY <1>1, <3>1, <3>2, OnReading
    <3>4. T[(p + n) + 1] = t[n + 1] /\ t[n + 1] \notin {Comma, Quote, "\n", "\r"}
      BY <3>1 DEF Sits, Plain
    <3>5. Append(SubSeq(t, 1, n), t[n + 1]) = SubSeq(t, 1, n + 1)
      BY <3>1, OneMore
    <3>6. ReadChar(S(n), t[n + 1], Following(T, (p + n) + 1))
            = Outside(rs, r, Append(SubSeq(t, 1, n), t[n + 1]))
      BY <3>4, Letters
    <3> QED
      BY <3>1, <3>3, <3>4, <3>5, <3>6
  <2> QED
    BY <2>1
<1>4. N \in Good
  <2> HIDE DEF Good
  <2> QED
    BY <1>1, <1>2, <1>3, Induction
<1>5. after[p + N] = S(N)
  BY <1>4
<1>6. SubSeq(t, 1, N) = t
  OBVIOUS
<1> QED
  BY <1>5, <1>6

Doubled(t) == [i \in 1 .. Len(t) |-> IF t[i] = Quote THEN <<Quote, Quote>> ELSE <<t[i]>>]

\* A text between quotes, its quotes doubled, is read as it is.
LEMMA QuotedText ==
  ASSUME NEW C, Quote \in C, NEW T \in Seq(C), NEW after, Reads(T, after),
         NEW t \in Seq(C), NEW p, Sits(T, p, FlattenSeq(Doubled(t))), NEW rs, NEW r,
         after[p] = Inside(rs, r, <<>>)
  PROVE  /\ FlattenSeq(Doubled(t)) \in Seq(C)
         /\ after[p + Len(FlattenSeq(Doubled(t)))] = Inside(rs, r, t)
<1> DEFINE N == Len(t)
           s == Doubled(t)
           S(n) == Inside(rs, r, SubSeq(t, 1, n))
<1>1. N \in Nat /\ Len(s) = N /\ s \in Seq(Seq(C)) /\ Len(T) \in Nat /\ p \in Nat
  <2>1. \A i \in 1 .. N : t[i] \in C
    OBVIOUS
  <2>2. ASSUME NEW i \in 1 .. N
        PROVE (IF t[i] = Quote THEN <<Quote, Quote>> ELSE <<t[i]>>) \in Seq(C)
    BY <2>1
  <2> QED
    BY <2>2 DEF Doubled, Sits
<1>2. \A i \in 1 .. N : s[i] = IF t[i] = Quote THEN <<Quote, Quote>> ELSE <<t[i]>>
  BY DEF Doubled
<1> HIDE DEF s
<1>3. PICK f \in [0 .. Len(s) -> Seq(C)] :
           /\ f[0] = <<>>
           /\ \A i \in 1 .. Len(s) : f[i] = f[i - 1] \o s[i]
           /\ FlattenSeq(s) = f[Len(s)]
  BY <1>1, Flattened
<1>4. \A i \in 0 .. N : f[i] \in Seq(C) /\ Len(f[i]) \in Nat
  BY <1>1, <1>3
<1>5. ASSUME NEW i \in 1 .. N PROVE Sits(T, p + Len(f[i - 1]), s[i])
  <2>1. Together(f, s, C) /\ i \in 1 .. Len(s) /\ Sits(T, p, f[Len(s)])
    BY <1>1, <1>3 DEF Together, s
  <2> QED
    BY <1>1, <2>1, PiecesSit, Zenon
<1>6. ASSUME NEW i \in 1 .. N
      PROVE  Len(f[i]) = Len(f[i - 1]) + (IF t[i] = Quote THEN 2 ELSE 1)
  <2>1. f[i] = f[i - 1] \o s[i] /\ i \in 0 .. N /\ i - 1 \in 0 .. N
    <3>1. i \in 1 .. Len(s)
      BY <1>1
    <3>2. f[i] = f[i - 1] \o s[i]
      BY <1>3, <3>1
    <3>3. i \in 0 .. N /\ i - 1 \in 0 .. N
      BY <1>1
    <3> QED
      BY <3>2, <3>3
  <2>2. f[i - 1] \in Seq(C) /\ s[i] \in Seq(C)
    BY <1>1, <1>4, <2>1
  <2>3. Len(s[i]) = IF t[i] = Quote THEN 2 ELSE 1
    <3>1. Len(<<Quote, Quote>>) = 2 /\ Len(<<t[i]>>) = 1
      OBVIOUS
    <3>2. s[i] = IF t[i] = Quote THEN <<Quote, Quote>> ELSE <<t[i]>>
      BY <1>2
    <3>3. CASE t[i] = Quote
      BY <3>1, <3>2, <3>3
    <3>4. CASE t[i] # Quote
      BY <3>1, <3>2, <3>4
    <3> QED
      BY <3>3, <3>4
  <2>4. Len(f[i]) = Len(f[i - 1]) + Len(s[i])
    BY <2>1, <2>2
  <2> QED
    BY <2>3, <2>4
<1> DEFINE Good == {n \in Nat : n <= N => after[p + Len(f[n])] = S(n)}
<1>7. 0 \in Good
  <2>1. SubSeq(t, 1, 0) = <<>> /\ Len(f[0]) = 0
    BY <1>3
  <2>2. p + Len(f[0]) = p
    BY <1>1, <2>1
  <2>3. after[p + Len(f[0])] = S(0)
    BY <2>1, <2>2
  <2> QED
    BY <2>3
<1>8. ASSUME NEW n \in Nat, n \in Good PROVE n + 1 \in Good
  <2>1. ASSUME n + 1 <= N PROVE after[p + Len(f[n + 1])] = S(n + 1)
    <3> DEFINE q == p + Len(f[n])
               c == t[n + 1]
    <3>1. n < N /\ n + 1 \in 1 .. N /\ (n + 1) - 1 = n /\ n \in 0 .. N /\ n <= N
      BY <1>1, <2>1
    <3>2. after[q] = S(n) /\ q \in Nat
      BY <1>1, <1>4, <1>8, <3>1
    <3>3. Sits(T, q, s[n + 1])
      BY <1>5, <3>1
    <3>4. p + Len(f[n + 1]) = q + (IF c = Quote THEN 2 ELSE 1)
      <4>1. Len(f[n + 1]) = Len(f[n]) + (IF c = Quote THEN 2 ELSE 1)
        BY <1>6, <3>1
      <4>2. Len(f[n]) \in Nat
        BY <1>4, <3>1
      <4> DEFINE a == Len(f[n + 1])
                 b == Len(f[n])
                 d == IF c = Quote THEN 2 ELSE 1
      <4>3. a = b + d /\ b \in Nat /\ d \in Nat
        BY <4>1, <4>2
      <4>4. q = p + b
        OBVIOUS
      <4> HIDE DEF a, b, d, q
      <4>5. p + a = q + d
        BY <1>1, <4>3, <4>4
      <4> QED
        BY <4>5 DEF a, d
    <3>5. Append(SubSeq(t, 1, n), c) = SubSeq(t, 1, n + 1)
      BY <3>1, OneMore
    <3>6. s[n + 1] = IF c = Quote THEN <<Quote, Quote>> ELSE <<c>>
      BY <1>2, <3>1
    <3> HIDE DEF q, c
    <3>7. CASE c = Quote
      <4>1. q + 2 <= Len(T) /\ T[q + 1] = Quote /\ T[q + 2] = Quote
        <5>1. Sits(T, q, <<Quote, Quote>>)
          BY <3>3, <3>6, <3>7
        <5> QED
          BY <5>1 DEF Sits
      <4>2. /\ q \in 0 .. Len(T) - 1 /\ q + 1 \in 0 .. Len(T) - 1
            /\ (q + 1) + 1 = q + 2 /\ q + 1 < Len(T)
        BY <1>1, <3>2, <4>1
      <4>3. Following(T, q + 1) = Quote
        BY <4>1, <4>2 DEF Following
      <4>4. after[q + 1] = ReadChar(S(n), Quote, Quote)
        BY <1>1, <3>2, <4>1, <4>2, <4>3, OnReading
      <4>5. after[q + 2] = ReadChar(after[q + 1], Quote, Following(T, q + 2))
        BY <1>1, <4>1, <4>2, OnReading
      <4>6. ReadChar(ReadChar(S(n), Quote, Quote), Quote, Following(T, q + 2))
              = Inside(rs, r, Append(SubSeq(t, 1, n), Quote))
        BY Marks
      <4> QED
        BY <3>4, <3>5, <3>7, <4>4, <4>5, <4>6
    <3>8. CASE c # Quote
      <4>1. q + 1 <= Len(T) /\ T[q + 1] = c
        <5>1. Sits(T, q, <<c>>)
          BY <3>3, <3>6, <3>8
        <5> QED
          BY <5>1 DEF Sits
      <4>2. q \in 0 .. Len(T) - 1
        BY <1>1, <3>2, <4>1
      <4>3. after[q + 1] = ReadChar(S(n), c, Following(T, q + 1))
        BY <1>1, <3>2, <4>1, <4>2, OnReading
      <4>4. ReadChar(S(n), c, Following(T, q + 1))
              = Inside(rs, r, Append(SubSeq(t, 1, n), c))
        BY <3>8, Letters
      <4> QED
        BY <3>4, <3>5, <3>8, <4>3, <4>4
    <3> QED
      BY <3>7, <3>8
  <2> QED
    BY <2>1
<1>9. N \in Good
  <2> HIDE DEF Good
  <2> QED
    BY <1>1, <1>7, <1>8, Induction
<1>10. after[p + Len(f[N])] = S(N)
  BY <1>9
<1>11. SubSeq(t, 1, N) = t
  OBVIOUS
<1>12. FlattenSeq(Doubled(t)) = f[N]
  BY <1>1, <1>3 DEF s
<1> HIDE DEF N
<1>13. f[N] \in Seq(C)
  BY <1>1, <1>4
<1> QED
  BY <1>10, <1>11, <1>12, <1>13

\* The texts that are put together are texts of the same characters.
LEMMA Typed ==
  ASSUME NEW C
  PROVE  /\ \A s \in Seq(Seq(C)) : FlattenSeq(s) \in Seq(C)
         /\ \A s \in Seq(Seq(C)), sep \in C : Joined(s, sep) \in Seq(C)
         /\ Quote \in C => \A t \in Seq(C) : Doubled(t) \in Seq(Seq(C))
<1>1. ASSUME NEW s \in Seq(Seq(C)) PROVE FlattenSeq(s) \in Seq(C)
  <2>1. PICK f \in [0 .. Len(s) -> Seq(C)] : FlattenSeq(s) = f[Len(s)]
    BY Flattened
  <2> QED
    BY <2>1
<1>2. ASSUME NEW s \in Seq(Seq(C)), NEW sep \in C PROVE Joined(s, sep) \in Seq(C)
  <2>1. CASE s = <<>>
    BY <2>1 DEF Joined
  <2>2. CASE s # <<>>
    <3> DEFINE rest == [i \in 1 .. Len(s) - 1 |-> <<sep>> \o s[i + 1]]
    <3>1. s[1] \in Seq(C) /\ Len(s) - 1 \in Nat
      BY <2>2
    <3>2. ASSUME NEW i \in 1 .. Len(s) - 1 PROVE <<sep>> \o s[i + 1] \in Seq(C)
      <4>1. <<sep>> \in Seq(C) /\ s[i + 1] \in Seq(C)
        OBVIOUS
      <4> QED
        BY <4>1
    <3>3. rest \in Seq(Seq(C))
      BY <3>1, <3>2
    <3>4. Joined(s, sep) = s[1] \o FlattenSeq(rest)
      BY <2>2 DEF Joined
    <3> HIDE DEF rest
    <3>5. FlattenSeq(rest) \in Seq(C)
      BY <1>1, <3>3
    <3> QED
      BY <3>1, <3>4, <3>5
  <2> QED
    BY <2>1, <2>2
<1>3. ASSUME Quote \in C, NEW t \in Seq(C) PROVE Doubled(t) \in Seq(Seq(C))
  <2>1. \A i \in 1 .. Len(t) : t[i] \in C
    OBVIOUS
  <2>2. ASSUME NEW i \in 1 .. Len(t)
        PROVE (IF t[i] = Quote THEN <<Quote, Quote>> ELSE <<t[i]>>) \in Seq(C)
    BY <1>3, <2>1
  <2> QED
    BY <2>2 DEF Doubled
<1> QED
  BY <1>1, <1>2, <1>3

Quoted(t) == <<Quote>> \o FlattenSeq(Doubled(t)) \o <<Quote>>

\* A quoted cell is read as its text.
LEMMA QuotedCell ==
  ASSUME NEW C, Quote \in C, NEW T \in Seq(C), NEW after, Reads(T, after),
         NEW t \in Seq(C), NEW p,
         Sits(T, p, Quoted(t)), Following(T, p + Len(Quoted(t))) # Quote,
         NEW rs, NEW r, after[p] = Outside(rs, r, <<>>)
  PROVE  after[p + Len(Quoted(t))] = Outside(rs, r, t)
<1> DEFINE w == Quoted(t)
<1>0. Sits(T, p, w) /\ Following(T, p + Len(w)) # Quote
  OBVIOUS
<1> DEFINE F == FlattenSeq(Doubled(t))
           Q == <<Quote>>
<1>1. F \in Seq(C) /\ Q \in Seq(C) /\ Len(Q) = 1 /\ Q[1] = Quote
  BY Typed
<1> HIDE DEF F, Q
<1>2. w = (Q \o F) \o Q
  BY DEF F, Q, Quoted
<1> HIDE DEF w
<1>3. /\ Sits(T, p, Q \o F) /\ Sits(T, p + Len(Q \o F), Q)
      /\ Len((Q \o F) \o Q) = Len(Q \o F) + Len(Q)
  <2> DEFINE G == Q \o F
  <2>1. G \in Seq(C)
    BY <1>1
  <2>2. Sits(T, p, G \o Q)
    BY <1>0, <1>2
  <2> HIDE DEF G
  <2>3. Sits(T, p, G) /\ Sits(T, p + Len(G), Q)
    BY <1>1, <2>1, <2>2, SitsApart, Zenon
  <2>4. Len(G \o Q) = Len(G) + Len(Q)
    <3>1. \A a, b \in Seq(C) : Len(a \o b) = Len(a) + Len(b)
      OBVIOUS
    <3>2. G \in Seq(C) /\ Q \in Seq(C)
      BY <1>1, <2>1
    <3> QED
      BY <3>1, <3>2
  <2> QED
    BY <2>3, <2>4 DEF G
<1>4. /\ Sits(T, p, Q) /\ Sits(T, p + Len(Q), F)
      /\ Len(Q \o F) = Len(Q) + Len(F)
  BY <1>1, <1>3, SitsApart
<1>5. /\ p \in Nat /\ Len(T) \in Nat /\ p + 1 <= Len(T) /\ T[p + 1] = Quote
  BY <1>1, <1>4 DEF Sits
<1>6. after[p + 1] = Inside(rs, r, <<>>)
  <2>1. p \in 0 .. Len(T) - 1
    BY <1>5
  <2>2. after[p + 1] = ReadChar(Outside(rs, r, <<>>), Quote, Following(T, p + 1))
    BY <1>5, <2>1, OnReading
  <2> QED
    BY <2>2, Marks
<1>7. after[(p + 1) + Len(F)] = Inside(rs, r, t)
  <2>1. Sits(T, p + 1, F)
    BY <1>1, <1>4
  <2> QED
    BY <1>6, <2>1, QuotedText DEF F
<1> DEFINE q == (p + 1) + Len(F)
<1>8. p + Len(Q \o F) = q /\ p + Len(w) = q + 1 /\ q \in Nat
  <2> DEFINE a == Len(Q \o F)
             b == Len(F)
             c == Len(w)
  <2>1. a = 1 + b /\ c = a + 1 /\ b \in Nat
    BY <1>1, <1>2, <1>3, <1>4
  <2> HIDE DEF a, b, c
  <2>2. p + a = (p + 1) + b /\ p + c = ((p + 1) + b) + 1 /\ (p + 1) + b \in Nat
    BY <1>5, <2>1
  <2> QED
    BY <2>2 DEF a, b, c
<1> HIDE DEF q
<1>9. q + 1 <= Len(T) /\ T[q + 1] = Quote
  <2>1. Sits(T, q, Q)
    BY <1>3, <1>8
  <2> QED
    BY <1>1, <2>1 DEF Sits
<1>10. after[q + 1] = ReadChar(after[q], Quote, Following(T, q + 1))
  <2>1. q \in 0 .. Len(T) - 1
    BY <1>5, <1>8, <1>9
  <2> QED
    BY <1>5, <1>9, <2>1, OnReading
<1>11. after[q] = Inside(rs, r, t)
  BY <1>7 DEF q
<1>12. Following(T, q + 1) # Quote
  BY <1>0, <1>8
<1>13. after[p + Len(w)] = Outside(rs, r, t)
  BY <1>8, <1>10, <1>11, <1>12, Marks
<1> QED
  BY <1>13 DEF w

\* A cell, escaped as it is written, is read as it was.
LEMMA CellRead ==
  ASSUME NEW C, Quote \in C, NEW T \in Seq(C), NEW after, Reads(T, after),
         NEW t \in Seq(C), NEW p, Sits(T, p, Escape(t)),
         Following(T, p + Len(Escape(t))) # Quote,
         NEW rs, NEW r, after[p] = Outside(rs, r, <<>>)
  PROVE  after[p + Len(Escape(t))] = Outside(rs, r, t)
<1>1. CASE Plain(t)
  <2>1. Escape(t) = t
    BY <1>1 DEF Escape, Plain
  <2> QED
    BY <1>1, <2>1, PlainCell
<1>2. CASE ~Plain(t)
  <2>1. Escape(t) = Quoted(t)
    BY <1>2 DEF Escape, Plain, Doubled, Quoted
  <2>2. Sits(T, p, Quoted(t)) /\ Following(T, p + Len(Quoted(t))) # Quote
    BY <2>1
  <2>3. after[p + Len(Quoted(t))] = Outside(rs, r, t)
    BY <2>2, QuotedCell
  <2> QED
    BY <2>1, <2>3
<1> QED
  BY <1>1, <1>2

\* A cell as it is written is a text.
LEMMA EscapeTyped ==
  ASSUME NEW C, Quote \in C, NEW t \in Seq(C)
  PROVE  Escape(t) \in Seq(C)
<1>1. CASE Plain(t)
  <2>1. Escape(t) = t
    BY <1>1 DEF Escape, Plain
  <2> QED
    BY <2>1
<1>2. CASE ~Plain(t)
  <2>1. Escape(t) = <<Quote>> \o FlattenSeq(Doubled(t)) \o <<Quote>>
    BY <1>2 DEF Escape, Plain, Doubled
  <2>2. FlattenSeq(Doubled(t)) \in Seq(C) /\ <<Quote>> \in Seq(C)
    BY Typed
  <2> QED
    BY <2>1, <2>2
<1> QED
  BY <1>1, <1>2

\* The cells of a row, up to its n-th, as they are read.
Trimmed(cells, n) == [j \in 1 .. n |-> Trim(cells[j])]

\* One cell more, trimmed.
LEMMA TrimmedGrows ==
  ASSUME NEW cells, NEW n \in Nat
  PROVE  Append(Trimmed(cells, n), Trim(cells[n + 1])) = Trimmed(cells, n + 1)
BY DEF Trimmed

\* The cells of a line as they are written.
Escaped(cells) == [i \in 1 .. Len(cells) |-> Escape(cells[i])]

\* A line is read as its cells, trimmed, but for the last, which is still open.
LEMMA LineRead ==
  ASSUME NEW C, Quote \in C, Comma \in C, NEW T \in Seq(C), NEW after, Reads(T, after),
         NEW cells \in Seq(Seq(C)), cells # <<>>, NEW p, Sits(T, p, Line(cells)),
         Following(T, p + Len(Line(cells))) # Quote,
         NEW rs, after[p] = Outside(rs, <<>>, <<>>)
  PROVE  after[p + Len(Line(cells))]
           = Outside(rs, Trimmed(cells, Len(cells) - 1), cells[Len(cells)])
<1> DEFINE N == Len(cells)
           texts == Escaped(cells)
           S(n) == Outside(rs, Trimmed(cells, n), <<>>)
<1>1. /\ N \in Nat \ {0} /\ Len(T) \in Nat /\ Len(texts) = N /\ texts # <<>>
      /\ \A i \in 1 .. N : cells[i] \in Seq(C) /\ texts[i] = Escape(cells[i])
  <2>1. N \in Nat \ {0} /\ Len(T) \in Nat /\ \A i \in 1 .. N : cells[i] \in Seq(C)
    OBVIOUS
  <2>2. Len(texts) = N /\ \A i \in 1 .. N : texts[i] = Escape(cells[i])
    BY <2>1 DEF Escaped
  <2>3. texts # <<>>
    BY <2>1, <2>2
  <2> QED
    BY <2>1, <2>2, <2>3
<1>2. texts \in Seq(Seq(C))
  <2>1. \A i \in 1 .. N : Escape(cells[i]) \in Seq(C)
    BY <1>1, EscapeTyped
  <2> QED
    BY <1>1, <2>1 DEF Escaped
<1>3. Line(cells) = Joined(texts, Comma)
  BY DEF Line, Escaped
<1> HIDE DEF texts
<1>4. PICK at : JoinedAt(at, T, texts, Comma, p)
  <2>1. Sits(T, p, Joined(texts, Comma))
    BY <1>3
  <2> QED
    BY <1>1, <1>2, <2>1, JoinedSits
<1>5. ASSUME NEW i \in 1 .. N
      PROVE  /\ Sits(T, at[i], Escape(cells[i])) /\ cells[i] \in Seq(C)
             /\ Len(Escape(cells[i])) \in Nat /\ at[i] \in Nat
  <2>1. Escape(cells[i]) \in Seq(C)
    BY <1>1, EscapeTyped
  <2>2. Sits(T, at[i], texts[i]) /\ at[i] \in Nat
    BY <1>1, <1>4 DEF JoinedAt
  <2>3. cells[i] \in Seq(C) /\ texts[i] = Escape(cells[i])
    BY <1>1
  <2> HIDE DEF N
  <2> QED
    BY <2>1, <2>2, <2>3
<1>6. ASSUME NEW i \in 1 .. N - 1
      PROVE  /\ at[i + 1] = at[i] + Len(Escape(cells[i])) + 1
             /\ at[i + 1] <= Len(T) /\ T[at[i + 1]] = Comma
  <2>1. i \in 1 .. Len(texts) - 1 /\ texts[i] = Escape(cells[i])
    BY <1>1
  <2> QED
    BY <1>4, <2>1 DEF JoinedAt
<1>7. at[1] = p /\ at[N] + Len(Escape(cells[N])) = p + Len(Line(cells))
  BY <1>1, <1>3, <1>4 DEF JoinedAt
<1> HIDE DEF N
<1> DEFINE Good == {n \in Nat : n + 1 <= N => after[at[n + 1]] = S(n)}
<1>8. 0 \in Good
  <2>1. Trimmed(cells, 0) = <<>>
    BY DEF Trimmed
  <2>2. 0 + 1 = 1 /\ at[1] = p
    BY <1>7
  <2>3. after[at[0 + 1]] = S(0)
    BY <2>1, <2>2
  <2> HIDE DEF S
  <2> QED
    BY <2>3
<1>9. ASSUME NEW n \in Nat, n \in Good PROVE n + 1 \in Good
  <2>1. ASSUME (n + 1) + 1 <= N PROVE after[at[(n + 1) + 1]] = S(n + 1)
    <3> DEFINE i == n + 1
               e == Escape(cells[i])
               q == at[i] + Len(e)
    <3>1. i \in 1 .. N - 1 /\ i \in 1 .. N /\ n + 1 <= N
      BY <1>1, <2>1
    <3>20. /\ at[i + 1] = at[i] + Len(e) + 1
           /\ at[i + 1] <= Len(T) /\ T[at[i + 1]] = Comma
      BY <1>6, <3>1
    <3>21. Len(e) \in Nat /\ at[i] \in Nat
      BY <1>5, <3>1
    <3>2. /\ at[i + 1] = q + 1 /\ q + 1 <= Len(T) /\ T[q + 1] = Comma /\ q \in Nat
      <4>1. at[i] + Len(e) + 1 = q + 1 /\ q \in Nat
        BY <3>21
      <4> HIDE DEF q
      <4> QED
        BY <3>20, <4>1
    <3>3. after[at[i]] = Outside(rs, Trimmed(cells, n), <<>>)
      BY <1>9, <3>1
    <3>4. Sits(T, at[i], Escape(cells[i])) /\ cells[i] \in Seq(C)
      BY <1>5, <3>1
    <3> HIDE DEF q
    <3>5. Following(T, q) # Quote /\ Following(T, q) = T[q + 1]
      <4>1. q < Len(T)
        BY <1>1, <3>2
      <4> QED
        BY <3>2, <4>1, Characters DEF Following
    <3>6. after[q] = Outside(rs, Trimmed(cells, n), cells[i])
      <4>1. Following(T, at[i] + Len(Escape(cells[i]))) # Quote
        BY <3>5 DEF q
      <4> HIDE DEF i
      <4>2. after[at[i] + Len(Escape(cells[i]))] = Outside(rs, Trimmed(cells, n), cells[i])
        BY <3>3, <3>4, <4>1, CellRead
      <4> QED
        BY <4>2 DEF q
    <3>7. after[q + 1] = ReadChar(after[q], Comma, Following(T, q + 1))
      <4>1. q \in 0 .. Len(T) - 1
        BY <1>1, <3>2
      <4> QED
        BY <1>1, <3>2, <4>1, OnReading
    <3>8. after[q + 1] = Outside(rs, Append(Trimmed(cells, n), Trim(cells[i])), <<>>)
      BY <3>6, <3>7, Marks
    <3> QED
      BY <3>2, <3>8, TrimmedGrows
  <2> HIDE DEF S
  <2> QED
    BY <2>1
<1>10. Nat \subseteq Good
  <2> HIDE DEF Good
  <2> QED
    BY <1>8, <1>9, Induction
<1>11. after[at[N]] = Outside(rs, Trimmed(cells, N - 1), <<>>)
  <2>1. N - 1 \in Nat /\ (N - 1) + 1 = N
    BY <1>1
  <2>2. N - 1 \in Good
    BY <1>10, <2>1
  <2> HIDE DEF S
  <2>3. after[at[N]] = S(N - 1)
    BY <2>1, <2>2
  <2> QED
    BY <2>3 DEF S
<1>12. N \in 1 .. N
  BY <1>1
<1>13. Following(T, at[N] + Len(Escape(cells[N]))) # Quote
  BY <1>7
<1>14. after[at[N] + Len(Escape(cells[N]))] = Outside(rs, Trimmed(cells, N - 1), cells[N])
  <2>1. Sits(T, at[N], Escape(cells[N])) /\ cells[N] \in Seq(C)
    BY <1>5, <1>12
  <2> QED
    BY <1>11, <1>13, <2>1, CellRead
<1> QED
  BY <1>7, <1>14 DEF N

Telling(cells) == \E j \in 1 .. Len(cells) : Trim(cells[j]) # <<>>

\* A row that says something is kept.
LEMMA RowKept ==
  ASSUME NEW C, NEW cells \in Seq(Seq(C)), Telling(cells), NEW rs
  PROVE  LET N == Len(cells)
             end == Outside(rs, Trimmed(cells, N - 1), cells[N])
             row == Trimmed(cells, N)
         IN  /\ Ended(rs, Trimmed(cells, N - 1), cells[N]) = Append(rs, row)
             /\ EndRow(end) = Append(rs, row)
             /\ end.cell # <<>> \/ end.row # <<>>
<1> DEFINE N == Len(cells)
           end == Outside(rs, Trimmed(cells, N - 1), cells[N])
           row == Trimmed(cells, N)
<1>1. N \in Nat \ {0}
  BY DEF Telling
<1>2. Append(Trimmed(cells, N - 1), Trim(cells[N])) = row
  <2>1. N - 1 \in Nat /\ (N - 1) + 1 = N
    BY <1>1
  <2> HIDE DEF N
  <2> QED
    BY <2>1, TrimmedGrows
<1>3. \E j \in 1 .. Len(row) : row[j] # <<>>
  <2>1. Len(row) = N /\ \A j \in 1 .. N : row[j] = Trim(cells[j])
    BY <1>1 DEF Trimmed
  <2> HIDE DEF row
  <2> QED
    BY <2>1 DEF Telling
<1>4. Ended(rs, Trimmed(cells, N - 1), cells[N]) = Append(rs, row)
  <2> HIDE DEF row
  <2> QED
    BY <1>2, <1>3 DEF Ended
<1>5. end.rows = rs /\ end.row = Trimmed(cells, N - 1) /\ end.cell = cells[N]
  BY DEF Outside, State
<1>6. EndRow(end) = Append(rs, row)
  <2>1. EndRow(end) = Ended(rs, Trimmed(cells, N - 1), cells[N])
    <3> HIDE DEF end
    <3> QED
      BY <1>5 DEF EndRow, Ended
  <2> QED
    BY <1>4, <2>1
<1>7. end.cell # <<>> \/ end.row # <<>>
  <2> SUFFICES ASSUME cells[N] = <<>>, Trimmed(cells, N - 1) = <<>> PROVE FALSE
    BY <1>5
  <2>1. N = 1
    <3>1. Len(Trimmed(cells, N - 1)) = N - 1
      BY <1>1 DEF Trimmed
    <3>2. Len(<<>>) = 0
      OBVIOUS
    <3> HIDE DEF N
    <3> QED
      BY <1>1, <3>1, <3>2
  <2>2. Trim(<<>>) = <<>>
    BY DEF Trim
  <2> QED
    BY <2>1, <2>2 DEF Telling
<1> QED
  BY <1>4, <1>6, <1>7

\* The lines of a file, and the table read of the first n.
LinesOf(table) == [i \in 1 .. Len(table) |-> Line(table[i])]
RowsRead(table, n) == [i \in 1 .. n |-> Trimmed(table[i], Len(table[i]))]

\* exportTransactionsToCSV's writer, then parseCSVLines: any table is read back
\* cell by cell, but for blanks around a cell, whatever quotes, commas and line
\* breaks the cells contain, when no row is blank throughout (such a row is
\* skipped by the reader).
THEOREM FileIsReadBack ==
  ASSUME NEW C, {Quote, Comma, "\n"} \subseteq C, NEW table \in Seq(Seq(Seq(C))),
         \A i \in 1 .. Len(table) : Telling(table[i])
  PROVE  ParseLines(FileOf(table))
           = [i \in 1 .. Len(table) |-> [j \in 1 .. Len(table[i]) |-> Trim(table[i][j])]]
<1> DEFINE T == FileOf(table)
           N == Len(table)
           lines == LinesOf(table)
           S(n) == Outside(RowsRead(table, n), <<>>, <<>>)
<1>1. /\ N \in Nat /\ \A i \in 1 .. N : /\ table[i] \in Seq(Seq(C)) /\ table[i] # <<>>
                                      /\ Telling(table[i])
  <2>1. N \in Nat /\ \A i \in 1 .. N : table[i] \in Seq(Seq(C)) /\ Telling(table[i])
    OBVIOUS
  <2>2. \A i \in 1 .. N : table[i] # <<>>
    BY <2>1 DEF Telling
  <2> QED
    BY <2>1, <2>2
<1>2. Quote \in C /\ Comma \in C /\ "\n" \in C
  OBVIOUS
<1>3. ASSUME NEW i \in 1 .. N PROVE Line(table[i]) \in Seq(C)
  <2> DEFINE cells == table[i]
  <2>1. cells \in Seq(Seq(C))
    BY <1>1
  <2> HIDE DEF cells
  <2>2. ASSUME NEW j \in 1 .. Len(cells) PROVE Escape(cells[j]) \in Seq(C)
    <3>1. cells[j] \in Seq(C)
      BY <2>1
    <3> QED
      BY <1>2, <3>1, EscapeTyped
  <2>3. Escaped(cells) \in Seq(Seq(C))
    BY <2>1, <2>2 DEF Escaped
  <2>4. Line(cells) = Joined(Escaped(cells), Comma)
    BY DEF Line, Escaped
  <2>5. Line(cells) \in Seq(C)
    BY <1>2, <2>3, <2>4, Typed
  <2> QED
    BY <2>5 DEF cells
<1>4. lines \in Seq(Seq(C)) /\ Len(lines) = N /\ \A i \in 1 .. N : lines[i] = Line(table[i])
  BY <1>1, <1>3 DEF LinesOf
<1>5. T = Joined(lines, "\n")
  BY DEF FileOf, LinesOf
<1> HIDE DEF lines, T
<1>6. T \in Seq(C) /\ Len(T) \in Nat
  <2>1. T \in Seq(C)
    BY <1>2, <1>4, <1>5, Typed
  <2> QED
    BY <2>1
<1>7. PICK after :
        /\ Reads(T, after)
        /\ ParseLines(T) = IF after[Len(T)].cell # <<>> \/ after[Len(T)].row # <<>>
                          THEN EndRow(after[Len(T)]) ELSE after[Len(T)].rows
  BY <1>6, Parsed
<1>8. after[0] = Outside(<<>>, <<>>, <<>>)
  BY <1>6, <1>7, OnReading
<1>9. RowsRead(table, N)
        = [i \in 1 .. N |-> [j \in 1 .. Len(table[i]) |-> Trim(table[i][j])]]
  BY DEF RowsRead, Trimmed
<1>10. CASE N = 0
  <2>1. T = <<>> /\ Len(T) = 0
    <3>1. lines = <<>>
      BY <1>4, <1>10
    <3> QED
      BY <1>5, <3>1 DEF Joined
  <2>2. after[0].cell = <<>> /\ after[0].row = <<>> /\ after[0].rows = <<>>
    BY <1>8 DEF Outside, State
  <2>3. ParseLines(T) = <<>>
    BY <1>7, <2>1, <2>2
  <2>4. RowsRead(table, N) = <<>>
    BY <1>10 DEF RowsRead
  <2> QED
    BY <1>9, <2>3, <2>4 DEF T
<1>11. CASE N # 0
  <2>1. PICK at : JoinedAt(at, T, lines, "\n", 0)
    <3>1. Sits(T, 0, Joined(lines, "\n"))
      BY <1>5, <1>6 DEF Sits
    <3>2. lines # <<>>
      BY <1>4, <1>11
    <3> QED
      BY <1>2, <1>4, <1>6, <3>1, <3>2, JoinedSits
  <2>2. ASSUME NEW i \in 1 .. N
        PROVE  /\ Sits(T, at[i], Line(table[i])) /\ at[i] \in Nat
               /\ Len(Line(table[i])) \in Nat
    <3>1. Sits(T, at[i], lines[i]) /\ at[i] \in Nat
      BY <1>4, <2>1 DEF JoinedAt
    <3>2. Line(table[i]) \in Seq(C) /\ lines[i] = Line(table[i])
      BY <1>3, <1>4
    <3> HIDE DEF N
    <3> QED
      BY <3>1, <3>2
  <2>3. ASSUME NEW i \in 1 .. N - 1
        PROVE  /\ at[i + 1] = at[i] + Len(Line(table[i])) + 1
               /\ at[i + 1] <= Len(T) /\ T[at[i + 1]] = "\n"
    <3>1. i \in 1 .. Len(lines) - 1 /\ lines[i] = Line(table[i])
      BY <1>1, <1>4
    <3> QED
      BY <2>1, <3>1 DEF JoinedAt
  <2>4. at[1] = 0 /\ at[N] + Len(Line(table[N])) = Len(T)
    <3>1. at[1] = 0 /\ at[N] + Len(lines[N]) = 0 + Len(Joined(lines, "\n"))
      BY <1>4, <2>1 DEF JoinedAt
    <3>2. lines[N] = Line(table[N])
      BY <1>1, <1>4, <1>11
    <3> HIDE DEF N
    <3> QED
      BY <1>5, <1>6, <3>1, <3>2
  <2>5. ASSUME NEW i \in 1 .. N, NEW q, q = at[i] + Len(Line(table[i])),
               Following(T, q) # Quote, NEW rs, after[at[i]] = Outside(rs, <<>>, <<>>)
        PROVE  after[q] = Outside(rs, Trimmed(table[i], Len(table[i]) - 1),
                                  table[i][Len(table[i])])
    <3> DEFINE cells == table[i]
               p == at[i]
    <3>1. /\ cells \in Seq(Seq(C)) /\ cells # <<>> /\ Sits(T, p, Line(cells))
          /\ Following(T, p + Len(Line(cells))) # Quote
          /\ after[p] = Outside(rs, <<>>, <<>>) /\ Reads(T, after)
      BY <1>1, <1>7, <2>2, <2>5
    <3> HIDE DEF cells, p
    <3>2. after[p + Len(Line(cells))]
            = Outside(rs, Trimmed(cells, Len(cells) - 1), cells[Len(cells)])
      BY <1>2, <1>6, <3>1, LineRead
    <3> QED
      BY <2>5, <3>2 DEF cells, p
  <2> HIDE DEF N
  <2> DEFINE Good == {n \in Nat : n + 1 <= N => after[at[n + 1]] = S(n)}
  <2>6. 0 \in Good
    <3>1. RowsRead(table, 0) = <<>>
      BY DEF RowsRead
    <3>2. after[at[0 + 1]] = S(0)
      BY <1>8, <2>4, <3>1
    <3> HIDE DEF S
    <3> QED
      BY <3>2
  <2>7. ASSUME NEW n \in Nat, n \in Good PROVE n + 1 \in Good
    <3>1. ASSUME (n + 1) + 1 <= N PROVE after[at[(n + 1) + 1]] = S(n + 1)
      <4> DEFINE i == n + 1
                 q == at[i] + Len(Line(table[i]))
                 rs == RowsRead(table, n)
                 cells == table[i]
                 M == Len(cells)
      <4>1. i \in 1 .. N - 1 /\ i \in 1 .. N /\ n + 1 <= N
        BY <1>1, <3>1
      <4>2. at[i + 1] = q + 1 /\ q + 1 <= Len(T) /\ T[q + 1] = "\n" /\ q \in Nat
        BY <2>2, <2>3, <4>1
      <4>3. after[at[i]] = Outside(rs, <<>>, <<>>)
        BY <2>7, <4>1
      <4>4. q = at[i] + Len(Line(table[i]))
        OBVIOUS
      <4> HIDE DEF q
      <4>5. Following(T, q) # Quote
        <5>1. q < Len(T)
          BY <1>6, <4>2
        <5> QED
          BY <4>2, <5>1, Characters DEF Following
      <4>6. after[q] = Outside(rs, Trimmed(cells, M - 1), cells[M])
        <5> HIDE DEF rs, i
        <5> QED
          BY <2>5, <4>1, <4>3, <4>4, <4>5
      <4>7. after[q + 1] = ReadChar(after[q], "\n", Following(T, q + 1))
        <5>1. q \in 0 .. Len(T) - 1
          BY <1>6, <4>2
        <5> QED
          BY <1>6, <1>7, <4>2, <5>1, OnReading
      <4>8. after[q + 1] = Outside(Ended(rs, Trimmed(cells, M - 1), cells[M]), <<>>, <<>>)
        BY <4>6, <4>7, Marks
      <4>9. Ended(rs, Trimmed(cells, M - 1), cells[M]) = Append(rs, Trimmed(cells, M))
        <5>1. cells \in Seq(Seq(C)) /\ Telling(cells)
          BY <1>1, <4>1
        <5> HIDE DEF cells, rs
        <5> QED
          BY <5>1, RowKept
      <4>10. Append(rs, Trimmed(cells, M)) = RowsRead(table, n + 1)
        BY DEF RowsRead
      <4> QED
        BY <4>2, <4>8, <4>9, <4>10
    <3> HIDE DEF S
    <3> QED
      BY <3>1
  <2>8. Nat \subseteq Good
    <3> HIDE DEF Good
    <3> QED
      BY <2>6, <2>7, Induction
  <2> DEFINE rs == RowsRead(table, N - 1)
             cells == table[N]
             M == Len(cells)
             end == Outside(rs, Trimmed(cells, M - 1), cells[M])
  <2>9. N \in 1 .. N /\ N - 1 \in Nat /\ (N - 1) + 1 = N
    BY <1>1, <1>11
  <2>10. after[at[N]] = Outside(rs, <<>>, <<>>)
    <3>1. N - 1 \in Good
      BY <2>8, <2>9
    <3> HIDE DEF S
    <3>2. after[at[N]] = S(N - 1)
      BY <2>9, <3>1
    <3> QED
      BY <3>2 DEF S
  <2>11. after[Len(T)] = end
    <3>1. Following(T, Len(T)) # Quote
      BY <1>6, Characters DEF Following
    <3> HIDE DEF rs
    <3> QED
      BY <2>4, <2>5, <2>9, <2>10, <3>1
  <2>12. /\ EndRow(end) = Append(rs, Trimmed(cells, M))
         /\ end.cell # <<>> \/ end.row # <<>>
    <3>1. cells \in Seq(Seq(C)) /\ Telling(cells)
      BY <1>1, <2>9
    <3> HIDE DEF cells, rs
    <3> QED
      BY <3>1, RowKept
  <2>13. Append(rs, Trimmed(cells, M)) = RowsRead(table, N)
    BY <2>9 DEF RowsRead
  <2> HIDE DEF end, rs, cells
  <2>14. ParseLines(T) = RowsRead(table, N)
    BY <1>7, <2>11, <2>12, <2>13
  <2> QED
    BY <1>9, <2>14 DEF T, N
<1> QED
  BY <1>1, <1>10, <1>11



--------------------------------------------------------------------------------
(* CsvImport: a row of the export, and the transaction read from it.        *)

\* The largest and the least of one number.
LEMMA OnlyOne ==
  ASSUME NEW n \in Nat
  PROVE  Max({n}) = n /\ Min({n}) = n
BY DEF Max, Min

\* A text of one character that is no blank has nothing to trim.
LEMMA TrimOne ==
  ASSUME NEW c, c \notin Blank
  PROVE  Trim(<<c>>) = <<c>>
<1>1. {i \in 1 .. Len(<<c>>) : <<c>>[i] \notin Blank} = {1}
  OBVIOUS
<1>2. SubSeq(<<c>>, 1, 1) = <<c>>
  <2>1. \A t \in Seq({c}) : SubSeq(t, 1, Len(t)) = t
    OBVIOUS
  <2>2. <<c>> \in Seq({c}) /\ Len(<<c>>) = 1
    OBVIOUS
  <2> QED
    BY <2>1, <2>2
<1> QED
  BY <1>1, <1>2, OnlyOne DEF Trim

\* A name leads to its id, and an id to its name.
LEMMA NamesLead ==
  ASSUME NEW names, ToldApart(names)
  PROVE  /\ \A i \in 1 .. Len(names) :
              /\ NameOf(names, names[i].id) = names[i].name
              /\ Lookup(names, names[i].name) = names[i].id
         /\ NameOf(names, None) = <<>> /\ Lookup(names, <<>>) = None
<1>1. ASSUME NEW i \in 1 .. Len(names)
      PROVE  /\ NameOf(names, names[i].id) = names[i].name
             /\ Lookup(names, names[i].name) = names[i].id
  <2>0. i \in Nat
    BY DEF ToldApart
  <2>1. {j \in 1 .. Len(names) : names[j].id = names[i].id} = {i}
    BY DEF ToldApart
  <2>2. {j \in 1 .. Len(names) : names[j].name = names[i].name \/ <<names[j].id>> = names[i].name}
          = {i}
    BY DEF ToldApart
  <2>3. {i} # {}
    OBVIOUS
  <2> QED
    BY <2>0, <2>1, <2>2, <2>3, OnlyOne DEF NameOf, Lookup
<1>2. NameOf(names, None) = <<>>
  <2>1. {i \in 1 .. Len(names) : names[i].id = None} = {}
    BY DEF ToldApart
  <2> QED
    BY <2>1 DEF NameOf
<1>3. Lookup(names, <<>>) = None
  <2>1. {j \in 1 .. Len(names) : names[j].name = <<>> \/ <<names[j].id>> = <<>>} = {}
    BY DEF ToldApart
  <2> QED
    BY <2>1 DEF Lookup
<1> QED
  BY <1>1, <1>2, <1>3

\* A text of one character includes it and no other.
LEMMA IncludesOne ==
  ASSUME NEW c, NEW word
  PROVE  Includes(<<c>>, word) <=> c = word
BY DEF Includes

\* The types and the states a transaction may have.
TxTypes == {"expense", "income", "transfer", "adjustment"}
TxStatuses == {"approved", "pending", "needs_review", "rejected"}

\* The words for types and states are read as they are written.
LEMMA WordsRead ==
  /\ \A t \in TxTypes : t \notin Blank /\ TypeOf(<<t>>) = t
  /\ \A s \in TxStatuses : s \notin Blank /\ StatusOf(<<s>>) = s
  /\ "date" \notin Blank
<1>1. ASSUME NEW t \in TxTypes PROVE t \notin Blank /\ TypeOf(<<t>>) = t
  BY IncludesOne DEF TxTypes, Blank, TypeOf
<1>2. ASSUME NEW s \in TxStatuses PROVE s \notin Blank /\ StatusOf(<<s>>) = s
  BY IncludesOne DEF TxStatuses, Blank, StatusOf
<1> QED
  BY <1>1, <1>2 DEF Blank

\* Each digit has its numeral, and no numeral is a blank or a mark.
LEMMA TheDigits ==
  /\ \A d \in 0 .. 9 : Numerals[d + 1] \in DOMAIN Digits /\ Digits[Numerals[d + 1]] = d
  /\ \A c \in DOMAIN Digits : c \notin Blank \cup {".", "Rp"}
<1>1. ToSet(Numerals) = {"0", "1", "2", "3", "4", "5", "6", "7", "8", "9"}
  BY DEF Numerals, ToSet
<1>2. \A c \in DOMAIN Digits : c \notin Blank \cup {".", "Rp"}
  BY <1>1 DEF Blank, Digits
<1>3. ASSUME NEW d \in 0 .. 9
      PROVE  Numerals[d + 1] \in DOMAIN Digits /\ Digits[Numerals[d + 1]] = d
  <2>1. \A c, e \in 0 .. 9 : Numerals[c + 1] = Numerals[e + 1] => c = e
    <3>1. ASSUME NEW c \in 0 .. 9, NEW e \in 0 .. 9, c # e
          PROVE  Numerals[c + 1] # Numerals[e + 1]
      BY <3>1 DEF Numerals
    <3> QED
      BY <3>1
  <2>2. Numerals[d + 1] \in ToSet(Numerals)
    BY DEF Numerals, ToSet
  <2>3. (CHOOSE e \in 0 .. 9 : Numerals[e + 1] = Numerals[d + 1]) = d
    BY <2>1
  <2> QED
    BY <2>2, <2>3 DEF Digits
<1> QED
  BY <1>2, <1>3

\* A whole amount is written as a digit, and read as it was.
LEMMA AmountRead ==
  ASSUME NEW n \in 1 .. 99
  PROVE  /\ IsText(NumberText(n))
         /\ n % 10 = 0 => /\ Trim(NumberText(n)) = NumberText(n)
                          /\ NumberOf(NumberText(n)) = n
<1> DEFINE whole == Numerals[((n \div 10) % 10) + 1]
           part == Numerals[(n % 10) + 1]
<1>1. IsText(NumberText(n))
  <2>1. NumberText(n) = <<whole>> \/ NumberText(n) = <<whole, ".", part>>
    BY DEF NumberText
  <2> HIDE DEF whole, part
  <2>2. IsText(<<whole>>) /\ IsText(<<whole, ".", part>>)
    BY DEF IsText, ToSet
  <2> QED
    BY <2>1, <2>2
<1>2. ASSUME n % 10 = 0
      PROVE  /\ Trim(NumberText(n)) = NumberText(n)
             /\ NumberOf(NumberText(n)) = n
  <2> DEFINE d == (n \div 10) % 10
  <2>1. d \in 0 .. 9 /\ n = 10 * d
    BY <1>2
  <2>2. whole \in DOMAIN Digits /\ Digits[whole] = d /\ Digits[whole] \in 0 .. 9
    BY <2>1, TheDigits
  <2>3. NumberText(n) = <<whole>>
    BY <1>2 DEF NumberText
  <2> HIDE DEF whole, d
  <2>4. whole \notin Blank \cup {".", "Rp"}
    BY <2>2, TheDigits
  <2>5. NumberOf(<<whole>>) = 10 * Digits[whole]
    <3> DEFINE text == <<whole>>
               cleaned == FlattenSeq([i \in 1 .. Len(text) |->
                   IF text[i] \in Blank \cup {".", "Rp"} THEN <<>> ELSE <<text[i]>>])
               w == Max({m \in 0 .. Len(cleaned) :
                      \A i \in 1 .. m : cleaned[i] \in DOMAIN Digits})
    <3>1. cleaned = <<whole>>
      <4>1. [i \in 1 .. Len(text) |->
              IF text[i] \in Blank \cup {".", "Rp"} THEN <<>> ELSE <<text[i]>>] = << <<whole>> >>
        BY <2>4
      <4>2. << <<whole>> >> \in Seq(Seq({whole})) /\ Len(<< <<whole>> >>) = 1
        OBVIOUS
      <4>3. PICK f \in [0 .. 1 -> Seq({whole})] :
              f[0] = <<>> /\ f[1] = f[0] \o <<whole>> /\ FlattenSeq(<< <<whole>> >>) = f[1]
        <5> DEFINE pieces == << <<whole>> >>
                   D == {whole}
        <5>1. pieces \in Seq(Seq(D)) /\ Len(pieces) = 1 /\ pieces[1] = <<whole>>
          BY <4>2
        <5> HIDE DEF pieces, D
        <5>2. \E f \in [0 .. Len(pieces) -> Seq(D)] :
                /\ f[0] = <<>>
                /\ \A i \in 1 .. Len(pieces) : f[i] = f[i - 1] \o pieces[i]
                /\ FlattenSeq(pieces) = f[Len(pieces)]
          BY <5>1, Flattened, ZenonT(40)
        <5>3. \E f \in [0 .. 1 -> Seq(D)] :
                /\ f[0] = <<>> /\ f[1] = f[0] \o <<whole>>
                /\ FlattenSeq(pieces) = f[1]
          BY <5>1, <5>2
        <5> QED
          BY <5>3 DEF pieces, D
      <4>4. <<>> \o <<whole>> = <<whole>>
        OBVIOUS
      <4> QED
        BY <4>1, <4>3, <4>4
    <3> HIDE DEF cleaned
    <3>2. w = 1
      <4>1. {m \in 0 .. Len(cleaned) : \A i \in 1 .. m : cleaned[i] \in DOMAIN Digits} = {0, 1}
        BY <2>2, <3>1
      <4>2. Max({0, 1}) = 1
        BY DEF Max
      <4> QED
        BY <4>1, <4>2
    <3> HIDE DEF w
    <3> DEFINE Value(v) == v = [m \in 0 .. w |-> IF m = 0 THEN 0
                                   ELSE 10 * v[m - 1] + Digits[cleaned[m]]]
               value == CHOOSE v : Value(v)
    <3>3. Value(value)
      <4> DEFINE v == [m \in 0 .. w |-> IF m = 0 THEN 0 ELSE Digits[whole]]
      <4>1. v[0] = 0 /\ v[1] = Digits[whole]
        BY <3>2
      <4>2. Digits[whole] \in Int /\ 10 * 0 + Digits[whole] = Digits[whole]
        BY <2>2
      <4>3. ASSUME NEW m \in 0 .. w
            PROVE v[m] = IF m = 0 THEN 0 ELSE 10 * v[m - 1] + Digits[cleaned[m]]
        <5>1. CASE m = 0
          BY <5>1
        <5>2. CASE m # 0
          <6>1. m = 1 /\ m - 1 = 0 /\ cleaned[m] = whole
            BY <3>1, <3>2, <5>2
          <6> QED
            BY <4>1, <4>2, <6>1
        <5> QED
          BY <5>1, <5>2
      <4>4. v = [m \in 0 .. w |-> v[m]]
        OBVIOUS
      <4> HIDE DEF v
      <4>5. Value(v)
        BY <4>3, <4>4
      <4> QED
        BY <4>5
    <3> HIDE DEF value
    <3>4. value[1] = Digits[whole]
      <4>1. value[0] = 0
        BY <3>2, <3>3
      <4>2. value[1] = 10 * value[0] + Digits[cleaned[1]]
        BY <3>2, <3>3
      <4>3. cleaned[1] = whole /\ Digits[whole] \in Int
        BY <2>2, <3>1
      <4> QED
        BY <4>1, <4>2, <4>3
    <3>5. Len(cleaned) = 1
      BY <3>1
    <3>6. NumberOf(text) = 10 * value[w] + 0
      <4>1. ~(w + 2 <= Len(cleaned)) /\ w # 0
        BY <3>2, <3>5
      <4> QED
        BY <4>1 DEF NumberOf, w, cleaned, value
    <3> QED
      BY <2>2, <3>2, <3>4, <3>6
  <2>6. Trim(<<whole>>) = <<whole>>
    BY <2>4, TrimOne
  <2> QED
    BY <2>1, <2>2, <2>3, <2>5, <2>6
<1> QED
  BY <1>1, <1>2

\* A transaction as it may be exported.
Exportable(tx) ==
  /\ IsText(tx.merchant) /\ IsText(tx.note)
  /\ tx.date = "date" /\ tx.amount \in 1 .. 99
  /\ tx.wallet \notin Blank /\ tx.type \in TxTypes /\ tx.status \in TxStatuses
  /\ tx.category \in {None} \cup {Categories[i].id : i \in DOMAIN Categories}

\* The name of an id has nothing to trim.
LEMMA NamesTrimmed ==
  ASSUME NEW names, ToldApart(names), NEW id
  PROVE  Trim(NameOf(names, id)) = NameOf(names, id)
<1>1. Trim(<<>>) = <<>>
  BY DEF Trim
<1>2. ASSUME NEW i \in 1 .. Len(names), names[i].id = id
      PROVE  Trim(NameOf(names, id)) = NameOf(names, id)
  <2>1. NameOf(names, id) = names[i].name
    BY <1>2, NamesLead
  <2> QED
    BY <2>1 DEF ToldApart
<1>3. ASSUME \A i \in 1 .. Len(names) : names[i].id # id
      PROVE  Trim(NameOf(names, id)) = NameOf(names, id)
  <2>1. {i \in 1 .. Len(names) : names[i].id = id} = {}
    BY <1>3
  <2> QED
    BY <1>1, <2>1 DEF NameOf
<1> QED
  BY <1>2, <1>3

\* Names and ids are texts.
LEMMA NamesAreTexts ==
  ASSUME NEW names, ToldApart(names), NEW id
  PROVE  IsText(NameOf(names, id)) /\ IsText(<<id>>)
<1>1. IsText(<<>>) /\ IsText(<<id>>)
  BY DEF IsText, ToSet
<1>2. ASSUME NEW i \in 1 .. Len(names), names[i].id = id PROVE IsText(NameOf(names, id))
  <2>1. NameOf(names, id) = names[i].name
    BY <1>2, NamesLead
  <2> QED
    BY <2>1 DEF ToldApart
<1>3. ASSUME \A i \in 1 .. Len(names) : names[i].id # id PROVE IsText(NameOf(names, id))
  <2>1. {i \in 1 .. Len(names) : names[i].id = id} = {}
    BY <1>3
  <2> QED
    BY <1>1, <2>1 DEF NameOf
<1> QED
  BY <1>1, <1>2, <1>3

\* The tail of a sequence, element by element.
LEMMA TheTail ==
  ASSUME NEW D, NEW s \in Seq(D), s # <<>>
  PROVE  Tail(s) = [i \in 1 .. Len(s) - 1 |-> s[i + 1]]
<1> DEFINE t == Tail(s)
<1>1. t \in Seq(D) /\ Len(t) = Len(s) - 1
  OBVIOUS
<1>2. \A i \in 1 .. Len(s) - 1 : t[i] = s[i + 1]
  OBVIOUS
<1> HIDE DEF t
<1>3. t = [i \in 1 .. Len(t) |-> t[i]]
  BY <1>1
<1>4. t = [i \in 1 .. Len(s) - 1 |-> s[i + 1]]
  BY <1>1, <1>2, <1>3
<1> QED
  BY <1>4 DEF t

\* A sequence whose elements are in a set is a sequence of that set.
LEMMA Retyped ==
  ASSUME NEW s, IsText(s), NEW D, \A i \in 1 .. Len(s) : s[i] \in D
  PROVE  s \in Seq(D)
BY DEF IsText

\* The row of a transaction: eight texts, the first of which is the date.
LEMMA ExportedRow ==
  ASSUME NEW tx, Exportable(tx), ToldApart(Wallets), ToldApart(Categories)
  PROVE  /\ IsText(Exported(tx)) /\ Len(Exported(tx)) = 8
         /\ \A j \in 1 .. 8 : IsText(Exported(tx)[j])
         /\ Exported(tx)[1] = <<"date">>
         /\ Exported(tx)[2] = tx.merchant
         /\ Exported(tx)[3] = NumberText(tx.amount)
         /\ Exported(tx)[4] = <<tx.type>>
         /\ Exported(tx)[5] = IF NameOf(Wallets, tx.wallet) = <<>> THEN <<tx.wallet>>
                              ELSE NameOf(Wallets, tx.wallet)
         /\ Exported(tx)[6] = NameOf(Categories, tx.category)
         /\ Exported(tx)[7] = <<tx.status>>
         /\ Exported(tx)[8] = tx.note
<1> DEFINE e == Exported(tx)
<1>0. IsText(e)
  BY DEF Exported, IsText, ToSet
<1>1. /\ Len(e) = 8
      /\ e[1] = <<"date">> /\ e[2] = tx.merchant /\ e[3] = NumberText(tx.amount)
      /\ e[4] = <<tx.type>>
      /\ e[5] = IF NameOf(Wallets, tx.wallet) = <<>> THEN <<tx.wallet>>
                              ELSE NameOf(Wallets, tx.wallet)
      /\ e[6] = NameOf(Categories, tx.category) /\ e[7] = <<tx.status>> /\ e[8] = tx.note
  BY DEF Exported, Exportable
<1> HIDE DEF e
<1>2. IsText(<<"date">>) /\ IsText(<<tx.type>>) /\ IsText(<<tx.status>>)
  BY NamesAreTexts
<1>3. /\ IsText(tx.merchant) /\ IsText(tx.note) /\ IsText(NumberText(tx.amount))
  BY AmountRead DEF Exportable
<1>4. IsText(e[5]) /\ IsText(e[6])
  BY <1>1, NamesAreTexts
<1>5. \A j \in 1 .. 8 : IsText(e[j])
  <2>1. \A j \in 1 .. 8 : j \in {1, 2, 3, 4, 5, 6, 7, 8}
    OBVIOUS
  <2> QED
    BY <1>1, <1>2, <1>3, <1>4, <2>1
<1> QED
  BY <1>0, <1>1, <1>5 DEF e

\* The titles are eight different words.
LEMMA TheHeader ==
  /\ IsText(Header) /\ Len(Header) = 8
  /\ \A j \in 1 .. 8 : /\ Header[j] = <<Columns[j]>> /\ IsText(Header[j])
                      /\ Trim(Header[j]) = <<Columns[j]>>
                      /\ \A k \in 1 .. 8 : Columns[j] = Columns[k] => j = k
<1>1. Len(Header) = 8 /\ \A j \in 1 .. 8 : Header[j] = <<Columns[j]>>
  BY DEF Header
<1>2. \A j \in 1 .. 8 : j \in {1, 2, 3, 4, 5, 6, 7, 8}
  OBVIOUS
<1>3. \A j \in 1 .. 8 : Columns[j] \notin Blank
  <2>1. /\ Columns[1] = "tanggal" /\ Columns[2] = "merchant" /\ Columns[3] = "nominal"
        /\ Columns[4] = "tipe" /\ Columns[5] = "dompet" /\ Columns[6] = "kategori"
        /\ Columns[7] = "status" /\ Columns[8] = "catatan"
    BY DEF Columns
  <2> QED
    BY <1>2, <2>1 DEF Blank
<1>4. \A j, k \in 1 .. 8 : Columns[j] = Columns[k] => j = k
  BY <1>2 DEF Columns
<1>5. \A j \in 1 .. 8 : IsText(<<Columns[j]>>)
  BY DEF IsText, ToSet
<1>6. IsText(Header)
  BY DEF Header, IsText, ToSet
<1> QED
  BY <1>1, <1>3, <1>4, <1>5, <1>6, TrimOne

\* Under the titles of an export, each column is found at its place.
LEMMA ColumnsFound ==
  ASSUME NEW lines, NEW row, Len(lines[1]) = 8,
         \A j \in 1 .. 8 : lines[1][j] = <<Columns[j]>>, Len(row) = 8
  PROVE  HasHeader(lines) /\ \A n \in 1 .. 8 : CellOf(lines, row, Columns[n]) = row[n]
<1>1. \A j, n \in 1 .. 8 : Includes(lines[1][j], Columns[n]) <=> j = n
  BY IncludesOne, TheHeader
<1>2. HasHeader(lines)
  <2>1. Columns[1] \in ToSet(Columns)
    BY DEF Columns, ToSet
  <2>2. 1 \in 1 .. Len(lines[1]) /\ Includes(lines[1][1], Columns[1])
    BY <1>1
  <2> QED
    BY <2>1, <2>2 DEF HasHeader
<1>3. ASSUME NEW n \in 1 .. 8 PROVE CellOf(lines, row, Columns[n]) = row[n]
  <2> DEFINE place == CHOOSE m \in 1 .. 8 : Columns[m] = Columns[n]
  <2>1. place = n
    BY TheHeader
  <2> HIDE DEF place
  <2>2. {i \in 1 .. Len(lines[1]) :
           /\ Includes(lines[1][i], Columns[n])
           /\ \A m \in 1 .. place - 1 : ~Includes(lines[1][i], Columns[m])} = {n}
    <3>1. \A m \in 1 .. place - 1 : m \in 1 .. 8 /\ m # n
      BY <2>1
    <3> QED
      BY <1>1, <3>1
  <2>3. {n} # {} /\ Max({n}) = n /\ n <= Len(row)
    BY OnlyOne
  <2> QED
    BY <1>2, <2>1, <2>2, <2>3 DEF CellOf, place
<1> QED
  BY <1>2, <1>3

\* The cells of a transaction's row, trimmed.
ReadCells(tx) == [j \in 1 .. 8 |-> Trim(Exported(tx)[j])]

\* The file of an export, taken apart: the titles, then a row for each
\* transaction.
LEMMA ExportTakenApart ==
  ASSUME NEW txs, txs \in Seq(ToSet(txs)), \A tx \in ToSet(txs) : Exportable(tx),
         ToldApart(Wallets), ToldApart(Categories)
  PROVE  LET lines == ParseLines(ExportedFile(txs))
         IN  /\ Len(lines) = Len(txs) + 1 /\ lines # <<>>
             /\ Len(lines[1]) = 8 /\ \A j \in 1 .. 8 : lines[1][j] = <<Columns[j]>>
             /\ Tail(lines) = [i \in 1 .. Len(txs) |-> ReadCells(txs[i])]
<1> DEFINE N == Len(txs)
           table == <<Header>> \o [i \in 1 .. N |-> Exported(txs[i])]
           lines == ParseLines(ExportedFile(txs))
<1>1. N \in Nat /\ \A i \in 1 .. N : Exportable(txs[i])
  BY DEF ToSet
<1>2. /\ Len(table) = N + 1 /\ table[1] = Header
      /\ \A i \in 1 .. N : table[i + 1] = Exported(txs[i])
  BY <1>1
<1>21. IsText(table)
  <2> DEFINE X == {Header} \cup {Exported(txs[i]) : i \in 1 .. N}
             front == <<Header>>
             rest == [i \in 1 .. N |-> Exported(txs[i])]
  <2>1. front \in Seq(X) /\ rest \in Seq(X)
    BY <1>1
  <2> HIDE DEF X
  <2>2. table = front \o rest
    OBVIOUS
  <2> HIDE DEF front, rest, table
  <2>3. table \in Seq(X)
    BY <2>1, <2>2
  <2>4. \A i \in 1 .. Len(table) : table[i] \in ToSet(table)
    BY <2>3 DEF ToSet
  <2> QED
    BY <2>3, <2>4 DEF IsText
<1>3. ExportedFile(txs) = FileOf(table)
  BY DEF ExportedFile
<1> HIDE DEF table
<1>4. ASSUME NEW i \in 1 .. N + 1
      PROVE  /\ IsText(table[i]) /\ Len(table[i]) = 8
             /\ \A j \in 1 .. 8 : IsText(table[i][j])
             /\ Telling(table[i])
  <2>1. CASE i = 1
    <3>1. Trim(Header[1]) # <<>>
      BY TheHeader
    <3> QED
      BY <1>2, <2>1, <3>1, TheHeader DEF Telling
  <2>2. CASE i # 1
    <3>1. PICK k \in 1 .. N : i = k + 1
      BY <1>1, <2>2
    <3>2. table[i] = Exported(txs[k]) /\ Exportable(txs[k])
      BY <1>1, <1>2, <3>1
    <3> DEFINE e == Exported(txs[k])
    <3>3. IsText(e) /\ Len(e) = 8 /\ (\A j \in 1 .. 8 : IsText(e[j])) /\ e[1] = <<"date">>
      BY <3>2, ExportedRow
    <3>4. Trim(<<"date">>) # <<>>
      BY WordsRead, TrimOne
    <3> HIDE DEF e
    <3>5. Telling(e)
      BY <3>3, <3>4 DEF Telling
    <3> QED
      BY <3>2, <3>3, <3>5 DEF e
  <2> QED
    BY <2>1, <2>2
<1> DEFINE C == {Quote, Comma, "\n"}
                 \cup UNION {ToSet(table[p[1]][p[2]]) : p \in (1 .. N + 1) \X (1 .. 8)}
<1>5. {Quote, Comma, "\n"} \subseteq C
  OBVIOUS
<1>6. ASSUME NEW i \in 1 .. N + 1, NEW j \in 1 .. 8 PROVE table[i][j] \in Seq(C)
  <2>1. IsText(table[i][j])
    BY <1>4
  <2>2. <<i, j>> \in (1 .. N + 1) \X (1 .. 8)
    OBVIOUS
  <2>3. ToSet(table[i][j]) \subseteq C
    BY <2>2
  <2> HIDE DEF C
  <2> QED
    BY <2>1, <2>3 DEF IsText
<1> HIDE DEF C
<1>7. ASSUME NEW i \in 1 .. N + 1 PROVE table[i] \in Seq(Seq(C))
  BY <1>4, <1>6, Retyped
<1>8. table \in Seq(Seq(Seq(C)))
  BY <1>1, <1>2, <1>21, <1>7, Retyped
<1>9. lines = [i \in 1 .. Len(table) |-> [j \in 1 .. Len(table[i]) |-> Trim(table[i][j])]]
  <2>1. \A i \in 1 .. Len(table) : Telling(table[i])
    BY <1>2, <1>4
  <2>2. ParseLines(FileOf(table))
          = [i \in 1 .. Len(table) |-> [j \in 1 .. Len(table[i]) |-> Trim(table[i][j])]]
    BY <1>5, <1>8, <2>1, FileIsReadBack
  <2> QED
    BY <1>3, <2>2
<1>10. /\ Len(lines) = N + 1
       /\ \A i \in 1 .. N + 1 : lines[i] = [j \in 1 .. 8 |-> Trim(table[i][j])]
  <2>1. Len(table) = N + 1 /\ N + 1 \in Nat
    BY <1>1, <1>2
  <2>2. lines = [i \in 1 .. N + 1 |-> [j \in 1 .. Len(table[i]) |-> Trim(table[i][j])]]
    BY <1>9, <2>1
  <2>3. \A i \in 1 .. N + 1 : Len(table[i]) = 8
    BY <1>4
  <2>4. \A i \in 1 .. N + 1 : lines[i] = [j \in 1 .. Len(table[i]) |-> Trim(table[i][j])]
    BY <2>2
  <2>5. \A i \in 1 .. N + 1 : lines[i] = [j \in 1 .. 8 |-> Trim(table[i][j])]
    BY <2>3, <2>4
  <2>6. Len(lines) = N + 1
    BY <2>1, <2>2
  <2> QED
    BY <2>5, <2>6
<1>11. lines \in Seq(ToSet(lines))
  <2> DEFINE row(i) == [j \in 1 .. Len(table[i]) |-> Trim(table[i][j])]
  <2>1. lines = [i \in 1 .. N + 1 |-> row(i)] /\ N + 1 \in Nat
    BY <1>1, <1>2, <1>9
  <2> HIDE DEF row, lines
  <2>2. Len(lines) = N + 1 /\ \A i \in 1 .. N + 1 : lines[i] \in ToSet(lines)
    BY <2>1 DEF ToSet
  <2> QED
    BY <2>1, <2>2
<1> HIDE DEF lines
<1>12. Len(lines[1]) = 8 /\ \A j \in 1 .. 8 : lines[1][j] = <<Columns[j]>>
  <2>1. lines[1] = [j \in 1 .. 8 |-> Trim(Header[j])]
    BY <1>1, <1>2, <1>10
  <2> QED
    BY <2>1, TheHeader
<1>13. ASSUME NEW i \in 1 .. N PROVE lines[i + 1] = ReadCells(txs[i])
  <2>1. i + 1 \in 1 .. N + 1 /\ table[i + 1] = Exported(txs[i])
    BY <1>1, <1>2
  <2>2. lines[i + 1] = [j \in 1 .. 8 |-> Trim(table[i + 1][j])]
    BY <1>10, <2>1
  <2> QED
    BY <2>1, <2>2 DEF ReadCells
<1>14. Tail(lines) = [i \in 1 .. N |-> ReadCells(txs[i])]
  <2>1. Tail(lines) = [i \in 1 .. N |-> lines[i + 1]]
    <3>1. lines \in Seq(ToSet(lines)) /\ lines # <<>> /\ Len(lines) - 1 = N
      BY <1>1, <1>10, <1>11
    <3>2. Tail(lines) = [i \in 1 .. Len(lines) - 1 |-> lines[i + 1]]
      BY <3>1, TheTail
    <3> QED
      BY <3>1, <3>2
  <2> QED
    BY <1>13, <2>1
<1>15. lines # <<>>
  BY <1>1, <1>10
<1> QED
  BY <1>10, <1>12, <1>14, <1>15 DEF lines

\* A transaction's row is read as the transaction.
LEMMA TransactionRead ==
  ASSUME NEW tx, Exportable(tx), ToldApart(Wallets), ToldApart(Categories),
         Wallets # <<>>, NEW lines, Len(lines[1]) = 8,
         \A j \in 1 .. 8 : lines[1][j] = <<Columns[j]>>
  PROVE  LET r == ReadRow(lines, ReadCells(tx))
         IN  /\ r.merchant = Trim(tx.merchant) /\ r.note = Trim(tx.note)
             /\ <<r.date, r.type, r.status>> = <<tx.date, tx.type, tx.status>>
             /\ r.category = tx.category
             /\ NameOf(Wallets, tx.wallet) # <<>> => r.wallet = tx.wallet
             /\ tx.amount % 10 = 0 => r.amount = tx.amount /\ r.valid
<1> DEFINE row == ReadCells(tx)
           e == Exported(tx)
           cell(column) == CellOf(lines, row, column)
<1>1. Len(row) = 8 /\ \A j \in 1 .. 8 : row[j] = Trim(e[j])
  BY DEF ReadCells
<1> HIDE DEF row, e
<1>2. \A n \in 1 .. 8 : cell(Columns[n]) = Trim(e[n])
  BY <1>1, ColumnsFound
<1>3. /\ cell("tanggal") = Trim(e[1]) /\ cell("merchant") = Trim(e[2])
      /\ cell("nominal") = Trim(e[3]) /\ cell("tipe") = Trim(e[4])
      /\ cell("dompet") = Trim(e[5]) /\ cell("kategori") = Trim(e[6])
      /\ cell("status") = Trim(e[7]) /\ cell("catatan") = Trim(e[8])
  <2>1. /\ Columns[1] = "tanggal" /\ Columns[2] = "merchant" /\ Columns[3] = "nominal"
        /\ Columns[4] = "tipe" /\ Columns[5] = "dompet" /\ Columns[6] = "kategori"
        /\ Columns[7] = "status" /\ Columns[8] = "catatan"
    BY DEF Columns
  <2> QED
    BY <1>2, <2>1
<1> HIDE DEF cell
<1>4. /\ e[1] = <<"date">> /\ e[2] = tx.merchant /\ e[3] = NumberText(tx.amount)
      /\ e[4] = <<tx.type>>
      /\ e[5] = IF NameOf(Wallets, tx.wallet) = <<>> THEN <<tx.wallet>>
                ELSE NameOf(Wallets, tx.wallet)
      /\ e[6] = NameOf(Categories, tx.category) /\ e[7] = <<tx.status>> /\ e[8] = tx.note
  BY ExportedRow DEF e
<1>5. /\ cell("tanggal") = <<"date">>
      /\ cell("tipe") = <<tx.type>> /\ TypeOf(cell("tipe")) = tx.type
      /\ cell("status") = <<tx.status>> /\ StatusOf(cell("status")) = tx.status
  BY <1>3, <1>4, WordsRead, TrimOne DEF Exportable
<1>6. Lookup(Categories, cell("kategori")) = tx.category
  <2>1. CASE tx.category = None
    <3>1. Trim(<<>>) = <<>>
      BY DEF Trim
    <3> QED
      BY <1>3, <1>4, <2>1, <3>1, NamesLead
  <2>2. CASE tx.category # None
    <3>1. PICK i \in 1 .. Len(Categories) : tx.category = Categories[i].id
      <4>1. DOMAIN Categories = 1 .. Len(Categories)
        BY DEF ToldApart
      <4>2. tx.category \in {Categories[i].id : i \in 1 .. Len(Categories)}
        BY <2>2, <4>1 DEF Exportable
      <4> QED
        BY <4>2
    <3>2. e[6] = Categories[i].name /\ Lookup(Categories, Categories[i].name) = Categories[i].id
      BY <1>4, <3>1, NamesLead
    <3>3. Trim(Categories[i].name) = Categories[i].name
      BY DEF ToldApart
    <3> QED
      BY <1>3, <3>1, <3>2, <3>3
  <2> QED
    BY <2>1, <2>2
<1>7. ASSUME NameOf(Wallets, tx.wallet) # <<>>
      PROVE  WalletFor(cell("dompet")) = tx.wallet
  <2>1. PICK i \in 1 .. Len(Wallets) : Wallets[i].id = tx.wallet
    <3>1. {i \in 1 .. Len(Wallets) : Wallets[i].id = tx.wallet} # {}
      BY <1>7 DEF NameOf
    <3> QED
      BY <3>1
  <2>2. e[5] = Wallets[i].name /\ Lookup(Wallets, Wallets[i].name) = tx.wallet
    BY <1>4, <1>7, <2>1, NamesLead
  <2>3. Trim(Wallets[i].name) = Wallets[i].name /\ Wallets[i].name # <<>> /\ Wallets[i].id # None
    BY DEF ToldApart
  <2> QED
    BY <1>3, <2>1, <2>2, <2>3 DEF WalletFor
<1> DEFINE number == NumberOf(cell("nominal"))
           r == ReadRow(lines, row)
<1>8. /\ r.date = IF cell("tanggal") = <<>> THEN "now" ELSE cell("tanggal")[1]
      /\ r.merchant = cell("merchant") /\ r.note = cell("catatan")
      /\ r.amount = IF number = None THEN 0 ELSE number
      /\ r.type = TypeOf(cell("tipe")) /\ r.status = StatusOf(cell("status"))
      /\ r.wallet = WalletFor(cell("dompet"))
      /\ r.category = Lookup(Categories, cell("kategori"))
      /\ r.valid = (/\ cell("tanggal") \in {<<>>, <<"date">>}
                   /\ AmountValid(number)
                   /\ cell("dompet") # <<>> /\ Wallets # <<>>)
  BY DEF ReadRow, cell
<1> HIDE DEF r
<1>9. <<"date">> # <<>> /\ (<<"date">>)[1] = "date"
  OBVIOUS
<1>10. <<r.date, r.type, r.status>> = <<tx.date, tx.type, tx.status>>
  BY <1>5, <1>8, <1>9 DEF Exportable
<1> HIDE DEF number
<1>11. ASSUME tx.amount % 10 = 0 PROVE r.amount = tx.amount /\ r.valid
  <2>1. number = tx.amount /\ tx.amount \in 1 .. 99
    BY <1>3, <1>4, <1>11, AmountRead DEF Exportable, number
  <2>2. number # None /\ AmountValid(number)
    <3>1. None \notin Nat
      BY TextAssumption
    <3>2. \A n \in 1 .. 99 : n # None /\ n > 0
      BY <3>1
    <3>3. \A n \in 1 .. 99 : n # None /\ AmountValid(n)
      BY <3>2 DEF AmountValid
    <3> QED
      BY <2>1, <3>3, Zenon
  <2>3. cell("dompet") # <<>>
    <3>1. CASE NameOf(Wallets, tx.wallet) = <<>>
      <4>1. Trim(<<tx.wallet>>) = <<tx.wallet>>
        BY TrimOne DEF Exportable
      <4>2. <<tx.wallet>> # <<>>
        OBVIOUS
      <4>3. e[5] = <<tx.wallet>>
        BY <1>4, <3>1
      <4> QED
        BY <1>3, <4>1, <4>2, <4>3
    <3>2. CASE NameOf(Wallets, tx.wallet) # <<>>
      <4>1. e[5] = NameOf(Wallets, tx.wallet)
        BY <1>4, <3>2
      <4>2. Trim(NameOf(Wallets, tx.wallet)) = NameOf(Wallets, tx.wallet)
        BY <3>2, NamesTrimmed
      <4> QED
        BY <1>3, <3>2, <4>1, <4>2
    <3> QED
      BY <3>1, <3>2
  <2>5. r.amount = tx.amount
    BY <1>8, <2>1, <2>2
  <2>6. r.valid
    <3>1. cell("tanggal") \in {<<>>, <<"date">>}
      BY <1>5
    <3>2. r.valid = (/\ cell("tanggal") \in {<<>>, <<"date">>}
                   /\ AmountValid(number)
                   /\ cell("dompet") # <<>> /\ Wallets # <<>>)
      BY <1>8, Zenon
    <3> QED
      BY <2>2, <2>3, <3>1, <3>2, Zenon
  <2> QED
    BY <2>5, <2>6
<1>12. r.merchant = Trim(tx.merchant) /\ r.note = Trim(tx.note)
  BY <1>3, <1>4, <1>8
<1>13. r.category = tx.category
  BY <1>6, <1>8
<1>14. NameOf(Wallets, tx.wallet) # <<>> => r.wallet = tx.wallet
  BY <1>7, <1>8
<1> QED
  BY <1>10, <1>11, <1>12, <1>13, <1>14 DEF row, r



--------------------------------------------------------------------------------
(* CsvImport: the inductive invariant.                                      *)

\* What reading a file gives, and the places in it.
Readings == {ReadFile(f.text) : f \in Files}
Places == UNION {DOMAIN found : found \in Readings}

LoopType ==
  [rows : Readings, todo : SUBSET Places, booked : SUBSET Places,
   ok : Nat, fail : Nat, n : Nat]

\* The rows on the screen are those of one file, whichever is chosen by now.
CsvTypeOK ==
  /\ open \in BOOLEAN /\ parsing \in BOOLEAN /\ importing \in BOOLEAN
  /\ file \in Files \cup {None}
  /\ \/ shown = None /\ rows = <<>>
     \/ shown \in Files /\ rows = ReadFile(shown.text)
  /\ \A r \in reads : r.file \in Files /\ r.rows = ReadFile(r.file.text)
  /\ \A i \in imports : i \in LoopType
  /\ message \in {None, "ok", "partial", "error"}
  /\ timers \in Nat /\ events \in Nat

\* A loop books valid rows only, and all it has sent unless it has counted a
\* failure.
LoopsAreCounted ==
  \A i \in imports :
    /\ i.todo \cup i.booked \subseteq ValidRows(i.rows)
    /\ i.todo \cap i.booked = {}
    /\ i.fail = 0 => i.todo \cup i.booked = ValidRows(i.rows)

CsvIInv == CsvTypeOK /\ LoopsAreCounted /\ BookedRowsAreSound

\* A row that counts as valid has a positive amount and a wallet.
LEMMA ValidRowIsSound ==
  ASSUME NEW found \in Readings, NEW k \in ValidRows(found)
  PROVE  found[k].amount > 0 /\ found[k].wallet # None
<1>1. PICK f \in Files : found = ReadFile(f.text)
  BY DEF Readings
<1> DEFINE lines == ParseLines(f.text)
           data == IF lines = <<>> THEN <<>>
                   ELSE IF HasHeader(lines) THEN Tail(lines) ELSE lines
           number == NumberOf(CellOf(lines, data[k], "nominal"))
<1>2. found = [i \in 1 .. Len(data) |-> ReadRow(lines, data[i])]
  BY <1>1 DEF ReadFile
<1>3. k \in DOMAIN found /\ found[k].valid
  BY DEF ValidRows
<1> HIDE DEF data, lines
<1>4. found[k] = ReadRow(lines, data[k])
  BY <1>2, <1>3
<1> USE DEF number
<1>5. /\ found[k].amount = IF number = None THEN 0 ELSE number
      /\ found[k].wallet = WalletFor(CellOf(lines, data[k], "dompet"))
      /\ found[k].valid => AmountValid(number) /\ Wallets # <<>>
  BY <1>4 DEF ReadRow
<1> HIDE DEF number
<1>6. found[k].amount > 0
  BY <1>3, <1>5 DEF AmountValid
<1>7. Wallets[1].id # None
  <2>1. Wallets \in Seq(ToSet(Wallets)) /\ Wallets # <<>>
    BY <1>3, <1>5, TextAssumption
  <2>2. 1 \in 1 .. Len(Wallets)
    BY <2>1
  <2>3. \A i \in 1 .. Len(Wallets) : Wallets[i].id # None
    BY TextAssumption
  <2> QED
    BY <2>2, <2>3
<1>8. found[k].wallet # None
  BY <1>3, <1>5, <1>7 DEF WalletFor
<1> QED
  BY <1>6, <1>8

LEMMA InitInv == CsvInit => CsvIInv
<1> SUFFICES ASSUME CsvInit PROVE CsvIInv
  OBVIOUS
<1>1. CsvTypeOK
  BY DEF CsvInit, CsvTypeOK
<1>2. LoopsAreCounted /\ BookedRowsAreSound
  BY DEF CsvInit, LoopsAreCounted, BookedRowsAreSound
<1> QED
  BY <1>1, <1>2 DEF CsvIInv

LEMMA EventType == ASSUME events \in Nat, Event PROVE events' \in Nat
BY DEF Event

LEMMA OpenStep == ASSUME CsvIInv, Open PROVE CsvIInv'
BY DEF Open, dialog, CsvIInv, CsvTypeOK, LoopsAreCounted, BookedRowsAreSound

LEMMA CloseStep == ASSUME CsvIInv, Close PROVE CsvIInv'
<1>1. CsvTypeOK'
  BY EventType DEF Close, Cleared, CsvIInv, CsvTypeOK
<1>2. LoopsAreCounted' /\ BookedRowsAreSound'
  BY DEF Close, CsvIInv, LoopsAreCounted, BookedRowsAreSound
<1> QED
  BY <1>1, <1>2 DEF CsvIInv

LEMMA ChooseStep == ASSUME CsvIInv, Choose PROVE CsvIInv'
<1>1. /\ events' \in Nat
      /\ UNCHANGED <<open, rows, shown, importing, imports, timers, ledger>>
  BY EventType DEF Choose, CsvIInv, CsvTypeOK
<1>2. /\ file' \in Files \cup {None} /\ parsing' \in BOOLEAN
      /\ message' \in {None, "ok", "partial", "error"}
  BY DEF Choose, CsvIInv, CsvTypeOK
<1>3. \A r \in reads' : r.file \in Files /\ r.rows = ReadFile(r.file.text)
  BY DEF Choose, CsvIInv, CsvTypeOK
<1>4. CsvTypeOK'
  BY <1>1, <1>2, <1>3 DEF CsvIInv, CsvTypeOK
<1>5. LoopsAreCounted' /\ BookedRowsAreSound'
  BY <1>1 DEF CsvIInv, LoopsAreCounted, BookedRowsAreSound
<1> QED
  BY <1>4, <1>5 DEF CsvIInv

LEMMA ChangeFileStep == ASSUME CsvIInv, ChangeFile PROVE CsvIInv'
<1>1. CsvTypeOK'
  BY EventType DEF ChangeFile, CsvIInv, CsvTypeOK
<1>2. LoopsAreCounted' /\ BookedRowsAreSound'
  BY DEF ChangeFile, CsvIInv, LoopsAreCounted, BookedRowsAreSound
<1> QED
  BY <1>1, <1>2 DEF CsvIInv

LEMMA ReadEndsStep == ASSUME CsvIInv, NEW r \in reads, ReadEnds(r) PROVE CsvIInv'
<1>1. UNCHANGED <<open, file, importing, imports, timers, ledger, events>>
  BY DEF ReadEnds
<1>2. \/ shown' = None /\ rows' = <<>>
      \/ shown' \in Files /\ rows' = ReadFile(shown'.text)
  BY DEF ReadEnds, CsvIInv, CsvTypeOK
<1>3. /\ parsing' \in BOOLEAN /\ message' \in {None, "ok", "partial", "error"}
      /\ reads' \subseteq reads
  BY DEF ReadEnds, CsvIInv, CsvTypeOK
<1>4. CsvTypeOK'
  BY <1>1, <1>2, <1>3 DEF CsvIInv, CsvTypeOK
<1>5. LoopsAreCounted' /\ BookedRowsAreSound'
  BY <1>1 DEF CsvIInv, LoopsAreCounted, BookedRowsAreSound
<1> QED
  BY <1>4, <1>5 DEF CsvIInv

LEMMA StartImportStep == ASSUME CsvIInv, StartImport PROVE CsvIInv'
<1> DEFINE loop == [rows |-> rows, todo |-> ValidRows(rows), booked |-> {}, ok |-> 0,
                    fail |-> 0, n |-> events]
<1>1. /\ events' \in Nat /\ importing' = TRUE /\ message' = None
      /\ imports' = imports \cup {loop}
      /\ UNCHANGED <<open, file, rows, shown, parsing, reads, timers, ledger>>
  BY EventType DEF StartImport, CsvIInv, CsvTypeOK
<1>2. rows \in Readings
  <2>1. rows # <<>>
    BY DEF StartImport, MayImport, ValidRows
  <2> QED
    BY <2>1 DEF CsvIInv, CsvTypeOK, Readings
<1>3. loop \in LoopType
  BY <1>2 DEF LoopType, ValidRows, Places, CsvIInv, CsvTypeOK
<1>4. /\ loop.rows = rows /\ loop.todo = ValidRows(rows) /\ loop.booked = {}
  OBVIOUS
<1> HIDE DEF loop
<1>5. CsvTypeOK'
  BY <1>1, <1>3 DEF CsvIInv, CsvTypeOK
<1>6. LoopsAreCounted'
  BY <1>1, <1>4 DEF CsvIInv, LoopsAreCounted
<1>7. BookedRowsAreSound'
  BY <1>1 DEF CsvIInv, BookedRowsAreSound
<1> QED
  BY <1>5, <1>6, <1>7 DEF CsvIInv

LEMMA SendRowStep == ASSUME CsvIInv, NEW i \in imports, SendRow(i) PROVE CsvIInv'
<1>1. PICK k \in i.todo, result \in {"ok", "failed", "lost"} :
        /\ ~Bookable(i.rows[k]) => result = "failed"
        /\ imports' = (imports \ {i}) \cup {Sent(i, k, result)}
        /\ ledger' = IF result = "failed" THEN ledger ELSE ledger \cup {i.rows[k]}
  BY DEF SendRow
<1>2. UNCHANGED <<open, dialog, reads, timers, events>>
  BY DEF SendRow
<1>3. /\ i \in LoopType /\ i.todo \cup i.booked \subseteq ValidRows(i.rows)
      /\ i.todo \cap i.booked = {}
      /\ i.fail = 0 => i.todo \cup i.booked = ValidRows(i.rows)
  BY DEF CsvIInv, CsvTypeOK, LoopsAreCounted
<1>4. i.rows \in Readings /\ k \in ValidRows(i.rows)
  BY <1>3 DEF LoopType
<1>5. i.fail \in Nat /\ i.ok \in Nat /\ i.todo \subseteq Places /\ i.booked \subseteq Places
  BY <1>3 DEF LoopType
<1> DEFINE after == Sent(i, k, result)
<1>6. /\ after.rows = i.rows /\ after.todo = i.todo \ {k}
      /\ after.booked = IF result = "failed" THEN i.booked ELSE i.booked \cup {k}
      /\ after.fail = IF result = "ok" THEN i.fail ELSE i.fail + 1
      /\ after \in LoopType
  <2> DEFINE todo == i.todo \ {k}
             booked == IF result = "failed" THEN i.booked ELSE i.booked \cup {k}
             ok == IF result = "ok" THEN i.ok + 1 ELSE i.ok
             fail == IF result = "ok" THEN i.fail ELSE i.fail + 1
  <2>1. todo \in SUBSET Places /\ booked \in SUBSET Places
    BY <1>5
  <2>2. ok \in Nat /\ fail \in Nat
    BY <1>5
  <2>3. after = [i EXCEPT !.todo = todo, !.ok = ok, !.fail = fail, !.booked = booked]
    BY DEF Sent
  <2> HIDE DEF todo, booked, ok, fail, after
  <2>4. /\ after.rows = i.rows /\ after.todo = todo /\ after.booked = booked
        /\ after.fail = fail /\ after \in LoopType
    BY <1>3, <2>1, <2>2, <2>3 DEF LoopType
  <2> QED
    BY <2>4 DEF todo, booked, fail
<1>7. imports' = (imports \ {i}) \cup {after}
  BY <1>1
<1> HIDE DEF after
<1>8. CsvTypeOK'
  BY <1>2, <1>6, <1>7 DEF CsvIInv, CsvTypeOK, dialog
<1>9. LoopsAreCounted'
  <2>1. /\ after.todo \cup after.booked \subseteq ValidRows(after.rows)
        /\ after.todo \cap after.booked = {}
    BY <1>1, <1>3, <1>6
  <2>2. ASSUME after.fail = 0 PROVE after.todo \cup after.booked = ValidRows(after.rows)
    <3>1. result = "ok" /\ i.fail = 0
      BY <1>5, <1>6, <2>2
    <3> QED
      BY <1>1, <1>3, <1>6, <3>1
  <2> QED
    BY <1>7, <2>1, <2>2 DEF CsvIInv, LoopsAreCounted
<1>10. BookedRowsAreSound'
  <2>1. i.rows[k].amount > 0 /\ i.rows[k].wallet # None
    BY <1>4, ValidRowIsSound
  <2> QED
    BY <1>1, <2>1 DEF Bookable, CsvIInv, BookedRowsAreSound
<1> QED
  BY <1>8, <1>9, <1>10 DEF CsvIInv

LEMMA EndImportStep == ASSUME CsvIInv, NEW i \in imports, EndImport(i) PROVE CsvIInv'
<1>1. /\ UNCHANGED <<open, file, rows, shown, parsing, reads, ledger, events>>
      /\ imports' \subseteq imports /\ importing' = FALSE
      /\ message' \in {"ok", "partial"} /\ timers' \in Nat
  BY DEF EndImport, CsvIInv, CsvTypeOK
<1>2. CsvTypeOK'
  BY <1>1 DEF CsvIInv, CsvTypeOK
<1>3. LoopsAreCounted' /\ BookedRowsAreSound'
  BY <1>1 DEF CsvIInv, LoopsAreCounted, BookedRowsAreSound
<1> QED
  BY <1>2, <1>3 DEF CsvIInv

LEMMA TimerClosesStep == ASSUME CsvIInv, TimerCloses PROVE CsvIInv'
<1>1. UNCHANGED <<reads, imports, ledger, events>> /\ timers' \in Nat
  BY DEF TimerCloses, CsvIInv, CsvTypeOK
<1>2. Cleared \/ UNCHANGED <<open, dialog>>
  BY DEF TimerCloses
<1>3. CsvTypeOK'
  BY <1>1, <1>2 DEF Cleared, dialog, CsvIInv, CsvTypeOK
<1>4. LoopsAreCounted' /\ BookedRowsAreSound'
  BY <1>1 DEF CsvIInv, LoopsAreCounted, BookedRowsAreSound
<1> QED
  BY <1>3, <1>4 DEF CsvIInv

LEMMA StutterStep == ASSUME CsvIInv, UNCHANGED csvVars PROVE CsvIInv'
BY DEF csvVars, dialog, CsvIInv, CsvTypeOK, LoopsAreCounted, BookedRowsAreSound

LEMMA StepInv == ASSUME CsvIInv, [CsvNext]_csvVars PROVE CsvIInv'
BY OpenStep, CloseStep, ChooseStep, ChangeFileStep, StartImportStep, ReadEndsStep,
   SendRowStep, EndImportStep, TimerClosesStep, StutterStep
DEF CsvNext, FileReading, Importing

\* The inductive invariant always holds: the closed dialog has it, and every step
\* of the user, the file reader and the import loops keeps it.
THEOREM CsvInductive == CsvSpec => []CsvIInv
BY InitInv, StepInv, PTL DEF CsvSpec

\* Every part has its type; the rows on the screen are those of one chosen file.
THEOREM CsvTypeCorrect == CsvSpec => []CsvTypeOK
<1>1. CsvIInv => CsvTypeOK
  BY DEF CsvIInv
<1> QED
  BY <1>1, CsvInductive, PTL

\* handleImport: what is booked has a positive amount and a wallet and is no
\* transfer, whatever the file said and whichever file is chosen meanwhile.
THEOREM BookedRowsAreSoundCorrect == CsvSpec => []BookedRowsAreSound
<1>1. CsvIInv => BookedRowsAreSound
  BY DEF CsvIInv
<1> QED
  BY <1>1, CsvInductive, PTL

\* A loop that ends with a success has booked all its valid rows.
Complete ==
  \A i \in imports \ imports' :
    i.todo = {} /\ message' = "ok" => i.booked = ValidRows(i.rows)

LEMMA StepComplete == ASSUME CsvIInv, [CsvNext]_csvVars PROVE [Complete]_csvVars
<1> SUFFICES ASSUME CsvNext, NEW i \in imports \ imports', i.todo = {}, message' = "ok"
             PROVE  i.booked = ValidRows(i.rows)
  BY DEF Complete
<1>1. PICK j \in imports : SendRow(j) \/ EndImport(j)
  <2>1. imports' # imports
    OBVIOUS
  <2>2. ~(Open \/ Close \/ Choose \/ ChangeFile \/ FileReading \/ TimerCloses)
    BY <2>1 DEF Open, Close, Choose, ChangeFile, FileReading, ReadEnds, TimerCloses
  <2>3. ~StartImport
    BY DEF StartImport
  <2> QED
    BY <2>2, <2>3 DEF CsvNext, Importing
<1>2. CASE SendRow(j)
  <2>1. j.todo # {} /\ imports \ {j} \subseteq imports'
    BY <1>2 DEF SendRow
  <2> QED
    BY <2>1
<1>3. CASE EndImport(j)
  <2>1. i = j /\ i.fail = 0
    BY <1>3 DEF EndImport
  <2> QED
    BY <2>1 DEF CsvIInv, LoopsAreCounted
<1> QED
  BY <1>1, <1>2, <1>3

\* handleImport: the dialog reports success only when every valid row of the
\* file was booked.
THEOREM SuccessIsCompleteCorrect == CsvSpec => SuccessIsComplete
<1>1. CsvIInv /\ [CsvNext]_csvVars => [Complete]_csvVars
  BY StepComplete
<1>2. CsvSpec => [][Complete]_csvVars
  BY <1>1, CsvInductive, PTL DEF CsvSpec
<1> QED
  BY <1>2 DEF SuccessIsComplete, Complete



\* The rows read from an exported file are those of its transactions.
LEMMA FileRead ==
  ASSUME ToldApart(Wallets), ToldApart(Categories), Wallets # <<>>,
         NEW f \in Files, f.txs # None
  PROVE  /\ Len(ReadFile(f.text)) = Len(f.txs)
         /\ \A i \in 1 .. Len(f.txs) :
              LET tx == f.txs[i]
                  r == ReadFile(f.text)[i]
              IN  /\ r.merchant = Trim(tx.merchant) /\ r.note = Trim(tx.note)
                  /\ <<r.date, r.type, r.status>> = <<tx.date, tx.type, tx.status>>
                  /\ r.category = tx.category
                  /\ NameOf(Wallets, tx.wallet) # <<>> => r.wallet = tx.wallet
                  /\ tx.amount % 10 = 0 => r.amount = tx.amount /\ r.valid
<1> DEFINE txs == f.txs
           lines == ParseLines(f.text)
           N == Len(txs)
<1>1. /\ f.text = ExportedFile(txs) /\ txs \in Seq(ToSet(txs))
      /\ \A tx \in ToSet(txs) : Exportable(tx)
  BY FilesAssumption DEF Exportable, TxTypes, TxStatuses
<1>2. /\ Len(lines) = N + 1 /\ lines # <<>>
      /\ Len(lines[1]) = 8 /\ \A j \in 1 .. 8 : lines[1][j] = <<Columns[j]>>
      /\ Tail(lines) = [i \in 1 .. N |-> ReadCells(txs[i])]
  <2> HIDE DEF txs
  <2> QED
    BY <1>1, ExportTakenApart
<1> HIDE DEF txs
<1>3. N \in Nat /\ \A i \in 1 .. N : Exportable(txs[i])
  BY <1>1 DEF ToSet
<1> HIDE DEF N, lines
<1>4. HasHeader(lines)
  <2>1. Len([j \in 1 .. 8 |-> None]) = 8
    OBVIOUS
  <2> QED
    BY <1>2, <2>1, ColumnsFound
<1>5. ReadFile(f.text) = [i \in 1 .. N |-> ReadRow(lines, ReadCells(txs[i]))]
  <2> DEFINE data == [i \in 1 .. N |-> ReadCells(txs[i])]
  <2>1. Len(data) = N /\ \A i \in 1 .. N : data[i] = ReadCells(txs[i])
    BY <1>3
  <2> HIDE DEF data
  <2>2. Tail(lines) = data
    BY <1>2 DEF data
  <2>3. ReadFile(f.text) = [i \in 1 .. Len(data) |-> ReadRow(lines, data[i])]
    BY <1>2, <1>4, <2>2 DEF ReadFile, lines
  <2> QED
    BY <2>1, <2>3
<1> DEFINE found == ReadFile(f.text)
<1>6. Len(found) = N /\ \A i \in 1 .. N : found[i] = ReadRow(lines, ReadCells(txs[i]))
  BY <1>3, <1>5
<1> HIDE DEF found
<1>7. ASSUME NEW i \in 1 .. N
      PROVE  LET tx == txs[i]
                 r == found[i]
             IN  /\ r.merchant = Trim(tx.merchant) /\ r.note = Trim(tx.note)
                 /\ <<r.date, r.type, r.status>> = <<tx.date, tx.type, tx.status>>
                 /\ r.category = tx.category
                 /\ NameOf(Wallets, tx.wallet) # <<>> => r.wallet = tx.wallet
                 /\ tx.amount % 10 = 0 => r.amount = tx.amount /\ r.valid
  <2>1. Exportable(txs[i])
    BY <1>3
  <2> QED
    BY <1>2, <1>6, <2>1, TransactionRead, SMTT(30)
<1> QED
  BY <1>6, <1>7 DEF found, txs, N

\* exportTransactionsToCSV, then parseTransactionsCSV: what was exported is read
\* back as it was, for any transactions, texts and names, when the names of the
\* wallets and of the categories are told apart and the page has a wallet.
THEOREM ReadsBackCorrect ==
  ASSUME ToldApart(Wallets), ToldApart(Categories), Wallets # <<>>
  PROVE  CsvSpec => []ReadsBack
<1>1. CsvIInv => ReadsBack
  <2> SUFFICES ASSUME CsvIInv, shown # None, shown.txs # None
               PROVE  /\ Len(rows) = Len(shown.txs)
                      /\ \A i \in 1 .. Len(rows) :
                           LET tx == shown.txs[i]
                           IN  /\ rows[i].merchant = Trim(tx.merchant)
                               /\ rows[i].note = Trim(tx.note)
                               /\ <<rows[i].date, rows[i].type, rows[i].status>>
                                    = <<tx.date, tx.type, tx.status>>
                               /\ rows[i].category = tx.category
                               /\ NameOf(Wallets, tx.wallet) # <<>> => rows[i].wallet = tx.wallet
                               /\ tx.amount % 10 = 0 => rows[i].amount = tx.amount /\ rows[i].valid
    BY DEF ReadsBack
  <2>1. shown \in Files /\ rows = ReadFile(shown.text)
    BY DEF CsvIInv, CsvTypeOK
  <2> QED
    BY <2>1, FileRead
<1> QED
  BY <1>1, CsvInductive, PTL
================================================================================
