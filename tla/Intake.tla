------------------------------- MODULE Intake -------------------------------
(***************************************************************************)
(* What an idempotency key promises its sender: the first delivery of a    *)
(* key takes it, whoever takes it decides its outcome once, and what was   *)
(* decided is never decided again.                                         *)
(***************************************************************************)
CONSTANTS Keys, Takers, Nobody

VARIABLES
  taker,    \* the delivery that took each key
  booked,   \* deliveries whose transaction was made
  held      \* deliveries that were quarantined

vars == <<taker, booked, held>>

Init ==
  /\ taker = [k \in Keys |-> Nobody]
  /\ booked = {}
  /\ held = {}

Undecided(r) == r \notin booked \cup held

Take(k, r) ==
  /\ taker[k] = Nobody
  /\ \A other \in Keys : taker[other] # r
  /\ taker' = [taker EXCEPT ![k] = r]
  /\ UNCHANGED <<booked, held>>

Book(k) ==
  /\ taker[k] # Nobody
  /\ Undecided(taker[k])
  /\ booked' = booked \cup {taker[k]}
  /\ UNCHANGED <<taker, held>>

Quarantine(k) ==
  /\ taker[k] # Nobody
  /\ Undecided(taker[k])
  /\ held' = held \cup {taker[k]}
  /\ UNCHANGED <<taker, booked>>

Next ==
  \E k \in Keys :
    \/ \E r \in Takers : Take(k, r)
    \/ Book(k)
    \/ Quarantine(k)

Spec == Init /\ [][Next]_vars
=============================================================================
