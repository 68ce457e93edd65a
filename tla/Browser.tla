-------------------------------- MODULE Browser --------------------------------
(***************************************************************************)
(* What the models of the browser's pages share: the faults of the network *)
(* that are looked at, and a bound on how much the user, the network and   *)
(* other devices do in one behaviour.                                      *)
(***************************************************************************)
EXTENDS Naturals, Nothing

CONSTANTS
  Faults,     \* the faults that happen; each page names its own
  MaxEvents   \* bound on the events

ASSUME BrowserAssumption == MaxEvents \in Nat

VARIABLE events

\* An input, a change from elsewhere or a fault that counts against the bound.
Event == events < MaxEvents /\ events' = events + 1
================================================================================
