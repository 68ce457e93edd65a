---------------------------- MODULE MCRecurringRun ----------------------------
(***************************************************************************)
(* Instances of RecurringRun for TLC: a rule for the last day of the       *)
(* month, run around the ends of January and February.                     *)
(***************************************************************************)
EXTENDS RecurringRun, TLC

CONSTANTS rent, gym, r1, r2, e1

MCRules == {rent, gym}
MCRuns == {r1, r2}
MCEdits == {e1}

\* January to June of a common year that begins on a Wednesday.
MCMonthStart ==
  [m \in 0 .. 6 |-> CASE m = 0 -> 0 [] m = 1 -> 31 [] m = 2 -> 59 [] m = 3 -> 90
                      [] m = 4 -> 120 [] m = 5 -> 151 [] OTHER -> 181]

Nine(day) == day * DayMinutes + 540

Monthly == [every |-> "month", on |-> 31, at |-> 540]
Weekly == [every |-> "week", on |-> 5, at |-> 540]
Daily == [every |-> "day", at |-> 540]

\* 1 January, 09:00 exactly on the 31st, and 27 and 28 February.
MCMoments == {0, Nine(30), Nine(57) - 60, Nine(58) + 1}

Payload(cron, interval, next, status) ==
  [cron |-> cron, interval |-> interval, next |-> next, status |-> status]

\* The schedule sent again with another field, as the page does; another
\* schedule; both forms at once; a date of its own, already past; a status.
MCPayloads ==
  {Payload(Monthly, None, None, None), Payload(None, Weekly, None, "active"),
   Payload(Monthly, Daily, None, None), Payload(None, None, Nine(30), None),
   Payload(None, None, None, "paused")}

\* One rule is due on 31 January, the other is not there yet.
MCStart ==
  rent :> [schedule |-> Monthly, next |-> Nine(30), status |-> "active",
           deleted |-> FALSE, entry |-> None]
    @@ gym :> None
=============================================================================
