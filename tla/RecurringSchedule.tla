-------------------------- MODULE RecurringSchedule --------------------------
(***************************************************************************)
(* When a recurring rule runs next: once computed in Go when a rule is     *)
(* created or edited (nextRunFromPayload and below), once in SQL when it   *)
(* is run (handleRunRecurring), both in httpserver/extended_resources.go.  *)
(*                                                                         *)
(* An instant is a number of minutes, a day a number of days; the months   *)
(* are given by a table of their first days, which must reach two months   *)
(* beyond the instants at which a next run is asked for.                   *)
(***************************************************************************)
EXTENDS Integers

CONSTANTS
  MonthStart,   \* first day of each month, the first month is 0
  LastMonth,    \* the table ends with the first day of this month
  FirstWeekday  \* weekday of day 0, Sunday is 0

DayMinutes == 1440
Months == 0 .. LastMonth - 1
Days == 0 .. MonthStart[LastMonth] - 1
Instants == 0 .. MonthStart[LastMonth - 2] * DayMinutes - 1

ASSUME MonthsAssumption ==
  /\ LastMonth \in Nat /\ LastMonth > 2
  /\ FirstWeekday \in 0 .. 6
  /\ MonthStart \in [0 .. LastMonth -> Nat]
  /\ \A m \in Months : MonthStart[m + 1] - MonthStart[m] \in 28 .. 31
  /\ \A m, n \in 0 .. LastMonth : m < n => MonthStart[m] < MonthStart[n]
  /\ \A d \in Days : \E m \in Months : MonthStart[m] <= d /\ d < MonthStart[m + 1]

\* The three shapes validateRecurringCron accepts, at a minute of the day.
SchedulesAt(minutes) ==
  [every : {"day"}, at : minutes]
    \cup [every : {"week"}, on : 0 .. 6, at : minutes]
    \cup [every : {"month"}, on : 1 .. 31, at : minutes]
Schedule == SchedulesAt(0 .. DayMinutes - 1)

DayOf(t) == t \div DayMinutes
Weekday(d) == (d + FirstWeekday) % 7
MonthOf(d) == CHOOSE m \in Months : MonthStart[m] <= d /\ d < MonthStart[m + 1]

-----------------------------------------------------------------------------
(* Dates of a schedule.                                                    *)

\* The day of month m, or its last day if the month is shorter.
DayInMonth(s, m) ==
  LET length == MonthStart[m + 1] - MonthStart[m]
  IN  MonthStart[m] + (IF s.on < length THEN s.on ELSE length) - 1

RunAt(s, d) == d * DayMinutes + s.at

OnDay(s, d) ==
  CASE s.every = "day" -> TRUE
    [] s.every = "week" -> Weekday(d) = s.on
    [] OTHER -> d = DayInMonth(s, MonthOf(d))

\* Both computations try one candidate and fall back to the one after it.
Later(first, second, now) == IF first > now THEN first ELSE second

NextDaily(s, now) ==
  Later(RunAt(s, DayOf(now)), RunAt(s, DayOf(now) + 1), now)

NextWeekly(s, now) ==
  LET day == DayOf(now) + ((s.on - Weekday(DayOf(now)) + 7) % 7)
  IN  Later(RunAt(s, day), RunAt(s, day + 7), now)

-----------------------------------------------------------------------------
(* SQL.                                                                    *)

SqlMonthly(s, now) ==
  LET m == MonthOf(DayOf(now))
  IN  Later(RunAt(s, DayInMonth(s, m)), RunAt(s, DayInMonth(s, m + 1)), now)

SqlNext(s, now) ==
  CASE s.every = "day" -> NextDaily(s, now)
    [] s.every = "week" -> NextWeekly(s, now)
    [] OTHER -> SqlMonthly(s, now)

-----------------------------------------------------------------------------
(* Go.                                                                     *)

\* The month of now.AddDate(0, offset, 0): a day that month does not have is
\* carried over into the month after it.
MonthAfter(now, offset) ==
  LET m == MonthOf(DayOf(now))
  IN  MonthOf(MonthStart[m + offset] + DayOf(now) - MonthStart[m])

\* The loop over month offsets ends at its second round at the latest, since
\* the candidate of a later month is later than now.
GoMonthly(s, now) ==
  Later(RunAt(s, DayInMonth(s, MonthAfter(now, 0))),
        RunAt(s, DayInMonth(s, MonthAfter(now, 1))), now)

GoNext(s, now) ==
  CASE s.every = "day" -> NextDaily(s, now)
    [] s.every = "week" -> NextWeekly(s, now)
    [] OTHER -> GoMonthly(s, now)

-----------------------------------------------------------------------------
(* What they should compute.                                               *)

\* t is the first date of the schedule after now.
IsFollowing(s, now, t) ==
  /\ t > now
  /\ OnDay(s, DayOf(t)) /\ t = RunAt(s, DayOf(t))
  /\ \A d \in DayOf(now) .. DayOf(t) - 1 : OnDay(s, d) => RunAt(s, d) <= now

\* The days on which AddDate leaves out a month: those the next month lacks.
LeavesOut(now) ==
  LET m == MonthOf(DayOf(now))
  IN  MonthStart[m + 1] + DayOf(now) - MonthStart[m] >= MonthStart[m + 2]
=============================================================================
