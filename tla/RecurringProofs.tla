--------------------------- MODULE RecurringProofs ---------------------------
(***************************************************************************)
(* Theorems about RecurringSchedule, for every calendar, and about         *)
(* RecurringRun, for any rules, runs, edits and payloads: the next run is  *)
(* the first date after now, no date is booked twice, and what is booked   *)
(* is due.                                                                 *)
(***************************************************************************)
EXTENDS RecurringRun, TLAPS

-----------------------------------------------------------------------------
(* The calendar.                                                           *)

LEMMA MonthLengths ==
  ASSUME NEW m \in Months
  PROVE  /\ m + 1 \in 0 .. LastMonth
         /\ MonthStart[m] \in Nat /\ MonthStart[m + 1] \in Nat
         /\ MonthStart[m + 1] - MonthStart[m] \in 28 .. 31
  <1>1. m \in 0 .. LastMonth /\ m + 1 \in 0 .. LastMonth
    BY MonthsAssumption DEF Months
  <1>2. MonthStart[m + 1] - MonthStart[m] \in 28 .. 31
    BY MonthsAssumption
  <1> QED BY <1>1, <1>2, MonthsAssumption

LEMMA MonthOfDay ==
  ASSUME NEW d \in Days
  PROVE  /\ MonthOf(d) \in Months
         /\ MonthStart[MonthOf(d)] <= d /\ d < MonthStart[MonthOf(d) + 1]
  <1>1. \E m \in Months : MonthStart[m] <= d /\ d < MonthStart[m + 1]
    BY MonthsAssumption
  <1> QED BY <1>1 DEF MonthOf

\* A day lies in one month only.
LEMMA MonthOfIs ==
  ASSUME NEW d \in Days, NEW m \in Months,
         MonthStart[m] <= d, d < MonthStart[m + 1]
  PROVE  MonthOf(d) = m
  <1> DEFINE n == MonthOf(d)
  <1>1. n \in Months /\ MonthStart[n] <= d /\ d < MonthStart[n + 1]
    BY MonthOfDay
  <1> HIDE DEF n
  <1>2. \A i, j \in 0 .. LastMonth : i <= j => MonthStart[i] <= MonthStart[j]
    BY MonthsAssumption
  <1>3. /\ m + 1 \in 0 .. LastMonth /\ n + 1 \in 0 .. LastMonth
        /\ m \in 0 .. LastMonth /\ n \in 0 .. LastMonth
        /\ MonthStart[m] \in Nat /\ MonthStart[m + 1] \in Nat
        /\ MonthStart[n] \in Nat /\ MonthStart[n + 1] \in Nat
    BY <1>1, MonthsAssumption DEF Months
  <1>4. ~(m + 1 <= n)
    BY <1>1, <1>2, <1>3 DEF Days
  <1>5. ~(n + 1 <= m)
    BY <1>1, <1>2, <1>3 DEF Days
  <1>6. n = m
    BY <1>3, <1>4, <1>5
  <1> QED BY <1>6 DEF n

\* A clock reading lies in a month after which the table has two more.
LEMMA NowInMonth ==
  ASSUME NEW t \in Instants
  PROVE  LET m == MonthOf(DayOf(t)) IN
         /\ DayOf(t) \in Days
         /\ DayOf(t) * DayMinutes <= t /\ t < (DayOf(t) + 1) * DayMinutes
         /\ m \in Months /\ m + 1 \in Months /\ m + 2 \in 0 .. LastMonth
         /\ m + 2 \in Months
         /\ MonthStart[m] <= DayOf(t) /\ DayOf(t) < MonthStart[m + 1]
  <1> DEFINE d == DayOf(t)
             m == MonthOf(d)
             last == MonthStart[LastMonth - 2]
  <1>1. LastMonth - 2 \in 0 .. LastMonth /\ last \in Nat
        /\ MonthStart[LastMonth] \in Nat /\ last < MonthStart[LastMonth]
    BY MonthsAssumption
  <1>2. t \in Nat /\ t < last * DayMinutes
    BY <1>1 DEF Instants, DayMinutes
  <1>3. /\ d \in Nat
        /\ d * DayMinutes <= t /\ t < (d + 1) * DayMinutes
    BY <1>2 DEF DayOf, DayMinutes
  <1>4. d < last
    <2> HIDE DEF d, last
    <2> QED BY <1>1, <1>2, <1>3 DEF DayMinutes
  <1>5. d \in Days
    <2> HIDE DEF d, last
    <2> QED BY <1>1, <1>3, <1>4 DEF Days
  <1>6. m \in Months /\ MonthStart[m] <= d /\ d < MonthStart[m + 1]
    BY <1>5, MonthOfDay
  <1>7. m < LastMonth - 2
    <2> HIDE DEF d, m
    <2>1. SUFFICES ASSUME m >= LastMonth - 2 PROVE FALSE
      BY <1>1, <1>6, MonthsAssumption DEF Months
    <2>2. last <= MonthStart[m]
      BY <2>1, <1>6, MonthsAssumption DEF Months
    <2> QED BY <2>2, <1>1, <1>3, <1>4, <1>6, MonthLengths
  <1>8. m + 1 \in Months /\ m + 2 \in 0 .. LastMonth /\ m + 2 \in Months
    BY <1>6, <1>7, MonthsAssumption DEF Months
  <1> QED BY <1>3, <1>5, <1>6, <1>8

LEMMA RunAtDay ==
  ASSUME NEW s \in Schedule, NEW d \in Int
  PROVE  /\ s.at \in 0 .. DayMinutes - 1
         /\ RunAt(s, d) \in Int
         /\ DayOf(RunAt(s, d)) = d
         /\ d * DayMinutes <= RunAt(s, d) /\ RunAt(s, d) < (d + 1) * DayMinutes
  <1>1. s.at \in 0 .. DayMinutes - 1
    BY DEF Schedule, SchedulesAt
  <1> DEFINE a == s.at
             t == RunAt(s, d)
  <1>2. a \in 0 .. 1439 /\ t = d * 1440 + a
    BY <1>1 DEF RunAt, DayMinutes
  <1>3. t \in Int /\ d * 1440 <= t /\ t < (d + 1) * 1440 /\ t \div 1440 = d
    <2> HIDE DEF a, t
    <2> QED BY <1>2
  <1> QED BY <1>1, <1>3 DEF DayOf, DayMinutes

\* Two candidates are enough when no other day in between is on the schedule.
LEMMA LaterFollows ==
  ASSUME NEW s \in Schedule, NEW t \in Instants, NEW d1 \in Int, NEW d2 \in Int,
         OnDay(s, d1), OnDay(s, d2), DayOf(t) < d2, d1 < d2,
         \A d \in DayOf(t) .. d2 - 1 : OnDay(s, d) => d = d1
  PROVE  /\ Later(RunAt(s, d1), RunAt(s, d2), t) \in Int
         /\ IsFollowing(s, t, Later(RunAt(s, d1), RunAt(s, d2), t))
  <1>1. /\ DayOf(t) \in Int /\ t \in Int
        /\ DayOf(t) * DayMinutes <= t /\ t < (DayOf(t) + 1) * DayMinutes
    BY NowInMonth, MonthsAssumption DEF Days, Instants, DayMinutes
  <1>2. CASE RunAt(s, d1) > t
    <2>1. Later(RunAt(s, d1), RunAt(s, d2), t) = RunAt(s, d1)
      BY <1>2 DEF Later
    <2>2. \A d \in DayOf(t) .. d1 - 1 : OnDay(s, d) => RunAt(s, d) <= t
      BY <1>1
    <2> QED BY <1>2, <2>1, <2>2, RunAtDay DEF IsFollowing
  <1>3. CASE ~(RunAt(s, d1) > t)
    <2>1. Later(RunAt(s, d1), RunAt(s, d2), t) = RunAt(s, d2)
      BY <1>3 DEF Later
    <2>2. RunAt(s, d2) > t
      BY <1>1, RunAtDay DEF DayMinutes
    <2>3. \A d \in DayOf(t) .. d2 - 1 : OnDay(s, d) => RunAt(s, d) <= t
      BY <1>1, <1>3, RunAtDay
    <2> QED BY <2>1, <2>2, <2>3, RunAtDay DEF IsFollowing
  <1> QED BY <1>2, <1>3

LEMMA DailyFollows ==
  ASSUME NEW s \in Schedule, s.every = "day", NEW t \in Instants
  PROVE  NextDaily(s, t) \in Int /\ IsFollowing(s, t, NextDaily(s, t))
  <1> DEFINE d == DayOf(t)
  <1>1. d \in Int
    BY NowInMonth, MonthsAssumption DEF Days
  <1>2. \A n \in Int : OnDay(s, n)
    BY DEF OnDay
  <1>3. d + 1 \in Int /\ d < d + 1 /\ \A n \in d .. (d + 1) - 1 : n = d
    <2> HIDE DEF d
    <2> QED BY <1>1
  <1> QED BY <1>1, <1>2, <1>3, LaterFollows DEF NextDaily

LEMMA ModSeven ==
  ASSUME NEW v \in Int, NEW a \in 0 .. 6
  PROVE  v % 7 = a <=> \E q \in Int : v = 7 * q + a
  <1>1. ASSUME v % 7 = a PROVE \E q \in Int : v = 7 * q + a
    BY <1>1
  <1>2. ASSUME NEW q \in Int, v = 7 * q + a PROVE v % 7 = a
    BY <1>2
  <1> QED BY <1>1, <1>2

LEMMA WeeklyFollows ==
  ASSUME NEW s \in Schedule, s.every = "week", NEW t \in Instants
  PROVE  NextWeekly(s, t) \in Int /\ IsFollowing(s, t, NextWeekly(s, t))
  <1> DEFINE n == DayOf(t)
             d == n + ((s.on - Weekday(n) + 7) % 7)
  <1>1. n \in Nat /\ s.on \in 0 .. 6 /\ FirstWeekday \in 0 .. 6
    BY NowInMonth, MonthsAssumption DEF Days, Schedule, SchedulesAt
  <1>2. /\ d \in n .. n + 6
        /\ Weekday(d) = s.on
        /\ Weekday(d + 7) = s.on
        /\ \A e \in n .. (d + 7) - 1 : Weekday(e) = s.on => e = d
    <2> DEFINE w == Weekday(n)
               k == (s.on - w + 7) % 7
    <2> HIDE DEF n
    <2>1. w \in 0 .. 6 /\ \E q \in Int : n + FirstWeekday = 7 * q + w
      BY <1>1 DEF Weekday
    <2>2. k \in 0 .. 6 /\ (k = s.on - w \/ k = s.on - w + 7)
      <3> HIDE DEF w
      <3> QED BY <1>1, <2>1
    <2>3. d = n + k
      OBVIOUS
    <2> HIDE DEF w, k, d
    <2>4. d \in n .. n + 6 /\ d + 7 \in Int
      BY <1>1, <2>2, <2>3
    <2>5. \E q \in Int : d + FirstWeekday = 7 * q + s.on
      <3>1. PICK q \in Int : n + FirstWeekday = 7 * q + w
        BY <2>1
      <3>2. \/ d + FirstWeekday = 7 * q + s.on
            \/ d + FirstWeekday = 7 * (q + 1) + s.on
        BY <1>1, <2>1, <2>2, <2>3, <3>1
      <3>3. q + 1 \in Int
        OBVIOUS
      <3> QED BY <3>2, <3>3
    <2>6. PICK q \in Int : d + FirstWeekday = 7 * q + s.on
      BY <2>5
    <2>7. Weekday(d) = s.on /\ Weekday(d + 7) = s.on
      <3>1. /\ d + FirstWeekday \in Int /\ d + 7 + FirstWeekday \in Int
            /\ q + 1 \in Int /\ d + 7 + FirstWeekday = 7 * (q + 1) + s.on
        BY <1>1, <2>4, <2>6
      <3> QED BY <1>1, <2>6, <3>1, ModSeven DEF Weekday
    <2>8. ASSUME NEW e \in n .. (d + 7) - 1, Weekday(e) = s.on PROVE e = d
      <3>1. e \in Int /\ e - d \in -6 .. 6
        BY <1>1, <2>4
      <3>2. PICK p \in Int : e + FirstWeekday = 7 * p + s.on
        <4>1. e + FirstWeekday \in Int /\ (e + FirstWeekday) % 7 = s.on
          BY <1>1, <2>8, <3>1 DEF Weekday
        <4> QED BY <1>1, <4>1, ModSeven
      <3>3. p = q
        BY <1>1, <2>4, <2>6, <3>1, <3>2
      <3> QED BY <1>1, <2>4, <2>6, <3>1, <3>2, <3>3
    <2> QED BY <2>4, <2>7, <2>8
  <1>3. \A e \in Int : OnDay(s, e) <=> Weekday(e) = s.on
    BY DEF OnDay
  <1>4. d \in Int /\ d + 7 \in Int /\ n < d + 7 /\ d < d + 7
    <2> HIDE DEF d, n
    <2> QED BY <1>1, <1>2
  <1>5. \A e \in n .. (d + 7) - 1 : OnDay(s, e) => e = d
    <2> HIDE DEF d
    <2> QED BY <1>1, <1>2, <1>3, <1>4
  <1>6. NextWeekly(s, t) = Later(RunAt(s, d), RunAt(s, d + 7), t)
    BY DEF NextWeekly
  <1> HIDE DEF d
  <1> QED BY <1>2, <1>3, <1>4, <1>5, <1>6, LaterFollows

\* The date of a monthly schedule in a month is a day of that month.
LEMMA MonthDate ==
  ASSUME NEW s \in Schedule, s.every = "month", NEW m \in Months
  PROVE  LET d == DayInMonth(s, m) IN
         /\ d \in Days
         /\ MonthStart[m] <= d /\ d < MonthStart[m + 1]
         /\ MonthOf(d) = m
  <1> DEFINE d == DayInMonth(s, m)
  <1>1. s.on \in 1 .. 31
    BY DEF Schedule, SchedulesAt
  <1>2. d \in Nat /\ MonthStart[m] <= d /\ d < MonthStart[m + 1]
    BY <1>1, MonthLengths DEF DayInMonth
  <1>3. MonthStart[m + 1] <= MonthStart[LastMonth] /\ MonthStart[LastMonth] \in Nat
    <2>1. m + 1 \in 0 .. LastMonth /\ LastMonth \in 0 .. LastMonth
      BY MonthsAssumption DEF Months
    <2>2. m + 1 = LastMonth \/ m + 1 < LastMonth
      BY <2>1, MonthsAssumption
    <2> QED BY <2>1, <2>2, MonthsAssumption
  <1>4. d \in Days
    <2> HIDE DEF d
    <2> QED BY <1>2, <1>3, MonthLengths DEF Days
  <1> QED BY <1>2, <1>4, MonthOfIs

LEMMA MonthlyFollows ==
  ASSUME NEW s \in Schedule, s.every = "month", NEW t \in Instants
  PROVE  SqlMonthly(s, t) \in Int /\ IsFollowing(s, t, SqlMonthly(s, t))
  <1> DEFINE n == DayOf(t)
             m == MonthOf(n)
             d1 == DayInMonth(s, m)
             d2 == DayInMonth(s, m + 1)
  <1>1. /\ n \in Days /\ m \in Months /\ m + 1 \in Months
        /\ MonthStart[m] <= n /\ n < MonthStart[m + 1]
    BY NowInMonth
  <1>2. /\ d1 \in Days /\ MonthOf(d1) = m
        /\ MonthStart[m] <= d1 /\ d1 < MonthStart[m + 1]
    BY <1>1, MonthDate
  <1>3. /\ d2 \in Days /\ MonthOf(d2) = m + 1
        /\ MonthStart[m + 1] <= d2 /\ d2 < MonthStart[(m + 1) + 1]
    BY <1>1, MonthDate
  <1>4. OnDay(s, d1) /\ OnDay(s, d2)
    BY <1>2, <1>3 DEF OnDay
  <1>5. SqlMonthly(s, t) = Later(RunAt(s, d1), RunAt(s, d2), t)
    BY DEF SqlMonthly
  <1>6. \A d \in Days : OnDay(s, d) => d = DayInMonth(s, MonthOf(d))
    BY DEF OnDay
  <1> HIDE DEF n, m, d1, d2
  <1>7. /\ n \in Nat /\ m \in Nat /\ d1 \in Nat /\ d2 \in Nat
        /\ \A d \in Nat : d < d2 => d \in Days
        /\ MonthStart[m] \in Nat /\ MonthStart[m + 1] \in Nat
    <2>1. MonthStart[LastMonth] \in Nat /\ m \in Nat
      BY <1>1, MonthsAssumption DEF Months
    <2>2. n \in Nat /\ d1 \in Nat /\ d2 \in Nat /\ \A d \in Nat : d < d2 => d \in Days
      BY <1>1, <1>2, <1>3, <2>1 DEF Days
    <2> QED BY <1>1, <2>1, <2>2, MonthLengths
  <1>8. ASSUME NEW d \in n .. d2 - 1, OnDay(s, d) PROVE d = d1
    <2>1. d \in Days /\ d < d2 /\ n <= d
      BY <1>7
    <2>2. d # d2
      BY <2>1, <1>7
    <2>3. CASE d < MonthStart[m + 1]
      <3>1. MonthOf(d) = m
        BY <2>1, <2>3, <1>1, <1>7, MonthOfIs
      <3> QED BY <1>6, <1>8, <2>1, <3>1 DEF d1, m
    <2>4. CASE ~(d < MonthStart[m + 1])
      <3>1. MonthOf(d) = m + 1
        BY <2>1, <2>4, <1>1, <1>3, <1>7, MonthOfIs, MonthLengths
      <3> QED BY <1>6, <1>8, <2>1, <2>2, <3>1 DEF d2, m
    <2> QED BY <2>3, <2>4
  <1>9. n < d2 /\ d1 < d2
    BY <1>1, <1>2, <1>3, <1>7
  <1> QED BY <1>4, <1>5, <1>7, <1>8, <1>9, LaterFollows DEF n

\* The SQL of handleRunRecurring moves a rule to the first date of its
\* schedule after the run, whatever the calendar.
THEOREM SqlFollows ==
  ASSUME NEW s \in Schedule, NEW t \in Instants
  PROVE  SqlNext(s, t) \in Int /\ IsFollowing(s, t, SqlNext(s, t))
  <1>1. s.every \in {"day", "week", "month"}
    BY DEF Schedule, SchedulesAt
  <1> QED BY <1>1, DailyFollows, WeeklyFollows, MonthlyFollows DEF SqlNext

\* The months AddDate arrives in.
LEMMA MonthsAfter ==
  ASSUME NEW t \in Instants
  PROVE  LET m == MonthOf(DayOf(t)) IN
         /\ MonthAfter(t, 0) = m
         /\ MonthAfter(t, 1) \in Months
         /\ ~LeavesOut(t) => MonthAfter(t, 1) = m + 1
  <1> DEFINE n == DayOf(t)
             m == MonthOf(n)
             d == MonthStart[m + 1] + n - MonthStart[m]
  <1>1. /\ n \in Days /\ n \in Nat
        /\ m \in Months /\ m \in Nat /\ m + 1 \in Months /\ m + 2 \in Months
        /\ MonthStart[m] <= n /\ n < MonthStart[m + 1]
    BY NowInMonth DEF Days, Months
  <1>2. MonthAfter(t, 1) = MonthOf(d)
    BY DEF MonthAfter
  <1>3. MonthAfter(t, 0) = m
    <2>1. MonthAfter(t, 0) = MonthOf(MonthStart[m + 0] + n - MonthStart[m])
      BY DEF MonthAfter
    <2>2. MonthStart[m] \in Nat
      BY <1>1, MonthLengths
    <2>3. MonthStart[m + 0] + n - MonthStart[m] = n
      <3> HIDE DEF n, m
      <3> QED BY <1>1, <2>2
    <2> QED BY <2>1, <2>3
  <1>4. LeavesOut(t) <=> d >= MonthStart[m + 2]
    BY DEF LeavesOut
  <1> HIDE DEF n, m
  <1>5. /\ MonthStart[m] \in Nat /\ MonthStart[m + 1] \in Nat
        /\ MonthStart[m + 1] - MonthStart[m] \in 28 .. 31
        /\ MonthStart[m + 2] \in Nat
        /\ MonthStart[m + 2] - MonthStart[m + 1] \in 28 .. 31
        /\ MonthStart[m + 3] \in Nat
        /\ MonthStart[m + 3] - MonthStart[m + 2] \in 28 .. 31
    <2>1. (m + 1) + 1 = m + 2 /\ (m + 2) + 1 = m + 3
      BY <1>1
    <2> QED BY <1>1, <2>1, MonthLengths
  <1>6. d \in Nat /\ MonthStart[m + 1] <= d /\ d < MonthStart[m + 3]
    BY <1>1, <1>5
  <1>7. MonthStart[m + 3] <= MonthStart[LastMonth] /\ MonthStart[LastMonth] \in Nat
    <2>1. m + 3 \in 0 .. LastMonth /\ LastMonth \in 0 .. LastMonth
      BY <1>1, MonthsAssumption DEF Months
    <2>2. m + 3 = LastMonth \/ m + 3 < LastMonth
      BY <2>1, MonthsAssumption
    <2> QED BY <2>1, <2>2, MonthsAssumption
  <1> HIDE DEF d
  <1>8. d \in Days
    BY <1>5, <1>6, <1>7 DEF Days
  <1>9. MonthOf(d) \in Months
    BY <1>8, MonthOfDay
  <1>10. ASSUME ~LeavesOut(t) PROVE MonthOf(d) = m + 1
    <2>1. d < MonthStart[(m + 1) + 1]
      <3>1. (m + 1) + 1 = m + 2
        BY <1>1
      <3> QED BY <1>4, <1>5, <1>6, <1>10, <3>1
    <2> QED BY <1>1, <1>6, <1>8, <2>1, MonthOfIs
  <1> QED BY <1>2, <1>3, <1>9, <1>10 DEF n, m

LEMMA GoTyped ==
  ASSUME NEW s \in Schedule, NEW t \in Instants
  PROVE  GoNext(s, t) \in Int
  <1>1. s.every \in {"day", "week", "month"}
    BY DEF Schedule, SchedulesAt
  <1>2. CASE s.every = "month"
    <2> DEFINE d1 == DayInMonth(s, MonthAfter(t, 0))
               d2 == DayInMonth(s, MonthAfter(t, 1))
    <2>1. MonthAfter(t, 0) \in Months /\ MonthAfter(t, 1) \in Months
      BY MonthsAfter, NowInMonth
    <2>2. d1 \in Int /\ d2 \in Int
      BY <1>2, <2>1, MonthDate DEF Days
    <2>3. GoNext(s, t) = Later(RunAt(s, d1), RunAt(s, d2), t)
      BY <1>2 DEF GoNext, GoMonthly
    <2> HIDE DEF d1, d2
    <2> QED BY <2>2, <2>3, RunAtDay DEF Later
  <1> QED BY <1>1, <1>2, DailyFollows, WeeklyFollows DEF GoNext

\* Go and SQL agree, except for a monthly schedule on the days at a month's
\* end that the next month does not have.
THEOREM GoAgrees ==
  ASSUME NEW s \in Schedule, NEW t \in Instants,
         ~(s.every = "month" /\ LeavesOut(t))
  PROVE  GoNext(s, t) = SqlNext(s, t)
  <1>1. ASSUME s.every = "month" PROVE GoMonthly(s, t) = SqlMonthly(s, t)
    BY <1>1, MonthsAfter DEF GoMonthly, SqlMonthly
  <1>2. s.every \in {"day", "week", "month"}
    BY DEF Schedule, SchedulesAt
  <1> QED BY <1>1, <1>2 DEF GoNext, SqlNext

-----------------------------------------------------------------------------
(* The inductive invariant of RecurringRun.                                *)

\* A run has taken rules that were due when it started and, being locked,
\* still are.
RunInOrder(r) ==
  /\ run[r] = "idle" => taken[r] = {}
  /\ at[r] <= now
  /\ \A x \in taken[r] : Due(x, at[r])
RunsInOrder == \A r \in Runs : RunInOrder(r)

\* An edit under way knows what it will write, and has found the rule it has
\* locked.
EditsInOrder ==
  \A e \in Edits :
    /\ edit[e] \in {"wait", "write"} => draft[e] # None
    /\ edit[e] = "write" => rules[draft[e].rule] # None

\* No rule and no transaction is of an edit that is not done.
EntriesFresh ==
  \A e \in Edits : edit[e] # "done" =>
    /\ \A x \in Rules : rules[x] # None => rules[x].entry # e
    /\ \A b \in booked : b.entry # e

\* A booked date lies behind the next run of its rule, until another entry
\* sets that.
BookedIsPast ==
  \A b \in booked :
    /\ rules[b.rule] # None
    /\ rules[b.rule].entry = b.entry => b.due < rules[b.rule].next

IInv ==
  /\ TypeOK
  /\ RunsInOrder /\ EditsInOrder /\ EntriesFresh
  /\ BookedIsPast /\ OncePerDate

THEOREM InitInv == Init => IInv
  <1> SUFFICES ASSUME Init PROVE IInv
    OBVIOUS
  <1>1. /\ None \notin Runs /\ None \notin Edits /\ 0 \in Instants
        /\ Start \in [Rules -> Rule \cup {None}] /\ MaxFaults \in Nat
        /\ \A x \in Rules : Start[x] # None => Start[x].entry = None
    BY NoneAssumption, MomentsAssumption, StartAssumption, FaultsAssumption
  <1>2. TypeOK
    BY <1>1 DEF Init, TypeOK
  <1>3. RunsInOrder
    BY <1>1 DEF Init, RunsInOrder, RunInOrder, Instants
  <1> QED BY <1>1, <1>2, <1>3 DEF Init, IInv, EditsInOrder, EntriesFresh,
                 BookedIsPast, OncePerDate

\* A step that leaves the tables alone, and opens no edit.
LEMMA TablesStay ==
  ASSUME IInv, UNCHANGED tables,
         \A e \in Edits : edit'[e] # "done" => edit[e] # "done"
  PROVE  EntriesFresh' /\ BookedIsPast' /\ OncePerDate'
  BY DEF IInv, tables, EntriesFresh, BookedIsPast, OncePerDate

LEMMA PassKeeps == ASSUME IInv, Pass PROVE IInv'
  <1>1. /\ now' \in Instants /\ now \in Instants /\ now' > now
        /\ UNCHANGED <<tables, lock, runVars, editVars, faults>>
    BY MomentsAssumption DEF Pass, IInv, TypeOK
  <1>2. TypeOK'
    BY <1>1 DEF IInv, TypeOK, tables, runVars, editVars
  <1>3. RunsInOrder'
    <2>1. \A r \in Runs : at[r] <= now'
      BY <1>1 DEF IInv, TypeOK, RunsInOrder, RunInOrder, Instants
    <2> QED BY <1>1, <2>1 DEF IInv, RunsInOrder, RunInOrder, Due, tables, runVars
  <1>4. EditsInOrder'
    BY <1>1 DEF IInv, EditsInOrder, tables, editVars
  <1> QED BY <1>1, <1>2, <1>3, <1>4, TablesStay DEF IInv, editVars

LEMMA CallKeeps ==
  ASSUME IInv, NEW r \in Runs, Call(r)
  PROVE  IInv'
  <1>1. /\ run[r] = "idle" /\ taken[r] = {}
        /\ run' = [run EXCEPT ![r] = "locking"]
        /\ at' = [at EXCEPT ![r] = now]
        /\ todo' = [todo EXCEPT ![r] = {x \in Rules : Due(x, now)}]
        /\ UNCHANGED <<now, tables, lock, taken, editVars, faults>>
    BY DEF Call, IInv, RunsInOrder, RunInOrder
  <1>2. TypeOK'
    BY <1>1 DEF IInv, TypeOK, tables, editVars
  <1>3. RunsInOrder'
    <2> SUFFICES ASSUME NEW q \in Runs PROVE RunInOrder(q)'
      BY DEF RunsInOrder
    <2>1. CASE q = r
      BY <1>1, <2>1 DEF IInv, TypeOK, RunInOrder, Instants
    <2>2. CASE q # r
      BY <1>1, <2>2 DEF IInv, TypeOK, RunsInOrder, RunInOrder, Due, tables
    <2> QED BY <2>1, <2>2
  <1>4. EditsInOrder'
    BY <1>1 DEF IInv, EditsInOrder, tables, editVars
  <1> QED BY <1>1, <1>2, <1>3, <1>4, TablesStay DEF IInv, editVars

LEMMA TakeKeeps ==
  ASSUME IInv, NEW r \in Runs, NEW x \in Rules, Take(r, x)
  PROVE  IInv'
  <1>1. /\ run[r] = "locking" /\ todo' = [todo EXCEPT ![r] = @ \ {x}]
        /\ UNCHANGED <<now, tables, run, at, editVars, faults>>
    BY DEF Take
  <1>2. CASE UNCHANGED <<lock, taken>>
    <2>1. TypeOK'
      BY <1>1, <1>2 DEF IInv, TypeOK, tables, editVars
    <2>2. RunsInOrder' /\ EditsInOrder'
      BY <1>1, <1>2 DEF IInv, RunsInOrder, RunInOrder, EditsInOrder, Due, tables, editVars
    <2> QED BY <1>1, <2>1, <2>2, TablesStay DEF IInv, editVars
  <1>3. CASE /\ lock[x] = None /\ Due(x, at[r])
             /\ lock' = [lock EXCEPT ![x] = r]
             /\ taken' = [taken EXCEPT ![r] = @ \cup {x}]
    <2>1. None \notin Runs /\ None \notin Edits /\ Runs \cap Edits = {}
      BY NoneAssumption, ApartAssumption
    <2>2. /\ lock' \in [Rules -> Runs \cup Edits \cup {None}]
          /\ taken' \in [Runs -> SUBSET Rules] /\ todo' \in [Runs -> SUBSET Rules]
      BY <1>1, <1>3 DEF IInv, TypeOK
    <2>3. ASSUME NEW y \in Rules, NEW q \in Runs
          PROVE  lock'[y] = q <=> y \in taken'[q]
      BY <1>3, <2>1 DEF IInv, TypeOK
    <2>4. ASSUME NEW y \in Rules, NEW e \in Edits
          PROVE  lock'[y] = e <=> edit[e] = "write" /\ draft[e].rule = y
      BY <1>3, <2>1 DEF IInv, TypeOK
    <2>5. TypeOK'
      BY <1>1, <2>2, <2>3, <2>4 DEF IInv, TypeOK, tables, editVars
    <2>6. RunsInOrder'
      BY <1>1, <1>3 DEF IInv, TypeOK, RunsInOrder, RunInOrder, Due, tables
    <2>7. EditsInOrder'
      BY <1>1 DEF IInv, EditsInOrder, tables, editVars
    <2> QED BY <1>1, <2>5, <2>6, <2>7, TablesStay DEF IInv, editVars
  <1> QED BY <1>2, <1>3 DEF Take

\* What a run that has taken a rule knows of it, and where it moves it.
LEMMA TakenRule ==
  ASSUME IInv, NEW r \in Runs, NEW x \in taken[r]
  PROVE  /\ x \in Rules /\ rules[x] \in Rule
         /\ Due(x, at[r]) /\ rules[x].next \in Int /\ rules[x].next <= at[r]
         /\ at[r] \in Int /\ at[r] <= now
         /\ Advanced(r, x) \in Rule
         /\ Advanced(r, x).entry = rules[x].entry
         /\ Advanced(r, x).schedule = rules[x].schedule
         /\ Advanced(r, x).next > at[r]
         /\ IsFollowing(rules[x].schedule, at[r], Advanced(r, x).next)
  <1>1. x \in Rules /\ Due(x, at[r]) /\ at[r] \in Instants /\ at[r] <= now
    BY DEF IInv, TypeOK, RunsInOrder, RunInOrder
  <1>2. rules[x] \in Rule /\ rules[x].next <= at[r]
    BY <1>1 DEF IInv, TypeOK, Due
  <1> DEFINE n == SqlNext(rules[x].schedule, at[r])
  <1>3. rules[x].schedule \in Schedule /\ rules[x].next \in Int
    BY <1>2 DEF Rule
  <1>4. n \in Int /\ IsFollowing(rules[x].schedule, at[r], n)
    BY <1>1, <1>3, SqlFollows
  <1>5. n > at[r]
    BY <1>4 DEF IsFollowing
  <1>6. Advanced(r, x) = [rules[x] EXCEPT !.next = n]
    BY DEF Advanced
  <1> HIDE DEF n
  <1>7. /\ Advanced(r, x) \in Rule /\ Advanced(r, x).next = n
        /\ Advanced(r, x).entry = rules[x].entry
        /\ Advanced(r, x).schedule = rules[x].schedule
    BY <1>2, <1>4, <1>6 DEF Rule
  <1> QED BY <1>1, <1>2, <1>3, <1>4, <1>5, <1>7 DEF Instants

\* A run that ends gives back its locks; the rules of the others are theirs.
LEMMA EndRunKeeps ==
  ASSUME IInv, NEW r \in Runs, EndRun(r),
         UNCHANGED <<now, editVars>>,
         \A x \in Rules : x \notin taken[r] => rules'[x] = rules[x],
         rules' \in [Rules -> Rule \cup {None}],
         booked' \subseteq Bookings, faults' \in 0 .. MaxFaults
  PROVE  TypeOK' /\ RunsInOrder' /\ EditsInOrder'
  <1>1. /\ None \notin Runs /\ None \notin Edits /\ Runs \cap Edits = {}
        /\ None \notin Rule /\ 0 \in Instants
    BY NoneAssumption, ApartAssumption, MomentsAssumption
  <1>2. /\ run' = [run EXCEPT ![r] = "idle"]
        /\ todo' = [todo EXCEPT ![r] = {}]
        /\ taken' = [taken EXCEPT ![r] = {}]
        /\ at' = [at EXCEPT ![r] = 0]
        /\ lock' = [x \in Rules |-> IF lock[x] = r THEN None ELSE lock[x]]
    BY DEF EndRun, Unlock
  <1>3. ASSUME NEW y \in Rules, NEW q \in Runs
        PROVE  lock'[y] = q <=> y \in taken'[q]
    BY <1>1, <1>2 DEF IInv, TypeOK
  <1>4. ASSUME NEW y \in Rules, NEW e \in Edits
        PROVE  lock'[y] = e <=> edit[e] = "write" /\ draft[e].rule = y
    BY <1>1, <1>2 DEF IInv, TypeOK
  <1>5. /\ lock' \in [Rules -> Runs \cup Edits \cup {None}]
        /\ run' \in [Runs -> {"idle", "locking"}] /\ at' \in [Runs -> Instants]
        /\ todo' \in [Runs -> SUBSET Rules] /\ taken' \in [Runs -> SUBSET Rules]
    BY <1>1, <1>2 DEF IInv, TypeOK
  <1>6. TypeOK'
    BY <1>3, <1>4, <1>5 DEF IInv, TypeOK, editVars
  <1>7. ASSUME NEW q \in Runs PROVE RunInOrder(q)'
    <2>1. CASE q = r
      BY <1>2, <2>1 DEF IInv, TypeOK, RunInOrder, Instants
    <2>2. CASE q # r
      <3>1. taken'[q] = taken[q] /\ run'[q] = run[q] /\ at'[q] = at[q]
        BY <1>2, <2>2 DEF IInv, TypeOK
      <3>2. \A x \in taken[q] : x \in Rules /\ x \notin taken[r]
        BY <2>2 DEF IInv, TypeOK
      <3> QED BY <3>1, <3>2 DEF IInv, RunsInOrder, RunInOrder, Due
    <2> QED BY <2>1, <2>2
  <1>8. EditsInOrder'
    <2> SUFFICES ASSUME NEW e \in Edits
                 PROVE  /\ edit[e] \in {"wait", "write"} => draft[e] # None
                        /\ edit[e] = "write" => rules'[draft[e].rule] # None
      BY DEF EditsInOrder, editVars
    <2>1. CASE edit[e] = "write"
      <3>1. draft[e] \in Draft
        BY <2>1 DEF IInv, TypeOK, EditsInOrder
      <3>2. draft[e].rule \in Rules /\ lock[draft[e].rule] = e
        BY <2>1, <3>1 DEF IInv, TypeOK, Draft
      <3>3. draft[e].rule \notin taken[r]
        BY <1>1, <3>2 DEF IInv, TypeOK
      <3> QED BY <2>1, <3>2, <3>3 DEF IInv, EditsInOrder
    <2>2. CASE edit[e] # "write"
      BY <2>2 DEF IInv, EditsInOrder
    <2> QED BY <2>1, <2>2
  <1> QED BY <1>6, <1>7, <1>8 DEF RunsInOrder

LEMMA AbortKeeps ==
  ASSUME IInv, NEW r \in Runs, Abort(r)
  PROVE  IInv'
  <1>1. /\ EndRun(r) /\ UNCHANGED <<now, tables, editVars>>
        /\ faults' \in 0 .. MaxFaults
    BY FaultsAssumption DEF Abort, IInv, TypeOK
  <1>2. TypeOK' /\ RunsInOrder' /\ EditsInOrder'
    BY <1>1, EndRunKeeps DEF IInv, TypeOK, tables
  <1> QED BY <1>1, <1>2, TablesStay DEF IInv, editVars

\* The transactions a run has inserted, and the rules it has moved.
LEMMA FinishBooks ==
  ASSUME IInv, NEW r \in Runs, Finish(r)
  PROVE  /\ booked' = booked \cup {Booking(r, x) : x \in taken[r]}
         /\ \A x \in Rules :
              rules'[x] = IF x \in taken[r] THEN Advanced(r, x) ELSE rules[x]
         /\ rules' \in [Rules -> Rule \cup {None}]
         /\ booked' \subseteq Bookings
  <1>1. /\ booked' = booked \cup {Booking(r, x) : x \in taken[r]}
        /\ rules' = [x \in Rules |-> IF x \in taken[r] THEN Advanced(r, x) ELSE rules[x]]
    BY DEF Finish
  <1>2. ASSUME NEW x \in taken[r] PROVE Booking(r, x) \in Bookings
    BY TakenRule DEF Booking, Bookings, Rule, IInv, TypeOK
  <1>3. \A x \in taken[r] : Advanced(r, x) \in Rule
    BY TakenRule
  <1>4. rules' \in [Rules -> Rule \cup {None}]
    BY <1>1, <1>3 DEF IInv, TypeOK
  <1> QED BY <1>1, <1>2, <1>4 DEF IInv, TypeOK

LEMMA FinishKeeps ==
  ASSUME IInv, NEW r \in Runs, Finish(r)
  PROVE  IInv'
  <1>1. EndRun(r) /\ UNCHANGED <<now, editVars, faults>>
    BY DEF Finish
  <1>2. TypeOK' /\ RunsInOrder' /\ EditsInOrder'
    BY <1>1, FinishBooks, EndRunKeeps DEF IInv, TypeOK
  <1>3. None \notin Rule
    BY NoneAssumption
  <1>4. \A x \in Rules :
          /\ rules'[x] # None <=> rules[x] # None
          /\ rules[x] # None => rules'[x].entry = rules[x].entry
    BY <1>3, TakenRule, FinishBooks
  <1>5. EntriesFresh'
    <2>1. ASSUME NEW e \in Edits, edit[e] # "done", NEW b \in booked'
          PROVE  b.entry # e
      <3>1. CASE b \in booked
        BY <2>1, <3>1 DEF IInv, EntriesFresh
      <3>2. ASSUME NEW x \in taken[r], b = Booking(r, x) PROVE b.entry # e
        BY <1>3, <2>1, <3>2, TakenRule DEF IInv, EntriesFresh, Booking
      <3> QED BY <3>1, <3>2, FinishBooks
    <2> QED BY <1>1, <1>4, <2>1 DEF IInv, EntriesFresh, editVars
  <1>6. BookedIsPast'
    <2> SUFFICES ASSUME NEW b \in booked'
                 PROVE  /\ rules'[b.rule] # None
                        /\ rules'[b.rule].entry = b.entry
                             => b.due < rules'[b.rule].next
      BY DEF BookedIsPast
    <2>1. ASSUME NEW x \in taken[r], b = Booking(r, x)
          PROVE  rules'[x] # None /\ b.rule = x /\ b.due < rules'[x].next
      <3>1. /\ b.rule = x /\ b.due = rules[x].next
            /\ rules'[x] = Advanced(r, x)
        BY <2>1, FinishBooks, TakenRule DEF Booking
      <3> QED BY <1>3, <3>1, TakenRule DEF Rule
    <2>2. CASE b \in booked
      <3>1. /\ b.rule \in Rules /\ b.due \in Int /\ rules[b.rule] # None
            /\ rules[b.rule].entry = b.entry => b.due < rules[b.rule].next
        BY <2>2 DEF IInv, TypeOK, Bookings, BookedIsPast
      <3>2. CASE b.rule \in taken[r]
        <4>1. /\ rules'[b.rule] = Advanced(r, b.rule)
              /\ Advanced(r, b.rule) \in Rule
              /\ Advanced(r, b.rule).entry = rules[b.rule].entry
              /\ rules[b.rule].next \in Int /\ at[r] \in Int
              /\ rules[b.rule].next <= at[r]
              /\ Advanced(r, b.rule).next > at[r]
          BY <3>1, <3>2, FinishBooks, TakenRule
        <4> QED BY <1>3, <3>1, <4>1 DEF Rule
      <3>3. CASE b.rule \notin taken[r]
        BY <3>1, <3>3, FinishBooks
      <3> QED BY <3>2, <3>3
    <2> QED BY <2>1, <2>2, FinishBooks
  <1>7. OncePerDate'
    <2>1. ASSUME NEW a \in booked, NEW x \in taken[r]
          PROVE  ~(a.rule = x /\ a.entry = rules[x].entry /\ a.due = rules[x].next)
      BY TakenRule DEF IInv, TypeOK, Bookings, BookedIsPast
    <2>2. ASSUME NEW a \in booked', NEW b \in booked', a.rule = b.rule,
                 a.entry = b.entry, a.due = b.due
          PROVE  a = b
      <3>1. CASE a \in booked /\ b \in booked
        BY <2>2, <3>1 DEF IInv, OncePerDate
      <3>2. ASSUME a \in booked, NEW x \in taken[r], b = Booking(r, x) PROVE FALSE
        BY <2>1, <2>2, <3>2 DEF Booking
      <3>3. ASSUME b \in booked, NEW x \in taken[r], a = Booking(r, x) PROVE FALSE
        BY <2>1, <2>2, <3>3 DEF Booking
      <3>4. ASSUME NEW x \in taken[r], NEW y \in taken[r], a = Booking(r, x),
                   b = Booking(r, y)
            PROVE  a = b
        BY <2>2, <3>4 DEF Booking
      <3> QED BY <3>1, <3>2, <3>3, <3>4, FinishBooks
    <2> QED BY <2>2 DEF OncePerDate
  <1> QED BY <1>2, <1>5, <1>6, <1>7 DEF IInv

-----------------------------------------------------------------------------
(* The edits.                                                              *)

LEMMA PayloadTyped ==
  ASSUME IInv, NEW p \in Payloads
  PROVE  /\ ScheduleOf(p) \in Schedule \cup {None}
         /\ p.status \in Status \cup {None}
         /\ ScheduleOf(p) # None => FirstRun(p) \in Int
         /\ NextOf(p) \in Int \cup {None}
  <1>1. /\ p.cron \in Schedule \cup {None} /\ p.interval \in Schedule \cup {None}
        /\ p.next \in Instants \cup {None} /\ p.status \in Status \cup {None}
    BY PayloadsAssumption DEF Fields
  <1>2. now \in Instants /\ \A t \in Instants : t \in Int
    BY DEF IInv, TypeOK, Instants
  <1>3. \A s \in Schedule : GoNext(s, now) \in Int
    BY <1>2, GoTyped
  <1>4. p.next # None \/ p.interval # None \/ p.cron # None => FirstRun(p) \in Int
    BY <1>1, <1>2, <1>3 DEF FirstRun
  <1> QED BY <1>1, <1>2, <1>4 DEF ScheduleOf, NextOf

\* The constants None, runs and edits are apart.
LEMMA Apart ==
  /\ None \notin Runs /\ None \notin Edits /\ Runs \cap Edits = {}
  /\ None \notin Rule /\ None \notin Schedule /\ None \notin Int
  /\ None \notin Status
  BY NoneAssumption, ApartAssumption

LEMMA CreateKeeps ==
  ASSUME IInv, NEW e \in Edits, Create(e)
  PROVE  IInv'
  <1>1. PICK x \in Rules, p \in Payloads :
          /\ rules[x] = None /\ ScheduleOf(p) # None
          /\ rules' = [rules EXCEPT ![x] =
               [schedule |-> ScheduleOf(p), next |-> FirstRun(p),
                status |-> OrOld(p.status, "active"), deleted |-> FALSE,
                entry |-> e]]
    BY DEF Create
  <1> DEFINE new == [schedule |-> ScheduleOf(p), next |-> FirstRun(p),
                     status |-> OrOld(p.status, "active"), deleted |-> FALSE,
                     entry |-> e]
  <1>2. /\ edit[e] = "new" /\ edit' = [edit EXCEPT ![e] = "done"]
        /\ UNCHANGED <<now, booked, lock, runVars, draft, faults>>
    BY DEF Create, Goto
  <1>3. new \in Rule /\ new # None
    <2>1. ScheduleOf(p) \in Schedule /\ FirstRun(p) \in Int
      BY <1>1, PayloadTyped
    <2>2. OrOld(p.status, "active") \in Status
      BY PayloadTyped DEF OrOld, Status
    <2>3. new \in Rule
      BY <2>1, <2>2 DEF Rule
    <2> QED BY <2>3, Apart
  <1>4. /\ rules' \in [Rules -> Rule \cup {None}]
        /\ rules'[x] # None /\ rules'[x].entry = e
        /\ \A y \in Rules : y # x => rules'[y] = rules[y]
    BY <1>1, <1>3 DEF IInv, TypeOK
  <1>5. /\ edit' \in [Edits -> {"new", "wait", "write", "done"}]
        /\ \A f \in Edits : edit'[f] = "write" <=> edit[f] = "write"
        /\ \A f \in Edits : edit'[f] = "wait" <=> edit[f] = "wait"
        /\ \A f \in Edits : edit'[f] # "done" => edit[f] # "done" /\ f # e
    BY <1>2 DEF IInv, TypeOK
  <1>6. TypeOK'
    BY <1>2, <1>4, <1>5 DEF IInv, TypeOK, runVars
  <1>7. RunsInOrder'
    BY <1>1, <1>2, <1>4 DEF IInv, TypeOK, RunsInOrder, RunInOrder, Due, runVars
  <1>8. EditsInOrder'
    BY <1>1, <1>2, <1>4, <1>5 DEF IInv, EditsInOrder, TypeOK, Draft
  <1>9. EntriesFresh' /\ BookedIsPast' /\ OncePerDate'
    BY <1>1, <1>2, <1>4, <1>5
       DEF IInv, TypeOK, EntriesFresh, BookedIsPast, OncePerDate, Bookings
  <1> QED BY <1>6, <1>7, <1>8, <1>9 DEF IInv

\* An edit that has read its request and computed what it will write.
LEMMA DraftKeeps ==
  ASSUME IInv, NEW e \in Edits, edit[e] = "new", NEW d \in Draft,
         draft' = [draft EXCEPT ![e] = d], Goto(e, "wait"),
         UNCHANGED <<now, tables, lock, runVars, faults>>
  PROVE  IInv'
  <1>1. /\ edit' \in [Edits -> {"new", "wait", "write", "done"}]
        /\ \A f \in Edits : f # e => edit'[f] = edit[f] /\ draft'[f] = draft[f]
        /\ edit'[e] = "wait" /\ draft'[e] = d
        /\ draft' \in [Edits -> Draft \cup {None}]
    BY DEF IInv, TypeOK, Goto
  <1>2. d # None
    BY Apart, NoneAssumption DEF Draft
  <1>3. TypeOK'
    BY <1>1 DEF IInv, TypeOK, tables, runVars
  <1>4. RunsInOrder'
    BY DEF IInv, RunsInOrder, RunInOrder, Due, tables, runVars
  <1>5. EditsInOrder'
    BY <1>1, <1>2 DEF IInv, EditsInOrder, tables
  <1> QED BY <1>1, <1>3, <1>4, <1>5, TablesStay DEF IInv

LEMMA PatchKeeps ==
  ASSUME IInv, NEW e \in Edits, Patch(e)
  PROVE  IInv'
  <1>1. PICK x \in Rules, p \in Payloads :
          draft' = [draft EXCEPT ![e] =
            [rule |-> x, op |-> "patch", schedule |-> ScheduleOf(p),
             next |-> NextOf(p), status |-> p.status]]
    BY DEF Patch
  <1>2. [rule |-> x, op |-> "patch", schedule |-> ScheduleOf(p),
         next |-> NextOf(p), status |-> p.status] \in Draft
    BY PayloadTyped DEF Draft
  <1> QED BY <1>1, <1>2, DraftKeeps DEF Patch

LEMMA DeleteKeeps ==
  ASSUME IInv, NEW e \in Edits, Delete(e)
  PROVE  IInv'
  <1>1. PICK x \in Rules :
          draft' = [draft EXCEPT ![e] =
            [rule |-> x, op |-> "delete", schedule |-> None, next |-> None,
             status |-> None]]
    BY DEF Delete
  <1>2. [rule |-> x, op |-> "delete", schedule |-> None, next |-> None,
         status |-> None] \in Draft
    BY DEF Draft
  <1> QED BY <1>1, <1>2, DraftKeeps DEF Delete

\* An edit that ends without writing gives its lock back.
LEMMA ForgetKeeps ==
  ASSUME IInv, NEW e \in Edits, edit[e] \in {"wait", "write"}, Forget(e),
         Unlock(e), UNCHANGED <<now, runVars>>,
         \A x \in Rules : ~(edit[e] = "write" /\ draft[e].rule = x)
                             => rules'[x] = rules[x],
         \A x \in Rules : rules[x] # None => rules'[x] # None,
         rules' \in [Rules -> Rule \cup {None}],
         booked' \subseteq Bookings, faults' \in 0 .. MaxFaults
  PROVE  TypeOK' /\ RunsInOrder' /\ EditsInOrder'
  <1>1. /\ edit' = [edit EXCEPT ![e] = "done"]
        /\ draft' = [draft EXCEPT ![e] = None]
        /\ lock' = [x \in Rules |-> IF lock[x] = e THEN None ELSE lock[x]]
    BY DEF Forget, Goto, Unlock
  <1>2. /\ edit' \in [Edits -> {"new", "wait", "write", "done"}]
        /\ draft' \in [Edits -> Draft \cup {None}]
        /\ lock' \in [Rules -> Runs \cup Edits \cup {None}]
    BY <1>1 DEF IInv, TypeOK
  <1>3. ASSUME NEW y \in Rules, NEW q \in Runs
        PROVE  lock'[y] = q <=> y \in taken[q]
    BY <1>1, Apart DEF IInv, TypeOK
  <1>4. ASSUME NEW y \in Rules, NEW f \in Edits
        PROVE  lock'[y] = f <=> edit'[f] = "write" /\ draft'[f].rule = y
    <2>1. CASE f = e
      BY <1>1, <2>1, Apart DEF IInv, TypeOK
    <2>2. CASE f # e
      BY <1>1, <2>2, Apart DEF IInv, TypeOK
    <2> QED BY <2>1, <2>2
  <1>5. TypeOK'
    BY <1>2, <1>3, <1>4 DEF IInv, TypeOK, runVars
  <1>6. ASSUME NEW q \in Runs PROVE RunInOrder(q)'
    <2>1. \A x \in taken[q] : x \in Rules /\ lock[x] = q /\ q # e
      BY Apart DEF IInv, TypeOK
    <2>2. \A x \in taken[q] : rules'[x] = rules[x]
      BY <2>1 DEF IInv, TypeOK
    <2> QED BY <2>2 DEF IInv, RunsInOrder, RunInOrder, Due, runVars
  <1>7. EditsInOrder'
    <2> SUFFICES ASSUME NEW f \in Edits
                 PROVE  /\ edit'[f] \in {"wait", "write"} => draft'[f] # None
                        /\ edit'[f] = "write" => rules'[draft'[f].rule] # None
      BY DEF EditsInOrder
    <2>1. CASE f = e
      BY <1>1, <2>1 DEF IInv, TypeOK
    <2>2. CASE f # e
      <3>1. edit'[f] = edit[f] /\ draft'[f] = draft[f]
        BY <1>1, <2>2 DEF IInv, TypeOK
      <3>2. edit[f] = "write" => draft[f] \in Draft
        BY DEF IInv, TypeOK, EditsInOrder
      <3>3. edit[f] = "write" => draft[f].rule \in Rules
        BY <3>2 DEF Draft
      <3> QED BY <3>1, <3>3 DEF IInv, EditsInOrder
    <2> QED BY <2>1, <2>2
  <1> QED BY <1>5, <1>6, <1>7 DEF RunsInOrder

LEMMA GiveUpKeeps ==
  ASSUME IInv, NEW e \in Edits, GiveUp(e)
  PROVE  IInv'
  <1>1. /\ edit[e] \in {"wait", "write"} /\ Forget(e) /\ Unlock(e)
        /\ UNCHANGED <<now, tables, runVars>> /\ faults' \in 0 .. MaxFaults
    BY FaultsAssumption DEF GiveUp, IInv, TypeOK
  <1>2. TypeOK' /\ RunsInOrder' /\ EditsInOrder'
    BY <1>1, ForgetKeeps DEF IInv, TypeOK, tables
  <1>3. \A f \in Edits : edit'[f] # "done" => edit[f] # "done"
    BY <1>1 DEF Forget, Goto, IInv, TypeOK
  <1> QED BY <1>1, <1>2, <1>3, TablesStay DEF IInv

LEMMA LockKeeps ==
  ASSUME IInv, NEW e \in Edits, Lock(e)
  PROVE  IInv'
  <1> DEFINE x == draft[e].rule
  <1>1. /\ edit[e] = "wait" /\ lock[x] = None
        /\ UNCHANGED <<now, tables, runVars, faults>>
    BY DEF Lock
  <1>2. draft[e] \in Draft /\ x \in Rules
    BY <1>1 DEF IInv, TypeOK, EditsInOrder, Draft
  <1>3. CASE Forget(e) /\ UNCHANGED lock
    <2>1. Unlock(e)
      BY <1>1, <1>3 DEF IInv, TypeOK, Unlock
    <2>2. TypeOK' /\ RunsInOrder' /\ EditsInOrder'
      BY <1>1, <1>3, <2>1, ForgetKeeps DEF IInv, TypeOK, tables
    <2>3. \A f \in Edits : edit'[f] # "done" => edit[f] # "done"
      BY <1>3 DEF Forget, Goto, IInv, TypeOK
    <2> QED BY <1>1, <2>2, <2>3, TablesStay DEF IInv
  <1>4. CASE /\ rules[x] # None /\ Goto(e, "write") /\ UNCHANGED draft
             /\ lock' = [lock EXCEPT ![x] = e]
    <2>1. edit' = [edit EXCEPT ![e] = "write"]
      BY <1>4 DEF Goto
    <2>2. /\ edit' \in [Edits -> {"new", "wait", "write", "done"}]
          /\ lock' \in [Rules -> Runs \cup Edits \cup {None}]
      BY <1>2, <1>4, <2>1 DEF IInv, TypeOK
    <2>3. ASSUME NEW y \in Rules, NEW q \in Runs
          PROVE  lock'[y] = q <=> y \in taken[q]
      BY <1>1, <1>2, <1>4, Apart DEF IInv, TypeOK
    <2>4. ASSUME NEW y \in Rules, NEW f \in Edits
          PROVE  lock'[y] = f <=> edit'[f] = "write" /\ draft[f].rule = y
      BY <1>1, <1>2, <1>4, <2>1, Apart DEF IInv, TypeOK
    <2>5. TypeOK'
      BY <1>1, <1>4, <2>2, <2>3, <2>4 DEF IInv, TypeOK, tables, runVars
    <2>6. RunsInOrder'
      BY <1>1 DEF IInv, RunsInOrder, RunInOrder, Due, tables, runVars
    <2>7. EditsInOrder'
      BY <1>1, <1>4, <2>1 DEF IInv, TypeOK, EditsInOrder, tables
    <2>8. \A f \in Edits : edit'[f] # "done" => edit[f] # "done"
      BY <1>1, <2>1 DEF IInv, TypeOK
    <2> QED BY <1>1, <2>5, <2>6, <2>7, <2>8, TablesStay DEF IInv
  <1> QED BY <1>3, <1>4 DEF Lock

LEMMA WriteKeeps ==
  ASSUME IInv, NEW e \in Edits, Write(e)
  PROVE  IInv'
  <1> DEFINE d == draft[e]
             x == d.rule
             new == Edited(x, e)
  <1>1. /\ edit[e] = "write" /\ Forget(e) /\ Unlock(e)
        /\ rules' = [rules EXCEPT ![x] = new]
        /\ UNCHANGED <<now, booked, runVars, faults>>
    BY DEF Write
  <1>2. d \in Draft /\ x \in Rules /\ rules[x] \in Rule /\ rules[x] # None
    BY <1>1 DEF IInv, TypeOK, EditsInOrder, Draft
  <1>3. /\ d.schedule \in Schedule \cup {None} /\ d.next \in Int \cup {None}
        /\ d.status \in Status \cup {None}
    BY <1>2 DEF Draft
  <1>4. /\ new \in Rule
        /\ new.entry = IF d.next # None THEN e ELSE rules[x].entry
        /\ d.next = None => new.next = rules[x].next
    <2>1. new = [rules[x] EXCEPT !.schedule = OrOld(d.schedule, rules[x].schedule),
                   !.next = OrOld(d.next, rules[x].next),
                   !.entry = IF d.next # None THEN e ELSE rules[x].entry,
                   !.status = OrOld(d.status, rules[x].status),
                   !.deleted = rules[x].deleted \/ d.op = "delete"]
      BY DEF Edited
    <2>2. /\ OrOld(d.schedule, rules[x].schedule) \in Schedule
          /\ OrOld(d.next, rules[x].next) \in Int
          /\ OrOld(d.status, rules[x].status) \in Status
          /\ (rules[x].deleted \/ d.op = "delete") \in BOOLEAN
      BY <1>2, <1>3 DEF Rule, OrOld
    <2>3. d.next = None => OrOld(d.next, rules[x].next) = rules[x].next
      BY DEF OrOld
    <2> HIDE DEF d, x, new
    <2> QED BY <1>2, <2>1, <2>2, <2>3 DEF Rule
  <1> HIDE DEF new
  <1>5. /\ rules' \in [Rules -> Rule \cup {None}]
        /\ rules'[x] = new /\ rules'[x] # None
        /\ \A y \in Rules : y # x => rules'[y] = rules[y]
    BY <1>1, <1>2, <1>4, Apart DEF IInv, TypeOK
  <1>6. TypeOK' /\ RunsInOrder' /\ EditsInOrder'
    BY <1>1, <1>5, ForgetKeeps DEF IInv, TypeOK
  <1>7. \A f \in Edits : edit'[f] # "done" => edit[f] # "done" /\ f # e
    BY <1>1 DEF Forget, Goto, IInv, TypeOK
  <1>8. EntriesFresh'
    BY <1>1, <1>2, <1>4, <1>5, <1>7 DEF IInv, EntriesFresh
  <1>9. BookedIsPast'
    <2> SUFFICES ASSUME NEW b \in booked
                 PROVE  /\ rules'[b.rule] # None
                        /\ rules'[b.rule].entry = b.entry
                             => b.due < rules'[b.rule].next
      BY <1>1 DEF BookedIsPast
    <2>1. /\ b.rule \in Rules /\ rules[b.rule] # None /\ b.entry # e
          /\ rules[b.rule].entry = b.entry => b.due < rules[b.rule].next
      BY <1>1 DEF IInv, TypeOK, Bookings, BookedIsPast, EntriesFresh
    <2>2. CASE b.rule = x
      BY <1>4, <1>5, <2>1, <2>2
    <2>3. CASE b.rule # x
      BY <1>5, <2>1, <2>3
    <2> QED BY <2>2, <2>3
  <1> QED BY <1>1, <1>6, <1>8, <1>9 DEF IInv, OncePerDate

-----------------------------------------------------------------------------
(* The theorems.                                                           *)

THEOREM StepInv == IInv /\ [Next]_vars => IInv'
  <1> SUFFICES ASSUME IInv, [Next]_vars PROVE IInv'
    OBVIOUS
  <1>1. CASE Pass
    BY <1>1, PassKeeps
  <1>2. ASSUME NEW r \in Runs, Call(r) \/ RunStep(r) \/ Abort(r) PROVE IInv'
    BY <1>2, CallKeeps, TakeKeeps, FinishKeeps, AbortKeeps DEF RunStep
  <1>3. ASSUME NEW e \in Edits, Create(e) \/ Patch(e) \/ Delete(e) PROVE IInv'
    BY <1>3, CreateKeeps, PatchKeeps, DeleteKeeps
  <1>4. ASSUME NEW e \in Edits, EditStep(e) \/ GiveUp(e) PROVE IInv'
    BY <1>4, LockKeeps, WriteKeeps, GiveUpKeeps DEF EditStep
  <1>5. CASE UNCHANGED vars
    <2>1. UNCHANGED <<now, tables, lock, runVars, editVars, faults>>
      BY <1>5 DEF vars
    <2>2. TypeOK' /\ RunsInOrder' /\ EditsInOrder'
      BY <2>1 DEF IInv, TypeOK, RunsInOrder, RunInOrder, EditsInOrder, Due,
                  tables, runVars, editVars
    <2> QED BY <2>1, <2>2, TablesStay DEF IInv, editVars
  <1> QED BY <1>1, <1>2, <1>3, <1>4, <1>5 DEF Next

\* The invariant of the recurring rules: who has locked what, what a run knows
\* of the rules it has taken, and which dates are behind.
THEOREM Inductive == Spec => []IInv
  BY InitInv, StepInv, PTL DEF Spec

\* Types and the lock discipline.
THEOREM TypeCorrect == Spec => []TypeOK
  <1>1. IInv => TypeOK
    BY DEF IInv
  <1> QED BY <1>1, Inductive, PTL

\* No date is booked twice, whatever runs and edits meet on the rule.
THEOREM OncePerDateCorrect == Spec => []OncePerDate
  <1>1. IInv => OncePerDate
    BY DEF IInv
  <1> QED BY <1>1, Inductive, PTL

\* Transactions appear by finished runs alone.
LEMMA OnlyFinishBooks ==
  ASSUME [Next]_vars, booked' # booked
  PROVE  \E r \in Runs : Finish(r)
  <1>1. ASSUME NEW r \in Runs, NEW x \in Rules,
               Call(r) \/ Take(r, x) \/ Abort(r)
        PROVE  UNCHANGED booked
    BY <1>1 DEF Call, Take, Abort, tables
  <1>2. ASSUME NEW r \in Runs, Call(r) \/ Abort(r) PROVE UNCHANGED booked
    BY <1>2 DEF Call, Abort, tables
  <1>3. ASSUME NEW e \in Edits,
               Create(e) \/ Patch(e) \/ Delete(e) \/ EditStep(e) \/ GiveUp(e)
        PROVE  UNCHANGED booked
    BY <1>3 DEF Create, Patch, Delete, EditStep, Lock, Write, GiveUp, tables
  <1>4. ASSUME Pass \/ UNCHANGED vars PROVE UNCHANGED booked
    BY <1>4 DEF Pass, vars, tables
  <1> QED BY <1>1, <1>2, <1>3, <1>4 DEF Next, RunStep

\* What a run books is due when it books it.
THEOREM BooksWhatIsDueCorrect == Spec => BooksWhatIsDue
  <1>1. ASSUME IInv, [Next]_vars, NEW b \in booked' \ booked
        PROVE  /\ rules[b.rule] # None
               /\ rules[b.rule].status = "active" /\ ~rules[b.rule].deleted
               /\ rules[b.rule].next = b.due /\ b.due <= b.at /\ b.at <= now
    <2>1. PICK r \in Runs : Finish(r)
      BY <1>1, OnlyFinishBooks
    <2>2. PICK x \in taken[r] : b = Booking(r, x)
      BY <1>1, <2>1, FinishBooks
    <2> QED BY <1>1, <2>2, TakenRule DEF Booking, Due
  <1>2. IInv /\ [Next]_vars =>
          [\A b \in booked' \ booked :
             /\ rules[b.rule] # None
             /\ rules[b.rule].status = "active" /\ ~rules[b.rule].deleted
             /\ rules[b.rule].next = b.due /\ b.due <= b.at /\ b.at <= now]_vars
    BY <1>1
  <1> QED BY <1>2, Inductive, PTL DEF Spec, BooksWhatIsDue

\* A booked rule goes on to the first date of its schedule after the run.
THEOREM GoesToFollowingDateCorrect == Spec => GoesToFollowingDate
  <1>1. ASSUME IInv, [Next]_vars, NEW b \in booked' \ booked
        PROVE  /\ rules'[b.rule].entry = b.entry
               /\ IsFollowing(rules'[b.rule].schedule, b.at, rules'[b.rule].next)
    <2>1. PICK r \in Runs : Finish(r)
      BY <1>1, OnlyFinishBooks
    <2>2. PICK x \in taken[r] : b = Booking(r, x)
      BY <1>1, <2>1, FinishBooks
    <2>3. /\ b.rule = x /\ b.entry = rules[x].entry /\ b.at = at[r]
          /\ rules'[x] = Advanced(r, x)
      BY <1>1, <2>1, <2>2, FinishBooks, TakenRule DEF Booking
    <2> QED BY <1>1, <2>3, TakenRule
  <1>2. IInv /\ [Next]_vars =>
          [\A b \in booked' \ booked :
             /\ rules'[b.rule].entry = b.entry
             /\ IsFollowing(rules'[b.rule].schedule, b.at, rules'[b.rule].next)]_vars
    BY <1>1
  <1> QED BY <1>2, Inductive, PTL DEF Spec, GoesToFollowingDate
=============================================================================
