------------------------------ MODULE DueDates ------------------------------
(***************************************************************************)
(* The date arithmetic of app/utils/subscription_dates.py, and the month   *)
(* that app/routers/goals.py sums up.                                      *)
(*                                                                         *)
(* A date is its proleptic Gregorian ordinal, as Python's date.toordinal() *)
(* counts it (1 January of year 1 is day 1, a Monday), so that comparing   *)
(* dates and adding a timedelta is arithmetic; Year, Month and Day take it *)
(* apart again.                                                            *)
(***************************************************************************)
EXTENDS Integers

CONSTANTS FirstYear, LastYear,  \* the years dates may fall in
          None                  \* an anchor that is not given

ASSUME ConstAssumption ==
    /\ {FirstYear, LastYear} \subseteq Nat \ {0}
    /\ None \notin Int

Years == FirstYear .. LastYear

----------------------------------------------------------------------------
\* The calendar: datetime.date and calendar.monthrange.
IsLeap(y) == y % 4 = 0 /\ (y % 100 # 0 \/ y % 400 = 0)

LastDay(y, m) == CASE m = 2 -> IF IsLeap(y) THEN 29 ELSE 28
                   [] m \in {4, 6, 9, 11} -> 30
                   [] OTHER -> 31

\* The last day of the year before y.
YearEnd(y) == LET p == y - 1
              IN p * 365 + p \div 4 - p \div 100 + p \div 400

\* The days of year y before its month m: 30 a month, put right.
DaysBefore(y, m) ==
    IF m <= 2 THEN 31 * (m - 1)
    ELSE 30 * (m - 1) + (m + (m \div 9)) \div 2 - (IF IsLeap(y) THEN 1 ELSE 2)

Date(y, m, d) == YearEnd(y) + DaysBefore(y, m) + d

Year(n)  == CHOOSE y \in Years : YearEnd(y) < n /\ n <= YearEnd(y + 1)
Month(n) == CHOOSE m \in 1 .. 12 :
                LET before == YearEnd(Year(n)) + DaysBefore(Year(n), m)
                IN before < n /\ n <= before + LastDay(Year(n), m)
Day(n)   == n - YearEnd(Year(n)) - DaysBefore(Year(n), Month(n))

\* All dates, and those from which no function below leads beyond them: in
\* Python, that would be an OverflowError or a ValueError.
FirstDate == YearEnd(FirstYear) + 1
LastDate  == YearEnd(LastYear + 1)
Dates     == FirstDate .. LastDate
Steady    == FirstDate .. YearEnd(LastYear)

Weekday(n) == (n + 6) % 7     \* 0 = Monday, 6 = Sunday

----------------------------------------------------------------------------
Least(a, b) == IF a <= b THEN a ELSE b

\* date(year, month, min(day, last day of that month))
Clipped(y, m, day) == Date(y, m, Least(day, LastDay(y, m)))

\* The same, in the month after (y, m).
\* Mutant: December is followed by the January of the same year.
ClippedNextMonth_SameYear(y, m, day) ==
    IF m = 12 THEN Clipped(y, 1, day) ELSE Clipped(y, m + 1, day)
ClippedNextMonth(y, m, day) ==
    IF m = 12 THEN Clipped(y + 1, 1, day) ELSE Clipped(y, m + 1, day)

NextFixedMonthly(anchor, from) ==
    LET candidate == Clipped(Year(from), Month(from), anchor)
    IN IF candidate <= from
       THEN ClippedNextMonth(Year(from), Month(from), anchor)
       ELSE candidate

NextFixedWeekly(anchor, from) ==
    LET ahead == anchor - Weekday(from)
    IN from + (IF ahead <= 0 THEN ahead + 7 ELSE ahead)

\* Mutant: the day stays clipped to this year's month when the year is stepped.
NextFixedYearly_Clipped(anchor, month, from) ==
    LET day       == Least(anchor, LastDay(Year(from), month))
        candidate == Date(Year(from), month, day)
    IN IF candidate <= from THEN Date(Year(from) + 1, month, day) ELSE candidate
NextFixedYearly(anchor, month, from) ==
    LET candidate == Clipped(Year(from), month, anchor)
    IN IF candidate <= from THEN Clipped(Year(from) + 1, month, anchor) ELSE candidate

AdvancePeriodic(due, frequency) ==
    CASE frequency = "weekly"  -> due + 7
      [] frequency = "monthly" -> ClippedNextMonth(Year(due), Month(due), Day(due))
      [] frequency = "yearly"  -> Clipped(Year(due) + 1, Month(due), Day(due))

----------------------------------------------------------------------------
Billings    == {"fixed_date", "periodic"}
Frequencies == {"weekly", "monthly", "yearly"}

(***************************************************************************)
(* The billing fields of a subscription that the functions can compute a   *)
(* date from; they raise ValueError on the others.                         *)
(***************************************************************************)
Computable(cfg) ==
    cfg.billing = "fixed_date" =>
        /\ cfg.day # None
        /\ cfg.frequency = "yearly" => cfg.month # None

\* The billing fields as the schema and its validators accept them.
Billed(cfg) ==
    /\ cfg.billing \in Billings /\ cfg.frequency \in Frequencies
    /\ cfg.day \in 1 .. 31 \cup {None} /\ cfg.month \in 1 .. 12 \cup {None}
    /\ Computable(cfg)

CalculateNextDueDate(cfg, from) ==
    IF cfg.billing = "periodic" THEN AdvancePeriodic(from, cfg.frequency)
    ELSE CASE cfg.frequency = "monthly" -> NextFixedMonthly(cfg.day, from)
           [] cfg.frequency = "weekly"  -> NextFixedWeekly(cfg.day, from)
           [] cfg.frequency = "yearly"  -> NextFixedYearly(cfg.day, cfg.month, from)

\* while from_date <= target_date: the branches are those of the above.  last[d]
\* is the last date that the loop, at d, goes on from.
\* Mutant: a payment settled on the day it is due stays due.
AdvanceDueDate_Strict(cfg, due, target) ==
    LET next(d) == CalculateNextDueDate(cfg, d)
        last[d \in due .. target] == IF next(d) >= target THEN d ELSE last[next(d)]
    IN IF due >= target THEN due ELSE next(last[due])
AdvanceDueDate(cfg, due, target) ==
    LET next(d) == CalculateNextDueDate(cfg, d)
        last[d \in due .. target] == IF next(d) > target THEN d ELSE last[next(d)]
    IN IF due > target THEN due ELSE next(last[due])

----------------------------------------------------------------------------
\* The days whose expenses count toward this month's goals (routers/goals.py).
\* Mutant: December is followed by the January of the same year.
FirstOfNextMonth_SameYear(today) ==
    IF Month(today) = 12 THEN Date(Year(today), 1, 1)
                         ELSE Date(Year(today), Month(today) + 1, 1)
FirstOfNextMonth(today) ==
    IF Month(today) = 12 THEN Date(Year(today) + 1, 1, 1)
                         ELSE Date(Year(today), Month(today) + 1, 1)

CurrentMonth(today) ==
    Date(Year(today), Month(today), 1) .. FirstOfNextMonth(today) - 1

----------------------------------------------------------------------------
(***************************************************************************)
(* What a fixed_date subscription promises, said without computing: the    *)
(* dates on which it may fall due.  A weekly anchor is a weekday (comment  *)
(* of subscription_dates.py:26).                                           *)
(***************************************************************************)
Matches(cfg, n) ==
    CASE cfg.frequency = "weekly"  -> Weekday(n) = cfg.day
      [] cfg.frequency = "monthly" -> Day(n) = Least(cfg.day, LastDay(Year(n), Month(n)))
      [] cfg.frequency = "yearly"  ->
            /\ Month(n) = cfg.month
            /\ Day(n) = Least(cfg.day, LastDay(Year(n), Month(n)))

\* A weekly anchor that is no weekday (the schema accepts 1 to 31) has no
\* meaning, and none is claimed for it.
Meaningful(cfg) == cfg.frequency = "weekly" => cfg.day \in 0 .. 6

=============================================================================
