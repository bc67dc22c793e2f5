------------------------- MODULE BillingCycleProofs -------------------------
(***************************************************************************)
(* What BillingCycle promises, for every set of billing fields that the    *)
(* schema accepts, every first day and every sequence of late payments.    *)
(***************************************************************************)
EXTENDS BillingCycle, DueDateProofs

CycleType ==
    /\ cfg \in Configs
    /\ start \in Steady
    /\ after \in Steady /\ after >= FirstDate + 31
    /\ due \in Dates /\ due > after

\* One step of the loop leaves a periodic subscription on these dates.
OnCycle(f, s, n) ==
    CASE f = "weekly"  -> (n - s) % 7 = 0
      [] f = "monthly" -> Day(n) \in Least(Day(s), 28) .. Day(s)
      [] f = "yearly"  -> Month(n) = Month(s) /\ Day(n) \in Least(Day(s), 28) .. Day(s)

\* n is no more than a cycle after d.
WithinCycle(f, d, n) ==
    CASE f = "weekly"  -> n - d <= 7
      [] f = "monthly" -> MonthNumber(n) <= MonthNumber(d) + 1
      [] f = "yearly"  -> Year(n) <= Year(d) + 1

CycleInv == CycleType /\ DueIsNextMatch /\ PeriodicKeepsCycle

LEMMA ConfigsBilled ==
    ASSUME NEW c \in Configs
    PROVE  Billed(c)
BY CycleAssumption

LEMMA SteadyDates == Steady \subseteq Dates /\ Steady \subseteq Int /\ Dates \subseteq Int
BY SteadyYear DEF Dates

LEMMA DayRange ==
    ASSUME NEW n \in Dates
    PROVE  /\ Day(n) \in 1 .. 31 /\ Month(n) \in 1 .. 12 /\ Year(n) \in Nat
           /\ LastDay(Year(n), Month(n)) \in 28 .. 31
<1>1. /\ Year(n) \in Nat /\ Month(n) \in 1 .. 12
      /\ Day(n) \in 1 .. LastDay(Year(n), Month(n))
  BY PartsOfDate, YearsType
<1>2. LastDay(Year(n), Month(n)) \in 28 .. 31
  BY <1>1, MonthSizes
<1> QED
  BY <1>1, <1>2

LEMMA MonthOrder ==
    ASSUME NEW d \in Dates, NEW n \in Dates, d <= n
    PROVE  Year(d) <= Year(n) /\ MonthNumber(d) <= MonthNumber(n)
<1>1. CASE d = n
  BY <1>1, DayRange DEF MonthNumber
<1>2. CASE d # n
  <2>1. d < n
    BY <1>2, SteadyDates
  <2>2. /\ Year(d) <= Year(n)
        /\ Year(d) = Year(n) => Month(d) <= Month(n)
    BY <2>1, DateOrder
  <2> QED
    BY <2>2, DayRange DEF MonthNumber
<1> QED
  BY <1>1, <1>2

\* A periodic subscription: the step keeps the day of the cycle and goes one
\* cycle on.
LEMMA PeriodicStep ==
    ASSUME NEW s \in Dates, NEW d \in Steady, NEW f \in Frequencies, OnCycle(f, s, d)
    PROVE  LET n == AdvancePeriodic(d, f)
           IN n \in Dates /\ n > d /\ OnCycle(f, s, n) /\ WithinCycle(f, d, n)
<1> DEFINE n == AdvancePeriodic(d, f)
<1>1. /\ n \in Dates /\ n > d
      /\ f = "weekly" => n = d + 7
      /\ f = "monthly" =>
            /\ Day(n) = Least(Day(d), LastDay(Year(n), Month(n)))
            /\ IF Month(d) = 12
               THEN Month(n) = 1 /\ Year(n) = Year(d) + 1
               ELSE Month(n) = Month(d) + 1 /\ Year(n) = Year(d)
      /\ f = "yearly" =>
            /\ Day(n) = Least(Day(d), LastDay(Year(n), Month(n)))
            /\ Month(n) = Month(d) /\ Year(n) = Year(d) + 1
  BY AdvancePeriodicIs
<1> HIDE DEF n
<1>2. /\ Day(n) \in 1 .. 31 /\ Month(n) \in 1 .. 12 /\ Year(n) \in Nat
      /\ LastDay(Year(n), Month(n)) \in 28 .. 31
      /\ Day(s) \in 1 .. 31 /\ Day(d) \in 1 .. 31 /\ Month(d) \in 1 .. 12 /\ Year(d) \in Nat
      /\ s \in Int /\ d \in Int /\ n \in Int
  BY <1>1, DayRange, SteadyDates
<1>3. CASE f = "weekly"
  <2>1. (d - s) % 7 = 0
    BY <1>3 DEF OnCycle
  <2>2. (n - s) % 7 = 0 /\ n - d <= 7
    BY <1>1, <1>2, <1>3, <2>1
  <2> QED
    BY <1>1, <1>3, <2>2 DEF OnCycle, WithinCycle, n
<1>4. CASE f = "monthly"
  <2>1. Day(d) \in Least(Day(s), 28) .. Day(s)
    BY <1>4 DEF OnCycle
  <2>2. Day(n) \in Least(Day(s), 28) .. Day(s)
    BY <1>1, <1>2, <1>4, <2>1 DEF Least
  <2>3. MonthNumber(n) <= MonthNumber(d) + 1
    BY <1>1, <1>2, <1>4 DEF MonthNumber
  <2> QED
    BY <1>1, <1>4, <2>2, <2>3 DEF OnCycle, WithinCycle, n
<1>5. CASE f = "yearly"
  <2>1. Month(d) = Month(s) /\ Day(d) \in Least(Day(s), 28) .. Day(s)
    BY <1>5 DEF OnCycle
  <2>2. Month(n) = Month(s) /\ Day(n) \in Least(Day(s), 28) .. Day(s)
    BY <1>1, <1>2, <1>5, <2>1 DEF Least
  <2>3. Year(n) <= Year(d) + 1
    BY <1>1, <1>2, <1>5
  <2> QED
    BY <1>1, <1>5, <2>2, <2>3 DEF OnCycle, WithinCycle, n
<1> QED
  BY <1>3, <1>4, <1>5 DEF Frequencies

LEMMA PeriodicStart ==
    ASSUME NEW s \in Dates, NEW f \in Frequencies
    PROVE  OnCycle(f, s, s)
<1>1. Day(s) \in 1 .. 31 /\ s \in Int
  BY DayRange, SteadyDates
<1>2. (s - s) % 7 = 0 /\ Day(s) \in Least(Day(s), 28) .. Day(s)
  BY <1>1 DEF Least
<1> QED
  BY <1>2 DEF OnCycle, Frequencies

LEMMA WithinLater ==
    ASSUME NEW f \in Frequencies, NEW d \in Dates, NEW t \in Dates, NEW n \in Dates,
           d <= t, WithinCycle(f, d, n)
    PROVE  WithinCycle(f, t, n)
<1>1. /\ Year(d) <= Year(t) /\ MonthNumber(d) <= MonthNumber(t)
  BY MonthOrder
<1>2. /\ Year(n) \in Nat /\ Year(d) \in Nat /\ Year(t) \in Nat
      /\ MonthNumber(n) \in Int /\ MonthNumber(d) \in Int /\ MonthNumber(t) \in Int
      /\ d \in Int /\ t \in Int /\ n \in Int
  BY DayRange, SteadyDates DEF MonthNumber
<1>3. CASE f = "weekly"
  BY <1>2, <1>3 DEF WithinCycle
<1>4. CASE f = "monthly"
  BY <1>1, <1>2, <1>4 DEF WithinCycle
<1>5. CASE f = "yearly"
  BY <1>1, <1>2, <1>5 DEF WithinCycle
<1> QED
  BY <1>3, <1>4, <1>5 DEF Frequencies

\* The property, said with the two parts that the loop keeps.
LEMMA KeepsCycleIs ==
    ASSUME cfg.billing = "periodic" => due > after /\ cfg.frequency \in Frequencies
                                       /\ OnCycle(cfg.frequency, start, due)
                                       /\ WithinCycle(cfg.frequency, after, due)
    PROVE  PeriodicKeepsCycle
BY DEF PeriodicKeepsCycle, OnCycle, WithinCycle, Frequencies

LEMMA CycleIsKept ==
    ASSUME PeriodicKeepsCycle, cfg.billing = "periodic", cfg.frequency \in Frequencies
    PROVE  OnCycle(cfg.frequency, start, due)
BY DEF PeriodicKeepsCycle, OnCycle, Frequencies

----------------------------------------------------------------------------
\* What create_subscription stores: the first date after today.
LEMMA CycleInit == Init => CycleInv
<1> SUFFICES ASSUME Init
             PROVE  CycleInv
  OBVIOUS
<1>1. /\ cfg \in Configs /\ Billed(cfg) /\ cfg.frequency \in Frequencies
      /\ start \in Steady /\ start >= FirstDate + 31 /\ start \in Dates /\ start \in Int
      /\ after = start /\ due = CalculateNextDueDate(cfg, start)
  <2>1. cfg \in Configs /\ Billed(cfg) /\ start \in FirstDays
    BY ConfigsBilled DEF Init
  <2>2. FirstDate \in Int /\ YearEnd(LastYear) \in Int
    BY YearStarts, YearsType, YearEndType
  <2>3. start \in Steady /\ start >= FirstDate + 31
    BY <2>1, <2>2, CycleAssumption DEF Steady
  <2> QED
    BY <2>1, <2>3, SteadyDates DEF Init, Billed
<1>2. due \in Dates /\ due > after
  BY <1>1, StepForward
<1>3. CycleType
  BY <1>1, <1>2 DEF CycleType
<1>4. DueIsNextMatch
  <2> SUFFICES ASSUME cfg.billing = "fixed_date", Meaningful(cfg)
               PROVE  FirstMatch(cfg, after, due)
    BY DEF DueIsNextMatch, FirstMatch
  <2> QED
    BY <1>1, CalculatedIsFirstMatch
<1>5. PeriodicKeepsCycle
  <2>1. ASSUME cfg.billing = "periodic"
        PROVE  OnCycle(cfg.frequency, start, due) /\ WithinCycle(cfg.frequency, after, due)
    <3>1. due = AdvancePeriodic(start, cfg.frequency)
      BY <1>1, <2>1 DEF CalculateNextDueDate
    <3> QED
      BY <1>1, <3>1, PeriodicStart, PeriodicStep
  <2> QED
    BY <1>1, <1>2, <2>1, KeepsCycleIs
<1> QED
  BY <1>3, <1>4, <1>5 DEF CycleInv

\* A settlement, on the day that the payment is due or any later.
LEMMA CycleSettle ==
    ASSUME CycleInv, NEW delay \in Delays, Settle(delay)
    PROVE  CycleInv'
<1>1. /\ cfg \in Configs /\ Billed(cfg) /\ cfg.frequency \in Frequencies
      /\ start \in Steady /\ start \in Dates /\ due \in Dates /\ due \in Int
      /\ cfg' = cfg /\ start' = start
  BY ConfigsBilled, SteadyDates DEF CycleInv, CycleType, Settle, Billed
<1>2. /\ after' \in Int /\ due <= after' /\ after' <= YearEnd(LastYear)
      /\ after' = due + delay /\ due' = AdvanceDueDate(cfg, due, after')
      /\ after >= FirstDate + 31 /\ due > after /\ after \in Int /\ FirstDate \in Int
  <2>1. delay \in Nat /\ due + delay <= Horizon /\ Horizon \in Int
        /\ Horizon <= YearEnd(LastYear) /\ YearEnd(LastYear) \in Int
    BY CycleAssumption, YearsType, YearEndType DEF Settle
  <2>2. after >= FirstDate + 31 /\ due > after /\ after \in Int /\ FirstDate \in Int
    BY SteadyDates, YearStarts DEF CycleInv, CycleType
  <2> QED
    BY <1>1, <2>1, <2>2 DEF Settle
<1>3. after' \in Steady /\ after' \in Dates /\ after' >= FirstDate + 31
  <2>1. after' \in Steady /\ after' >= FirstDate + 31
    BY <1>1, <1>2, YearsType, YearEndType DEF Steady
  <2> QED
    BY <2>1, SteadyDates
<1>4. \A d \in Dates : d \in due .. after' => d \in Steady
  BY <1>1, <1>2, YearsType, YearEndType DEF Dates, Steady
<1> DEFINE S == {d \in Dates : cfg.billing = "periodic" => OnCycle(cfg.frequency, start, d)}
<1>5. PICK d \in due .. after' :
          /\ due' = CalculateNextDueDate(cfg, d)
          /\ d \in S /\ d \in Steady /\ due' \in S /\ due' \in Dates /\ due' > after'
  <2>1. due \in S
    BY <1>1, CycleIsKept DEF CycleInv
  <2>2. ASSUME NEW d \in S, d \in due .. after'
        PROVE  CalculateNextDueDate(cfg, d) \in S
    <3>1. d \in Steady /\ CalculateNextDueDate(cfg, d) \in Dates
      BY <1>1, <1>4, <2>2, StepForward
    <3>2. ASSUME cfg.billing = "periodic"
          PROVE  OnCycle(cfg.frequency, start, CalculateNextDueDate(cfg, d))
      <4>1. CalculateNextDueDate(cfg, d) = AdvancePeriodic(d, cfg.frequency)
        BY <3>2 DEF CalculateNextDueDate
      <4>2. OnCycle(cfg.frequency, start, d)
        BY <2>2, <3>2
      <4> QED
        BY <1>1, <3>1, <4>1, <4>2, PeriodicStep
    <3> QED
      BY <3>1, <3>2
  <2> HIDE DEF S
  <2> QED
    BY <1>1, <1>2, <2>1, <2>2, AdvanceReaches
<1>6. CycleType'
  BY <1>1, <1>3, <1>5 DEF CycleType
<1>7. DueIsNextMatch'
  <2>1. ASSUME cfg.billing = "fixed_date", Meaningful(cfg)
        PROVE  FirstMatch(cfg, after', due')
    BY <1>1, <1>2, <2>1, AdvancedIsFirstMatch
  <2> QED
    BY <1>1, <2>1 DEF DueIsNextMatch, FirstMatch
<1>8. PeriodicKeepsCycle'
  <2>1. ASSUME cfg.billing = "periodic"
        PROVE  /\ OnCycle(cfg.frequency, start, due')
               /\ WithinCycle(cfg.frequency, after', due')
    <3>1. due' = AdvancePeriodic(d, cfg.frequency)
      BY <1>5, <2>1 DEF CalculateNextDueDate
    <3>2. OnCycle(cfg.frequency, start, d)
      BY <1>5, <2>1
    <3>3. WithinCycle(cfg.frequency, d, due')
      BY <1>1, <1>5, <3>1, <3>2, PeriodicStep
    <3>4. d <= after' /\ d \in Dates
      BY <1>1, <1>2, <1>5
    <3> QED
      BY <1>1, <1>3, <1>5, <2>1, <3>3, <3>4, WithinLater
  <2> QED
    BY <1>1, <1>5, <2>1 DEF PeriodicKeepsCycle, OnCycle, WithinCycle, Frequencies, MonthNumber
<1> QED
  BY <1>6, <1>7, <1>8 DEF CycleInv

LEMMA CycleInvariant == Spec => []CycleInv
<1>1. CycleInv /\ [Next]_vars => CycleInv'
  <2> SUFFICES ASSUME CycleInv, [Next]_vars
               PROVE  CycleInv'
    OBVIOUS
  <2>1. CASE \E delay \in Delays : Settle(delay)
    BY <2>1, CycleSettle
  <2>2. CASE UNCHANGED vars
    BY <2>2 DEF vars, CycleInv, CycleType, DueIsNextMatch, PeriodicKeepsCycle, MonthNumber
  <2> QED
    BY <2>1, <2>2 DEF Next
<1> QED
  BY CycleInit, <1>1, PTL DEF Spec

(***************************************************************************)
(* create_subscription, confirm_payment and dismiss_payment                *)
(* (subscription_dates.py:64-116): a fixed_date subscription is always due *)
(* on the first date of its anchor after the last settlement.              *)
(***************************************************************************)
THEOREM NeverDrifts == Spec => []DueIsNextMatch
<1>1. CycleInv => DueIsNextMatch
  BY DEF CycleInv
<1> QED
  BY CycleInvariant, <1>1, PTL

(***************************************************************************)
(* _advance_periodic (subscription_dates.py:46-61) in the loop: a periodic *)
(* subscription misses no cycle, however many steps its due date has taken *)
(* from the day on which it was created.                                   *)
(***************************************************************************)
THEOREM MissesNoCycle == Spec => []PeriodicKeepsCycle
<1>1. CycleInv => PeriodicKeepsCycle
  BY DEF CycleInv
<1> QED
  BY CycleInvariant, <1>1, PTL

(***************************************************************************)
(* goals.py:18-24 and notifications.py:61-72: the expense of a payment     *)
(* counts toward the goal of the month that its due date is in, and of no  *)
(* other, on the first and last day of the month as well.                  *)
(***************************************************************************)
THEOREM SpendCounts == Spec => []SpendIsThisMonths
<1>1. ASSUME CycleType
      PROVE  SpendIsThisMonths
  <2> DEFINE first == after - Day(after) + 1
             last  == first + LastDay(Year(after), Month(after)) - 1
  <2>1. /\ after \in Steady /\ after \in Dates /\ after \in Int /\ after >= FirstDate + 31
        /\ due \in Dates /\ FirstDate \in Int /\ LastDate \in Int
        /\ after + 365 <= LastDate
    BY <1>1, SteadyDates, SteadyYear, YearStarts DEF CycleType
  <2>2. Day(after) \in 1 .. 31 /\ LastDay(Year(after), Month(after)) \in 28 .. 31
    BY <2>1, DayRange
  <2>3. /\ first - 1 \in Dates /\ first \in Dates /\ last \in Dates /\ last + 1 \in Dates
    BY <2>1, <2>2 DEF Dates
  <2>4. ASSUME NEW n \in Dates
        PROVE  n \in CurrentMonth(after) <=> MonthNumber(n) = MonthNumber(after)
    <3>1. /\ Month(n) \in 1 .. 12 /\ Year(n) \in Nat
          /\ Month(after) \in 1 .. 12 /\ Year(after) \in Nat
      BY <2>1, DayRange
    <3>2. MonthNumber(n) = MonthNumber(after) <=>
              Year(n) = Year(after) /\ Month(n) = Month(after)
      BY <3>1 DEF MonthNumber
    <3> QED
      BY <2>1, <3>2, CurrentMonthIsThisMonth
  <2> HIDE DEF first, last
  <2>5. \A n \in {first - 1, first, after, last, last + 1, due} :
           n \in CurrentMonth(after) <=> MonthNumber(n) = MonthNumber(after)
    BY <2>1, <2>3, <2>4
  <2> QED
    BY <2>5 DEF SpendIsThisMonths, first, last
<1>2. CycleInv => SpendIsThisMonths
  BY <1>1 DEF CycleInv
<1> QED
  BY CycleInvariant, <1>2, PTL

=============================================================================
