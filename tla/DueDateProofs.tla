--------------------------- MODULE DueDateProofs ---------------------------
(***************************************************************************)
(* The calendar takes dates apart and puts them together again, and the    *)
(* functions of subscription_dates.py compute the first date that matches: *)
(* for every anchor that the schema accepts and every date.                *)
(***************************************************************************)
EXTENDS DueDates, TLAPS, FiniteSetTheorems

\* A set of numbers has a least one: of the intervals that end in it, one
\* contains no other.
LEMMA LeastExists ==
    ASSUME NEW I \in SUBSET Nat, I # {}
    PROVE  \E m \in I : \A i \in I : m <= i
<1> DEFINE F == {1 .. i : i \in I}
<1>1. F \subseteq FiniteSubsetsOf(Nat) /\ F # {}
  <2>1. \A i \in I : IsFiniteSet(1 .. i) /\ 1 .. i \subseteq Nat
    BY FS_Interval
  <2> QED
    BY <2>1 DEF FiniteSubsetsOf
<1>2. PICK x \in F : \A y \in F : ~(<<y, x>> \in StrictSubsetOrdering(Nat))
  <2> HIDE DEF F
  <2> QED
    BY <1>1, WFMin, FS_StrictSubsetOrderingWellFounded
<1>3. PICK m \in I : x = 1 .. m
  OBVIOUS
<1>4. ASSUME NEW i \in I
      PROVE  m <= i
  <2>1. SUFFICES ASSUME i < m PROVE FALSE
    OBVIOUS
  <2>2. 1 .. i \in SUBSET Nat /\ 1 .. m \in SUBSET Nat
    OBVIOUS
  <2>3. m \in 1 .. m /\ m \notin 1 .. i /\ 1 .. i \subseteq 1 .. m
    BY <2>1
  <2>4. <<1 .. i, 1 .. m>> \in StrictSubsetOrdering(Nat)
    BY <2>2, <2>3 DEF StrictSubsetOrdering
  <2> QED
    BY <2>4, <1>2, <1>3
<1> QED
  BY <1>4

----------------------------------------------------------------------------
YearLength(y) == IF IsLeap(y) THEN 366 ELSE 365

LEMMA YearEndType ==
    ASSUME NEW y \in Nat
    PROVE  YearEnd(y) \in Int
BY DEF YearEnd

LEMMA YearEndStep ==
    ASSUME NEW y \in Nat
    PROVE  YearEnd(y + 1) = YearEnd(y) + YearLength(y)
BY DEF YearEnd, YearLength, IsLeap

LEMMA YearEndMonotone ==
    ASSUME NEW y \in Nat, NEW z \in Nat, y <= z
    PROVE  YearEnd(y) <= YearEnd(z)
BY DEF YearEnd

LEMMA MonthSizes ==
    ASSUME NEW y \in Nat, NEW m \in 1 .. 12
    PROVE  LastDay(y, m) \in 28 .. 31 /\ DaysBefore(y, m) \in Nat
BY DEF LastDay, DaysBefore

\* The months of a year follow one another and fill it.
LEMMA MonthStep ==
    ASSUME NEW y \in Nat, NEW m \in 1 .. 11
    PROVE  DaysBefore(y, m) + LastDay(y, m) = DaysBefore(y, m + 1)
BY DEF LastDay, DaysBefore

LEMMA YearFilled ==
    ASSUME NEW y \in Nat
    PROVE  DaysBefore(y, 1) = 0 /\ DaysBefore(y, 12) + LastDay(y, 12) = YearLength(y)
BY DEF LastDay, DaysBefore, YearLength

LEMMA MonthsApart ==
    ASSUME NEW y \in Nat, NEW m \in 1 .. 12, NEW k \in 1 .. 12, m < k
    PROVE  DaysBefore(y, m) + LastDay(y, m) <= DaysBefore(y, k)
BY DEF LastDay, DaysBefore

LEMMA MonthExists ==
    ASSUME NEW y \in Nat, NEW d \in 1 .. YearLength(y)
    PROVE  \E m \in 1 .. 12 : DaysBefore(y, m) < d /\ d <= DaysBefore(y, m) + LastDay(y, m)
BY DEF LastDay, DaysBefore, YearLength

----------------------------------------------------------------------------
LEMMA YearsType ==
    /\ FirstYear \in Nat /\ FirstYear >= 1 /\ LastYear \in Nat
    /\ \A y \in Years : y \in Nat /\ y + 1 \in Nat /\ FirstYear <= y /\ y <= LastYear
BY ConstAssumption DEF Years

LEMMA YearStarts ==
    /\ FirstDate \in Int /\ LastDate \in Int
    /\ \A y \in Years : /\ FirstDate <= YearEnd(y) + 1 /\ YearEnd(y) < YearEnd(y + 1)
                         /\ YearEnd(y + 1) <= LastDate
                         /\ YearEnd(y) \in Int /\ YearEnd(y + 1) \in Int
<1>1. FirstDate \in Int /\ LastDate \in Int
  BY YearsType, YearEndType DEF FirstDate, LastDate
<1>2. ASSUME NEW y \in Years
      PROVE  /\ FirstDate <= YearEnd(y) + 1 /\ YearEnd(y) < YearEnd(y + 1)
             /\ YearEnd(y + 1) <= LastDate
             /\ YearEnd(y) \in Int /\ YearEnd(y + 1) \in Int
  <2>1. /\ y \in Nat /\ y + 1 \in Nat /\ FirstYear \in Nat /\ LastYear + 1 \in Nat
        /\ FirstYear <= y /\ y + 1 <= LastYear + 1
    BY YearsType
  <2>2. /\ YearEnd(FirstYear) <= YearEnd(y) /\ YearEnd(y + 1) <= YearEnd(LastYear + 1)
        /\ YearEnd(y) \in Int /\ YearEnd(y + 1) \in Int /\ YearEnd(FirstYear) \in Int
    BY <2>1, YearEndMonotone, YearEndType
  <2>3. YearEnd(y + 1) = YearEnd(y) + YearLength(y) /\ YearLength(y) \in {365, 366}
    BY <2>1, YearEndStep DEF YearLength
  <2> QED
    BY <2>2, <2>3 DEF FirstDate, LastDate
<1> QED
  BY <1>1, <1>2

\* A date is in one year.
LEMMA YearUnique ==
    ASSUME NEW y \in Nat, NEW z \in Nat, NEW n \in Int,
           YearEnd(y) < n, n <= YearEnd(y + 1), YearEnd(z) < n, n <= YearEnd(z + 1)
    PROVE  y = z
<1>1. ASSUME NEW a \in Nat, NEW b \in Nat, a < b, n <= YearEnd(a + 1), YearEnd(b) < n
      PROVE  FALSE
  <2>1. YearEnd(a + 1) <= YearEnd(b) /\ YearEnd(a + 1) \in Int /\ YearEnd(b) \in Int
    BY <1>1, YearEndMonotone, YearEndType
  <2> QED
    BY <1>1, <2>1
<1> QED
  BY <1>1

LEMMA YearOf ==
    ASSUME NEW y \in Years, NEW n \in Int, YearEnd(y) < n, n <= YearEnd(y + 1)
    PROVE  Year(n) = y
<1>1. \A z \in Years : YearEnd(z) < n /\ n <= YearEnd(z + 1) => z = y
  BY YearUnique, YearsType
<1> QED
  BY <1>1 DEF Year

\* Every date is in some year: the first that it does not lie beyond.
LEMMA YearExists ==
    ASSUME NEW n \in Dates
    PROVE  \E y \in Years : YearEnd(y) < n /\ n <= YearEnd(y + 1)
<1> DEFINE Reaching == {y \in Nat : FirstYear <= y /\ n <= YearEnd(y + 1)}
<1>1. LastYear \in Nat /\ FirstYear <= LastYear
  <2>1. FirstYear \in Nat /\ LastYear \in Nat
    BY YearsType
  <2>2. CASE LastYear < FirstYear
    <3>1. YearEnd(LastYear + 1) <= YearEnd(FirstYear)
      BY <2>1, <2>2, YearEndMonotone
    <3> QED
      BY <2>1, <3>1, YearEndType DEF Dates, FirstDate, LastDate
  <2> QED
    BY <2>1, <2>2
<1>2. LastYear \in Reaching /\ n \in Int /\ YearEnd(FirstYear) < n
  BY <1>1, YearsType, YearEndType DEF Dates, FirstDate, LastDate
<1>3. PICK y \in Reaching : \A z \in Reaching : y <= z
  <2>1. Reaching \subseteq Nat /\ Reaching # {}
    BY <1>2
  <2> HIDE DEF Reaching
  <2> QED
    BY <2>1, LeastExists
<1>4. y \in Years /\ n <= YearEnd(y + 1)
  BY <1>1, <1>2, <1>3, YearsType DEF Years
<1>5. YearEnd(y) < n
  <2>1. CASE y = FirstYear
    BY <1>2, <2>1
  <2>2. CASE y # FirstYear
    <3>1. y - 1 \in Nat /\ FirstYear <= y - 1 /\ y - 1 \notin Reaching /\ (y - 1) + 1 = y
      BY <1>3, <2>2, YearsType
    <3>2. ~(n <= YearEnd(y))
      BY <3>1
    <3> QED
      BY <1>2, <1>3, <3>2, YearEndType
  <2> QED
    BY <2>1, <2>2
<1> QED
  BY <1>4, <1>5

----------------------------------------------------------------------------
\* A year, a month and a day of that month make a date with these parts.
LEMMA DateParts ==
    ASSUME NEW y \in Years, NEW m \in 1 .. 12, NEW d \in 1 .. LastDay(y, m)
    PROVE  LET n == Date(y, m, d)
           IN n \in Dates /\ Year(n) = y /\ Month(n) = m /\ Day(n) = d
<1> DEFINE n == Date(y, m, d)
<1>0. y \in Nat /\ y + 1 \in Nat /\ YearEnd(y) \in Int /\ YearEnd(y + 1) \in Int
  BY YearsType, YearStarts
<1>1. /\ LastDay(y, m) \in 28 .. 31 /\ DaysBefore(y, m) \in Nat
      /\ d \in Int /\ 1 <= d /\ d <= LastDay(y, m)
  <2>1. LastDay(y, m) \in 28 .. 31 /\ DaysBefore(y, m) \in Nat
    BY <1>0, MonthSizes
  <2> QED
    BY <2>1
<1>2. /\ n \in Int /\ n = YearEnd(y) + DaysBefore(y, m) + d
  <2>1. YearEnd(y) + DaysBefore(y, m) + d \in Int
    BY <1>0, <1>1
  <2> QED
    BY <2>1 DEF Date
<1>3. DaysBefore(y, m) + LastDay(y, m) <= YearLength(y)
  <2>1. CASE m = 12
    BY <1>0, <1>1, <2>1, YearFilled DEF YearLength
  <2>2. CASE m # 12
    <3>1. /\ 12 \in 1 .. 12 /\ m < 12
      BY <2>2
    <3>2. DaysBefore(y, m) + LastDay(y, m) <= DaysBefore(y, 12)
      BY <1>0, <3>1, MonthsApart
    <3>3. DaysBefore(y, 12) + LastDay(y, 12) = YearLength(y) /\ LastDay(y, 12) \in 28 .. 31
          /\ DaysBefore(y, 12) \in Nat
      BY <1>0, <3>1, MonthSizes, YearFilled
    <3> QED
      BY <1>1, <3>2, <3>3
  <2> QED
    BY <2>1, <2>2
<1>4. YearEnd(y) < n /\ n <= YearEnd(y + 1)
  <2>1. YearEnd(y + 1) = YearEnd(y) + YearLength(y) /\ YearLength(y) \in Int
    BY <1>0, YearEndStep DEF YearLength
  <2> QED
    BY <1>0, <1>1, <1>2, <1>3, <2>1
<1>5. n \in Dates /\ Year(n) = y
  <2> HIDE DEF n
  <2> QED
    BY <1>0, <1>2, <1>4, YearOf, YearStarts DEF Dates
<1>6. \A k \in 1 .. 12 :
        LET before == YearEnd(Year(n)) + DaysBefore(Year(n), k)
        IN (before < n /\ n <= before + LastDay(Year(n), k)) <=> k = m
  <2> SUFFICES ASSUME NEW k \in 1 .. 12
               PROVE  (/\ YearEnd(y) + DaysBefore(y, k) < n
                       /\ n <= YearEnd(y) + DaysBefore(y, k) + LastDay(y, k)) <=> k = m
    <3> HIDE DEF n
    <3> QED
      BY <1>5
  <2>1. DaysBefore(y, k) \in Nat /\ LastDay(y, k) \in 28 .. 31
    BY <1>0, MonthSizes
  <2>2. CASE k = m
    BY <1>0, <1>1, <1>2, <2>2
  <2>3. CASE k < m
    <3>1. DaysBefore(y, k) + LastDay(y, k) <= DaysBefore(y, m)
      BY <1>0, <2>3, MonthsApart
    <3> QED
      BY <1>0, <1>1, <1>2, <2>1, <2>3, <3>1
  <2>4. CASE m < k
    <3>1. DaysBefore(y, m) + LastDay(y, m) <= DaysBefore(y, k)
      BY <1>0, <2>4, MonthsApart
    <3> QED
      BY <1>0, <1>1, <1>2, <2>1, <2>4, <3>1
  <2> QED
    BY <2>2, <2>3, <2>4
<1> HIDE DEF n
<1>7. Month(n) = m
  BY <1>6 DEF Month
<1>8. Day(n) = d
  BY <1>0, <1>1, <1>2, <1>5, <1>7 DEF Day
<1> QED
  BY <1>5, <1>7, <1>8 DEF n

\* And every date has such parts.
LEMMA PartsOfDate ==
    ASSUME NEW n \in Dates
    PROVE  /\ Year(n) \in Years /\ Month(n) \in 1 .. 12
           /\ Day(n) \in 1 .. LastDay(Year(n), Month(n))
           /\ n = Date(Year(n), Month(n), Day(n))
<1>1. PICK y \in Years : YearEnd(y) < n /\ n <= YearEnd(y + 1)
  BY YearExists
<1>2. /\ n \in Int /\ y \in Nat /\ YearEnd(y) \in Int
      /\ YearEnd(y + 1) = YearEnd(y) + YearLength(y) /\ YearLength(y) \in Int
  BY YearStarts, YearsType, YearEndStep DEF Dates, YearLength
<1> DEFINE k == n - YearEnd(y)
<1>3. k \in 1 .. YearLength(y)
  BY <1>1, <1>2
<1>4. PICK m \in 1 .. 12 : DaysBefore(y, m) < k /\ k <= DaysBefore(y, m) + LastDay(y, m)
  <2> HIDE DEF k
  <2> QED
    BY <1>2, <1>3, MonthExists
<1> DEFINE d == k - DaysBefore(y, m)
<1>5. DaysBefore(y, m) \in Nat /\ LastDay(y, m) \in 28 .. 31
  BY <1>2, MonthSizes
<1>6. d \in 1 .. LastDay(y, m) /\ n = Date(y, m, d)
  BY <1>2, <1>4, <1>5 DEF Date
<1> HIDE DEF d
<1> QED
  BY <1>6, DateParts

----------------------------------------------------------------------------
\* Dates are ordered by year, then month, then day.
LEMMA LaterYear ==
    ASSUME NEW n \in Dates, NEW k \in Dates, Year(n) < Year(k)
    PROVE  n < k
<1>1. /\ Year(n) \in Nat /\ Year(k) \in Nat /\ Year(n) + 1 \in Nat /\ Year(n) + 1 <= Year(k)
  BY PartsOfDate, YearsType
<1>2. n <= YearEnd(Year(n) + 1) /\ YearEnd(Year(k)) < k
  <2>1. \A x \in Dates : YearEnd(Year(x)) < x /\ x <= YearEnd(Year(x) + 1)
    BY YearExists, YearOf DEF Dates
  <2> QED
    BY <2>1
<1>3. YearEnd(Year(n) + 1) <= YearEnd(Year(k))
  BY <1>1, YearEndMonotone
<1> QED
  BY <1>1, <1>2, <1>3, YearEndType DEF Dates

LEMMA LaterMonth ==
    ASSUME NEW n \in Dates, NEW k \in Dates, Year(n) = Year(k), Month(n) < Month(k)
    PROVE  n < k
<1> DEFINE y == Year(n)
<1>1. /\ y \in Nat /\ Month(n) \in 1 .. 12 /\ Month(k) \in 1 .. 12
      /\ Day(n) \in 1 .. LastDay(y, Month(n)) /\ Day(k) \in 1 .. LastDay(y, Month(k))
      /\ n = Date(y, Month(n), Day(n)) /\ k = Date(y, Month(k), Day(k))
  BY PartsOfDate, YearsType
<1> HIDE DEF y
<1>2. /\ DaysBefore(y, Month(n)) + LastDay(y, Month(n)) <= DaysBefore(y, Month(k))
      /\ LastDay(y, Month(n)) \in 28 .. 31 /\ DaysBefore(y, Month(n)) \in Nat
      /\ LastDay(y, Month(k)) \in 28 .. 31 /\ DaysBefore(y, Month(k)) \in Nat
  BY <1>1, MonthsApart, MonthSizes
<1>3. YearEnd(y) \in Int
  BY <1>1, YearEndType
<1> QED
  BY <1>1, <1>2, <1>3 DEF Date

LEMMA LaterDay ==
    ASSUME NEW n \in Dates, NEW k \in Dates, Year(n) = Year(k), Month(n) = Month(k)
    PROVE  /\ Day(n) < Day(k) <=> n < k
           /\ Day(n) = Day(k) <=> n = k
<1> DEFINE y == Year(n)
           m == Month(n)
<1>1. /\ y \in Nat /\ m \in 1 .. 12
      /\ Day(n) \in 1 .. LastDay(y, m) /\ Day(k) \in 1 .. LastDay(y, m)
      /\ n = Date(y, m, Day(n)) /\ k = Date(y, m, Day(k))
  BY PartsOfDate, YearsType
<1> HIDE DEF y, m
<1>2. YearEnd(y) \in Int /\ DaysBefore(y, m) \in Nat /\ LastDay(y, m) \in 28 .. 31
  BY <1>1, MonthSizes, YearEndType
<1>3. /\ n = YearEnd(y) + DaysBefore(y, m) + Day(n)
      /\ k = YearEnd(y) + DaysBefore(y, m) + Day(k)
      /\ Day(n) \in Int /\ Day(k) \in Int
  BY <1>1, <1>2 DEF Date
<1> QED
  BY <1>2, <1>3

LEMMA DateOrder ==
    ASSUME NEW n \in Dates, NEW k \in Dates, n < k
    PROVE  /\ Year(n) <= Year(k)
           /\ Year(n) = Year(k) => Month(n) <= Month(k)
           /\ Year(n) = Year(k) /\ Month(n) = Month(k) => Day(n) < Day(k)
<1>1. /\ Year(n) \in Nat /\ Year(k) \in Nat /\ Month(n) \in Int /\ Month(k) \in Int
      /\ n \in Int /\ k \in Int
  BY PartsOfDate, YearsType DEF Dates
<1> QED
  BY <1>1, LaterYear, LaterMonth, LaterDay

LEMMA SteadyYear ==
    ASSUME NEW n \in Steady
    PROVE  n \in Dates /\ Year(n) \in Years /\ Year(n) + 1 \in Years
           /\ n + 365 <= LastDate
<1>1. LastYear \in Nat /\ LastYear + 1 \in Nat
  BY YearsType
<1>2. YearEnd(LastYear) + 365 <= LastDate /\ YearEnd(LastYear) \in Int /\ LastDate \in Int
      /\ FirstDate \in Int
  BY <1>1, YearEndStep, YearEndType, YearStarts DEF LastDate, YearLength
<1>3. n \in Dates /\ n + 365 <= LastDate
  BY <1>2 DEF Steady, Dates
<1>4. Year(n) \in Years
  BY <1>3, PartsOfDate
<1>5. Year(n) # LastYear
  <2>1. PICK y \in Years : YearEnd(y) < n /\ n <= YearEnd(y + 1)
    BY <1>3, YearExists
  <2>2. Year(n) = y /\ y # LastYear
    BY <1>2, <2>1, YearOf DEF Steady
  <2> QED
    BY <2>2
<1> QED
  BY <1>3, <1>4, <1>5, YearsType DEF Years

LEMMA ClippedIs ==
    ASSUME NEW y \in Years, NEW m \in 1 .. 12, NEW day \in Nat \ {0}
    PROVE  LET n == Clipped(y, m, day)
           IN /\ n \in Dates /\ Year(n) = y /\ Month(n) = m
              /\ Day(n) = Least(day, LastDay(y, m))
<1>1. LastDay(y, m) \in 28 .. 31
  BY YearsType, MonthSizes
<1>2. Least(day, LastDay(y, m)) \in 1 .. LastDay(y, m)
  BY <1>1 DEF Least
<1> QED
  BY <1>2, DateParts DEF Clipped

\* The month after that of a date, clipped, is later; and in between are only
\* the two months.
LEMMA NextMonthIs ==
    ASSUME NEW from \in Steady, NEW day \in Nat \ {0}
    PROVE  LET n == ClippedNextMonth(Year(from), Month(from), day)
           IN /\ n \in Dates /\ n > from
              /\ Day(n) = Least(day, LastDay(Year(n), Month(n)))
              /\ IF Month(from) = 12 THEN Month(n) = 1 /\ Year(n) = Year(from) + 1
                                     ELSE Month(n) = Month(from) + 1 /\ Year(n) = Year(from)
              /\ \A k \in Dates : from < k /\ k < n =>
                    \/ Year(k) = Year(from) /\ Month(k) = Month(from)
                    \/ Year(k) = Year(n) /\ Month(k) = Month(n)
<1> DEFINE n == ClippedNextMonth(Year(from), Month(from), day)
<1>1. /\ from \in Dates /\ Year(from) \in Years /\ Year(from) + 1 \in Years
      /\ Month(from) \in 1 .. 12 /\ Year(from) \in Nat
  BY SteadyYear, PartsOfDate, YearsType
<1>2. /\ n \in Dates
      /\ Day(n) = Least(day, LastDay(Year(n), Month(n)))
      /\ IF Month(from) = 12 THEN Month(n) = 1 /\ Year(n) = Year(from) + 1
                             ELSE Month(n) = Month(from) + 1 /\ Year(n) = Year(from)
  <2>1. CASE Month(from) = 12
    <3>1. n = Clipped(Year(from) + 1, 1, day) /\ 1 \in 1 .. 12
      BY <2>1 DEF ClippedNextMonth
    <3> HIDE DEF n
    <3> QED
      BY <1>1, <2>1, <3>1, ClippedIs
  <2>2. CASE Month(from) # 12
    <3>1. n = Clipped(Year(from), Month(from) + 1, day) /\ Month(from) + 1 \in 1 .. 12
      BY <1>1, <2>2 DEF ClippedNextMonth
    <3> HIDE DEF n
    <3> QED
      BY <1>1, <2>2, <3>1, ClippedIs
  <2> QED
    BY <2>1, <2>2
<1> HIDE DEF n
<1>3. n > from
  <2>1. n \in Int /\ from \in Int
    BY <1>1, <1>2 DEF Dates
  <2>2. from < n
    BY <1>1, <1>2, LaterYear, LaterMonth
  <2> QED
    BY <2>1, <2>2
<1>4. ASSUME NEW k \in Dates, from < k, k < n
      PROVE  \/ Year(k) = Year(from) /\ Month(k) = Month(from)
             \/ Year(k) = Year(n) /\ Month(k) = Month(n)
  <2>1. /\ Year(k) \in Nat /\ Month(k) \in 1 .. 12
    BY PartsOfDate, YearsType
  <2>2. /\ Year(from) <= Year(k)
        /\ Year(from) = Year(k) => Month(from) <= Month(k)
    BY <1>1, <1>4, DateOrder
  <2>3. /\ Year(k) <= Year(n)
        /\ Year(k) = Year(n) => Month(k) <= Month(n)
    BY <1>2, <1>4, DateOrder
  <2> QED
    BY <1>1, <1>2, <2>1, <2>2, <2>3
<1> QED
  BY <1>2, <1>3, <1>4 DEF n

----------------------------------------------------------------------------
(***************************************************************************)
(* One step of the due dates: calculate_next_due_date.                     *)
(***************************************************************************)
\* No date strictly between from and n matches.
FirstMatch(cfg, from, n) ==
    /\ n > from
    /\ Matches(cfg, n)
    /\ \A k \in from + 1 .. n - 1 : ~Matches(cfg, k)

\* A day of the month as the anchor asks for it.
OnAnchor(anchor, n) == Day(n) = Least(anchor, LastDay(Year(n), Month(n)))

LEMMA Between ==
    ASSUME NEW from \in Dates, NEW n \in Dates, NEW k \in from + 1 .. n - 1
    PROVE  k \in Dates /\ from < k /\ k < n
BY YearStarts DEF Dates

LEMMA NextFixedMonthlyIs ==
    ASSUME NEW from \in Steady, NEW anchor \in 1 .. 31
    PROVE  LET n == NextFixedMonthly(anchor, from)
           IN /\ n \in Dates /\ n > from /\ OnAnchor(anchor, n)
              /\ \A k \in from + 1 .. n - 1 : ~OnAnchor(anchor, k)
<1> DEFINE candidate == Clipped(Year(from), Month(from), anchor)
           n == NextFixedMonthly(anchor, from)
<1>1. /\ from \in Dates /\ Year(from) \in Years /\ Month(from) \in 1 .. 12
      /\ from \in Int /\ anchor \in Nat \ {0}
  BY SteadyYear, PartsOfDate DEF Dates
<1>2. /\ candidate \in Dates /\ candidate \in Int
      /\ Year(candidate) = Year(from) /\ Month(candidate) = Month(from)
      /\ OnAnchor(anchor, candidate)
  BY <1>1, ClippedIs DEF OnAnchor, Dates
<1>3. CASE candidate > from
  <2>1. n = candidate
    BY <1>1, <1>2, <1>3 DEF NextFixedMonthly
  <2>2. ASSUME NEW k \in from + 1 .. candidate - 1
        PROVE  ~OnAnchor(anchor, k)
    <3>1. k \in Dates /\ from < k /\ k < candidate
      BY <1>1, <1>2, <2>2, Between
    <3>2. /\ Year(from) <= Year(k) /\ (Year(from) = Year(k) => Month(from) <= Month(k))
          /\ Year(k) <= Year(candidate)
          /\ (Year(k) = Year(candidate) => Month(k) <= Month(candidate))
      BY <1>1, <1>2, <3>1, DateOrder
    <3>3. Year(k) = Year(candidate) /\ Month(k) = Month(candidate)
      BY <1>1, <1>2, <3>1, <3>2, PartsOfDate, YearsType
    <3>4. Day(k) < Day(candidate) /\ Day(k) \in Int /\ Day(candidate) \in Int
      BY <1>2, <3>1, <3>3, DateOrder, PartsOfDate
    <3> QED
      BY <1>2, <3>3, <3>4 DEF OnAnchor
  <2> HIDE DEF candidate
  <2> QED
    BY <1>2, <1>3, <2>1, <2>2
<1>4. CASE candidate <= from
  <2>1. n = ClippedNextMonth(Year(from), Month(from), anchor)
    BY <1>4 DEF NextFixedMonthly
  <2> HIDE DEF n
  <2>2. /\ n \in Dates /\ n > from /\ OnAnchor(anchor, n)
        /\ \A k \in Dates : from < k /\ k < n =>
              \/ Year(k) = Year(from) /\ Month(k) = Month(from)
              \/ Year(k) = Year(n) /\ Month(k) = Month(n)
    BY <1>1, <2>1, NextMonthIs DEF OnAnchor
  <2>3. ASSUME NEW k \in from + 1 .. n - 1
        PROVE  ~OnAnchor(anchor, k)
    <3>1. k \in Dates /\ from < k /\ k < n
      BY <1>1, <2>2, <2>3, Between
    <3>2. CASE Year(k) = Year(from) /\ Month(k) = Month(from)
      <4>1. candidate < k
        BY <1>1, <1>2, <1>4, <3>1 DEF Dates
      <4>2. Day(candidate) < Day(k) /\ Day(k) \in Int /\ Day(candidate) \in Int
        BY <1>2, <3>1, <3>2, <4>1, LaterDay, PartsOfDate
      <4> HIDE DEF candidate
      <4> QED
        BY <1>2, <3>2, <4>2 DEF OnAnchor
    <3>3. CASE Year(k) = Year(n) /\ Month(k) = Month(n)
      <4>1. Day(k) < Day(n) /\ Day(k) \in Int /\ Day(n) \in Int
        BY <2>2, <3>1, <3>3, LaterDay, PartsOfDate
      <4> QED
        BY <2>2, <3>3, <4>1 DEF OnAnchor
    <3> QED
      BY <2>2, <3>1, <3>2, <3>3
  <2> QED
    BY <2>2, <2>3 DEF n
<1> QED
  BY <1>1, <1>2, <1>3, <1>4

LEMMA NextFixedYearlyIs ==
    ASSUME NEW from \in Steady, NEW anchor \in 1 .. 31, NEW month \in 1 .. 12
    PROVE  LET n == NextFixedYearly(anchor, month, from)
           IN /\ n \in Dates /\ n > from /\ Month(n) = month /\ OnAnchor(anchor, n)
              /\ \A k \in from + 1 .. n - 1 : ~(Month(k) = month /\ OnAnchor(anchor, k))
<1> DEFINE n == NextFixedYearly(anchor, month, from)
           c(y) == Clipped(y, month, anchor)
<1>1. /\ from \in Dates /\ Year(from) \in Years /\ Year(from) + 1 \in Years
      /\ Year(from) \in Nat /\ from \in Int /\ anchor \in Nat \ {0}
  BY SteadyYear, YearsType DEF Dates
<1>2. \A y \in Years : /\ c(y) \in Dates /\ c(y) \in Int
                       /\ Year(c(y)) = y /\ Month(c(y)) = month /\ OnAnchor(anchor, c(y))
  BY <1>1, ClippedIs DEF OnAnchor, Dates
<1>3. ASSUME NEW k \in Dates, Month(k) = month, OnAnchor(anchor, k)
      PROVE  k = c(Year(k))
  <2>1. Year(k) \in Years
    BY PartsOfDate
  <2>2. /\ c(Year(k)) \in Dates /\ Year(c(Year(k))) = Year(k)
        /\ Month(c(Year(k))) = Month(k) /\ Day(c(Year(k))) = Day(k)
    BY <1>2, <1>3, <2>1 DEF OnAnchor
  <2> HIDE DEF c
  <2> QED
    BY <2>2, LaterDay
<1>4. n = IF c(Year(from)) <= from THEN c(Year(from) + 1) ELSE c(Year(from))
  BY DEF NextFixedYearly
<1> HIDE DEF c, n
<1>5. n \in Dates /\ n \in Int /\ n > from /\ Month(n) = month /\ OnAnchor(anchor, n)
  <2>1. from < c(Year(from) + 1)
    BY <1>1, <1>2, LaterYear
  <2> QED
    BY <1>1, <1>2, <1>4, <2>1
<1>6. ASSUME NEW k \in from + 1 .. n - 1, Month(k) = month, OnAnchor(anchor, k)
      PROVE  FALSE
  <2>1. k \in Dates /\ from < k /\ k < n
    BY <1>1, <1>5, Between
  <2>2. k = c(Year(k)) /\ Year(k) \in Years /\ Year(k) \in Nat
    BY <1>3, <1>6, <2>1, PartsOfDate, YearsType
  <2>3. Year(from) <= Year(k) /\ Year(k) <= Year(n)
    BY <1>1, <1>5, <2>1, DateOrder
  <2>4. CASE c(Year(from)) <= from
    <3>1. n = c(Year(from) + 1) /\ Year(n) = Year(from) + 1
      BY <1>1, <1>2, <1>4, <2>4
    <3>2. Year(k) = Year(from) \/ Year(k) = Year(from) + 1
      BY <1>1, <2>2, <2>3, <3>1
    <3> QED
      BY <1>1, <1>2, <2>1, <2>2, <2>4, <3>1, <3>2
  <2>5. CASE ~(c(Year(from)) <= from)
    <3>1. n = c(Year(from)) /\ Year(n) = Year(from)
      BY <1>1, <1>2, <1>4, <2>5
    <3>2. Year(k) = Year(from)
      BY <1>1, <2>2, <2>3, <3>1
    <3> QED
      BY <1>5, <2>1, <2>2, <3>1, <3>2
  <2> QED
    BY <2>4, <2>5
<1> QED
  BY <1>5, <1>6 DEF n

LEMMA NextFixedWeeklyIs ==
    ASSUME NEW from \in Steady, NEW anchor \in 0 .. 31
    PROVE  LET n == NextFixedWeekly(anchor, from)
           IN /\ n \in Dates /\ n > from
              /\ anchor \in 0 .. 6 => /\ Weekday(n) = anchor
                                      /\ \A k \in from + 1 .. n - 1 : Weekday(k) # anchor
<1> DEFINE ahead == anchor - Weekday(from)
           days == IF ahead <= 0 THEN ahead + 7 ELSE ahead
           n == from + days
<1>1. /\ from \in Dates /\ from \in Int /\ from + 365 <= LastDate
      /\ FirstDate <= from /\ FirstDate \in Int /\ LastDate \in Int
  BY SteadyYear, YearStarts DEF Dates
<1>2. Weekday(from) \in 0 .. 6
  BY <1>1 DEF Weekday
<1>3. days \in 1 .. 31
  BY <1>2
<1>4. n \in Dates /\ n > from
  <2> HIDE DEF days
  <2> QED
    BY <1>1, <1>3 DEF Dates
<1>5. ASSUME anchor \in 0 .. 6
      PROVE  Weekday(n) = anchor /\ \A k \in from + 1 .. n - 1 : Weekday(k) # anchor
  BY <1>1, <1>5 DEF Weekday
<1> QED
  BY <1>4, <1>5 DEF NextFixedWeekly

LEMMA AdvancePeriodicIs ==
    ASSUME NEW from \in Steady, NEW frequency \in Frequencies
    PROVE  LET n == AdvancePeriodic(from, frequency)
           IN /\ n \in Dates /\ n > from
              /\ frequency = "weekly" => n = from + 7
              /\ frequency = "monthly" =>
                    /\ Day(n) = Least(Day(from), LastDay(Year(n), Month(n)))
                    /\ IF Month(from) = 12
                       THEN Month(n) = 1 /\ Year(n) = Year(from) + 1
                       ELSE Month(n) = Month(from) + 1 /\ Year(n) = Year(from)
              /\ frequency = "yearly" =>
                    /\ Day(n) = Least(Day(from), LastDay(Year(n), Month(n)))
                    /\ Month(n) = Month(from) /\ Year(n) = Year(from) + 1
<1> DEFINE n == AdvancePeriodic(from, frequency)
<1>1. /\ from \in Dates /\ from \in Int /\ from + 365 <= LastDate
      /\ FirstDate <= from /\ FirstDate \in Int /\ LastDate \in Int
      /\ Year(from) + 1 \in Years /\ Year(from) \in Nat
      /\ Month(from) \in 1 .. 12 /\ Day(from) \in Nat \ {0}
  <2>1. from \in Dates /\ Year(from) + 1 \in Years /\ from + 365 <= LastDate
    BY SteadyYear
  <2>2. /\ Month(from) \in 1 .. 12 /\ Day(from) \in 1 .. LastDay(Year(from), Month(from))
        /\ Year(from) \in Nat
    BY <2>1, PartsOfDate, YearsType
  <2>3. LastDay(Year(from), Month(from)) \in 28 .. 31
    BY <2>2, MonthSizes
  <2> QED
    BY <2>1, <2>2, <2>3, YearStarts DEF Dates
<1>2. CASE frequency = "weekly"
  <2>1. n = from + 7
    BY <1>2 DEF AdvancePeriodic
  <2> QED
    BY <1>1, <1>2, <2>1 DEF Dates
<1>3. CASE frequency = "monthly"
  <2>1. n = ClippedNextMonth(Year(from), Month(from), Day(from))
    BY <1>3 DEF AdvancePeriodic
  <2> HIDE DEF n
  <2> QED
    BY <1>1, <1>3, <2>1, NextMonthIs DEF n
<1>4. CASE frequency = "yearly"
  <2>1. n = Clipped(Year(from) + 1, Month(from), Day(from))
    BY <1>4 DEF AdvancePeriodic
  <2> HIDE DEF n
  <2>2. /\ n \in Dates /\ Month(n) = Month(from) /\ Year(n) = Year(from) + 1
        /\ Day(n) = Least(Day(from), LastDay(Year(n), Month(n)))
    BY <1>1, <2>1, ClippedIs
  <2>3. from < n
    BY <1>1, <2>2, LaterYear
  <2>4. n > from
    BY <1>1, <2>2, <2>3 DEF Dates
  <2> QED
    BY <1>4, <2>2, <2>4 DEF n
<1> QED
  BY <1>2, <1>3, <1>4 DEF Frequencies

\* Every step leads to a later date.
LEMMA StepForward ==
    ASSUME NEW cfg, Billed(cfg), NEW from \in Steady
    PROVE  LET n == CalculateNextDueDate(cfg, from)
           IN n \in Dates /\ n > from
<1> USE DEF Billed, Billings, Frequencies
<1>1. CASE cfg.billing = "periodic"
  <2>1. CalculateNextDueDate(cfg, from) = AdvancePeriodic(from, cfg.frequency)
    BY <1>1 DEF CalculateNextDueDate
  <2> QED
    BY <2>1, AdvancePeriodicIs
<1>2. CASE cfg.billing = "fixed_date"
  <2>1. cfg.day \in 1 .. 31 /\ cfg.day \in 0 .. 31
    BY <1>2 DEF Computable
  <2>2. CASE cfg.frequency = "monthly"
    <3>1. CalculateNextDueDate(cfg, from) = NextFixedMonthly(cfg.day, from)
      BY <1>2, <2>2 DEF CalculateNextDueDate
    <3> QED
      BY <2>1, <3>1, NextFixedMonthlyIs
  <2>3. CASE cfg.frequency = "weekly"
    <3>1. CalculateNextDueDate(cfg, from) = NextFixedWeekly(cfg.day, from)
      BY <1>2, <2>3 DEF CalculateNextDueDate
    <3> QED
      BY <2>1, <3>1, NextFixedWeeklyIs
  <2>4. CASE cfg.frequency = "yearly"
    <3>1. CalculateNextDueDate(cfg, from) = NextFixedYearly(cfg.day, cfg.month, from)
      BY <1>2, <2>4 DEF CalculateNextDueDate
    <3>2. cfg.month \in 1 .. 12
      BY <1>2, <2>4 DEF Computable
    <3> QED
      BY <2>1, <3>1, <3>2, NextFixedYearlyIs
  <2> QED
    BY <2>2, <2>3, <2>4
<1> QED
  BY <1>1, <1>2

(***************************************************************************)
(* calculate_next_due_date (subscription_dates.py:64-88): from any date,   *)
(* the next due date of a fixed_date subscription is the first that        *)
(* matches its anchor, through short months, Decembers and leap years.     *)
(***************************************************************************)
THEOREM CalculatedIsFirstMatch ==
    ASSUME NEW cfg, Billed(cfg), cfg.billing = "fixed_date", Meaningful(cfg),
           NEW from \in Steady
    PROVE  FirstMatch(cfg, from, CalculateNextDueDate(cfg, from))
<1> USE DEF Billed, Billings, Frequencies
<1>1. cfg.day \in 1 .. 31
  BY DEF Computable
<1>2. CASE cfg.frequency = "monthly"
  <2>1. CalculateNextDueDate(cfg, from) = NextFixedMonthly(cfg.day, from)
    BY <1>2 DEF CalculateNextDueDate
  <2>2. \A k : Matches(cfg, k) <=> OnAnchor(cfg.day, k)
    BY <1>2 DEF Matches, OnAnchor
  <2> QED
    BY <1>1, <2>1, <2>2, NextFixedMonthlyIs DEF FirstMatch
<1>3. CASE cfg.frequency = "weekly"
  <2>1. CalculateNextDueDate(cfg, from) = NextFixedWeekly(cfg.day, from)
    BY <1>3 DEF CalculateNextDueDate
  <2>2. cfg.day \in 0 .. 6 /\ cfg.day \in 0 .. 31
    BY <1>1, <1>3 DEF Meaningful
  <2>3. \A k : Matches(cfg, k) <=> Weekday(k) = cfg.day
    BY <1>3 DEF Matches
  <2> QED
    BY <2>1, <2>2, <2>3, NextFixedWeeklyIs DEF FirstMatch
<1>4. CASE cfg.frequency = "yearly"
  <2>1. CalculateNextDueDate(cfg, from) = NextFixedYearly(cfg.day, cfg.month, from)
    BY <1>4 DEF CalculateNextDueDate
  <2>2. cfg.month \in 1 .. 12
    BY <1>4 DEF Computable
  <2>3. \A k : Matches(cfg, k) <=> Month(k) = cfg.month /\ OnAnchor(cfg.day, k)
    BY <1>4 DEF Matches, OnAnchor
  <2> QED
    BY <1>1, <2>1, <2>2, <2>3, NextFixedYearlyIs DEF FirstMatch
<1> QED
  BY <1>2, <1>3, <1>4

----------------------------------------------------------------------------
(***************************************************************************)
(* The loop of advance_due_date.  A function that steps forward through an *)
(* interval leaves it: there is a function that says from where, and every *)
(* property of dates that a step keeps holds there.                        *)
(***************************************************************************)
Leaves(f, g, a, b) ==
    f = [d \in a .. b |-> IF g[d] > b THEN d ELSE f[g[d]]]

Forward(g, a, b) == \A d \in a .. b : g[d] \in Int /\ g[d] > d

LEMMA LeavesExists ==
    ASSUME NEW a \in Int, NEW b \in Int, NEW g, Forward(g, a, b)
    PROVE  \E f : Leaves(f, g, a, b)
<1> DEFINE Missing == {n \in Nat : b - n >= a - 1 /\ ~\E f : Leaves(f, g, b - n + 1, b)}
<1>1. Missing = {}
  <2> SUFFICES ASSUME Missing # {}
               PROVE  FALSE
    OBVIOUS
  <2>1. PICK n \in Missing : \A m \in Missing : n <= m
    <3>1. Missing \in SUBSET Nat
      OBVIOUS
    <3> HIDE DEF Missing
    <3> QED
      BY <3>1, LeastExists
  <2>2. n \in Nat /\ b - n >= a - 1
    BY <2>1
  <2>3. CASE n = 0
    <3>1. Leaves([d \in b + 1 .. b |-> 0], g, b + 1, b)
      BY DEF Leaves
    <3>2. b - n + 1 = b + 1
      BY <2>3
    <3> QED
      BY <2>1, <3>1, <3>2
  <2>4. CASE n # 0
    <3> DEFINE c == b - n + 1
    <3>1. c \in Int /\ a <= c /\ c <= b /\ n - 1 \in Nat /\ b - (n - 1) + 1 = c + 1
          /\ b - (n - 1) >= a - 1
      BY <2>2, <2>4
    <3>2. n - 1 \notin Missing
      BY <2>1, <2>2, <2>4
    <3>3. PICK f : Leaves(f, g, c + 1, b)
      BY <3>1, <3>2
    <3> HIDE DEF c
    <3> DEFINE h == [d \in c .. b |->
                       IF d = c THEN (IF g[c] > b THEN c ELSE f[g[c]]) ELSE f[d]]
    <3>4. ASSUME NEW d \in c .. b
          PROVE  h[d] = IF g[d] > b THEN d ELSE h[g[d]]
      <4>1. g[d] \in Int /\ g[d] > d
        BY <3>1 DEF Forward
      <4>2. g[d] <= b => g[d] \in c .. b /\ g[d] # c /\ h[g[d]] = f[g[d]]
        BY <3>1, <4>1
      <4>3. CASE d = c
        <5>1. h[d] = IF g[d] > b THEN d ELSE f[g[d]]
          BY <4>3
        <5> HIDE DEF h
        <5> QED
          BY <3>1, <4>1, <4>2, <5>1
      <4>4. CASE d # c
        <5>1. d \in c + 1 .. b /\ h[d] = f[d]
          BY <3>1, <4>4
        <5>2. f[d] = IF g[d] > b THEN d ELSE f[g[d]]
          BY <3>3, <5>1 DEF Leaves
        <5> HIDE DEF h
        <5> QED
          BY <3>1, <4>1, <4>2, <5>1, <5>2
      <4> QED
        BY <4>3, <4>4
    <3>5. Leaves(h, g, c, b)
      BY <3>4 DEF Leaves
    <3> QED
      BY <2>1, <3>5 DEF c
  <2> QED
    BY <2>3, <2>4
<1>2. CASE a <= b
  <2>1. b - a + 1 \in Nat /\ b - (b - a + 1) >= a - 1 /\ b - (b - a + 1) + 1 = a
    BY <1>2
  <2>2. b - a + 1 \notin Missing
    BY <1>1
  <2> QED
    BY <2>1, <2>2
<1>3. CASE a > b
  <2>1. Leaves([d \in a .. b |-> 0], g, a, b)
    BY <1>3 DEF Leaves
  <2> QED
    BY <2>1
<1> QED
  BY <1>2, <1>3

LEMMA LeavesReaches ==
    ASSUME NEW a \in Int, NEW b \in Int, NEW g, NEW f, NEW S,
           Forward(g, a, b), Leaves(f, g, a, b),
           \A d \in S : d \in a .. b /\ g[d] <= b => g[d] \in S,
           a \in S, a <= b
    PROVE  f[a] \in S /\ f[a] \in a .. b /\ g[f[a]] > b
<1> DEFINE Good(d) == f[d] \in S /\ f[d] \in a .. b /\ g[f[d]] > b
           Bad == {n \in Nat : b - n \in a .. b /\ b - n \in S /\ ~Good(b - n)}
<1>1. Bad = {}
  <2> SUFFICES ASSUME Bad # {}
               PROVE  FALSE
    OBVIOUS
  <2>1. PICK n \in Bad : \A m \in Bad : n <= m
    <3>1. Bad \in SUBSET Nat
      OBVIOUS
    <3> HIDE DEF Bad
    <3> QED
      BY <3>1, LeastExists
  <2> DEFINE d == b - n
  <2>2. n \in Nat /\ d \in a .. b /\ d \in S /\ ~Good(d) /\ d \in Int
    BY <2>1
  <2>3. f[d] = IF g[d] > b THEN d ELSE f[g[d]]
    <3> HIDE DEF d
    <3> QED
      BY <2>2 DEF Leaves
  <2>4. g[d] \in Int /\ g[d] > d
    <3> HIDE DEF d
    <3> QED
      BY <2>2 DEF Forward
  <2>5. CASE g[d] > b
    BY <2>2, <2>3, <2>5
  <2>6. CASE ~(g[d] > b)
    <3>1. g[d] \in S /\ g[d] \in a .. b /\ f[d] = f[g[d]]
      <4> HIDE DEF d
      <4> QED
        BY <2>2, <2>3, <2>4, <2>6
    <3>2. ~Good(g[d])
      BY <2>2, <3>1
    <3>3. b - g[d] \in Nat /\ b - (b - g[d]) = g[d] /\ b - g[d] < n
      BY <2>2, <2>4, <3>1
    <3>4. b - g[d] \in Bad
      BY <3>1, <3>2, <3>3
    <3> HIDE DEF d, Bad
    <3> QED
      BY <2>1, <2>2, <3>3, <3>4
  <2> QED
    BY <2>5, <2>6
<1>2. b - a \in Nat /\ b - (b - a) = a /\ a \in a .. b
  OBVIOUS
<1>3. b - a \notin Bad
  BY <1>1
<1> QED
  BY <1>2, <1>3

\* What the loop returns: the step from one of the dates it goes through, which
\* are in every set that the steps up to the target do not leave.
LEMMA AdvanceReaches ==
    ASSUME NEW cfg, Billed(cfg), NEW due \in Dates, NEW target \in Int,
           due <= target, target <= YearEnd(LastYear), NEW S, due \in S,
           \A d \in S : d \in due .. target => CalculateNextDueDate(cfg, d) \in S
    PROVE  \E d \in due .. target :
             LET n == CalculateNextDueDate(cfg, d)
             IN /\ AdvanceDueDate(cfg, due, target) = n
                /\ d \in S /\ d \in Steady /\ n \in S /\ n \in Dates /\ n > target
<1> DEFINE g == [d \in due .. target |-> CalculateNextDueDate(cfg, d)]
           F(f) == f = [d \in due .. target |->
                          IF CalculateNextDueDate(cfg, d) > target THEN d
                          ELSE f[CalculateNextDueDate(cfg, d)]]
           last == CHOOSE f : F(f)
<1>1. \A d \in due .. target : d \in Steady
  BY YearStarts, YearsType, YearEndType DEF Dates, Steady
<1>2. \A d \in due .. target : /\ g[d] = CalculateNextDueDate(cfg, d)
                               /\ g[d] \in Dates /\ g[d] > d
  BY <1>1, StepForward
<1>3. due \in Int
  BY DEF Dates
<1>4. Forward(g, due, target)
  BY <1>2 DEF Forward, Dates
<1>5. \A f : F(f) <=> Leaves(f, g, due, target)
  BY DEF Leaves
<1>6. Leaves(last, g, due, target)
  <2>1. \E f : Leaves(f, g, due, target)
    <3> HIDE DEF g
    <3> QED
      BY <1>3, <1>4, LeavesExists
  <2>2. \E f : F(f)
    BY <1>5, <2>1
  <2>3. F(last)
    <3> HIDE DEF F
    <3> QED
      BY <2>2
  <2> QED
    BY <1>5, <2>3
<1>7. AdvanceDueDate(cfg, due, target) = CalculateNextDueDate(cfg, last[due])
  BY <1>3 DEF AdvanceDueDate
<1> HIDE DEF last
<1>8. last[due] \in S /\ last[due] \in due .. target /\ g[last[due]] > target
  <2>1. \A d \in S : d \in due .. target /\ g[d] <= target => g[d] \in S
    BY <1>2
  <2> HIDE DEF g
  <2> QED
    BY <1>3, <1>4, <1>6, <2>1, LeavesReaches
<1> HIDE DEF g
<1> QED
  BY <1>1, <1>2, <1>7, <1>8

LEMMA AdvanceNotDue ==
    ASSUME NEW cfg, NEW due, NEW target, due > target
    PROVE  AdvanceDueDate(cfg, due, target) = due
BY DEF AdvanceDueDate

(***************************************************************************)
(* advance_due_date (subscription_dates.py:91-116): however long ago a     *)
(* payment was due, the loop ends, after the target, on the first date     *)
(* there that matches the anchor: no cycle is skipped or charged twice.    *)
(***************************************************************************)
THEOREM AdvancedIsFirstMatch ==
    ASSUME NEW cfg, Billed(cfg), cfg.billing = "fixed_date", Meaningful(cfg),
           NEW due \in Dates, NEW target \in Int, due <= target, target <= YearEnd(LastYear)
    PROVE  FirstMatch(cfg, target, AdvanceDueDate(cfg, due, target))
<1> DEFINE n == AdvanceDueDate(cfg, due, target)
<1>1. due \in Int /\ \A d \in due .. target : d \in Steady
  BY YearStarts, YearsType, YearEndType DEF Dates, Steady
<1>2. PICK d \in due .. target : /\ n = CalculateNextDueDate(cfg, d) /\ d \in Steady
                                /\ n \in Dates /\ n > target
  <2>1. due \in Dates /\ \A x \in Dates : x \in due .. target => CalculateNextDueDate(cfg, x) \in Dates
    BY <1>1, StepForward
  <2> QED
    BY <2>1, AdvanceReaches
<1>3. FirstMatch(cfg, d, n)
  BY <1>2, CalculatedIsFirstMatch
<1>4. target + 1 .. n - 1 \subseteq d + 1 .. n - 1 /\ n \in Int
  BY <1>1, <1>2 DEF Dates
<1> HIDE DEF n
<1> QED
  BY <1>2, <1>3, <1>4 DEF FirstMatch, n

----------------------------------------------------------------------------
(***************************************************************************)
(* The month that routers/goals.py:18-24 sums up holds the dates of the    *)
(* month of today and no others, in December as well.                      *)
(***************************************************************************)
THEOREM CurrentMonthIsThisMonth ==
    ASSUME NEW today \in Steady, NEW n \in Dates
    PROVE  n \in CurrentMonth(today) <=> Year(n) = Year(today) /\ Month(n) = Month(today)
<1> DEFINE first == Date(Year(today), Month(today), 1)
           next == FirstOfNextMonth(today)
<1>1. /\ today \in Dates /\ Year(today) \in Years /\ Month(today) \in 1 .. 12
      /\ Year(today) \in Nat /\ n \in Int
  BY SteadyYear, PartsOfDate, YearsType DEF Dates
<1>2. ASSUME NEW y \in Nat, NEW m \in 1 .. 12
      PROVE  Least(1, LastDay(y, m)) = 1 /\ 1 \in 1 .. LastDay(y, m)
  <2>1. LastDay(y, m) \in 28 .. 31
    BY MonthSizes
  <2> QED
    BY <2>1 DEF Least
<1>3. /\ first \in Dates /\ first \in Int
      /\ Year(first) = Year(today) /\ Month(first) = Month(today) /\ Day(first) = 1
  BY <1>1, <1>2, DateParts DEF Dates
<1> HIDE DEF first
<1>4. Day(today) >= 1 /\ first <= today /\ today \in Int
  <2>1. ~(today < first)
    <3>1. Day(today) \in 1 .. LastDay(Year(today), Month(today))
      BY <1>1, PartsOfDate
    <3>2. ~(Day(today) < 1)
      BY <3>1
    <3> QED
      BY <1>1, <1>3, <3>2, LaterDay
  <2> QED
    BY <1>1, <1>3, <2>1, PartsOfDate DEF Dates
<1>5. first \in Steady
  BY <1>3, <1>4, YearEndType, YearsType DEF Dates, Steady
<1>6. /\ next \in Dates /\ next \in Int /\ next > first /\ Day(next) = 1
      /\ IF Month(first) = 12 THEN Month(next) = 1 /\ Year(next) = Year(first) + 1
                             ELSE Month(next) = Month(first) + 1 /\ Year(next) = Year(first)
      /\ \A k \in Dates : first < k /\ k < next =>
            \/ Year(k) = Year(first) /\ Month(k) = Month(first)
            \/ Year(k) = Year(next) /\ Month(k) = Month(next)
  <2>1. next = ClippedNextMonth(Year(first), Month(first), 1)
    <3>1. CASE Month(today) = 12
      <4>1. Least(1, LastDay(Year(today) + 1, 1)) = 1
        BY <1>1, <1>2
      <4> QED
        BY <1>3, <3>1, <4>1 DEF FirstOfNextMonth, ClippedNextMonth, Clipped
    <3>2. CASE Month(today) # 12
      <4>1. Month(today) + 1 \in 1 .. 12
        BY <1>1, <3>2
      <4>2. Least(1, LastDay(Year(today), Month(today) + 1)) = 1
        BY <1>1, <1>2, <4>1
      <4> QED
        BY <1>3, <3>2, <4>2 DEF FirstOfNextMonth, ClippedNextMonth, Clipped
    <3> QED
      BY <3>1, <3>2
  <2> DEFINE c == ClippedNextMonth(Year(first), Month(first), 1)
  <2>2. /\ c \in Dates /\ c > first
        /\ Day(c) = Least(1, LastDay(Year(c), Month(c)))
        /\ IF Month(first) = 12 THEN Month(c) = 1 /\ Year(c) = Year(first) + 1
                               ELSE Month(c) = Month(first) + 1 /\ Year(c) = Year(first)
        /\ \A k \in Dates : first < k /\ k < c =>
              \/ Year(k) = Year(first) /\ Month(k) = Month(first)
              \/ Year(k) = Year(c) /\ Month(k) = Month(c)
    BY <1>5, NextMonthIs
  <2>3. Year(c) \in Nat /\ Month(c) \in 1 .. 12 /\ c \in Int
    BY <2>2, PartsOfDate, YearsType DEF Dates
  <2>4. Day(c) = 1
    <3> HIDE DEF c
    <3> QED
      BY <1>2, <2>2, <2>3
  <2> HIDE DEF c, next
  <2>5. next = c
    BY <2>1 DEF c
  <2> QED
    BY <2>2, <2>3, <2>4, <2>5
<1> HIDE DEF next
<1>7. n \in CurrentMonth(today) <=> first <= n /\ n < next
  BY <1>1, <1>3, <1>6 DEF CurrentMonth, first, next
<1>8. ASSUME first <= n, n < next
      PROVE  Year(n) = Year(today) /\ Month(n) = Month(today)
  <2>1. CASE n = first
    BY <1>3, <2>1
  <2>2. CASE n # first
    <3>1. \/ Year(n) = Year(first) /\ Month(n) = Month(first)
          \/ Year(n) = Year(next) /\ Month(n) = Month(next)
      BY <1>1, <1>3, <1>6, <1>8, <2>2
    <3>2. ~(Year(n) = Year(next) /\ Month(n) = Month(next))
      <4>1. Day(n) \in 1 .. LastDay(Year(n), Month(n))
        BY PartsOfDate
      <4>2. ~(Day(n) < 1)
        BY <4>1
      <4> QED
        BY <1>6, <1>8, <4>2, LaterDay
    <3> QED
      BY <1>3, <3>1, <3>2
  <2> QED
    BY <2>1, <2>2
<1>9. ASSUME Year(n) = Year(today), Month(n) = Month(today)
      PROVE  first <= n /\ n < next
  <2>1. Day(n) \in 1 .. LastDay(Year(n), Month(n))
    BY PartsOfDate
  <2>2. ~(Day(n) < 1)
    BY <2>1
  <2>3. ~(n < first)
    BY <1>3, <1>9, <2>2, LaterDay
  <2>4. n < next
    BY <1>1, <1>3, <1>6, <1>9, LaterYear, LaterMonth
  <2> QED
    BY <1>1, <1>3, <2>3, <2>4
<1> QED
  BY <1>7, <1>8, <1>9
=============================================================================
