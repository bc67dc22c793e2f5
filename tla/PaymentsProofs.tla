--------------------------- MODULE PaymentsProofs ---------------------------
(***************************************************************************)
(* What Payments promises, for any number of requests, any updates that    *)
(* the schema accepts and any days.                                        *)
(*                                                                         *)
(* The invariant says of each request in flight, as long as no other has   *)
(* overtaken it, that the row is the one it read, and of what it decided   *)
(* to write, that it preserves what holds of the row.                      *)
(***************************************************************************)
EXTENDS Payments, DueDateProofs

\* The stored date follows from the stored fields.
Sound(x) ==
    /\ Computable(x)
    /\ x.billing = "fixed_date" /\ Meaningful(x) => Matches(x, x.due)

\* Every payment logged so far fell due by day a, and before day b.
LoggedBefore(a, b) ==
    \A d \in Calendar : logged[d] > 0 => d <= a /\ d < b

Untouched == /\ \A r \in Requests : req[r].op = "idle"
             /\ \A d \in Calendar : logged[d] = 0

RowInv ==
    /\ row.st = "none" => Untouched
    /\ row.st # "none" => row.due \in Dates
    /\ ~stale /\ row.st = "here" => Sound(row)
    /\ ~stale => LoggedBefore(today, row.due)
    /\ ~stale => \A d \in Calendar : logged[d] <= 1

\* What a request has decided to write, when it has read x.
Preserves(new, x) ==
    /\ new.st = "here" /\ new.due \in Dates
    /\ Sound(x) => Sound(new)

Settles(new, x, day) == x.active = TRUE /\ x.due <= day /\ new.due > x.due

ReqInv(r) ==
    req[r].op # "idle" =>
        /\ req[r].read.st = "here" /\ req[r].read.due \in Dates
        /\ r \notin overtaken => row = req[r].read
        /\ req[r].op # "delete" =>
              /\ Preserves(req[r].new, req[r].read)
              /\ ~stale /\ r \notin overtaken => LoggedBefore(today, req[r].new.due)
        /\ req[r].op \in {"confirm", "dismiss"} =>
              Settles(req[r].new, req[r].read, today)

IInv == TypeOK /\ RowInv /\ \A r \in Requests : ReqInv(r)

----------------------------------------------------------------------------
(***************************************************************************)
(* Rows: reading, overriding, advancing and merging them.                  *)
(***************************************************************************)
LEMMA DaysSteady ==
    /\ Days \cup {Today0} \subseteq Steady
    /\ Steady \subseteq Dates /\ Dates \subseteq Int
    /\ \A d \in Days \cup {Today0} : d \in Int /\ d <= YearEnd(LastYear)
<1>1. Days \cup {Today0} \subseteq Steady
  BY PaymentsAssumption
<1>2. Steady \subseteq Dates /\ Dates \subseteq Int
  BY SteadyYear DEF Dates
<1> QED
  BY <1>1, <1>2 DEF Steady

LEMMA RowFields ==
    ASSUME NEW x \in Row
    PROVE  /\ DOMAIN x = {"st", "active", "due", "billing", "frequency", "day", "month"}
           /\ x.billing \in Billings /\ x.frequency \in Frequencies
           /\ x.day \in 1 .. 31 \cup {None} /\ x.month \in 1 .. 12 \cup {None}
           /\ x.active \in BOOLEAN /\ x.due \in Dates \cup {0}
BY DEF Row

\* A row with another due date.
LEMMA NewDue ==
    ASSUME NEW x \in Row, NEW n \in Dates
    PROVE  LET y == [x EXCEPT !.due = n]
           IN /\ y \in Row /\ y.due = n /\ y.st = x.st /\ y.active = x.active
              /\ y.billing = x.billing /\ y.frequency = x.frequency
              /\ y.day = x.day /\ y.month = x.month
BY DEF Row

LEMMA Removed ==
    ASSUME NEW x \in Row
    PROVE  LET y == [x EXCEPT !.st = "deleted"]
           IN y \in Row /\ y.st = "deleted" /\ y.due = x.due
BY DEF Row

LEMMA Overridden ==
    ASSUME NEW x \in Row, NEW u, DOMAIN u \subseteq DOMAIN Columns,
           \A f \in DOMAIN u : u[f] \in Columns[f]
    PROVE  /\ Override(x, u) \in Row
           /\ Override(x, u).st = x.st /\ Override(x, u).due = x.due
           /\ BillingFields \cap DOMAIN u = {} =>
                 /\ Override(x, u).billing = x.billing
                 /\ Override(x, u).frequency = x.frequency
                 /\ Override(x, u).day = x.day /\ Override(x, u).month = x.month
<1>1. Override(x, u) \in Row /\ Override(x, u).st = x.st /\ Override(x, u).due = x.due
  BY DEF Row, Override, Columns
<1>2. ASSUME BillingFields \cap DOMAIN u = {}
      PROVE  /\ Override(x, u).billing = x.billing
             /\ Override(x, u).frequency = x.frequency
             /\ Override(x, u).day = x.day /\ Override(x, u).month = x.month
  BY <1>2 DEF Row, Override, BillingFields
<1> QED
  BY <1>1, <1>2

\* The UPDATE of the columns y changed with respect to z, on row x.
Merged(x, y, z) ==
    [f \in DOMAIN x |-> IF f \in {g \in DOMAIN x : y[g] # z[g]} THEN y[f] ELSE x[f]]

LEMMA MergedType ==
    ASSUME NEW x \in Row, NEW y \in Row, NEW z \in Row
    PROVE  /\ Merged(x, y, z) \in Row
           /\ y.due # z.due => Merged(x, y, z).due = y.due
           /\ y.st = z.st => Merged(x, y, z).st = x.st
           /\ Merged(x, y, z).due \in {x.due, y.due}
           /\ Merged(x, y, x) = y
BY DEF Row, Merged

\* Billing fields that agree are sound for the same dates.
SameBilling(x, y) ==
    /\ x.billing = y.billing /\ x.frequency = y.frequency
    /\ x.day = y.day /\ x.month = y.month

LEMMA SameSound ==
    ASSUME NEW x, NEW y, SameBilling(x, y)
    PROVE  /\ Computable(x) <=> Computable(y)
           /\ Meaningful(x) <=> Meaningful(y)
           /\ Billed(x) <=> Billed(y)
           /\ \A n : Matches(x, n) <=> Matches(y, n)
           /\ x.due = y.due => (Sound(x) <=> Sound(y))
BY DEF SameBilling, Computable, Meaningful, Billed, Matches, Sound

LEMMA RowBilled ==
    ASSUME NEW x \in Row, Computable(x)
    PROVE  Billed(x)
BY RowFields DEF Billed

\* calculate_next_due_date, stored in a row: sound, and later than the day.
LEMMA Calculated ==
    ASSUME NEW x \in Row, Computable(x), NEW day \in Days \cup {Today0}
    PROVE  LET n == CalculateNextDueDate(x, day)
               y == [x EXCEPT !.due = n]
           IN /\ n \in Dates /\ n > day
              /\ y \in Row /\ y.due = n /\ y.st = x.st /\ Sound(y)
<1> DEFINE n == CalculateNextDueDate(x, day)
           y == [x EXCEPT !.due = n]
<1>1. day \in Steady /\ Billed(x)
  BY DaysSteady, RowBilled
<1>2. n \in Dates /\ n > day
  BY <1>1, StepForward
<1>3. x.billing = "fixed_date" /\ Meaningful(x) => Matches(x, n)
  BY <1>1, CalculatedIsFirstMatch DEF FirstMatch
<1> HIDE DEF n
<1>4. y \in Row /\ y.due = n /\ y.st = x.st /\ SameBilling(x, y)
  BY <1>2, NewDue DEF SameBilling
<1>5. Sound(y)
  <2> HIDE DEF y
  <2>1. Computable(y) /\ (Meaningful(x) <=> Meaningful(y)) /\ (Matches(x, n) <=> Matches(y, n))
    BY <1>4, SameSound
  <2> QED
    BY <1>3, <1>4, <2>1 DEF Sound, SameBilling
<1> QED
  BY <1>2, <1>4, <1>5 DEF n

\* advance_due_date, stored in a row.
LEMMA AdvancedRow ==
    ASSUME NEW x \in Row, Computable(x), x.due \in Dates,
           NEW day \in Days \cup {Today0}, x.due <= day
    PROVE  LET n == AdvanceDueDate(x, x.due, day)
               y == [x EXCEPT !.due = n]
           IN /\ n \in Dates /\ n > day
              /\ y \in Row /\ y.due = n /\ y.st = x.st /\ Sound(y)
<1> DEFINE n == AdvanceDueDate(x, x.due, day)
           y == [x EXCEPT !.due = n]
<1>1. day \in Int /\ day <= YearEnd(LastYear) /\ Billed(x)
  BY DaysSteady, RowBilled
<1>2. n \in Dates /\ n > day
  <2>1. \A d \in Dates : d \in x.due .. day => CalculateNextDueDate(x, d) \in Dates
    <3> SUFFICES ASSUME NEW d \in Dates, d \in x.due .. day
                 PROVE  CalculateNextDueDate(x, d) \in Dates
      OBVIOUS
    <3>1. d \in Steady
      BY <1>1, DaysSteady, YearStarts, YearsType, YearEndType DEF Dates, Steady
    <3> QED
      BY <1>1, <3>1, StepForward
  <2> QED
    BY <1>1, <2>1, AdvanceReaches
<1>3. x.billing = "fixed_date" /\ Meaningful(x) => Matches(x, n)
  BY <1>1, AdvancedIsFirstMatch DEF FirstMatch
<1> HIDE DEF n
<1>4. y \in Row /\ y.due = n /\ y.st = x.st /\ SameBilling(x, y)
  BY <1>2, NewDue DEF SameBilling
<1>5. Sound(y)
  <2> HIDE DEF y
  <2>1. Computable(y) /\ (Meaningful(x) <=> Meaningful(y)) /\ (Matches(x, n) <=> Matches(y, n))
    BY <1>4, SameSound
  <2> QED
    BY <1>3, <1>4, <2>1 DEF Sound, SameBilling
<1> QED
  BY <1>2, <1>4, <1>5 DEF n

LEMMA LoggedLater ==
    ASSUME NEW a \in Int, NEW b, NEW n \in Dates, LoggedBefore(a, b), n > a
    PROVE  LoggedBefore(a, n)
<1>1. \A d \in Calendar : d \in Int
  BY DaysSteady DEF Calendar
<1>2. n \in Int
  BY DaysSteady
<1> QED
  BY <1>1, <1>2 DEF LoggedBefore

----------------------------------------------------------------------------
(***************************************************************************)
(* The steps: what a SELECT and what the end of a request leave.           *)
(***************************************************************************)
Ops == {"idle", "confirm", "dismiss", "update", "delete"}

LEMMA InitInv == Init => IInv
<1> SUFFICES ASSUME Init
             PROVE  IInv
  OBVIOUS
<1>1. NoRow \in Row /\ Idle.op = "idle"
      /\ Idle \in [op : Ops, read : Row, new : Row]
  BY DEF NoRow, Row, Idle, Ops, Billings, Frequencies
<1>2. TypeOK
  <2>1. req \in [Requests -> [op : Ops, read : Row, new : Row]]
    BY <1>1 DEF Init
  <2>2. logged \in [Calendar -> 0 .. 2]
    BY DEF Init
  <2> QED
    BY <1>1, <2>1, <2>2 DEF Init, TypeOK, Ops
<1>3. RowInv
  BY <1>1 DEF Init, RowInv, Untouched, NoRow, LoggedBefore
<1>4. \A r \in Requests : ReqInv(r)
  BY <1>1 DEF Init, ReqInv
<1> QED
  BY <1>2, <1>3, <1>4 DEF IInv

\* A request that has read the row, and decided what preserves it.
LEMMA BeginKeeps ==
    ASSUME IInv, NEW r \in Requests, NEW op \in Ops, NEW new \in Row, Begin(r, op, new),
           op # "delete" => /\ Preserves(new, row)
                            /\ ~stale => LoggedBefore(today, new.due),
           op \in {"confirm", "dismiss"} => Settles(new, row, today)
    PROVE  IInv'
<1> DEFINE q == [op |-> op, read |-> row, new |-> new]
<1>1. /\ row.st = "here" /\ row \in Row /\ req' = [req EXCEPT ![r] = q]
      /\ today' = today /\ row' = row /\ logged' = logged
      /\ overtaken' = overtaken /\ stale' = stale
      /\ req \in [Requests -> [op : Ops, read : Row, new : Row]]
  BY DEF Begin, IInv, TypeOK, Ops
<1>2. q \in [op : Ops, read : Row, new : Row] /\ q.op = op /\ q.read = row /\ q.new = new
  BY <1>1
<1> HIDE DEF q
<1>3. req'[r] = q /\ \A s \in Requests \ {r} : req'[s] = req[s]
  BY <1>1
<1>4. TypeOK'
  BY <1>1, <1>2 DEF IInv, TypeOK, Ops
<1>5. RowInv'
  BY <1>1 DEF IInv, RowInv, LoggedBefore
<1>6. ASSUME NEW s \in Requests, s # r
      PROVE  ReqInv(s)'
  BY <1>1, <1>3, <1>6 DEF IInv, ReqInv, LoggedBefore
<1>7. ReqInv(r)'
  <2>1. row.due \in Dates
    BY <1>1 DEF IInv, RowInv
  <2> QED
    BY <1>1, <1>2, <1>3, <2>1 DEF ReqInv, LoggedBefore
<1> QED
  BY <1>4, <1>5, <1>6, <1>7 DEF IInv

\* A request that ends overtakes the others, or leaves the row as they read it.
LEMMA DoneKeeps ==
    ASSUME IInv, NEW r \in Requests, Done(r), today' = today,
           row' \in Row, logged' \in [Calendar -> 0 .. 2], stale' \in BOOLEAN,
           stale => stale', row' = row /\ ~stale' => logged' = logged, RowInv'
    PROVE  IInv'
<1>1. /\ req' = [req EXCEPT ![r] = Idle]
      /\ req \in [Requests -> [op : Ops, read : Row, new : Row]]
      /\ overtaken \subseteq Requests
  BY DEF Done, IInv, TypeOK, Ops
<1>2. NoRow \in Row /\ Idle.op = "idle"
      /\ Idle \in [op : Ops, read : Row, new : Row]
  BY DEF NoRow, Row, Idle, Ops, Billings, Frequencies
<1>3. req'[r] = Idle /\ \A s \in Requests \ {r} : req'[s] = req[s]
  BY <1>1
<1>4. TypeOK'
  <2>1. overtaken' \subseteq Requests
    BY <1>1 DEF Done
  <2>2. req' \in [Requests -> [op : Ops, read : Row, new : Row]]
    BY <1>1, <1>2
  <2> QED
    BY <2>1, <2>2 DEF IInv, TypeOK, Ops
<1>5. ASSUME NEW s \in Requests, s # r
      PROVE  ReqInv(s)'
  <2>1. req'[s] = req[s]
    BY <1>3, <1>5
  <2>2. CASE req[s].op = "idle"
    BY <2>1, <2>2 DEF ReqInv
  <2>3. CASE req[s].op # "idle" /\ row' = row
    <3>1. s \in overtaken' <=> s \in overtaken
      BY <1>5, <2>3 DEF Done
    <3> QED
      BY <2>1, <2>3, <3>1 DEF IInv, ReqInv, LoggedBefore
  <2>4. CASE req[s].op # "idle" /\ row' # row
    <3>1. s \in overtaken'
      BY <1>2, <1>5, <2>4 DEF Done
    <3> QED
      BY <2>1, <2>4, <3>1 DEF IInv, ReqInv
  <2> QED
    BY <2>2, <2>3, <2>4
<1>6. ReqInv(r)'
  BY <1>2, <1>3 DEF ReqInv
<1> QED
  BY <1>4, <1>5, <1>6 DEF IInv

LEMMA FailKeeps ==
    ASSUME IInv, NEW r \in Requests, Fail(r)
    PROVE  IInv'
<1>1. /\ row' = row /\ logged' = logged /\ stale' = stale /\ today' = today /\ Done(r)
      /\ row \in Row /\ logged \in [Calendar -> 0 .. 2] /\ stale \in BOOLEAN
  BY DEF Fail, IInv, TypeOK
<1>2. req[r].op # "idle" => row.st # "none"
  BY DEF IInv, RowInv, Untouched
<1>3. Untouched => Untouched'
  <2>1. Idle.op = "idle"
    BY DEF Idle
  <2> QED
    BY <1>1, <2>1 DEF Untouched, Done, IInv, TypeOK
<1>4. RowInv'
  BY <1>1, <1>3 DEF IInv, RowInv, LoggedBefore
<1> QED
  BY <1>1, <1>4, DoneKeeps

LEMMA MidnightKeeps ==
    ASSUME IInv, Midnight
    PROVE  IInv'
<1>1. /\ row' = row /\ req' = req /\ logged' = logged /\ overtaken' = overtaken
      /\ stale' = stale /\ today' \in Days /\ today' > today
  BY DEF Midnight
<1>2. today \in Int /\ today' \in Int
  BY <1>1, DaysSteady DEF IInv, TypeOK
<1>3. \A d \in Calendar : d \in Int
  BY DaysSteady DEF Calendar
<1>4. ASSUME NEW b, LoggedBefore(today, b)
      PROVE  LoggedBefore(today, b)'
  BY <1>1, <1>2, <1>3, <1>4 DEF LoggedBefore
<1>5. TypeOK'
  BY <1>1 DEF IInv, TypeOK
<1>6. RowInv'
  BY <1>1, <1>4 DEF IInv, RowInv, Untouched
<1>7. ASSUME NEW r \in Requests
      PROVE  ReqInv(r)'
  <2>1. CASE req[r].op = "idle"
    BY <1>1, <2>1 DEF ReqInv
  <2>2. CASE req[r].op # "idle"
    <3>1. ReqInv(r) /\ req[r].read.due \in Int
      BY <2>2, DaysSteady DEF IInv, ReqInv
    <3>2. /\ req[r].op \in {"confirm", "dismiss"} =>
                Settles(req[r].new, req[r].read, today')
      BY <1>1, <1>2, <2>2, <3>1 DEF ReqInv, Settles
    <3>3. LoggedBefore(today, req[r].new.due) => LoggedBefore(today, req[r].new.due)'
      BY <1>1, <1>2, <1>3 DEF LoggedBefore
    <3> QED
      BY <1>1, <3>1, <3>2, <3>3 DEF ReqInv
  <2> QED
    BY <2>1, <2>2
<1> QED
  BY <1>5, <1>6, <1>7 DEF IInv

\* create_subscription
LEMMA CreateKeeps ==
    ASSUME IInv, NEW c \in Configs, Create(c)
    PROVE  IInv'
<1> DEFINE n == CalculateNextDueDate(c, today)
           blank == [NoRow EXCEPT !.st = "here", !.active = TRUE, !.due = n]
           new == Override(blank, c)
<1>0. DOMAIN c = BillingFields
  BY PaymentsAssumption DEF Columns, BillingFields
<1>1. /\ DOMAIN c = BillingFields /\ Billed(c) /\ today \in Steady
      /\ today \in Int /\ row.st = "none" /\ row' = new /\ Untouched
      /\ today' = today /\ req' = req /\ logged' = logged /\ overtaken' = overtaken
      /\ stale' = stale
  BY <1>0, PaymentsAssumption, DaysSteady DEF Create, IInv, RowInv, TypeOK
<1>2. n \in Dates /\ n > today
  BY <1>1, StepForward
<1>3. c.billing = "fixed_date" /\ Meaningful(c) => Matches(c, n)
  BY <1>1, CalculatedIsFirstMatch DEF FirstMatch
<1> HIDE DEF n
<1>4. blank \in Row /\ blank.st = "here" /\ blank.due = n
  BY <1>2 DEF NoRow, Row, Billings, Frequencies
<1>5. /\ DOMAIN c \subseteq DOMAIN Columns /\ \A f \in DOMAIN c : c[f] \in Columns[f]
  BY <1>1 DEF BillingFields, Columns, Billed
<1>6. SameBilling(new, c)
  <2> HIDE DEF blank
  <2>1. BillingFields \subseteq DOMAIN blank
    BY <1>4, RowFields DEF BillingFields
  <2> QED
    BY <1>1, <2>1 DEF Override, SameBilling, BillingFields
<1>7. new \in Row /\ new.st = "here" /\ new.due = n
  <2> HIDE DEF blank
  <2> QED
    BY <1>4, <1>5, Overridden
<1> HIDE DEF new
<1>8. Sound(new)
  BY <1>1, <1>3, <1>6, <1>7, SameSound DEF Sound, Billed, SameBilling
<1>9. TypeOK'
  BY <1>1, <1>7 DEF IInv, TypeOK
<1>10. RowInv'
  BY <1>1, <1>2, <1>7, <1>8 DEF RowInv, Untouched, LoggedBefore
<1>11. \A r \in Requests : ReqInv(r)'
  BY <1>1 DEF ReqInv, Untouched
<1> QED
  BY <1>9, <1>10, <1>11 DEF IInv

\* confirm_payment and dismiss_payment, up to their COMMIT
LEMMA PayReadKeeps ==
    ASSUME IInv, NEW r \in Requests, NEW op \in {"confirm", "dismiss"}, PayRead(r, op)
    PROVE  IInv'
<1>1. /\ row \in Row /\ row.st = "here" /\ row.due \in Dates /\ row.active = TRUE
      /\ row.due <= today /\ Computable(row) /\ Begin(r, op, Advanced)
      /\ today \in Days \cup {Today0} /\ today \in Int /\ row.due \in Int
  BY DaysSteady DEF PayRead, Begin, IInv, RowInv, TypeOK
<1>2. /\ Advanced \in Row /\ Advanced.due \in Dates /\ Advanced.due > today
      /\ Advanced.st = "here" /\ Sound(Advanced)
  BY <1>1, AdvancedRow DEF Advanced
<1>3. Preserves(Advanced, row)
  BY <1>2 DEF Preserves
<1>4. Settles(Advanced, row, today)
  <2>1. Advanced.due \in Int
    BY <1>2, DaysSteady
  <2> QED
    BY <1>1, <1>2, <2>1 DEF Settles
<1>5. ASSUME ~stale
      PROVE  LoggedBefore(today, Advanced.due)
  <2>1. LoggedBefore(today, row.due)
    BY <1>5 DEF IInv, RowInv
  <2> QED
    BY <1>1, <1>2, <2>1, LoggedLater
<1>6. op \in Ops /\ op # "delete"
  BY DEF Ops
<1> QED
  BY <1>1, <1>2, <1>3, <1>4, <1>5, <1>6, BeginKeeps

\* update_subscription, up to its COMMIT
LEMMA UpdateReadKeeps ==
    ASSUME IInv, NEW r \in Requests, NEW upd \in Updates, UpdateRead(r, upd)
    PROVE  IInv'
<1> DEFINE patched == Override(row, upd)
           rebill  == BillingFields \cap DOMAIN upd # {}
           new == IF rebill
                  THEN [patched EXCEPT !.due = CalculateNextDueDate(patched, today)]
                  ELSE patched
<1>1. /\ row \in Row /\ row.st = "here" /\ row.due \in Dates
      /\ today \in Days \cup {Today0} /\ today \in Int
      /\ rebill => Computable(patched)
      /\ Begin(r, "update", new)
      /\ DOMAIN upd \subseteq DOMAIN Columns /\ \A f \in DOMAIN upd : upd[f] \in Columns[f]
      /\ ~stale => LoggedBefore(today, row.due)
  BY PaymentsAssumption, DaysSteady DEF UpdateRead, Begin, IInv, RowInv, TypeOK
<1>2. /\ patched \in Row /\ patched.st = "here" /\ patched.due = row.due
      /\ ~rebill => SameBilling(patched, row)
  BY <1>1, Overridden DEF SameBilling
<1> HIDE DEF patched, rebill
<1>3. CASE rebill
  <2>1. /\ new \in Row /\ new.due \in Dates /\ new.due > today
        /\ new.st = "here" /\ Sound(new)
    BY <1>1, <1>2, <1>3, Calculated
  <2> HIDE DEF new
  <2>2. Preserves(new, row)
    BY <2>1 DEF Preserves
  <2>3. ASSUME ~stale
        PROVE  LoggedBefore(today, new.due)
    BY <1>1, <2>1, <2>3, LoggedLater
  <2>4. "update" \in Ops
    BY DEF Ops
  <2> QED
    BY <1>1, <2>1, <2>2, <2>3, <2>4, BeginKeeps
<1>4. CASE ~rebill
  <2>1. new = patched
    BY <1>4
  <2> HIDE DEF new
  <2>2. Sound(row) <=> Sound(new)
    BY <1>2, <1>4, <2>1, SameSound
  <2>3. Preserves(new, row)
    BY <1>1, <1>2, <2>1, <2>2 DEF Preserves
  <2>4. "update" \in Ops
    BY DEF Ops
  <2> QED
    BY <1>1, <1>2, <2>1, <2>3, <2>4, BeginKeeps
<1> QED
  BY <1>3, <1>4

\* delete_subscription, up to its COMMIT
LEMMA DeleteReadKeeps ==
    ASSUME IInv, NEW r \in Requests, DeleteRead(r)
    PROVE  IInv'
<1>1. row \in Row /\ Begin(r, "delete", [row EXCEPT !.st = "deleted"])
  BY DEF IInv, TypeOK, DeleteRead
<1>2. [row EXCEPT !.st = "deleted"] \in Row
  BY <1>1, Removed
<1>3. "delete" \in Ops
  BY DEF Ops
<1> QED
  BY <1>1, <1>2, <1>3, BeginKeeps

LEMMA CommitDeleteKeeps ==
    ASSUME IInv, NEW r \in Requests, CommitDelete(r)
    PROVE  IInv'
<1>1. /\ req[r].op = "delete" /\ row' = [row EXCEPT !.st = "deleted"] /\ Done(r)
      /\ today' = today /\ logged' = logged /\ stale' = stale
      /\ row \in Row /\ logged \in [Calendar -> 0 .. 2] /\ stale \in BOOLEAN
  BY DEF CommitDelete, IInv, TypeOK
<1>2. row' \in Row /\ row'.st = "deleted" /\ row'.due = row.due
  BY <1>1, Removed
<1>3. row.st # "none" /\ row.due \in Dates
  BY <1>1 DEF IInv, RowInv, Untouched
<1>4. RowInv'
  BY <1>1, <1>2, <1>3 DEF IInv, RowInv, LoggedBefore
<1> QED
  BY <1>1, <1>2, <1>4, DoneKeeps

\* The COMMIT of confirm_payment, dismiss_payment and update_subscription.
LEMMA CommitIs ==
    ASSUME IInv, NEW r \in Requests, Commit(r)
    PROVE  /\ row.st # "none" /\ row' \in Row /\ row'.st = row.st /\ row'.due \in Dates
           /\ stale' = (stale \/ r \in overtaken)
           /\ req[r].new \in Row /\ req[r].read \in Row
           /\ Preserves(req[r].new, req[r].read)
           /\ r \notin overtaken => row = req[r].read /\ row' = req[r].new
           /\ ~stale' => LoggedBefore(today, req[r].new.due)
           /\ req[r].op = "confirm" => /\ Settles(req[r].new, req[r].read, today)
                                       /\ row.st = "here"
<1> DEFINE new == req[r].new
           read == req[r].read
<1>1. /\ req[r].op \in {"confirm", "dismiss", "update"}
      /\ stale' = (stale \/ r \in overtaken) /\ Found(r)
      /\ row' = Merged(row, new, read)
      /\ row \in Row /\ req[r] \in [op : Ops, read : Row, new : Row]
      /\ stale \in BOOLEAN
  BY DEF Commit, IInv, TypeOK, Ops, Merged, Written
<1>2. /\ new \in Row /\ read \in Row /\ req[r].op # "idle" /\ req[r].op # "delete"
      /\ ReqInv(r)
  BY <1>1 DEF IInv
<1>3. /\ Preserves(new, read) /\ read.st = "here"
      /\ r \notin overtaken => row = read
      /\ ~stale /\ r \notin overtaken => LoggedBefore(today, new.due)
      /\ req[r].op = "confirm" => Settles(new, read, today)
  BY <1>2 DEF ReqInv
<1>4. row.st # "none" /\ row.due \in Dates
  BY <1>2 DEF IInv, RowInv, Untouched
<1>5. req[r].op = "confirm" => row.st = "here"
  <2>1. ASSUME req[r].op = "confirm"
        PROVE  Written(r) # {}
    <3>1. new.due > read.due /\ new.due \in Int /\ read.due \in Int
      <4>1. new.due \in Dates /\ read.due \in Dates
        BY <1>2, <1>3 DEF Preserves, ReqInv
      <4> QED
        BY <1>3, <2>1, <4>1, DaysSteady DEF Settles
    <3>2. "due" \in DOMAIN row
      BY <1>1, RowFields
    <3> QED
      BY <3>1, <3>2 DEF Written
  <2> QED
    BY <1>1, <2>1 DEF Found
<1> HIDE DEF new, read
<1>6. /\ row' \in Row /\ row'.st = row.st /\ row'.due \in Dates
      /\ r \notin overtaken => row' = new
  BY <1>1, <1>2, <1>3, <1>4, MergedType DEF Preserves
<1> QED
  BY <1>1, <1>2, <1>3, <1>4, <1>5, <1>6 DEF new, read

LEMMA CommitKeeps ==
    ASSUME IInv, NEW r \in Requests, Commit(r)
    PROVE  IInv'
<1> DEFINE new == req[r].new
           read == req[r].read
<1>1. /\ row.st # "none" /\ row' \in Row /\ row'.st = row.st /\ row'.due \in Dates
      /\ stale' = (stale \/ r \in overtaken)
      /\ Preserves(new, read)
      /\ r \notin overtaken => row = read /\ row' = new
      /\ ~stale' => LoggedBefore(today, new.due)
      /\ req[r].op = "confirm" => Settles(new, read, today)
      /\ new.due \in Int
  BY CommitIs, DaysSteady DEF Preserves
<1>2. /\ logged' = IF req[r].op = "confirm"
                   THEN [logged EXCEPT ![read.due] = IF @ < 2 THEN @ + 1 ELSE 2]
                   ELSE logged
      /\ Done(r) /\ today' = today
      /\ logged \in [Calendar -> 0 .. 2] /\ stale \in BOOLEAN
  BY DEF Commit, IInv, TypeOK
<1> HIDE DEF new, read
<1>3. logged' \in [Calendar -> 0 .. 2]
  <2> DEFINE more == IF logged[read.due] < 2 THEN logged[read.due] + 1 ELSE 2
  <2>1. read.due \in Calendar => more \in 0 .. 2
    BY <1>2
  <2>2. logged' = IF req[r].op = "confirm" THEN [logged EXCEPT ![read.due] = more] ELSE logged
    BY <1>2
  <2> HIDE DEF more
  <2> QED
    BY <1>2, <2>1, <2>2
<1>4. stale' \in BOOLEAN /\ (stale => stale')
  BY <1>1, <1>2
<1>5. row' = row /\ ~stale' => logged' = logged
  <2> SUFFICES ASSUME row' = row, ~stale', req[r].op = "confirm"
               PROVE  FALSE
    BY <1>2
  <2>1. row' = new /\ row = read
    BY <1>1
  <2>2. new.due > read.due /\ new.due \in Int
    BY <1>1 DEF Settles
  <2>3. new.due = read.due
    BY <2>1
  <2> QED
    BY <2>2, <2>3
<1>6. RowInv'
  <2>1. ASSUME ~stale', row'.st = "here"
        PROVE  Sound(row')
    <3>1. ~stale /\ row = read /\ row' = new /\ row.st = "here"
      BY <1>1, <2>1
    <3>2. Sound(row)
      BY <3>1 DEF IInv, RowInv
    <3> QED
      BY <1>1, <3>1, <3>2 DEF Preserves
  <2>2. ASSUME ~stale'
        PROVE  /\ LoggedBefore(today, row.due)' /\ \A d \in Calendar : logged'[d] <= 1
    <3>1. /\ ~stale /\ row = read /\ row' = new
          /\ LoggedBefore(today, new.due)
          /\ LoggedBefore(today, row.due)
          /\ \A d \in Calendar : logged[d] <= 1
      BY <1>1, <2>2 DEF IInv, RowInv
    <3>2. CASE req[r].op # "confirm"
      BY <1>2, <3>1, <3>2 DEF LoggedBefore
    <3>3. CASE req[r].op = "confirm"
      <4>1. read.due <= today /\ new.due > read.due /\ read.due \in Int
        <5>1. row.due \in Dates
          BY <1>1 DEF IInv, RowInv
        <5> QED
          BY <1>1, <3>1, <3>3, <5>1, DaysSteady DEF Settles
      <4>2. ASSUME NEW d \in Calendar
            PROVE  /\ logged'[d] <= 1
                   /\ logged'[d] > 0 => d <= today /\ d < new.due
        <5>1. CASE d = read.due
          <6>1. ~(logged[d] > 0)
            BY <3>1, <4>1, <5>1 DEF LoggedBefore
          <6>2. logged[d] = 0
            BY <1>2, <6>1
          <6>3. logged'[d] = 1
            BY <1>2, <3>3, <5>1, <6>2
          <6> QED
            BY <1>1, <4>1, <5>1, <6>3
        <5>2. CASE d # read.due
          <6>1. logged'[d] = logged[d]
            BY <1>2, <3>3, <5>2
          <6> QED
            BY <3>1, <6>1 DEF LoggedBefore
        <5> QED
          BY <5>1, <5>2
      <4> QED
        BY <1>2, <3>1, <4>2 DEF LoggedBefore
    <3> QED
      BY <3>2, <3>3
  <2> QED
    BY <1>1, <2>1, <2>2 DEF RowInv
<1> QED
  BY <1>1, <1>2, <1>3, <1>4, <1>5, <1>6, DoneKeeps

----------------------------------------------------------------------------
LEMMA StepKeeps ==
    ASSUME IInv, [Next]_vars
    PROVE  IInv'
<1>1. CASE \E c \in Configs : Create(c)
  BY <1>1, CreateKeeps
<1>2. CASE Midnight
  BY <1>2, MidnightKeeps
<1>3. CASE UNCHANGED vars
  BY <1>3 DEF vars, IInv, TypeOK, RowInv, ReqInv, Untouched, LoggedBefore
<1>4. ASSUME NEW r \in Requests,
             \/ PayRead(r, "confirm") \/ PayRead(r, "dismiss")
             \/ \E upd \in Updates : UpdateRead(r, upd)
             \/ DeleteRead(r)
             \/ Commit(r) \/ CommitDelete(r) \/ Fail(r)
      PROVE  IInv'
  BY <1>4, PayReadKeeps, UpdateReadKeeps, DeleteReadKeeps, CommitKeeps,
     CommitDeleteKeeps, FailKeeps
<1> QED
  BY <1>1, <1>2, <1>3, <1>4 DEF Next

LEMMA Invariant == Spec => []IInv
<1>1. IInv /\ [Next]_vars => IInv'
  BY StepKeeps
<1> QED
  BY InitInv, <1>1, PTL DEF Spec

(***************************************************************************)
(* Every column stays within what the schemas accept, and every stored     *)
(* date within the calendar, whatever the requests interleave.             *)
(***************************************************************************)
THEOREM TypeCorrect == Spec => []TypeOK
<1>1. IInv => TypeOK
  BY DEF IInv
<1> QED
  BY Invariant, <1>1, PTL

(***************************************************************************)
(* confirm_payment (notifications.py:47-75) logs each payment once, as     *)
(* long as no request commits after it was overtaken.                      *)
(***************************************************************************)
THEOREM PaidOnce == Spec => []NoDoubleExpense
<1>1. IInv => NoDoubleExpense
  BY DEF IInv, RowInv, NoDoubleExpense
<1> QED
  BY Invariant, <1>1, PTL

(***************************************************************************)
(* update_subscription (subscriptions.py:97-111) and the loop of           *)
(* advance_due_date keep the stored date one of those that the stored      *)
(* billing fields ask for.                                                 *)
(***************************************************************************)
THEOREM DateFollowsFields == Spec => []DueFollowsConfig
<1>1. IInv => DueFollowsConfig
  BY DEF IInv, RowInv, DueFollowsConfig, Sound
<1> QED
  BY Invariant, <1>1, PTL

(***************************************************************************)
(* An expense is logged for a subscription that is still there, and by a   *)
(* confirmation nothing has overtaken only when it is active and due; the  *)
(* date then moves on in the same transaction (notifications.py:57-74).    *)
(***************************************************************************)
THEOREM LoggedWhenDue == Spec => ExpenseOnlyWhenDue
<1> DEFINE Step == logged' # logged =>
                       /\ row.st = "here"
                       /\ ~stale' => row.active /\ row.due <= today /\ row'.due > row.due
<1>1. ASSUME IInv, [Next]_vars
      PROVE  [Step]_vars
  <2>1. ASSUME NEW r \in Requests, Commit(r)
        PROVE  Step
    <3>1. req[r].op # "confirm" => logged' = logged
      BY <2>1 DEF Commit
    <3> QED
      BY <1>1, <2>1, <3>1, CommitIs DEF Settles
  <2>2. CASE ~\E r \in Requests : Commit(r)
    <3>1. logged' = logged
      <4>1. CASE \E c \in Configs : Create(c)
        BY <4>1 DEF Create
      <4>2. CASE Midnight
        BY <4>2 DEF Midnight
      <4>3. CASE UNCHANGED vars
        BY <4>3 DEF vars
      <4>4. ASSUME NEW r \in Requests,
                   \/ PayRead(r, "confirm") \/ PayRead(r, "dismiss")
                   \/ \E upd \in Updates : UpdateRead(r, upd)
                   \/ DeleteRead(r) \/ CommitDelete(r) \/ Fail(r)
            PROVE  logged' = logged
        BY <4>4 DEF PayRead, UpdateRead, DeleteRead, Begin, CommitDelete, Fail
      <4> QED
        BY <1>1, <2>2, <4>1, <4>2, <4>3, <4>4 DEF Next
    <3> QED
      BY <3>1
  <2> QED
    BY <2>1, <2>2
<1> QED
  BY Invariant, <1>1, PTL DEF Spec, ExpenseOnlyWhenDue

=============================================================================
