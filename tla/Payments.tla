------------------------------ MODULE Payments ------------------------------
(***************************************************************************)
(* One subscription of one user under the handlers that change it:         *)
(* create, PATCH and DELETE (app/routers/subscriptions.py), confirm and    *)
(* dismiss (app/routers/notifications.py), and the expenses that confirm   *)
(* logs in transactions.                                                   *)
(*                                                                         *)
(* Every handler SELECTs the row, computes without awaiting, and COMMITs.  *)
(* Requests interleave between the two.  The SELECT takes no lock, and the *)
(* ORM's UPDATE, by primary key, writes the columns whose value it changed *)
(* with respect to what the SELECT had read, and no others.                *)
(*                                                                         *)
(* Columns that no property is about (name, category, amount, ...) are     *)
(* left out; a COMMIT that fails because of one of them is a Fail.         *)
(***************************************************************************)
EXTENDS DueDates

CONSTANTS Requests,  \* how many requests the server works on at once
          Configs,   \* billing fields that a create may carry
          Updates,   \* bodies of a PATCH: the fields set, with their values
          Today0,    \* the first day
          Days       \* the days on which anything happens, after Today0

\* What the columns may hold (models/subscription.py, schemas/subscriptions.py).
Columns == [billing |-> Billings, frequency |-> Frequencies,
            day |-> 1 .. 31 \cup {None}, month |-> 1 .. 12 \cup {None},
            active |-> BOOLEAN]

\* A body that sets a column to NULL that may not be is left out: its COMMIT
\* fails.
ASSUME PaymentsAssumption ==
    /\ \A cfg \in Configs : DOMAIN cfg = DOMAIN Columns \ {"active"} /\ Billed(cfg)
    /\ \A upd \in Updates :
          DOMAIN upd \subseteq DOMAIN Columns /\ \A f \in DOMAIN upd : upd[f] \in Columns[f]
    /\ Days \cup {Today0} \subseteq Steady
    /\ \A d \in Days : d > Today0

\* Mutant: an anchor changed by itself is not noticed.
BillingFields_NoAnchor == {"billing", "frequency", "month"}
BillingFields == {"billing", "frequency", "day", "month"}
Calendar == UNION {Today0 .. d : d \in Days}

VARIABLES
    today,      \* date.today()
    row,        \* the row of subscriptions, with its state "st"
    req,        \* the requests being worked on
    logged,     \* logged[d]: expenses logged with date d (2: two or more)
    overtaken,  \* requests since whose SELECT another has changed the row
    stale       \* some COMMIT was made by an overtaken request

vars == <<today, row, req, logged, overtaken, stale>>

NoRow == [st |-> "none", active |-> FALSE, due |-> 0, billing |-> "periodic",
          frequency |-> "weekly", day |-> None, month |-> None]

Idle == [op |-> "idle", read |-> NoRow, new |-> NoRow]

Row == [st : {"none", "here", "deleted"}, active : BOOLEAN, due : Dates \cup {0},
        billing : Billings, frequency : Frequencies,
        day : 1 .. 31 \cup {None}, month : 1 .. 12 \cup {None}]

TypeOK ==
    /\ today \in Days \cup {Today0}
    /\ row \in Row
    /\ req \in [Requests -> [op : {"idle", "confirm", "dismiss", "update", "delete"},
                             read : Row, new : Row]]
    /\ logged \in [Calendar -> 0 .. 2]
    /\ overtaken \subseteq Requests
    /\ stale \in BOOLEAN

Init ==
    /\ today = Today0
    /\ row = NoRow
    /\ req = [r \in Requests |-> Idle]
    /\ logged = [d \in Calendar |-> 0]
    /\ overtaken = {}
    /\ stale = FALSE

----------------------------------------------------------------------------
\* Mutant: model_dump without exclude_unset, every field not given is None.
Override_Unset(old, upd) ==
    [f \in DOMAIN old |->
        IF f \in DOMAIN upd THEN upd[f]
        ELSE IF f \in BillingFields \cup {"active"} THEN None ELSE old[f]]
Override(old, upd) ==
    [f \in DOMAIN old |-> IF f \in DOMAIN upd THEN upd[f] ELSE old[f]]

\* POST /subscriptions: the schema accepts only Computable billing fields.
Create(cfg) ==
    /\ row.st = "none"
    /\ row' = Override([NoRow EXCEPT !.st = "here", !.active = TRUE,
                          !.due = CalculateNextDueDate(cfg, today)], cfg)
    /\ UNCHANGED <<today, req, logged, overtaken, stale>>

\* A handler has read the row and decided what to write.
Begin(r, op, new) ==
    /\ req[r] = Idle
    /\ row.st = "here"
    /\ req' = [req EXCEPT ![r] = [op |-> op, read |-> row, new |-> new]]
    /\ UNCHANGED <<today, row, logged, overtaken, stale>>

\* The billing fields allow no date: ValueError, or None compared with a day.
Advanced == [row EXCEPT !.due = AdvanceDueDate(row, row.due, today)]
PayRead(r, op) ==
    /\ row.active
    /\ row.due <= today
    /\ Computable(row)
    /\ Begin(r, op, Advanced)

\* PATCH: fields that were set are assigned; the due date is calculated anew
\* from today if a billing field is among them; 422 if that is not possible.
UpdateRead(r, upd) ==
    LET patched == Override(row, upd)
        rebill  == BillingFields \cap DOMAIN upd # {}
    IN /\ rebill => Computable(patched)
       /\ Begin(r, "update",
                IF rebill
                THEN [patched EXCEPT !.due = CalculateNextDueDate(patched, today)]
                ELSE patched)

DeleteRead(r) == Begin(r, "delete", [row EXCEPT !.st = "deleted"])

\* The columns that the unit of work found changed.
Written(r) == {f \in DOMAIN row : req[r].new[f] # req[r].read[f]}

\* A request ends; if it changed the row, it has overtaken those that go on.
Done(r) ==
    /\ req' = [req EXCEPT ![r] = Idle]
    /\ overtaken' = (IF row' = row THEN overtaken
                                   ELSE {q \in Requests : req[q] # Idle}) \ {r}

\* The UPDATE must find the row: StaleDataError.  Mutant: nobody looks.
Found_Unchecked(r) == TRUE
Found(r) == Written(r) # {} => row.st = "here"

\* UPDATE ... WHERE id = ... of the columns changed, and confirm's INSERT.
Commit(r) ==
    /\ req[r].op \in {"confirm", "dismiss", "update"}
    /\ Found(r)
    /\ row' = [f \in DOMAIN row |-> IF f \in Written(r) THEN req[r].new[f] ELSE row[f]]
    /\ logged' = IF req[r].op = "confirm"
                 THEN [logged EXCEPT ![req[r].read.due] = IF @ < 2 THEN @ + 1 ELSE 2]
                 ELSE logged
    /\ stale' = (stale \/ r \in overtaken)
    /\ Done(r)
    /\ UNCHANGED today

\* A DELETE that finds no row is no error.
CommitDelete(r) ==
    /\ req[r].op = "delete"
    /\ row' = [row EXCEPT !.st = "deleted"]
    /\ Done(r)
    /\ UNCHANGED <<today, logged, stale>>

\* The request ends before its COMMIT: a 500 (StaleDataError, a constraint, a
\* database error) or a crash.  Nothing it wrote remains.
Fail(r) ==
    /\ req[r] # Idle
    /\ UNCHANGED <<today, row, logged, stale>>
    /\ Done(r)

\* The clock moves on to the next day of interest, or past it.
Midnight ==
    /\ today' \in {d \in Days : d > today}
    /\ UNCHANGED <<row, req, logged, overtaken, stale>>

Next ==
    \/ \E cfg \in Configs : Create(cfg)
    \/ \E r \in Requests :
         \/ PayRead(r, "confirm") \/ PayRead(r, "dismiss")
         \/ \E upd \in Updates : UpdateRead(r, upd)
         \/ DeleteRead(r)
         \/ Commit(r) \/ CommitDelete(r) \/ Fail(r)
    \/ Midnight

Spec == Init /\ [][Next]_vars

----------------------------------------------------------------------------
(***************************************************************************)
(* No payment is logged twice (notifications.py:57, 61-72): as long as no  *)
(* request writes from a read that another has overtaken, every confirm    *)
(* and every dismissal, and every change of the billing fields, leaves a   *)
(* due date that is later than all the payments logged so far.             *)
(***************************************************************************)
NoDoubleExpense == ~stale => \A d \in Calendar : logged[d] <= 1

(***************************************************************************)
(* next_due_date follows the billing fields (subscriptions.py:101-111):    *)
(* without overtaken requests, whatever fields are changed in whatever     *)
(* order, the stored fields can be computed with, and the stored date is   *)
(* one of theirs.                                                          *)
(***************************************************************************)
DueFollowsConfig ==
    ~stale /\ row.st = "here" =>
        /\ Computable(row)
        /\ row.billing = "fixed_date" /\ Meaningful(row) => Matches(row, row.due)

(***************************************************************************)
(* No expense appears for a subscription that is deleted, even when the    *)
(* confirmation had read it before (the INSERT and the UPDATE of confirm   *)
(* are one transaction, notifications.py:69-74); and, for a confirmation   *)
(* nothing has overtaken, only when it is active and due.                  *)
(***************************************************************************)
ExpenseOnlyWhenDue ==
    [][logged' # logged =>
         /\ row.st = "here"
         /\ ~stale' => row.active /\ row.due <= today /\ row'.due > row.due]_vars

(***************************************************************************)
(* "Confirms payment - creates an expense transaction and advances         *)
(* next_due_date" (notifications.py:45): each expense that is logged       *)
(* advances the date.                                                      *)
(***************************************************************************)
ExpenseAdvancesDue == [][logged' # logged => row'.due # row.due]_vars

=============================================================================
