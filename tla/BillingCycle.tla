---------------------------- MODULE BillingCycle ----------------------------
(***************************************************************************)
(* The due dates that one subscription goes through: calculated from the   *)
(* day it is created, then advanced past the day on which each payment is  *)
(* confirmed or dismissed, any time after it fell due.                     *)
(***************************************************************************)
EXTENDS DueDates

CONSTANTS Configs,    \* billing fields: [billing, frequency, day, month]
          FirstDays,  \* days on which a subscription may be created
          Delays,     \* how many days late a payment may be settled
          Horizon     \* bound on due dates: no payment is settled after it

ASSUME CycleAssumption ==
    /\ \A cfg \in Configs : Billed(cfg)
    /\ FirstDays \subseteq FirstDate + 31 .. YearEnd(LastYear)
    /\ Delays \subseteq Nat
    /\ Horizon \in Int /\ Horizon <= YearEnd(LastYear)

VARIABLES cfg,    \* the billing fields
          start,  \* the day the subscription was created
          after,  \* the day its due date had to be later than
          due     \* next_due_date

vars == <<cfg, start, after, due>>

\* create_subscription: next_due_date is calculated from today.
Init ==
    /\ cfg \in Configs
    /\ start \in FirstDays
    /\ after = start
    /\ due = CalculateNextDueDate(cfg, start)

\* confirm_payment and dismiss_payment, on a day when the payment is due.
Settle(delay) ==
    /\ due + delay <= Horizon
    /\ after' = due + delay
    /\ due' = AdvanceDueDate(cfg, due, after')
    /\ UNCHANGED <<cfg, start>>

Next == \E delay \in Delays : Settle(delay)

Spec == Init /\ [][Next]_vars

----------------------------------------------------------------------------
(***************************************************************************)
(* However late the payments are settled, next_due_date is the FIRST date  *)
(* that matches the anchor after the day of the settlement: it never       *)
(* drifts from the anchor through short months, no cycle is skipped, none  *)
(* is charged twice.                                                       *)
(***************************************************************************)
DueIsNextMatch ==
    cfg.billing = "fixed_date" /\ Meaningful(cfg) =>
        /\ due > after
        /\ Matches(cfg, due)
        /\ \A n \in after + 1 .. due - 1 : ~Matches(cfg, n)

MonthNumber(n) == 12 * Year(n) + Month(n)

(***************************************************************************)
(* A periodic subscription has no anchor, and each due date is computed    *)
(* from the one before.  It still is due in every cycle: never more than   *)
(* one cycle after the settlement, and a day of the month that is clipped  *)
(* in short months, one after another, never falls below the 28th.         *)
(***************************************************************************)
PeriodicKeepsCycle ==
    cfg.billing = "periodic" =>
        /\ due > after
        /\ CASE cfg.frequency = "weekly"  -> due - after <= 7 /\ (due - start) % 7 = 0
             [] cfg.frequency = "monthly" ->
                   /\ MonthNumber(due) <= MonthNumber(after) + 1
                   /\ Day(due) \in Least(Day(start), 28) .. Day(start)
             [] cfg.frequency = "yearly"  ->
                   /\ Year(due) <= Year(after) + 1
                   /\ Month(due) = Month(start)
                   /\ Day(due) \in Least(Day(start), 28) .. Day(start)

(***************************************************************************)
(* The window that goals sum up (goals.py:18-24) is the calendar month of  *)
(* today, in December as well: an expense, which confirm_payment dates     *)
(* with the due date and not the day of the payment, counts toward today's *)
(* goal if and only if that date is in this month.                         *)
(***************************************************************************)
SpendIsThisMonths ==
    LET first == after - Day(after) + 1
        last  == first + LastDay(Year(after), Month(after)) - 1
    IN \A date \in {first - 1, first, after, last, last + 1, due} :
         date \in CurrentMonth(after) <=> MonthNumber(date) = MonthNumber(after)

=============================================================================
