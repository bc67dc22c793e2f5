----------------------------- MODULE MCPayments -----------------------------
(***************************************************************************)
(* Small instances of Payments, across the end of a February that has 29   *)
(* days: a Wednesday, the Thursday on which the weekly subscription falls  *)
(* due, the day after and the next Thursday.                               *)
(***************************************************************************)
EXTENDS Payments, TLC

Fixed(frequency, day) ==
    [billing |-> "fixed_date", frequency |-> frequency, day |-> day, month |-> None]

\* A periodic subscription may carry an anchor, which it does not use.
MCConfigs == {Fixed("weekly", 3), Fixed("monthly", 31),
              [Fixed("weekly", 3) EXCEPT !.billing = "periodic"]}

MCUpdates == {[billing |-> "fixed_date"], [billing |-> "periodic"],
              [day |-> None], [day |-> 4],
              [active |-> FALSE], [active |-> TRUE]}

MCToday0    == Date(2024, 2, 28)
MCDays      == {Date(2024, 2, 29), Date(2024, 3, 1), Date(2024, 3, 7)}
Sym == Permutations(Requests)
=============================================================================
