--------------------------- MODULE MCBillingCycle ---------------------------
(***************************************************************************)
(* Every kind of subscription, created on the first, fifteenth or any of   *)
(* the last days of a month from January 2023 to February 2024 (a leap     *)
(* year): anchors on every weekday the schema lets through, on the days    *)
(* that some months do not have, in February and at the ends of the year.  *)
(***************************************************************************)
EXTENDS BillingCycle

Fixed(frequency, day, month) ==
    [billing |-> "fixed_date", frequency |-> frequency, day |-> day, month |-> month]

Periodic == {[billing |-> "periodic", frequency |-> f, day |-> None, month |-> None] :
                f \in Frequencies}

MCConfigs ==
    Periodic
    \cup {Fixed("weekly", day, None) : day \in 1 .. 6}
    \cup {Fixed("monthly", day, None) : day \in {1, 15, 28, 29, 30, 31}}
    \cup {Fixed("yearly", 29, 2), Fixed("yearly", 31, 12), Fixed("yearly", 1, 1),
          Fixed("yearly", 31, 4)}

MCFirstDays == {n \in Date(2023, 1, 1) .. Date(2024, 2, 29) :
                   Day(n) \in {1, 15} \cup 28 .. 31}
MCHorizon   == Date(2025, 3, 31)
MCDelays    == {0, 31, 366}
=============================================================================
