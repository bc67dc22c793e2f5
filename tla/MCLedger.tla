------------------------------ MODULE MCLedger ------------------------------
(***************************************************************************)
(* Three transactions, which can be on three days, and a goal; two         *)
(* requests.  PATCHes of t1 are of every kind: of the type alone, the      *)
(* category alone, both, an explicit null, and a category of the wrong     *)
(* type; those of t2 move it in the list.  The dates let every transaction *)
(* be added before, between and after the others.                          *)
(***************************************************************************)
EXTENDS Ledger, TLC

CONSTANTS t1, t2, t3, g1

MCTransactions == {t1, t2, t3}
MCGoals == {g1}

Spent(date) == [type |-> "expense", category |-> "other", date |-> date]
MCBodies ==
    (t1 :> {Spent(2)}) @@ (t2 :> {Spent(1), Spent(2), Spent(3)}) @@ (t3 :> {Spent(3)})
    @@ (g1 :> {[category |-> "dining", limit |-> 1]})
MCPatches ==
    (t1 :> {[type |-> "income"],
            [category |-> "dining"],
            [type |-> "income", category |-> "gift"],
            [category |-> Null]})
    @@ (t2 :> {[date |-> 1]})
    @@ (t3 :> {})
    @@ (g1 :> {[limit |-> 2], [limit |-> Null]})

Sym == Permutations(Requests)
=============================================================================
