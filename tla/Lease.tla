------------------------------- MODULE Lease -------------------------------
(***************************************************************************)
(* What a lock with a time to live promises to the runs that ask for it    *)
(* (the docstring of DistributedLock in app/utils/lock.py), with no table, *)
(* sweep or holder_id: a lease is granted to a run when no other run of    *)
(* the job has time left on its own, it runs out, and it may end before,   *)
(* for several runs at once when a process dies.                           *)
(***************************************************************************)
EXTENDS Integers

CONSTANTS Runs,   \* the runs that may ask for a lease
          JobOf   \* JobOf[r]: the job that r is a run of

VARIABLE rest     \* rest[r]: the time left of r's lease, -1 if it has none

Rivals(r) == {s \in Runs \ {r} : JobOf[s] = JobOf[r]}

LeaseInit == rest = [r \in Runs |-> -1]

Grant(r) ==
    /\ rest[r] = -1
    /\ \A s \in Rivals(r) : rest[s] = -1
    /\ rest'[r] \in Nat
    /\ rest' = [rest EXCEPT ![r] = rest'[r]]

End(over) == rest' = [r \in Runs |-> IF r \in over THEN -1 ELSE rest[r]]

Pass == rest' = [r \in Runs |-> IF rest[r] >= 0 THEN rest[r] - 1 ELSE -1]

LeaseNext ==
    \/ \E r \in Runs : Grant(r)
    \/ \E over \in SUBSET Runs : End(over)
    \/ Pass

LeaseSpec == LeaseInit /\ [][LeaseNext]_rest

============================================================================
