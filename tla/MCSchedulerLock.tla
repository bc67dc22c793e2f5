-------------------------- MODULE MCSchedulerLock --------------------------
(***************************************************************************)
(* A small instance of SchedulerLock: two processes whose clocks are two   *)
(* ticks apart, one job with one slot in a cycle of three ticks, and a     *)
(* lease short enough that a run outlives it and meets the next slot's.    *)
(***************************************************************************)
EXTENDS SchedulerLock, TLC

CONSTANTS i1, i2, cleanup

MCInstances == {i1, i2}
MCJobs == {cleanup}
MCSlots == (cleanup :> {0})
MCSkew == (i1 :> 1) @@ (i2 :> -1)
============================================================================
