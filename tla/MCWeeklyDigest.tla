--------------------------- MODULE MCWeeklyDigest ---------------------------
(***************************************************************************)
(* Two instances with one job, the digest, and one user; a week of two     *)
(* days, on the first of which the digest is due; due dates up to a week   *)
(* ahead, so that a date may be met at both edges of the window; a run     *)
(* that lasts into the next day.  A tick is a day, so the clocks agree.    *)
(***************************************************************************)
EXTENDS WeeklyDigest, TLC

CONSTANTS i1, i2, digest

MCInstances == {i1, i2}
MCJobs == {digest}
MCSlots == (digest :> {0})
NoSkew == (i1 :> 0) @@ (i2 :> 0)
=============================================================================
