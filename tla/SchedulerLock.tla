--------------------------- MODULE SchedulerLock ---------------------------
(***************************************************************************)
(* The database-backed lock of app/utils/lock.py and the two scheduled     *)
(* jobs that take it (run_cleanup and run_digest in app/main.py).          *)
(*                                                                         *)
(* Every server instance runs its own APScheduler, so in every cron slot   *)
(* each instance starts its own run of the job.  A run sweeps expired rows *)
(* out of scheduler_locks, inserts its row (ON CONFLICT DO NOTHING), does  *)
(* the job and deletes its row.  Each of these is a transaction of its     *)
(* own, hence an action of its own here.                                   *)
(*                                                                         *)
(* Time.  A lease is kept as the time that is LEFT of it, on the           *)
(* database's clock, and stops counting at -1 ("expires_at < now()" holds  *)
(* from then on and for ever); the wall clock is kept as its phase in the  *)
(* schedule's period.  The state space is finite without a bound on time.  *)
(*                                                                         *)
(* holder_id is a uuid4 made afresh for every run.  A row is recorded with *)
(* the instance whose CURRENT run inserted it, and with Orphan once that   *)
(* run is over: no later run can present that uuid again.                  *)
(***************************************************************************)
EXTENDS Integers, FiniteSets

CONSTANTS Instances,  \* the server processes, each with its own scheduler
          Jobs,       \* the job ids ("cleanup_old_insights", "weekly_digest")
          TTL,        \* ttl_seconds, in ticks
          Skew,       \* Skew[i]: how far i's clock is ahead of the database's
          Period,     \* length of the schedule's cycle, in ticks
          Slots,      \* Slots[j]: the phases at which the cron trigger of j fires
          AwareTaken, \* does the driver take the aware expires_at of acquire for the
                      \* naive column?  asyncpg 0.31.0, which is pinned, does not
          Orphan      \* holder of a row whose run is over

ASSUME ConstAssumption ==
    /\ Instances # {}
    /\ TTL \in Nat
    /\ Skew \in [Instances -> Int]
    /\ Period \in Nat \ {0}
    /\ Slots \in [Jobs -> SUBSET (0 .. Period - 1)]
    /\ AwareTaken \in BOOLEAN
    /\ Orphan \notin Instances

Workers == Instances \X Jobs    \* max_instances = 1: one run per job and process
inst(w) == w[1]
job(w)  == w[2]

Row   == [held : BOOLEAN, by : Instances \cup {Orphan}, left : Int]
NoRow == [held |-> FALSE, by |-> Orphan, left |-> -1]

\* Mutants of Expired: a row goes while it has time left, or never goes.
Expired_Early(r) == r.held /\ r.left <= 0
Expired_Never(r) == r.held /\ r.left < -1
Expired(r) == r.held /\ r.left < 0

VARIABLES
    row,    \* row[j]: the row of scheduler_locks whose primary key is j
    pc,     \* pc[w]: where the current run of w is
    lease,  \* lease[w]: what is left of the lease that w's run inserted
    fired,  \* fired[w]: w's trigger has already fired in this tick
    up,     \* up[i]: the process is alive
    phase   \* the database's clock, modulo Period

vars == <<row, pc, lease, fired, up, phase>>

PCs == {"idle", "sweeping", "inserting", "running", "releasing", "aborted"}

InBody(w) == pc[w] \in {"running", "releasing", "aborted"}

\* A row names a run that is past acquire, or nobody that is still there.
HeldByItsRun ==
    \A w \in Workers :
        row[job(w)].held /\ row[job(w)].by = inst(w) => InBody(w)

TypeOK ==
    /\ row \in [Jobs -> Row]
    /\ pc \in [Workers -> PCs]
    /\ lease \in [Workers -> Int]
    /\ fired \in [Workers -> BOOLEAN]
    /\ up \in [Instances -> BOOLEAN]
    /\ phase \in 0 .. Period - 1
    /\ HeldByItsRun

Init ==
    /\ row = [j \in Jobs |-> NoRow]
    /\ pc = [w \in Workers |-> "idle"]
    /\ lease = [w \in Workers |-> -1]
    /\ fired = [w \in Workers |-> FALSE]
    /\ up = [i \in Instances |-> TRUE]
    /\ phase \in 0 .. Period - 1

----------------------------------------------------------------------------
Goto(w, where) == pc' = [pc EXCEPT ![w] = where]

\* A run is over: a row it leaves behind has a holder_id nobody will use again.
\* Mutant: one holder_id for every run of a process.
Abandoned_SameHolder(r, i) == r
Abandoned(r, i) == IF r.held /\ r.by = i THEN [r EXCEPT !.by = Orphan] ELSE r

\* The cron trigger of w starts a run: unless the previous one is still busy.
Fire(w) ==
    /\ up[inst(w)]
    /\ pc[w] = "idle"
    /\ ~fired[w]
    /\ (phase + Skew[inst(w)]) % Period \in Slots[job(w)]
    /\ Goto(w, "sweeping")
    /\ fired' = [fired EXCEPT ![w] = TRUE]
    /\ UNCHANGED <<row, lease, up, phase>>

\* expires_at is the instance's clock plus the TTL, read between the sweep and
\* the INSERT: on the database's clock the lease lasts TTL plus the instance's
\* skew.  A skew below -TTL makes a row that is expired from the start.
NewLease(i) == IF TTL + Skew[i] >= 0 THEN TTL + Skew[i] ELSE -1

\* _cleanup_expired: every expired row goes, whichever job it is for.
SweepOk(w) ==
    /\ pc[w] = "sweeping"
    /\ row' = [j \in Jobs |-> IF Expired(row[j]) THEN NoRow ELSE row[j]]
    /\ lease' = [lease EXCEPT ![w] = NewLease(inst(w))]
    /\ Goto(w, "inserting")
    /\ UNCHANGED <<fired, up, phase>>

\* _cleanup_expired swallows every error and acquire goes on to the INSERT.
SweepErr(w) ==
    /\ pc[w] = "sweeping"
    /\ lease' = [lease EXCEPT ![w] = NewLease(inst(w))]
    /\ Goto(w, "inserting")
    /\ UNCHANGED <<row, fired, up, phase>>

\* The row that w's INSERT adds: expires_at was fixed when the sweep was over.
Inserted(w, holder) ==
    [row EXCEPT ![job(w)] = [held |-> TRUE, by |-> holder, left |-> lease[w]]]

\* The primary key decides.  Mutant: an upsert takes the row over.
Free_Always(j) == TRUE
Free(j) == ~row[j].held

\* The column has no time zone (migration 2cfb796b6af6:27) and the parameter is
\* aware and untyped: a driver that refuses it never sends the INSERT at all.
InsertOk(w) ==
    /\ pc[w] = "inserting"
    /\ AwareTaken
    /\ Free(job(w))
    /\ row' = Inserted(w, inst(w))
    /\ Goto(w, "running")
    /\ UNCHANGED <<lease, fired, up, phase>>

\* The run is over before it began: acquire returns False.
GiveUp(w) ==
    /\ Goto(w, "idle")
    /\ lease' = [lease EXCEPT ![w] = -1]
    /\ UNCHANGED <<fired, up, phase>>

\* ON CONFLICT DO NOTHING: rowcount 0, whether or not the row has expired.
InsertConflict(w) ==
    /\ pc[w] = "inserting"
    /\ AwareTaken
    /\ ~Free(job(w))
    /\ GiveUp(w)
    /\ UNCHANGED row

\* Any exception is swallowed after a rollback: the driver's refusal as well.
InsertErr(w) ==
    /\ pc[w] = "inserting"
    /\ GiveUp(w)
    /\ UNCHANGED row

\* The COMMIT took effect and its acknowledgement was lost: acquire returns
\* False all the same, and nobody will delete the row it has inserted.
InsertAckLost(w) ==
    /\ pc[w] = "inserting"
    /\ AwareTaken
    /\ Free(job(w))
    /\ row' = Inserted(w, Orphan)
    /\ GiveUp(w)

\* The job body returns, or raises with the session still usable: the
\* finally clause goes on to release.
BodyEnds(w) ==
    /\ pc[w] = "running"
    /\ Goto(w, "releasing")
    /\ UNCHANGED <<row, lease, fired, up, phase>>

\* A statement of the body fails: the transaction of the shared session is
\* aborted and every later statement on it raises until a rollback.
BodyFailsInDb(w) ==
    /\ pc[w] = "running"
    /\ Goto(w, "aborted")
    /\ UNCHANGED <<row, lease, fired, up, phase>>

\* DELETE ... WHERE job_id AND holder_id: only its own row, if still there.
\* Mutant: WHERE job_id.
Deleted_ByJob(r, i) == NoRow
Deleted(r, i) == IF r.held /\ r.by = i THEN NoRow ELSE r

ReleaseOk(w) ==
    /\ pc[w] = "releasing"
    /\ row' = [row EXCEPT ![job(w)] = Deleted(@, inst(w))]
    /\ lease' = [lease EXCEPT ![w] = -1]
    /\ Goto(w, "idle")
    /\ UNCHANGED <<fired, up, phase>>

\* release swallows the error; the row stays until it expires.
ReleaseErr(w) ==
    /\ pc[w] \in {"releasing", "aborted"}
    /\ row' = [row EXCEPT ![job(w)] = Abandoned(@, inst(w))]
    /\ lease' = [lease EXCEPT ![w] = -1]
    /\ Goto(w, "idle")
    /\ UNCHANGED <<fired, up, phase>>

\* The process dies (or is cancelled by shutdown) wherever its runs are.
Crash(i) ==
    /\ up[i]
    /\ up' = [up EXCEPT ![i] = FALSE]
    /\ pc' = [w \in Workers |-> IF inst(w) = i THEN "idle" ELSE pc[w]]
    /\ lease' = [w \in Workers |-> IF inst(w) = i THEN -1 ELSE lease[w]]
    /\ row' = [j \in Jobs |-> Abandoned(row[j], i)]
    /\ UNCHANGED <<fired, phase>>

Restart(i) ==
    /\ ~up[i]
    /\ up' = [up EXCEPT ![i] = TRUE]
    /\ UNCHANGED <<row, pc, lease, fired, phase>>

\* A row keeps its expires_at, and the clock goes on.
Less(n) == IF n >= 0 THEN n - 1 ELSE -1

NextPhase == (phase + 1) % Period

Tick ==
    /\ phase' = NextPhase
    /\ row' = [j \in Jobs |-> [row[j] EXCEPT !.left = Less(@)]]
    /\ lease' = [w \in Workers |-> Less(lease[w])]
    /\ fired' = [w \in Workers |-> FALSE]
    /\ UNCHANGED <<pc, up>>

Step(w) ==
    \/ Fire(w)
    \/ SweepOk(w) \/ SweepErr(w)
    \/ InsertOk(w) \/ InsertConflict(w) \/ InsertErr(w) \/ InsertAckLost(w)
    \/ BodyEnds(w) \/ BodyFailsInDb(w)
    \/ ReleaseOk(w) \/ ReleaseErr(w)

Next ==
    \/ \E w \in Workers : Step(w)
    \/ \E i \in Instances : Crash(i) \/ Restart(i)
    \/ Tick

Spec == Init /\ [][Next]_vars

(***************************************************************************)
(* Fairness.  Time passes; a crashed process is restarted by the platform; *)
(* a trigger that comes round again and again is not missed every time; a  *)
(* run, once started, goes on, whichever way its steps turn out; and the   *)
(* sweep, which sends no parameter, does not fail every time it is tried.  *)
(***************************************************************************)
Fairness ==
    /\ WF_vars(Tick)
    /\ \A i \in Instances : WF_vars(Restart(i))
    /\ \A w \in Workers :
         /\ SF_vars(Fire(w))
         /\ SF_vars(SweepOk(w))
         /\ WF_vars(InsertOk(w) \/ InsertConflict(w) \/ InsertErr(w))
         /\ WF_vars(BodyEnds(w) \/ BodyFailsInDb(w))
         /\ WF_vars(ReleaseOk(w) \/ ReleaseErr(w))

FairSpec == Spec /\ Fairness

(***************************************************************************)
(* The best of environments: besides, an INSERT that can succeed is not    *)
(* refused by the database every time.  If the driver takes no INSERT, it  *)
(* asks for nothing.                                                       *)
(***************************************************************************)
LuckySpec == FairSpec /\ \A w \in Workers : SF_vars(InsertOk(w))

----------------------------------------------------------------------------
(***************************************************************************)
(* The guarantee the lock can give (lock.py:77-81, "another instance       *)
(* already has the lock"): two runs of the same job are never both past    *)
(* acquire while both of their leases are still running.                   *)
(***************************************************************************)
LeaseExclusion ==
    \A v, w \in Workers :
        /\ v # w /\ job(v) = job(w)
        /\ InBody(v) /\ InBody(w)
        => lease[v] < 0 \/ lease[w] < 0

(***************************************************************************)
(* What makes it so: while a run's lease has not expired, the row of its   *)
(* job is the one it inserted, with the same time left.                    *)
(***************************************************************************)
LeaseOwnsRow ==
    \A w \in Workers :
        InBody(w) /\ lease[w] >= 0
        => /\ row[job(w)].held
           /\ row[job(w)].by = inst(w)
           /\ row[job(w)].left = lease[w]

(***************************************************************************)
(* The lock implements the lease it stands for: seen from its runs, the    *)
(* sweep, INSERT, DELETE, crash and clock of lock.py are the grants, ends  *)
(* and the running out of leases, of which a job has one at a time.        *)
(***************************************************************************)
Rest == [w \in Workers |-> IF InBody(w) /\ lease[w] >= 0 THEN lease[w] ELSE -1]
Promised == INSTANCE Lease
            WITH Runs <- Workers, JobOf <- [w \in Workers |-> job(w)], rest <- Rest
LeaseImplemented == Promised!LeaseSpec

(***************************************************************************)
(* release only ever deletes the releasing run's own row, and the sweep    *)
(* only expired ones (lock.py:98-106, 121-127): a row whose lease has time *)
(* left and whose run is not finished by this very step is not lost.       *)
(***************************************************************************)
NoLiveRowLost ==
    [][\A j \in Jobs :
         row[j].held /\ row[j].left >= 0 /\ ~row'[j].held
         => \E w \in Workers :
              /\ job(w) = j /\ row[j].by = inst(w)
              /\ pc[w] = "releasing" /\ pc'[w] = "idle"]_vars

\* Some process stays up from some time on: one that is down in every slot
\* starts no run at all.
SomeoneStaysUp == \E i \in Instances : <>[]up[i]

(***************************************************************************)
(* "Remove expired locks so crashed instances don't hold locks forever"    *)
(* (lock.py:122): a row that nobody will release goes away all the same.   *)
(***************************************************************************)
OrphansReclaimed ==
    SomeoneStaysUp =>
        \A j \in Jobs : (row[j].held /\ row[j].by = Orphan) ~> ~row[j].held

(***************************************************************************)
(* "scheduled due date notifications" (README.md:3, main.py:63-75): no     *)
(* crash, failed release or lost acknowledgement stops a job for good, it  *)
(* is run again and again by somebody.  With the driver that is pinned it  *)
(* is never run, whatever the luck: every INSERT is refused (InsertErr).   *)
(***************************************************************************)
JobKeepsRunning ==
    SomeoneStaysUp =>
        \A j \in Jobs :
            []<>(\E w \in Workers : job(w) = j /\ pc[w] = "running")

============================================================================
