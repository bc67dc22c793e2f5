------------------------ MODULE SchedulerLockProofs ------------------------
(***************************************************************************)
(* What SchedulerLock's runs check on small instances, proved for every    *)
(* set of processes and jobs, every TTL, schedule and clock skew.          *)
(*                                                                         *)
(* LeaseExclusion is not inductive: that two runs both believe in their    *)
(* lease is excluded by the one row they would both have to own, and this  *)
(* is LeaseOwnsRow, which is inductive together with TypeOK.               *)
(*                                                                         *)
(* WeeklyDigest, a job that runs under the lock, comes last: it implements *)
(* SchedulerLock, so that whatever is proved of any job holds of it.       *)
(***************************************************************************)
EXTENDS WeeklyDigest, TLAPS

\* The worker of each action is one of Workers, with its two parts typed.
LEMMA WorkerParts ==
    ASSUME NEW w \in Workers
    PROVE  inst(w) \in Instances /\ job(w) \in Jobs /\ w = <<inst(w), job(w)>>
BY DEF Workers, inst, job

\* The lease a run computes is a number, whatever the skew.
LEMMA NewLeaseType ==
    ASSUME NEW i \in Instances
    PROVE  NewLease(i) \in Int
BY ConstAssumption DEF NewLease

\* Deleting, abandoning and counting down keep a row well-typed.
LEMMA RowType ==
    ASSUME NEW r \in Row, NEW i \in Instances
    PROVE  /\ NoRow \in Row
           /\ Abandoned(r, i) \in Row
           /\ [r EXCEPT !.left = Less(@)] \in Row
           /\ r.held \in BOOLEAN /\ r.left \in Int
<1>1. r.held \in BOOLEAN /\ r.left \in Int /\ NoRow \in Row
  BY DEF Row, NoRow
<1>2. [r EXCEPT !.left = Less(@)] \in Row
  BY <1>1 DEF Row, Less
<1>3. Abandoned(r, i) \in Row
  BY DEF Row, Abandoned
<1> QED
  BY <1>1, <1>2, <1>3

\* Every step leaves a row that names a run with a run past acquire.
LEMMA HeldByItsRunKept ==
    ASSUME TypeOK, [Next]_vars
    PROVE  HeldByItsRun'
<1> SUFFICES ASSUME NEW w \in Workers,
                    row'[job(w)].held, row'[job(w)].by = inst(w)
             PROVE  InBody(w)'
  BY DEF HeldByItsRun, inst, job
<1>0. inst(w) \in Instances /\ job(w) \in Jobs /\ w = <<inst(w), job(w)>>
  BY WorkerParts
<1>1. row[job(w)] \in Row /\ (row[job(w)].held /\ row[job(w)].by = inst(w) => InBody(w))
  BY <1>0 DEF TypeOK, HeldByItsRun
<1>2. Orphan # inst(w)
  BY <1>0, ConstAssumption
<1>3. ASSUME NEW v \in Workers, Step(v)
      PROVE  InBody(w)'
  <2>0. inst(v) \in Instances /\ job(v) \in Jobs /\ v = <<inst(v), job(v)>>
    BY WorkerParts
  <2>1. CASE Fire(v) \/ SweepErr(v) \/ InsertConflict(v) \/ InsertErr(v)
             \/ BodyEnds(v) \/ BodyFailsInDb(v)
    BY <2>1, <1>1 DEF Fire, SweepErr, InsertConflict, InsertErr, GiveUp, BodyEnds,
       BodyFailsInDb, Goto, InBody, TypeOK
  <2>2. CASE SweepOk(v)
    BY <2>2, <1>0, <1>1 DEF SweepOk, Goto, InBody, NoRow, TypeOK
  <2>3. CASE InsertOk(v)
    <3>1. CASE job(v) = job(w)
      BY <2>3, <3>1, <2>0, <1>0 DEF InsertOk, Inserted, Goto, InBody, TypeOK
    <3>2. CASE job(v) # job(w)
      BY <2>3, <3>2, <2>0, <1>0, <1>1 DEF InsertOk, Inserted, Goto, InBody, TypeOK
    <3> QED
      BY <3>1, <3>2
  <2>4. CASE InsertAckLost(v)
    <3>1. CASE job(v) = job(w)
      BY <2>4, <3>1, <2>0, <1>0, <1>2 DEF InsertAckLost, Inserted, TypeOK
    <3>2. CASE job(v) # job(w)
      BY <2>4, <3>2, <2>0, <1>0, <1>1
         DEF InsertAckLost, Inserted, GiveUp, Goto, InBody, TypeOK
    <3> QED
      BY <3>1, <3>2
  <2>5. CASE ReleaseOk(v) \/ ReleaseErr(v)
    <3>1. CASE v = w
      BY <2>5, <3>1, <1>0, <1>1, <1>2
         DEF ReleaseOk, ReleaseErr, Deleted, Abandoned, NoRow, Row, TypeOK
    <3>2. CASE v # w
      BY <2>5, <3>2, <2>0, <1>0, <1>1, <1>2
         DEF ReleaseOk, ReleaseErr, Deleted, Abandoned, NoRow, Row, Goto, InBody, TypeOK
    <3> QED
      BY <3>1, <3>2
  <2> QED
    BY <1>3, <2>1, <2>2, <2>3, <2>4, <2>5 DEF Step
<1>4. ASSUME NEW i \in Instances, Crash(i)
      PROVE  InBody(w)'
  BY <1>4, <1>0, <1>1, <1>2 DEF Crash, Abandoned, InBody, Row, TypeOK
<1>5. CASE \/ \E i \in Instances : Restart(i)
           \/ UNCHANGED vars
  BY <1>5, <1>1 DEF Restart, InBody, vars
<1>6. CASE Tick
  BY <1>6, <1>0, <1>1 DEF Tick, InBody, Row, TypeOK
<1> QED
  BY <1>3, <1>4, <1>5, <1>6 DEF Next

(***************************************************************************)
(* The variables of app/utils/lock.py's model keep their types, and a row  *)
(* names a run that is past acquire or nobody that is still there.         *)
(***************************************************************************)
THEOREM TypeCorrect == Spec => []TypeOK
<1>1. Init => TypeOK
  BY ConstAssumption, WorkerParts DEF Init, TypeOK, HeldByItsRun, PCs, Row, NoRow
<1>2. TypeOK /\ [Next]_vars => TypeOK'
  <2> SUFFICES ASSUME TypeOK, [Next]_vars
               PROVE  TypeOK'
    OBVIOUS
  <2>0. HeldByItsRun'
    BY HeldByItsRunKept
  <2> USE <2>0 DEF TypeOK
    <2>1. ASSUME NEW w \in Workers, Step(w)
        PROVE  TypeOK'
    <3>0. inst(w) \in Instances /\ job(w) \in Jobs
      BY WorkerParts
    <3>1. CASE Fire(w)
      BY <3>1 DEF Fire, Goto, PCs
    <3>2. CASE SweepOk(w)
      BY <3>2, <3>0, NewLeaseType, RowType DEF SweepOk, Goto, PCs
    <3>3. CASE SweepErr(w)
      BY <3>3, <3>0, NewLeaseType DEF SweepErr, Goto, PCs
    <3>4. CASE InsertOk(w)
      BY <3>4, <3>0 DEF InsertOk, Free, Inserted, Goto, PCs, Row
    <3>5. CASE InsertConflict(w) \/ InsertErr(w)
      BY <3>5 DEF InsertConflict, InsertErr, GiveUp, Goto, PCs
    <3>6. CASE InsertAckLost(w)
      BY <3>6, <3>0 DEF InsertAckLost, Free, Inserted, GiveUp, Goto, PCs, Row
    <3>7. CASE BodyEnds(w) \/ BodyFailsInDb(w)
      BY <3>7 DEF BodyEnds, BodyFailsInDb, Goto, PCs
    <3>8. CASE ReleaseOk(w)
      <4>1. row[job(w)] \in Row
        BY <3>0
      <4>2. row' \in [Jobs -> Row]
        BY <3>8, <3>0, <4>1, RowType DEF ReleaseOk, Deleted
      <4> QED
        BY <3>8, <4>2 DEF ReleaseOk, Deleted, Goto, PCs
    <3>9. CASE ReleaseErr(w)
      <4>1. Abandoned(row[job(w)], inst(w)) \in Row
        BY <3>0, RowType
      <4>2. row' \in [Jobs -> Row]
        BY <3>9, <3>0, <4>1 DEF ReleaseErr
      <4> QED
        BY <3>9, <4>2 DEF ReleaseErr, Goto, PCs
    <3> QED
      BY <2>1, <3>1, <3>2, <3>3, <3>4, <3>5, <3>6, <3>7, <3>8, <3>9 DEF Step
  <2>2. ASSUME NEW i \in Instances, Crash(i)
        PROVE  TypeOK'
    <3>1. \A j \in Jobs : Abandoned(row[j], i) \in Row
      BY RowType
    <3>2. row' \in [Jobs -> Row]
      BY <2>2, <3>1 DEF Crash
    <3> QED
      BY <2>2, <3>2 DEF Crash, PCs
  <2>3. ASSUME NEW i \in Instances, Restart(i)
        PROVE  TypeOK'
    BY <2>3 DEF Restart
  <2>4. ASSUME Tick
        PROVE  TypeOK'
    <3>1. phase' \in 0 .. Period - 1
      BY <2>4, ConstAssumption DEF Tick, NextPhase
    <3>2. PICK i \in Instances : TRUE
      BY ConstAssumption
    <3>3. row' \in [Jobs -> Row]
      BY <2>4, <3>2, RowType DEF Tick, NextPhase
    <3>4. lease' \in [Workers -> Int]
      BY <2>4 DEF Tick, NextPhase, Less
    <3> QED
      BY <2>4, <3>1, <3>3, <3>4 DEF Tick, NextPhase
  <2>5. CASE UNCHANGED vars
    BY <2>5 DEF vars
  <2> QED
    BY <2>1, <2>2, <2>3, <2>4, <2>5 DEF Next
<1> QED
  BY <1>1, <1>2, PTL DEF Spec

----------------------------------------------------------------------------
\* No other run of the same job belongs to the same process.
LEMMA OneRunPerProcess ==
    ASSUME NEW v \in Workers, NEW w \in Workers, v # w, job(v) = job(w)
    PROVE  inst(v) # inst(w)
BY WorkerParts

(***************************************************************************)
(* While a run's lease lasts, the row of its job is its own: nobody sweeps *)
(* it, releases it or inserts over it.                                     *)
(***************************************************************************)
THEOREM RowOwnership == Spec => []LeaseOwnsRow
<1>1. Init => LeaseOwnsRow
  BY DEF Init, LeaseOwnsRow
<1>2. TypeOK /\ LeaseOwnsRow /\ [Next]_vars => LeaseOwnsRow'
  <2> SUFFICES ASSUME TypeOK, LeaseOwnsRow, [Next]_vars,
                      NEW v \in Workers,
                      InBody(v)', lease'[v] >= 0
               PROVE  /\ row'[job(v)].held
                      /\ row'[job(v)].by = inst(v)
                      /\ row'[job(v)].left = lease'[v]
    BY DEF LeaseOwnsRow
  <2> DEFINE Owns == /\ row[job(v)].held
                     /\ row[job(v)].by = inst(v)
                     /\ row[job(v)].left = lease[v]
  <2>0. /\ inst(v) \in Instances /\ job(v) \in Jobs
        /\ InBody(v) /\ lease[v] >= 0 => Owns
        /\ row[job(v)] \in Row /\ lease[v] \in Int
    BY WorkerParts DEF LeaseOwnsRow, TypeOK
  <2>1. ASSUME NEW w \in Workers, Step(w)
        PROVE  Owns'
    <3>0. inst(w) \in Instances /\ job(w) \in Jobs
      BY WorkerParts
    <3>1. CASE Fire(w) \/ InsertConflict(w) \/ InsertErr(w) \/ BodyEnds(w)
               \/ BodyFailsInDb(w) \/ SweepErr(w)
      BY <3>1, <2>0 DEF Fire, InsertConflict, InsertErr, GiveUp, BodyEnds,
         BodyFailsInDb, SweepErr, Goto, InBody, TypeOK
    <3>2. CASE SweepOk(w)
      <4>1. v # w /\ InBody(v) /\ lease[v] >= 0
        BY <3>2 DEF SweepOk, Goto, InBody, TypeOK
      <4>2. ~Expired(row[job(v)])
        BY <4>1, <2>0 DEF Expired
      <4> QED
        BY <3>2, <4>1, <4>2, <2>0 DEF SweepOk, TypeOK
    <3>3. CASE InsertOk(w) \/ InsertAckLost(w)
      <4>1. CASE v = w
        BY <3>3, <4>1, <2>0
           DEF InsertOk, InsertAckLost, Free, Inserted, GiveUp, Goto, InBody, TypeOK
      <4>2. CASE v # w
        <5>1. InBody(v) /\ lease[v] >= 0 /\ lease'[v] = lease[v]
          BY <3>3, <4>2 DEF InsertOk, InsertAckLost, Free, GiveUp, Goto, InBody, TypeOK
        <5>2. job(v) # job(w)
          BY <3>3, <5>1, <2>0 DEF InsertOk, InsertAckLost, Free
        <5> QED
          BY <3>3, <5>1, <5>2, <2>0, <3>0
             DEF InsertOk, InsertAckLost, Free, Inserted, TypeOK
      <4> QED
        BY <4>1, <4>2
    <3>4. CASE ReleaseOk(w) \/ ReleaseErr(w)
      <4>1. v # w /\ InBody(v) /\ lease[v] >= 0 /\ lease'[v] = lease[v]
        BY <3>4 DEF ReleaseOk, Deleted, ReleaseErr, Goto, InBody, TypeOK
      <4>2. job(v) = job(w) => inst(v) # inst(w)
        BY <4>1, OneRunPerProcess
      <4>3. row'[job(v)] = row[job(v)]
        BY <3>4, <4>1, <4>2, <2>0, <3>0
           DEF ReleaseOk, Deleted, ReleaseErr, Abandoned, TypeOK
      <4> QED
        BY <4>1, <4>3, <2>0
    <3> QED
      BY <2>1, <3>1, <3>2, <3>3, <3>4 DEF Step
  <2>2. ASSUME NEW i \in Instances, Crash(i)
        PROVE  Owns'
    <3>1. inst(v) # i /\ InBody(v) /\ lease[v] >= 0 /\ lease'[v] = lease[v]
      BY <2>2 DEF Crash, InBody, TypeOK
    <3>2. row'[job(v)] = row[job(v)]
      BY <2>2, <3>1, <2>0 DEF Crash, Abandoned
    <3> QED
      BY <3>1, <3>2, <2>0
  <2>3. ASSUME NEW i \in Instances, Restart(i)
        PROVE  Owns'
    BY <2>3, <2>0 DEF Restart, InBody
  <2>4. ASSUME Tick
        PROVE  Owns'
    <3>1. InBody(v) /\ lease'[v] = Less(lease[v])
      BY <2>4 DEF Tick, NextPhase, InBody
    <3>2. lease[v] >= 0
      BY <3>1, <2>0 DEF Less
    <3>3. row'[job(v)] = [row[job(v)] EXCEPT !.left = Less(@)]
      BY <2>4, <2>0 DEF Tick, NextPhase
    <3> QED
      BY <3>1, <3>2, <3>3, <2>0 DEF Row
  <2>5. CASE UNCHANGED vars
    BY <2>5, <2>0 DEF vars, InBody
  <2> QED
    BY <2>1, <2>2, <2>3, <2>4, <2>5 DEF Next
<1> QED
  BY <1>1, <1>2, TypeCorrect, PTL DEF Spec

(***************************************************************************)
(* Two runs of one job never both work within a valid lease: they would    *)
(* both own its row, and a row has one holder.                             *)
(***************************************************************************)
THEOREM MutualExclusion == Spec => []LeaseExclusion
<1>1. TypeOK /\ LeaseOwnsRow => LeaseExclusion
  <2> SUFFICES ASSUME TypeOK, LeaseOwnsRow,
                      NEW v \in Workers, NEW w \in Workers,
                      v # w, job(v) = job(w), InBody(v), InBody(w),
                      lease[v] >= 0, lease[w] >= 0
               PROVE  FALSE
    BY DEF LeaseExclusion, TypeOK
  <2>1. row[job(v)].by = inst(v) /\ row[job(w)].by = inst(w)
    BY DEF LeaseOwnsRow
  <2> QED
    BY <2>1, OneRunPerProcess
<1> QED
  BY <1>1, RowOwnership, TypeCorrect, PTL

(***************************************************************************)
(* An unexpired row disappears only by the release of the run that         *)
(* inserted it.                                                            *)
(***************************************************************************)
THEOREM LiveRowsKept == Spec => NoLiveRowLost
<1> DEFINE Kept == \A j \in Jobs :
         row[j].held /\ row[j].left >= 0 /\ ~row'[j].held
         => \E w \in Workers :
              /\ job(w) = j /\ row[j].by = inst(w)
              /\ pc[w] = "releasing" /\ pc'[w] = "idle"
<1>1. TypeOK /\ [Next]_vars => [Kept]_vars
  <2> SUFFICES ASSUME TypeOK, Next,
                      NEW j \in Jobs,
                      row[j].held, row[j].left >= 0, ~row'[j].held
               PROVE  \E w \in Workers :
                        /\ job(w) = j /\ row[j].by = inst(w)
                        /\ pc[w] = "releasing" /\ pc'[w] = "idle"
    BY DEF vars
  <2>0. row \in [Jobs -> Row] /\ row[j] \in Row /\ row[j].left \in Int
    BY DEF TypeOK, Row
  <2>a. \A i \in Instances : Abandoned(row[j], i).held
    BY <2>0 DEF Abandoned, Row
  <2>1. ASSUME NEW w \in Workers, Step(w), ~ReleaseOk(w)
        PROVE  row'[j].held
    <3>0. inst(w) \in Instances /\ job(w) \in Jobs
      BY WorkerParts
    <3>1. CASE SweepOk(w)
      BY <3>1, <2>0 DEF SweepOk, Expired
    <3>2. CASE InsertOk(w) \/ InsertAckLost(w)
      BY <3>2, <2>0, <3>0 DEF InsertOk, InsertAckLost, Free, Inserted
    <3>3. CASE ReleaseErr(w)
      BY <3>3, <2>0, <2>a, <3>0 DEF ReleaseErr
    <3>4. CASE UNCHANGED row
      BY <3>4
    <3> QED
      BY <2>1, <3>1, <3>2, <3>3, <3>4
         DEF Step, Fire, SweepErr, InsertConflict, InsertErr, BodyEnds,
             BodyFailsInDb
  <2>2. ASSUME NEW w \in Workers, ReleaseOk(w)
        PROVE  /\ job(w) = j /\ row[j].by = inst(w)
               /\ pc[w] = "releasing" /\ pc'[w] = "idle"
    BY <2>2, <2>0, WorkerParts DEF ReleaseOk, Deleted, Goto, TypeOK
  <2>3. ASSUME NEW i \in Instances, Crash(i) \/ Restart(i)
        PROVE  row'[j].held
    BY <2>3, <2>0, <2>a DEF Crash, Restart
  <2>4. ~Tick
    BY <2>0 DEF Tick, NextPhase, Row
  <2> QED
    BY <2>1, <2>2, <2>3, <2>4 DEF Next
<1> QED
  BY <1>1, TypeCorrect, PTL DEF Spec, NoLiveRowLost

----------------------------------------------------------------------------
\* Steps that change no lease of a run in its body are stutters of Lease.
LEMMA RestUnchanged ==
    ASSUME lease' = lease, \A w \in Workers : InBody(w)' <=> InBody(w)
    PROVE  UNCHANGED Rest
BY DEF Rest

\* Steps that take some runs out of their bodies and touch nobody else end leases.
LEMMA RestEnded ==
    ASSUME NEW over \in SUBSET Workers,
           \A w \in over : ~InBody(w)',
           \A w \in Workers \ over : lease'[w] = lease[w] /\ (InBody(w)' <=> InBody(w))
    PROVE  Promised!LeaseNext
<1>1. Rest' = [w \in Workers |-> IF w \in over THEN -1 ELSE Rest[w]]
  BY DEF Rest
<1>2. Promised!End(over)
  BY <1>1 DEF Promised!End
<1> QED
  BY <1>2 DEF Promised!LeaseNext

(***************************************************************************)
(* The lock of lock.py is a lease service: a run whose INSERT succeeds     *)
(* finds no rival with time left, since that rival would own the row.      *)
(***************************************************************************)
THEOREM LockGrantsLeases == Spec => LeaseImplemented
<1>1. Init => Promised!LeaseInit
  BY DEF Init, Promised!LeaseInit, Rest, InBody
<1>2. TypeOK /\ LeaseOwnsRow /\ [Next]_vars => [Promised!LeaseNext]_Rest
  <2> SUFFICES ASSUME TypeOK, LeaseOwnsRow, [Next]_vars
               PROVE  Promised!LeaseNext \/ UNCHANGED Rest
    OBVIOUS
  <2>1. ASSUME NEW w \in Workers, Step(w)
        PROVE  Promised!LeaseNext \/ UNCHANGED Rest
    <3>0. inst(w) \in Instances /\ job(w) \in Jobs
      BY WorkerParts
    <3>1. CASE Fire(w) \/ BodyEnds(w) \/ BodyFailsInDb(w)
      <4>1. lease' = lease /\ \A v \in Workers : InBody(v)' <=> InBody(v)
        BY <3>1 DEF Fire, BodyEnds, BodyFailsInDb, Goto, InBody, TypeOK
      <4> QED
        BY <4>1, RestUnchanged
    <3>2. CASE SweepOk(w) \/ SweepErr(w) \/ InsertConflict(w) \/ InsertErr(w)
               \/ InsertAckLost(w) \/ ReleaseOk(w) \/ ReleaseErr(w)
      <4>1. ~InBody(w)'
        BY <3>2 DEF SweepOk, SweepErr, InsertConflict, InsertErr, InsertAckLost, GiveUp,
           ReleaseOk, ReleaseErr, Goto, InBody, TypeOK
      <4>2. ASSUME NEW v \in Workers \ {w}
            PROVE  lease'[v] = lease[v] /\ (InBody(v)' <=> InBody(v))
        BY <3>2 DEF SweepOk, SweepErr, InsertConflict, InsertErr, InsertAckLost, GiveUp,
           ReleaseOk, ReleaseErr, Goto, InBody, TypeOK
      <4> DEFINE over == {w}
      <4>3. \A v \in over : ~InBody(v)'
        BY <4>1
      <4>4. over \in SUBSET Workers
        OBVIOUS
      <4>5. \A v \in Workers \ over : lease'[v] = lease[v] /\ (InBody(v)' <=> InBody(v))
        BY <4>2
      <4> QED
        BY <4>3, <4>4, <4>5, RestEnded
    <3>3. CASE InsertOk(w)
      <4>1. /\ lease' = lease /\ InBody(w)' /\ ~InBody(w)
            /\ \A v \in Workers \ {w} : InBody(v)' <=> InBody(v)
        BY <3>3 DEF InsertOk, Goto, InBody, TypeOK
      <4>2. CASE lease[w] < 0
        <5>1. ASSUME NEW v \in Workers
              PROVE  Rest'[v] = Rest[v]
          BY <4>1, <4>2 DEF Rest, TypeOK
        <5> QED
          BY <5>1 DEF Rest
      <4>3. CASE lease[w] >= 0
        <5>1. Rest[w] = -1 /\ Rest'[w] = lease[w] /\ lease[w] \in Nat
          BY <4>1, <4>3 DEF Rest, TypeOK
        <5>2. Rest' = [Rest EXCEPT ![w] = lease[w]]
          BY <4>1, <4>3 DEF Rest, TypeOK
        <5>3. ASSUME NEW v \in Workers \ {w}, job(v) = job(w)
              PROVE  Rest[v] = -1
          <6>1. ~row[job(v)].held
            BY <3>3, <5>3 DEF InsertOk, Free
          <6> QED
            BY <6>1 DEF LeaseOwnsRow, Rest
        <5>4. Promised!Grant(w)
          BY <5>1, <5>2, <5>3 DEF Promised!Grant, Promised!Rivals
        <5> QED
          BY <5>4 DEF Promised!LeaseNext
      <4> QED
        BY <4>2, <4>3 DEF TypeOK
    <3> QED
      BY <2>1, <3>1, <3>2, <3>3 DEF Step
  <2>2. ASSUME NEW i \in Instances, Crash(i)
        PROVE  Promised!LeaseNext
    <3> DEFINE over == {w \in Workers : inst(w) = i}
    <3>1. \A w \in over : ~InBody(w)'
      BY <2>2 DEF Crash, InBody
    <3>2. \A w \in Workers \ over : lease'[w] = lease[w] /\ (InBody(w)' <=> InBody(w))
      BY <2>2 DEF Crash, InBody
    <3>3. over \in SUBSET Workers
      OBVIOUS
    <3> QED
      BY <3>1, <3>2, <3>3, RestEnded
  <2>3. ASSUME NEW i \in Instances, Restart(i)
        PROVE  UNCHANGED Rest
    BY <2>3, RestUnchanged DEF Restart, InBody
  <2>4. ASSUME Tick
        PROVE  Promised!LeaseNext
    <3>1. \A w \in Workers : lease'[w] = Less(lease[w]) /\ (InBody(w)' <=> InBody(w))
      BY <2>4 DEF Tick, InBody
    <3>2. Rest' = [w \in Workers |-> IF Rest[w] >= 0 THEN Rest[w] - 1 ELSE -1]
      BY <3>1 DEF Rest, Less, TypeOK
    <3>3. Promised!Pass
      BY <3>2 DEF Promised!Pass
    <3> QED
      BY <3>3 DEF Promised!LeaseNext
  <2>5. CASE UNCHANGED vars
    BY <2>5, RestUnchanged DEF vars, InBody
  <2> QED
    BY <2>1, <2>2, <2>3, <2>4, <2>5 DEF Next
<1> QED
  BY <1>1, <1>2, TypeCorrect, RowOwnership, PTL DEF Spec, LeaseImplemented, Promised!LeaseSpec

----------------------------------------------------------------------------
(***************************************************************************)
(* The body of the job (digest.py) does nothing to the lock but what       *)
(* SchedulerLock allows it: WeeklyDigest implements SchedulerLock.         *)
(***************************************************************************)
THEOREM DigestWithinLock == DigestSpec => Spec
<1>1. DigestInit => Init
  BY DEF DigestInit
<1>2. [DigestNext]_allVars => [Next]_vars
  <2> SUFFICES ASSUME [DigestNext]_allVars
               PROVE  Next \/ UNCHANGED vars
    OBVIOUS
  <2>1. ASSUME NEW w \in Workers, Around(w) \/ Start(w) \/ Finish(w) \/ Fail(w)
        PROVE  Next
    BY <2>1 DEF Around, Start, Finish, Fail, Next, Step
  <2>2. ASSUME NEW w \in Workers, NEW u \in Users,
               NothingDue(w, u) \/ MailSent(w, u) \/ MailRefused(w, u)
        PROVE  UNCHANGED vars
    BY <2>2 DEF NothingDue, MailSent, MailRefused, Handling
  <2>3. ASSUME NEW i \in Instances, CrashMidway(i) \/ ComeBack(i)
        PROVE  Next
    BY <2>3 DEF CrashMidway, ComeBack, Next
  <2>4. ASSUME NEW u \in Users, NEW d, NewDueDate(u, d)
        PROVE  UNCHANGED vars
    BY <2>4 DEF NewDueDate
  <2>5. CASE Midnight
    BY <2>5 DEF Midnight, Next
  <2>6. CASE UNCHANGED allVars
    BY <2>6 DEF allVars
  <2> QED
    BY <2>1, <2>2, <2>3, <2>4, <2>5, <2>6 DEF DigestNext
<1> QED
  BY <1>1, <1>2, PTL DEF DigestSpec, Spec

(***************************************************************************)
(* Two instances never both send digests within a valid lease of the lock. *)
(***************************************************************************)
THEOREM DigestExclusion == DigestSpec => []LeaseExclusion
BY DigestWithinLock, MutualExclusion, PTL

----------------------------------------------------------------------------
LEMMA BoundsType == Past \in Int /\ Past < 0 /\ Ahead \in Nat /\ Linger \in Nat /\ Lead \in Nat
BY DigestAssumption DEF Past

(***************************************************************************)
(* The variables of the digest keep their types, and only a run that is in *)
(* its body has users to handle.                                           *)
(***************************************************************************)
THEOREM DigestTypeCorrect == DigestSpec => []DigestTypeOK
<1>1. DigestInit => DigestTypeOK
  BY BoundsType DEF DigestInit, DigestTypeOK
<1>2. TypeOK /\ DigestTypeOK /\ [DigestNext]_allVars => DigestTypeOK'
  <2> SUFFICES ASSUME TypeOK, DigestTypeOK, [DigestNext]_allVars
               PROVE  DigestTypeOK'
    OBVIOUS
  <2> USE DEF DigestTypeOK
  <2>1. ASSUME NEW w \in Workers, Around(w)
        PROVE  DigestTypeOK'
    <3>1. UNCHANGED digestVars
      BY <2>1 DEF Around
    <3>2. \A v \in Workers : pc[v] = "running" => pc'[v] = "running"
      BY <2>1 DEF Around, Fire, SweepOk, SweepErr, InsertConflict, InsertErr, InsertAckLost,
         GiveUp, ReleaseOk, ReleaseErr, Goto, TypeOK
    <3> QED
      BY <3>1, <3>2 DEF digestVars
  <2>2. ASSUME NEW w \in Workers, Start(w)
        PROVE  DigestTypeOK'
    BY <2>2, BoundsType DEF Start, InsertOk, Goto, TypeOK
  <2>3. ASSUME NEW w \in Workers, Finish(w)
        PROVE  DigestTypeOK'
    BY <2>3 DEF Finish, BodyEnds, Goto, TypeOK, digestVars
  <2>4. ASSUME NEW w \in Workers, Fail(w)
        PROVE  DigestTypeOK'
    <3>1. todo' = [v \in Workers |-> IF v = w THEN {} ELSE todo[v]]
      BY <2>4 DEF Fail, Dropped
    <3>2. \A v \in Workers \ {w} : pc'[v] = pc[v]
      BY <2>4 DEF Fail, BodyEnds, BodyFailsInDb, Goto, TypeOK
    <3> QED
      BY <2>4, <3>1, <3>2 DEF Fail
  <2>5. ASSUME NEW w \in Workers, NEW u \in Users,
               NothingDue(w, u) \/ MailSent(w, u) \/ MailRefused(w, u)
        PROVE  DigestTypeOK'
    <3>1. todo' \in [Workers -> SUBSET Users] /\ \A v \in Workers : todo'[v] \subseteq todo[v]
      BY <2>5 DEF NothingDue, MailSent, MailRefused, Handling
    <3>2. done' \in [Users -> 0 .. 2]
      <4>1. CASE HandledOnceMore(u)
        <5>1. (IF done[u] < 2 THEN done[u] + 1 ELSE 2) \in 0 .. 2
          <6>1. done[u] \in Int /\ 0 <= done[u]
            OBVIOUS
          <6> QED
            BY <6>1
        <5>2. done' = [done EXCEPT ![u] = IF done[u] < 2 THEN done[u] + 1 ELSE 2]
          BY <4>1 DEF HandledOnceMore
        <5> QED
          BY <5>1, <5>2
      <4>2. CASE UNCHANGED done
        BY <4>2
      <4> QED
        BY <2>5, <4>1, <4>2 DEF NothingDue, MailSent, MailRefused
    <3>4. told' \in [Users -> BOOLEAN]
      <4>1. told' = [told EXCEPT ![u] = TRUE] \/ told' = told
        BY <2>5 DEF NothingDue, MailSent, MailRefused
      <4> QED
        BY <4>1
    <3>3. UNCHANGED <<pc, age, due, served>>
      BY <2>5 DEF NothingDue, MailSent, MailRefused, Handling, vars
    <3> QED
      BY <3>1, <3>2, <3>3, <3>4
  <2>6. ASSUME NEW i \in Instances, CrashMidway(i)
        PROVE  DigestTypeOK'
    <3>1. todo' = [v \in Workers |-> IF inst(v) = i THEN {} ELSE todo[v]]
      BY <2>6 DEF CrashMidway, Dropped
    <3>2. \A v \in Workers : inst(v) # i => pc'[v] = pc[v]
      BY <2>6 DEF CrashMidway, Crash
    <3> QED
      BY <2>6, <3>1, <3>2 DEF CrashMidway
  <2>7. ASSUME NEW i \in Instances, ComeBack(i)
        PROVE  DigestTypeOK'
    BY <2>7 DEF ComeBack, Restart, digestVars
  <2>8. ASSUME NEW u \in Users, NEW d \in (0 .. Ahead) \cup {Past}, NewDueDate(u, d)
        PROVE  DigestTypeOK'
    BY <2>8, BoundsType DEF NewDueDate, vars
  <2>9. CASE Midnight
    <3>0. /\ pc' = pc /\ todo' = todo /\ told' = told
          /\ age' = [w \in Workers |-> IF todo[w] # {} THEN age[w] + 1 ELSE 0]
          /\ due' = [u \in Users |-> IF due[u] > Past THEN due[u] - 1 ELSE Past]
          /\ served' = [u \in Users |-> ServedSoFar(u)]
          /\ done' = [u \in Users |-> 0]
          /\ \A w \in Workers : todo[w] # {} => age[w] < Linger
      BY <2>9 DEF Midnight, Tick
    <3>1. ASSUME NEW w \in Workers
          PROVE  (IF todo[w] # {} THEN age[w] + 1 ELSE 0) \in 0 .. Linger
      <4>1. age[w] \in Int /\ 0 <= age[w] /\ Linger \in Int /\ 0 <= Linger
        BY BoundsType
      <4>2. CASE todo[w] # {}
        BY <4>1, <4>2, <3>0
      <4> QED
        BY <4>1, <4>2
    <3>2. ASSUME NEW u \in Users
          PROVE  (IF due[u] > Past THEN due[u] - 1 ELSE Past) \in Past .. Ahead
      <4>1. due[u] \in Int /\ Past <= due[u] /\ due[u] <= Ahead
        BY BoundsType
      <4> QED
        BY <4>1, BoundsType
    <3>3. ASSUME NEW u \in Users
          PROVE  ServedSoFar(u) \in {"new", "always", "missed"}
      BY DEF ServedSoFar
    <3>4. age' \in [Workers -> 0 .. Linger]
      BY <3>0, <3>1
    <3>5. due' \in [Users -> Past .. Ahead]
      BY <3>0, <3>2
    <3>6. served' \in [Users -> {"new", "always", "missed"}]
      BY <3>0, <3>3
    <3> QED
      BY <3>0, <3>4, <3>5, <3>6
  <2>10. CASE UNCHANGED allVars
    BY <2>10 DEF allVars, digestVars, vars
  <2> QED
    BY <2>1, <2>2, <2>3, <2>4, <2>5, <2>6, <2>7, <2>8, <2>9, <2>10 DEF DigestNext
<1> QED
  BY <1>1, <1>2, DigestWithinLock, TypeCorrect, PTL DEF DigestSpec


----------------------------------------------------------------------------
(***************************************************************************)
(* No gap between the windows.  Slot days are close enough for the window  *)
(* of a run that lasts past midnight, and so looks less far ahead, still   *)
(* to reach the next slot.  In the code both are seven days, so a run may  *)
(* last past one midnight (digest.py:14-15, main.py:70-77).                *)
(***************************************************************************)
WindowsMeet == Period - 1 + Linger <= Lead

\* A slot day comes before the due date has gone by.
SlotComing(u) ==
    \E j \in Jobs : \E s \in Slots[j] :
        \/ phase <= s /\ s - phase <= due[u]
        \/ s < phase /\ s + Period - phase <= due[u]

\* What makes NeverUnannounced hold: a user who was handled today and not told
\* has the date beyond the window, and one who was handled in every slot and
\* not told is going to have another slot.
GapInv ==
    \A u \in Users : ~told[u] =>
        /\ served[u] = "always" => due[u] >= 0 /\ SlotComing(u)
        /\ done[u] > 0 /\ due[u] >= 0 => due[u] > Lead - Linger

LEMMA SlotFields ==
    /\ Period \in Nat /\ Period > 0
    /\ \A j \in Jobs : \A s \in Slots[j] : s \in Int /\ 0 <= s /\ s < Period
BY ConstAssumption

LEMMA NextPhaseIs ==
    ASSUME phase \in 0 .. Period - 1
    PROVE  NextPhase = IF phase = Period - 1 THEN 0 ELSE phase + 1
BY SlotFields DEF NextPhase

\* After a day without a slot the slot that was coming still is; after a slot
\* day it comes again, if the date is a period away.
LEMMA SlotStillComing ==
    ASSUME TypeOK, DigestTypeOK, NEW u \in Users, phase' = NextPhase,
           due'[u] = due[u] - 1, due[u] >= 0,
           \/ SlotNow /\ due[u] >= Period
           \/ ~SlotNow /\ SlotComing(u)
    PROVE  due'[u] >= 0 /\ SlotComing(u)'
<1>1. /\ phase \in Int /\ 0 <= phase /\ phase < Period
      /\ phase' = IF phase = Period - 1 THEN 0 ELSE phase + 1
  BY NextPhaseIs, SlotFields DEF TypeOK
<1>2. due[u] \in Int
  BY BoundsType DEF DigestTypeOK
<1>3. CASE SlotNow /\ due[u] >= Period
  <2>1. PICK j \in Jobs : phase \in Slots[j]
    BY <1>3 DEF SlotNow
  <2>2. \/ phase' <= phase /\ phase - phase' <= due'[u]
        \/ phase < phase' /\ phase + Period - phase' <= due'[u]
    BY <1>1, <1>2, <1>3, SlotFields
  <2> QED
    BY <1>2, <1>3, <2>1, <2>2, SlotFields DEF SlotComing
<1>4. CASE ~SlotNow /\ SlotComing(u)
  <2>0. PICK j \in Jobs : \E s \in Slots[j] :
          \/ phase <= s /\ s - phase <= due[u]
          \/ s < phase /\ s + Period - phase <= due[u]
    BY <1>4 DEF SlotComing
  <2>1. PICK s \in Slots[j] :
          \/ phase <= s /\ s - phase <= due[u]
          \/ s < phase /\ s + Period - phase <= due[u]
    BY <2>0
  <2>2. s # phase /\ s \in Int /\ 0 <= s /\ s < Period
    BY <1>4, SlotFields DEF SlotNow
  <2>3. /\ due'[u] >= 0
        /\ \/ phase' <= s /\ s - phase' <= due'[u]
           \/ s < phase' /\ s + Period - phase' <= due'[u]
    BY <1>1, <1>2, <2>1, <2>2, SlotFields
  <2> QED
    BY <2>3 DEF SlotComing
<1> QED
  BY <1>3, <1>4

LEMMA GapMidnight ==
    ASSUME WindowsMeet, TypeOK, DigestTypeOK, GapInv, Midnight
    PROVE  GapInv'
<1> SUFFICES ASSUME NEW u \in Users, ~told'[u]
             PROVE  /\ served'[u] = "always" => due'[u] >= 0 /\ SlotComing(u)'
                    /\ done'[u] = 0
  BY DEF GapInv
<1>1. /\ told' = told /\ phase' = NextPhase /\ done'[u] = 0
      /\ due'[u] = IF due[u] > Past THEN due[u] - 1 ELSE Past
      /\ served'[u] = ServedSoFar(u)
  BY DEF Midnight, Tick
<1>2. /\ due[u] \in Int /\ Period \in Nat /\ Lead \in Nat /\ Linger \in Nat /\ Past < 0
      /\ Past \in Int
  BY BoundsType, SlotFields DEF DigestTypeOK
<1>3. ~told[u]
  BY <1>1
<1>4. ASSUME served'[u] = "always"
      PROVE  due'[u] >= 0 /\ SlotComing(u)'
  <2>1. CASE due[u] < 0
    <3>1. served[u] = "always"
      BY <1>1, <1>4, <2>1 DEF ServedSoFar
    <3> QED
      BY <1>2, <1>3, <2>1, <3>1 DEF GapInv
  <2>2. CASE due[u] >= 0 /\ SlotNow
    <3>1. done[u] > 0
      BY <1>1, <1>2, <1>4, <2>2 DEF ServedSoFar
    <3>2. due[u] > Lead - Linger
      BY <1>3, <2>2, <3>1 DEF GapInv
    <3>3. due[u] >= Period
      BY <1>2, <3>2 DEF WindowsMeet
    <3> QED
      BY <1>1, <1>2, <2>2, <3>3, SlotStillComing
  <2>3. CASE due[u] >= 0 /\ ~SlotNow
    <3>1. served[u] = "always"
      BY <1>1, <1>4, <2>3 DEF ServedSoFar
    <3>2. SlotComing(u)
      BY <1>3, <3>1 DEF GapInv
    <3> QED
      BY <1>1, <1>2, <2>3, <3>2, SlotStillComing
  <2> QED
    BY <1>2, <2>1, <2>2, <2>3
<1> QED
  BY <1>1, <1>4

\* A run that does not tell a user has found the date beyond its window.
LEMMA GapHandled ==
    ASSUME DigestTypeOK, GapInv, NEW w \in Workers, NEW u \in Users,
           NothingDue(w, u) \/ MailSent(w, u) \/ MailRefused(w, u)
    PROVE  GapInv'
<1> SUFFICES ASSUME NEW x \in Users, ~told'[x]
             PROVE  /\ served'[x] = "always" => due'[x] >= 0 /\ SlotComing(x)'
                    /\ done'[x] > 0 /\ due'[x] >= 0 => due'[x] > Lead - Linger
  BY DEF GapInv
<1>1. UNCHANGED <<phase, due, served>>
  BY DEF NothingDue, MailSent, MailRefused, Handling, vars
<1>2. ~told[x] /\ (x = u => NothingDue(w, u) \/ MailRefused(w, u))
  <2>1. CASE MailSent(w, u)
    <3>1. told' = [told EXCEPT ![u] = TRUE]
      BY <2>1 DEF MailSent
    <3> QED
      BY <3>1 DEF DigestTypeOK
  <2>2. CASE NothingDue(w, u) \/ MailRefused(w, u)
    BY <2>2 DEF NothingDue, MailRefused
  <2> QED
    BY <2>1, <2>2
<1>3. CASE x = u /\ NothingDue(w, u)
  <2>1. due[u] \in Int /\ age[w] \in Int /\ 0 <= age[w] /\ age[w] <= Linger
        /\ Lead \in Int /\ Linger \in Int
    BY BoundsType DEF DigestTypeOK
  <2>2. due[u] >= 0 => due[u] > Lead - Linger
    BY <1>3, <2>1 DEF NothingDue, DueThisWeek
  <2> QED
    BY <1>1, <1>2, <1>3, <2>2 DEF GapInv, SlotComing
<1>4. CASE ~(x = u /\ NothingDue(w, u))
  <2>1. done'[x] = done[x]
    BY <1>2, <1>4 DEF NothingDue, MailSent, MailRefused, HandledOnceMore, DigestTypeOK
  <2> QED
    BY <1>1, <1>2, <2>1 DEF GapInv, SlotComing
<1> QED
  BY <1>3, <1>4

LEMMA GapInit == DigestInit => GapInv
BY DEF DigestInit, GapInv

LEMMA GapInductive ==
    ASSUME WindowsMeet
    PROVE  TypeOK /\ DigestTypeOK /\ GapInv /\ [DigestNext]_allVars => GapInv'
<1> SUFFICES ASSUME TypeOK, DigestTypeOK, GapInv, [DigestNext]_allVars PROVE GapInv'
  OBVIOUS
<1>0. ASSUME UNCHANGED <<phase, due, told, served, done>>
      PROVE  GapInv'
  BY <1>0 DEF GapInv, SlotComing
<1>1. ASSUME NEW w \in Workers, Around(w) \/ Start(w) \/ Finish(w) \/ Fail(w)
      PROVE  GapInv'
  <2>1. CASE Around(w)
    <3>1. UNCHANGED <<phase, digestVars>>
      BY <2>1 DEF Around, Fire, SweepOk, SweepErr, InsertConflict, InsertErr,
                  InsertAckLost, GiveUp, ReleaseOk, ReleaseErr
    <3> QED
      BY <1>0, <3>1 DEF digestVars
  <2>2. CASE Start(w) \/ Finish(w) \/ Fail(w)
    BY <1>0, <2>2 DEF Start, InsertOk, Finish, Fail, BodyEnds, BodyFailsInDb, digestVars
  <2> QED
    BY <1>1, <2>1, <2>2
<1>2. ASSUME NEW w \in Workers, NEW u \in Users,
             NothingDue(w, u) \/ MailSent(w, u) \/ MailRefused(w, u)
      PROVE  GapInv'
  BY <1>2, GapHandled
<1>3. ASSUME NEW i \in Instances, CrashMidway(i) \/ ComeBack(i)
      PROVE  GapInv'
  BY <1>0, <1>3 DEF CrashMidway, ComeBack, Crash, Restart, digestVars
<1>4. ASSUME NEW u \in Users, NEW d \in (0 .. Ahead) \cup {Past}, NewDueDate(u, d)
      PROVE  GapInv'
  <2>1. /\ UNCHANGED phase /\ served'[u] = "new" /\ done'[u] = 0
        /\ \A x \in Users : x # u =>
             due'[x] = due[x] /\ told'[x] = told[x] /\ served'[x] = served[x]
             /\ done'[x] = done[x]
    BY <1>4 DEF NewDueDate, vars, DigestTypeOK
  <2> QED
    BY <2>1 DEF GapInv, SlotComing
<1>5. CASE Midnight
  BY <1>5, GapMidnight
<1>6. CASE UNCHANGED allVars
  BY <1>0, <1>6 DEF allVars, vars, digestVars
<1> QED
  BY <1>1, <1>2, <1>3, <1>4, <1>5, <1>6 DEF DigestNext

(***************************************************************************)
(* The weekly windows leave no gap (digest.py:14-29): in every week and    *)
(* for every set of digest days that WindowsMeet allows, however instances *)
(* compete, crash and refuse, a date that goes by after a run handled the  *)
(* user on each digest day before it was named in a digest.                *)
(***************************************************************************)
THEOREM WindowsLeaveNoGap ==
    ASSUME WindowsMeet
    PROVE  DigestSpec => []NeverUnannounced
<1>1. DigestTypeOK /\ GapInv => NeverUnannounced
  <2> SUFFICES ASSUME DigestTypeOK, GapInv, NEW u \in Users, due[u] < 0,
                      served[u] = "always", ~told[u]
               PROVE  FALSE
    BY DEF NeverUnannounced
  <2>1. due[u] \in Int /\ due[u] >= 0
    BY BoundsType DEF DigestTypeOK, GapInv
  <2> QED
    BY <2>1
<1>2. TypeOK /\ DigestTypeOK /\ GapInv /\ [DigestNext]_allVars => GapInv'
  BY GapInductive
<1> QED
  BY <1>1, <1>2, GapInit, DigestTypeCorrect, DigestWithinLock, TypeCorrect, PTL DEF DigestSpec
=============================================================================
