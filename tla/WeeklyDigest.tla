---------------------------- MODULE WeeklyDigest ----------------------------
(***************************************************************************)
(* The weekly digest (app/utils/digest.py) as the body of the runs that    *)
(* SchedulerLock describes: which users are told of a coming due date,     *)
(* however often, when instances compete, crash and are restarted, leases  *)
(* run out, statements fail and the mail service refuses or is not heard.  *)
(*                                                                         *)
(* Jobs holds one job, the digest.  A tick is a day, and Period the week.  *)
(* A user has one subscription: several only make the mail longer.  A due  *)
(* date is kept as the days that are left until it, so the state space is  *)
(* finite.  Users do not interact: a run handles them one by one, and what *)
(* it does for one reads and writes nothing of another.                    *)
(***************************************************************************)
EXTENDS SchedulerLock

CONSTANTS Users,
          Lead,    \* the digest looks this many days ahead
          Ahead,   \* bound: how many days ahead a due date is set
          Linger   \* bound: for how many midnights a run lasts

ASSUME DigestAssumption == {Lead, Ahead, Linger} \subseteq Nat

VARIABLES
    todo,   \* todo[w]: the users that w's run has fetched and not handled yet
    age,    \* age[w]: days since w's run has asked for the date of today
    due,    \* due[u]: days until the next due date of u's subscription
    told,   \* told[u]: a digest has named that date
    served, \* served[u]: was u handled in the slots since the date was set?
    done    \* done[u]: how often u was handled without a failure today (2: or more)

digestVars == <<todo, age, due, told, served, done>>
allVars == <<vars, digestVars>>

Past == -Linger - 1   \* out of every window: also, no active subscription

DigestTypeOK ==
    /\ todo \in [Workers -> SUBSET Users]
    /\ age \in [Workers -> 0 .. Linger]
    /\ due \in [Users -> Past .. Ahead]
    /\ told \in [Users -> BOOLEAN]
    /\ served \in [Users -> {"new", "always", "missed"}]
    /\ done \in [Users -> 0 .. 2]
    /\ \A w \in Workers : todo[w] # {} => pc[w] = "running"

DigestInit ==
    /\ Init
    /\ todo = [w \in Workers |-> {}]
    /\ age = [w \in Workers |-> 0]
    /\ due = [u \in Users |-> Past]
    /\ told = [u \in Users |-> FALSE]
    /\ served = [u \in Users |-> "new"]
    /\ done = [u \in Users |-> 0]

----------------------------------------------------------------------------
\* What comes before and after the body leaves the digest alone.
Around(w) ==
    /\ \/ Fire(w)
       \/ SweepOk(w) \/ SweepErr(w)
       \/ InsertConflict(w) \/ InsertErr(w) \/ InsertAckLost(w)
       \/ ReleaseOk(w) \/ ReleaseErr(w)
    /\ UNCHANGED digestVars

\* With the lock acquired, the date is taken and the users are fetched.
Start(w) ==
    /\ InsertOk(w)
    /\ todo' = [todo EXCEPT ![w] = Users]
    /\ age' = [age EXCEPT ![w] = 0]
    /\ UNCHANGED <<due, told, served, done>>

\* next_due_date between today and week_end, both included, where today is the
\* day the run began.  Mutant: both excluded.
DueThisWeek_Strict(w, u) == 0 < due[u] + age[w] /\ due[u] + age[w] < Lead
DueThisWeek(w, u) == 0 <= due[u] + age[w] /\ due[u] + age[w] <= Lead

HandledOnceMore(u) == done' = [done EXCEPT ![u] = IF @ < 2 THEN @ + 1 ELSE 2]

Handling(w, u) ==
    /\ pc[w] = "running"
    /\ u \in todo[w]
    /\ todo' = [todo EXCEPT ![w] = @ \ {u}]
    /\ UNCHANGED <<vars, age, due, served>>

NothingDue(w, u) ==
    /\ Handling(w, u)
    /\ ~DueThisWeek(w, u)
    /\ HandledOnceMore(u)
    /\ UNCHANGED told

\* The mail service takes the mail, even if its answer does not arrive
\* (EmailDeliveryError, which is only logged).
MailSent(w, u) ==
    /\ Handling(w, u)
    /\ DueThisWeek(w, u)
    /\ told' = [told EXCEPT ![u] = TRUE]
    /\ HandledOnceMore(u)

\* The mail service is not reached, or refuses: logged, and on to the next user.
MailRefused(w, u) ==
    /\ Handling(w, u)
    /\ DueThisWeek(w, u)
    /\ UNCHANGED <<told, done>>

Finish(w) ==
    /\ todo[w] = {}
    /\ BodyEnds(w)
    /\ UNCHANGED digestVars

\* An exception ends the body: a statement fails, or anything else does.
\* Mutant: a failed run leaves its users in its list.
Dropped_Kept(ws) == todo
Dropped(ws) == [w \in Workers |-> IF w \in ws THEN {} ELSE todo[w]]

Fail(w) ==
    /\ todo[w] # {}
    /\ BodyEnds(w) \/ BodyFailsInDb(w)
    /\ todo' = Dropped({w})
    /\ UNCHANGED <<age, due, told, served, done>>

CrashMidway(i) ==
    /\ Crash(i)
    /\ todo' = Dropped({w \in Workers : inst(w) = i})
    /\ UNCHANGED <<age, due, told, served, done>>

ComeBack(i) ==
    /\ Restart(i)
    /\ UNCHANGED digestVars

\* A subscription is made, paid, edited or cancelled: Payments says how.
NewDueDate(u, d) ==
    /\ due' = [due EXCEPT ![u] = d]
    /\ told' = [told EXCEPT ![u] = FALSE]
    /\ served' = [served EXCEPT ![u] = "new"]
    /\ done' = [done EXCEPT ![u] = 0]
    /\ UNCHANGED <<vars, todo, age>>

SlotNow == \E j \in Jobs : phase \in Slots[j]

\* Has u been served in this slot, as in those before it?  A slot after the
\* due date has nothing to tell.
ServedSoFar(u) ==
    IF ~SlotNow \/ due[u] < 0 THEN served[u]
    ELSE IF done[u] > 0 /\ served[u] # "missed" THEN "always"
    ELSE "missed"

Midnight ==
    /\ \A w \in Workers : todo[w] # {} => age[w] < Linger
    /\ Tick
    /\ age' = [w \in Workers |-> IF todo[w] # {} THEN age[w] + 1 ELSE 0]
    /\ due' = [u \in Users |-> IF due[u] > Past THEN due[u] - 1 ELSE Past]
    /\ served' = [u \in Users |-> ServedSoFar(u)]
    /\ done' = [u \in Users |-> 0]
    /\ UNCHANGED <<todo, told>>

DigestNext ==
    \/ \E w \in Workers :
         \/ Around(w) \/ Start(w) \/ Finish(w) \/ Fail(w)
         \/ \E u \in Users : NothingDue(w, u) \/ MailSent(w, u) \/ MailRefused(w, u)
    \/ \E i \in Instances : CrashMidway(i) \/ ComeBack(i)
    \/ \E u \in Users, d \in (0 .. Ahead) \cup {Past} : NewDueDate(u, d)
    \/ Midnight

DigestSpec == DigestInit /\ [][DigestNext]_allVars

\* The fairness of the lock's runs, of which the body goes on and is over some day.
DigestFairSpec == DigestSpec /\ Fairness

----------------------------------------------------------------------------
(***************************************************************************)
(* The weekly windows leave no gap (digest.py:14-29): when a date that was *)
(* known on some digest day before it goes by, and on each such day a run  *)
(* handled the user, then the user has been told of it.                    *)
(***************************************************************************)
NeverUnannounced ==
    \A u \in Users : due[u] < 0 /\ served[u] = "always" => told[u]

(***************************************************************************)
(* "preventing duplicate scheduled job execution across multiple           *)
(* instances/workers" (lock.py:13-14): no user is handled twice in a slot. *)
(***************************************************************************)
HandledOncePerSlot == \A u \in Users : done[u] <= 1

=============================================================================
