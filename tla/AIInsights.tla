----------------------------- MODULE AIInsights -----------------------------
(***************************************************************************)
(* The cache of generated insights: POST /ai-insights                      *)
(* (app/routers/ai_insights.py) and the daily clean-up of the table        *)
(* (app/utils/cleanup.py).                                                 *)
(*                                                                         *)
(* A request that may use the cache SELECTs the user's insights; if the    *)
(* newest is within INSIGHT_TTL_DAYS all of them are the answer.           *)
(* Otherwise the request reads transactions and goals, awaits Groq, and    *)
(* inserts the three insights of a valid answer with one COMMIT.  Nothing  *)
(* is locked meanwhile.  Every SELECT is restricted to the caller's rows,  *)
(* so one user is all there is to see.                                     *)
(*                                                                         *)
(* created_at is filled by the server default of the table.  It is given   *)
(* to SQLAlchemy as the string "now()" (models/ai_insight.py), not as      *)
(* func.now(): the DDL has it as a quoted literal, which PostgreSQL        *)
(* converts to a timestamp once, when the table is created.  Days are      *)
(* counted from that moment.                                               *)
(***************************************************************************)
EXTENDS Integers, FiniteSets

CONSTANTS Requests,   \* how many of the user's requests are worked on at once
          TTL,        \* INSIGHT_TTL_DAYS
          Retention,  \* INSIGHTS_RETENTION_DAYS
          Horizon,    \* bound: how many days are looked at
          MaxBatches, \* bound: how many answers of Groq are stored
          Replies     \* what Groq may answer: number of items, and are they sound

ASSUME AIInsightsAssumption ==
    /\ IsFiniteSet(Requests)
    /\ {TTL, Retention, Horizon, MaxBatches} \subseteq Nat
    /\ 0 < TTL /\ TTL <= Retention
    /\ Replies \subseteq [items : Nat, sound : BOOLEAN]

VARIABLES
    day,      \* days since the table was created
    spent,    \* the user has transactions
    insights, \* the rows of ai_insights
    batches,  \* how many answers have been stored
    req       \* the requests being worked on

vars == <<day, spent, insights, batches, req>>

\* The answer an insight came with and its place there; the day it was made and
\* whether the request was forced, which the table does not know; created_at.
Row == [batch : Nat, item : Nat, made : 0 .. Horizon, forced : BOOLEAN, stamp : 0 .. Horizon]

\* Idle; served from the cache; the cache has been passed over; Groq is awaited;
\* the COMMIT is done and the rows are read again.
Request == [pc : {"idle", "hit", "miss", "groq", "refresh"}, forced : BOOLEAN]
Idle == [pc |-> "idle", forced |-> FALSE]
Goto(r, pc, forced) == req' = [req EXCEPT ![r] = [pc |-> pc, forced |-> forced]]

(***************************************************************************)
(* Rows and requests are well-formed, and an answer of Groq is stored as   *)
(* three rows and stays so: whatever Groq sends, and with the clean-up     *)
(* between the INSERT and the next request.                                *)
(***************************************************************************)
TypeOK ==
    /\ day \in 0 .. Horizon
    /\ spent \in BOOLEAN
    /\ insights \subseteq Row
    /\ batches \in 0 .. MaxBatches
    /\ req \in [Requests -> Request]
    /\ \A i \in insights : /\ i.batch < batches /\ i.made <= day /\ i.stamp <= i.made
                           /\ {j.item : j \in {k \in insights : k.batch = i.batch}} = 1 .. 3

Init ==
    /\ day = 0
    /\ spent \in BOOLEAN
    /\ insights = {}
    /\ batches = 0
    /\ req = [r \in Requests |-> Idle]

----------------------------------------------------------------------------
\* Mutant: the age is compared with the wrong sign.
Within_Wrong(stamp) == day - stamp > TTL
Within(stamp) == day - stamp < TTL

\* ORDER BY created_at DESC, and the first row's age: some row is within the TTL.
Cached == \E i \in insights : Within(i.stamp)

Hit(r) ==
    /\ req[r].pc = "idle"
    /\ Cached
    /\ Goto(r, "hit", FALSE)
    /\ UNCHANGED <<day, spent, insights, batches>>

Miss(r, forced) ==
    /\ req[r].pc = "idle"
    /\ forced \/ ~Cached
    /\ Goto(r, "miss", forced)
    /\ UNCHANGED <<day, spent, insights, batches>>

\* The SELECTs of transactions and goals, then the call of Groq.
Fetch(r) ==
    /\ req[r].pc = "miss"
    /\ spent
    /\ Goto(r, "groq", req[r].forced)
    /\ UNCHANGED <<day, spent, insights, batches>>

\* Mutant: the number of items is not looked at.
Valid_AnyLength(reply) == reply.sound
Valid(reply) == reply.items = 3 /\ reply.sound

\* Mutant: the default is evaluated at each INSERT.
Stamp_Row == day
Stamp == 0

Store(r, reply) ==
    /\ req[r].pc = "groq"
    /\ Valid(reply)
    /\ batches < MaxBatches
    /\ insights' = insights \cup
         {[batch |-> batches, item |-> n, made |-> day, forced |-> req[r].forced,
           stamp |-> Stamp] : n \in 1 .. reply.items}
    /\ batches' = batches + 1
    /\ Goto(r, "refresh", req[r].forced)
    /\ UNCHANGED <<day, spent>>

\* The answer is sent: cached, fresh, or empty for want of transactions; or an
\* error, 502 if Groq fails or its answer is not valid, 500 if the clean-up has
\* deleted the new rows before they are read again; or the process dies.
End(r) ==
    /\ req[r].pc # "idle"
    /\ Goto(r, "idle", FALSE)
    /\ UNCHANGED <<day, spent, insights, batches>>

(***************************************************************************)
(* cleanup_old_insights, where the driver takes its cutoff: asyncpg, as    *)
(* pinned, refuses an aware datetime for the naive created_at, and the job *)
(* fails without having done anything.                                     *)
(***************************************************************************)
Cleanup ==
    /\ insights' = {i \in insights : day - i.stamp <= Retention}
    /\ UNCHANGED <<day, spent, batches, req>>

\* The user's first transaction is made, or the last one deleted.
Spend ==
    /\ spent' = ~spent
    /\ UNCHANGED <<day, insights, batches, req>>

Tick ==
    /\ day < Horizon
    /\ day' = day + 1
    /\ UNCHANGED <<spent, insights, batches, req>>

Next ==
    \/ \E r \in Requests : \/ Hit(r)
                           \/ \E forced \in BOOLEAN : Miss(r, forced)
                           \/ Fetch(r)
                           \/ \E reply \in Replies : Store(r, reply)
                           \/ End(r)
    \/ Cleanup \/ Spend \/ Tick

Spec == Init /\ [][Next]_vars

----------------------------------------------------------------------------
(***************************************************************************)
(* What the cache answers is within the TTL: every insight, not only the   *)
(* newest (ai_insights.py:167-183 looks at cached[0] and returns all of    *)
(* cached).  It holds because all rows carry one created_at.               *)
(***************************************************************************)
HitServesYoung ==
    [][\A r \in Requests :
         req[r].pc = "idle" /\ req'[r].pc = "hit" =>
           \A i \in insights : day - i.made < TTL]_vars

(***************************************************************************)
(* A burst of requests to an empty cache is bounded: within the first TTL  *)
(* days, requests that do not force a refresh make no more answers than    *)
(* were being worked on at once, although check and INSERT are not atomic  *)
(* (ai_insights.py:166-185).                                               *)
(***************************************************************************)
Unforced == {i.batch : i \in {j \in insights : ~j.forced /\ j.made < TTL}}
HerdBounded == Cardinality(Unforced) <= Cardinality(Requests)

(***************************************************************************)
(* The comment "Check for cached insights within TTL" (ai_insights.py:167):*)
(* a request that does not force a refresh calls Groq only if no insight   *)
(* was made within the last TTL days.                                      *)
(***************************************************************************)
CacheServes ==
    [][\A r \in Requests :
         req[r].pc = "idle" /\ req'[r].pc = "miss" /\ ~req'[r].forced =>
           \A i \in insights : day - i.made >= TTL]_vars

=============================================================================
