-------------------------- MODULE AIInsightsProofs --------------------------
(***************************************************************************)
(* What AIInsights promises, for every number of requests, every TTL and   *)
(* retention, and whatever Groq answers.                                   *)
(***************************************************************************)
EXTENDS AIInsights, FiniteSetTheorems, TLAPS

\* The requests that have passed the cache over and may yet store an answer.
Waiting == {r \in Requests : req[r].pc \in {"miss", "groq"} /\ ~req[r].forced}

(***************************************************************************)
(* While the rows' one created_at is within the TTL, an unforced miss      *)
(* needs an empty table: each answer stored takes the place of a request   *)
(* that was waiting when there was none.                                   *)
(***************************************************************************)
Bounded ==
    /\ IsFiniteSet(Unforced)
    /\ HerdBounded
    /\ day < TTL =>
         Cardinality(Unforced) + Cardinality(Waiting) <= Cardinality(Requests)

OneStamp == \A i \in insights : i.stamp = Stamp

IInv == TypeOK /\ OneStamp /\ Bounded

LEMMA Constants ==
    /\ IsFiniteSet(Requests) /\ Cardinality(Requests) \in Nat
    /\ TTL \in Nat /\ Retention \in Nat /\ Horizon \in Nat /\ MaxBatches \in Nat
    /\ 0 < TTL /\ TTL <= Retention
BY AIInsightsAssumption, FS_CardinalityType

LEMMA WaitingFinite ==
    /\ IsFiniteSet(Waiting) /\ Cardinality(Waiting) \in Nat
    /\ Cardinality(Waiting) <= Cardinality(Requests)
<1>1. Waiting \subseteq Requests
  BY DEF Waiting
<1> QED
  BY <1>1, Constants, FS_Subset, FS_CardinalityType

\* The same one step later.
LEMMA WaitingFiniteNext ==
    /\ IsFiniteSet(Waiting') /\ Cardinality(Waiting') \in Nat
    /\ Cardinality(Waiting') <= Cardinality(Requests)
<1>1. Waiting' \subseteq Requests
  BY DEF Waiting
<1> QED
  BY <1>1, Constants, FS_Subset, FS_CardinalityType

\* A step that neither stores nor lets a request wait keeps the bound.
LEMMA FewerKeepBound ==
    ASSUME IInv, Unforced' \subseteq Unforced, Waiting' \subseteq Waiting,
           day \in Int, day' \in Int, day <= day'
    PROVE  Bounded'
<1> USE DEF IInv, Bounded, HerdBounded
<1>1. /\ IsFiniteSet(Unforced') /\ Cardinality(Unforced') \in Nat
      /\ Cardinality(Unforced) \in Nat
      /\ Cardinality(Unforced') <= Cardinality(Unforced)
  BY FS_Subset, FS_CardinalityType
<1>2. Cardinality(Waiting') <= Cardinality(Waiting)
  BY WaitingFinite, FS_Subset
<1>3. TTL \in Nat /\ (day' < TTL => day < TTL)
  BY Constants
<1> QED
  BY <1>1, <1>2, <1>3, Constants, WaitingFinite, WaitingFiniteNext

\* Steps that touch the requests only.
LEMMA RequestsOnly ==
    ASSUME IInv, UNCHANGED <<day, spent, insights, batches>>,
           req' \in [Requests -> Request]
    PROVE  TypeOK' /\ OneStamp' /\ Unforced' = Unforced
BY DEF IInv, TypeOK, OneStamp, Unforced, Stamp

LEMMA GotoTypes ==
    ASSUME TypeOK, NEW r \in Requests, NEW forced \in BOOLEAN,
           NEW pc \in {"idle", "hit", "miss", "groq", "refresh"}, Goto(r, pc, forced)
    PROVE  /\ req' \in [Requests -> Request]
           /\ req'[r] = [pc |-> pc, forced |-> forced]
           /\ \A s \in Requests \ {r} : req'[s] = req[s]
BY DEF TypeOK, Goto, Request

(***************************************************************************)
(* The INSERT of an answer.                                                *)
(***************************************************************************)
LEMMA StoreKeeps ==
    ASSUME IInv, NEW r \in Requests, NEW reply \in Replies, Store(r, reply)
    PROVE  IInv'
<1> DEFINE made == {[batch |-> batches, item |-> n, made |-> day,
                     forced |-> req[r].forced, stamp |-> Stamp] : n \in 1 .. 3}
<1>1. /\ insights' = insights \cup made
      /\ batches' = batches + 1 /\ batches < MaxBatches
      /\ day' = day /\ spent' = spent
      /\ req[r].pc = "groq" /\ Goto(r, "refresh", req[r].forced)
  BY DEF Store, Valid
<1>2. /\ day \in Int /\ 0 <= day /\ day <= Horizon /\ spent \in BOOLEAN
      /\ batches \in Int /\ 0 <= batches /\ insights \subseteq Row
      /\ req[r].forced \in BOOLEAN /\ req \in [Requests -> Request]
  BY Constants DEF IInv, TypeOK, Request
<1>3. /\ req' \in [Requests -> Request]
      /\ req'[r] = [pc |-> "refresh", forced |-> req[r].forced]
      /\ \A s \in Requests \ {r} : req'[s] = req[s]
  BY <1>1, <1>2, GotoTypes DEF IInv
<1>4. TypeOK'
  <2>1. made \subseteq Row
    BY <1>2, Constants DEF Row, Stamp
  <2>2. batches' \in 0 .. MaxBatches
    BY <1>1, <1>2, Constants
  <2>3. ASSUME NEW i \in insights'
        PROVE  /\ i.batch < batches' /\ i.made <= day' /\ i.stamp <= i.made
               /\ {j.item : j \in {k \in insights' : k.batch = i.batch}} = 1 .. 3
    <3>1. CASE i \in insights
      <4>1. i.batch \in Nat /\ i.batch < batches /\ i.made <= day /\ i.stamp <= i.made
        BY <3>1, <1>2 DEF IInv, TypeOK, Row
      <4>2. {k \in insights' : k.batch = i.batch} = {k \in insights : k.batch = i.batch}
        BY <4>1, <1>1, <1>2
      <4> QED
        BY <3>1, <4>1, <4>2, <1>1, <1>2 DEF IInv, TypeOK
    <3>2. CASE i \in made
      <4>1. i.batch = batches /\ i.made = day /\ i.stamp = 0
        BY <3>2 DEF Stamp
      <4>2. \A k \in insights : k.batch # batches
        <5> SUFFICES ASSUME NEW k \in insights PROVE k.batch # batches
          OBVIOUS
        <5>1. k.batch \in Nat /\ k.batch < batches
          BY <1>2 DEF IInv, TypeOK, Row
        <5> QED
          BY <5>1, <1>2
      <4>3. {k \in insights' : k.batch = batches} = made
        BY <4>2, <1>1
      <4>4. {j.item : j \in made} = 1 .. 3
        <5>1. ASSUME NEW n \in 1 .. 3
              PROVE  n \in {j.item : j \in made}
          <6> DEFINE j == [batch |-> batches, item |-> n, made |-> day,
                           forced |-> req[r].forced, stamp |-> Stamp]
          <6>1. j \in made /\ j.item = n
            OBVIOUS
          <6> QED
            BY <6>1
        <5>2. \A j \in made : j.item \in 1 .. 3
          OBVIOUS
        <5> QED
          BY <5>1, <5>2
      <4> QED
        BY <4>1, <4>3, <4>4, <1>1, <1>2
    <3> QED
      BY <3>1, <3>2, <1>1
  <2> QED
    BY <2>1, <2>2, <2>3, <1>1, <1>3, Constants DEF TypeOK, IInv
<1>5. OneStamp'
  BY <1>1 DEF OneStamp, IInv, Stamp
<1>6. Bounded'
  <2>1. CASE ~req[r].forced /\ day < TTL
    <3>1. Unforced' = Unforced \cup {batches}
      <4>1. {j \in insights' : ~j.forced /\ j.made < TTL}
              = {j \in insights : ~j.forced /\ j.made < TTL} \cup made
        BY <2>1, <1>1
      <4>2. {i.batch : i \in made} = {batches}
        <5> DEFINE first == [batch |-> batches, item |-> 1, made |-> day,
                             forced |-> req[r].forced, stamp |-> Stamp]
        <5>1. first \in made /\ first.batch = batches
          OBVIOUS
        <5>2. \A i \in made : i.batch = batches
          OBVIOUS
        <5> HIDE DEF made, first
        <5> QED
          BY <5>1, <5>2
      <4> DEFINE old == {j \in insights : ~j.forced /\ j.made < TTL}
      <4>3. {i.batch : i \in old \cup made} = {i.batch : i \in old} \cup {i.batch : i \in made}
        OBVIOUS
      <4> HIDE DEF made
      <4> QED
        BY <4>1, <4>2, <4>3 DEF Unforced
    <3>2. Waiting' = Waiting \ {r} /\ r \in Waiting
      BY <2>1, <1>1, <1>3 DEF Waiting
    <3>3. Cardinality(Waiting') = Cardinality(Waiting) - 1
      BY <3>2, WaitingFinite, FS_RemoveElement
    <3>4. /\ IsFiniteSet(Unforced') /\ Cardinality(Unforced) \in Nat
          /\ Cardinality(Unforced') \in Nat
          /\ Cardinality(Unforced') <= Cardinality(Unforced) + 1
      <4>1. IsFiniteSet(Unforced)
        BY DEF IInv, Bounded
      <4>2. \/ Cardinality(Unforced') = Cardinality(Unforced)
            \/ Cardinality(Unforced') = Cardinality(Unforced) + 1
        BY <3>1, <4>1, FS_AddElement
      <4>3. IsFiniteSet(Unforced')
        BY <3>1, <4>1, FS_AddElement
      <4> QED
        BY <4>1, <4>2, <4>3, FS_CardinalityType
    <3> QED
      BY <2>1, <3>3, <3>4, <1>1, Constants, WaitingFinite, WaitingFiniteNext
         DEF IInv, Bounded, HerdBounded
  <2>2. CASE req[r].forced \/ ~(day < TTL)
    <3>1. Unforced' \subseteq Unforced
      BY <2>2, <1>1 DEF Unforced
    <3>2. Waiting' \subseteq Waiting
      BY <1>1, <1>3 DEF Waiting
    <3> QED
      BY <3>1, <3>2, <1>1, <1>2, FewerKeepBound
  <2> QED
    BY <2>1, <2>2, <1>2
<1> QED
  BY <1>4, <1>5, <1>6 DEF IInv

LEMMA InitOK == Init => IInv
<1> SUFFICES ASSUME Init PROVE IInv
  OBVIOUS
<1>1. TypeOK /\ OneStamp
  BY Constants DEF Init, TypeOK, OneStamp, Idle, Request, Row
<1>2. Unforced = {}
  BY DEF Init, Unforced
<1>3. Cardinality(Unforced) = 0 /\ IsFiniteSet(Unforced)
  BY <1>2, FS_EmptySet
<1> QED
  BY <1>1, <1>3, WaitingFinite, Constants DEF IInv, Bounded, HerdBounded

LEMMA StepOK == IInv /\ [Next]_vars => IInv'
<1> SUFFICES ASSUME IInv, [Next]_vars
             PROVE  IInv'
  OBVIOUS
<1>0. day \in Int /\ TypeOK
  BY Constants DEF IInv, TypeOK
<1>1. ASSUME NEW r \in Requests, Hit(r)
      PROVE  IInv'
  <2>1. /\ req' \in [Requests -> Request]
        /\ req'[r] = [pc |-> "hit", forced |-> FALSE]
        /\ \A s \in Requests \ {r} : req'[s] = req[s]
    BY <1>0, <1>1, GotoTypes DEF Hit
  <2>2. Waiting' \subseteq Waiting
    BY <2>1 DEF Waiting
  <2> QED
    BY <1>0, <1>1, <2>1, <2>2, RequestsOnly, FewerKeepBound DEF Hit, IInv
<1>2. ASSUME NEW r \in Requests, NEW forced \in BOOLEAN, Miss(r, forced)
      PROVE  IInv'
  <2>1. /\ req' \in [Requests -> Request]
        /\ req'[r] = [pc |-> "miss", forced |-> forced]
        /\ \A s \in Requests \ {r} : req'[s] = req[s]
    BY <1>0, <1>2, GotoTypes DEF Miss
  <2>2. TypeOK' /\ OneStamp' /\ Unforced' = Unforced /\ day' = day
    BY <1>2, <2>1, RequestsOnly DEF Miss
  <2>3. CASE forced
    <3>1. Waiting' \subseteq Waiting
      BY <2>1, <2>3 DEF Waiting
    <3> QED
      BY <1>0, <2>2, <3>1, FewerKeepBound DEF IInv
  <2>4. CASE ~forced
    <3>1. day < TTL => insights = {}
      BY <1>0, <1>2, <2>4, Constants DEF Miss, Cached, Within, IInv, OneStamp, Stamp
    <3>2. day < TTL => Cardinality(Unforced) = 0
      BY <3>1, FS_EmptySet DEF Unforced
    <3> QED
      BY <2>2, <3>2, WaitingFiniteNext, Constants DEF IInv, Bounded, HerdBounded
  <2> QED
    BY <2>3, <2>4
<1>3. ASSUME NEW r \in Requests, Fetch(r)
      PROVE  IInv'
  <2>0. req[r].forced \in BOOLEAN
    BY <1>0 DEF TypeOK, Request
  <2>1. /\ req' \in [Requests -> Request]
        /\ req'[r] = [pc |-> "groq", forced |-> req[r].forced]
        /\ \A s \in Requests \ {r} : req'[s] = req[s]
    BY <1>0, <1>3, <2>0, GotoTypes DEF Fetch
  <2>2. Waiting' \subseteq Waiting
    BY <1>3, <2>1 DEF Waiting, Fetch
  <2> QED
    BY <1>0, <1>3, <2>1, <2>2, RequestsOnly, FewerKeepBound DEF Fetch, IInv
<1>4. ASSUME NEW r \in Requests, NEW reply \in Replies, Store(r, reply)
      PROVE  IInv'
  BY <1>4, StoreKeeps
<1>5. ASSUME NEW r \in Requests, End(r)
      PROVE  IInv'
  <2>1. /\ req' \in [Requests -> Request]
        /\ req'[r] = [pc |-> "idle", forced |-> FALSE]
        /\ \A s \in Requests \ {r} : req'[s] = req[s]
    BY <1>0, <1>5, GotoTypes DEF End
  <2>2. Waiting' \subseteq Waiting
    BY <2>1 DEF Waiting
  <2> QED
    BY <1>0, <1>5, <2>1, <2>2, RequestsOnly, FewerKeepBound DEF End, IInv
<1>6. CASE Cleanup
  \* All rows have one created_at: the clean-up takes all or none.
  <2>1. insights' = insights \/ insights' = {}
    BY <1>6 DEF Cleanup, IInv, OneStamp
  <2>2. UNCHANGED <<day, spent, batches, req>>
    BY <1>6 DEF Cleanup
  <2>3. TypeOK' /\ OneStamp'
    BY <2>1, <2>2 DEF IInv, TypeOK, OneStamp, Stamp
  <2>4. Unforced' \subseteq Unforced /\ Waiting' \subseteq Waiting
    BY <2>1, <2>2 DEF Unforced, Waiting
  <2> QED
    BY <1>0, <2>2, <2>3, <2>4, FewerKeepBound DEF IInv
<1>7. CASE Spend
  <2>1. TypeOK' /\ OneStamp' /\ Unforced' = Unforced /\ Waiting' = Waiting /\ day' = day
    BY <1>7 DEF Spend, IInv, TypeOK, OneStamp, Stamp, Unforced, Waiting
  <2> QED
    BY <1>0, <2>1, FewerKeepBound DEF IInv
<1>8. CASE Tick
  <2>1. day' = day + 1 /\ day < Horizon /\ UNCHANGED <<spent, insights, batches, req>>
    BY <1>8 DEF Tick
  <2>2. day' \in 0 .. Horizon /\ day' \in Int /\ day <= day'
    BY <1>0, <2>1, Constants DEF TypeOK
  <2>3. \A i \in insights : i.made \in Int /\ (i.made <= day => i.made <= day')
    BY <1>0, <2>1, Constants DEF TypeOK, Row
  <2>4. TypeOK'
    BY <1>0, <2>1, <2>2, <2>3 DEF TypeOK
  <2>5. OneStamp' /\ Unforced' = Unforced /\ Waiting' = Waiting
    BY <2>1 DEF IInv, OneStamp, Stamp, Unforced, Waiting
  <2> QED
    BY <1>0, <2>2, <2>4, <2>5, FewerKeepBound DEF IInv
<1>9. CASE UNCHANGED vars
  BY <1>9 DEF vars, IInv, TypeOK, OneStamp, Stamp, Bounded, HerdBounded, Unforced, Waiting
<1> QED
  BY <1>1, <1>2, <1>3, <1>4, <1>5, <1>6, <1>7, <1>8, <1>9 DEF Next

----------------------------------------------------------------------------
(***************************************************************************)
(* Insights are stored in threes and deleted so, whatever Groq answers and *)
(* whenever the clean-up runs (ai_insights.py:122-140, cleanup.py:13-17).  *)
(***************************************************************************)
THEOREM TypeCorrect == Spec => []TypeOK
<1>1. IInv => TypeOK
  BY DEF IInv
<1> QED
  BY InitOK, StepOK, <1>1, PTL DEF Spec

(***************************************************************************)
(* A burst of requests to an empty cache makes no more answers than there  *)
(* are requests at once (ai_insights.py:166-185).                          *)
(***************************************************************************)
THEOREM HerdIsBounded == Spec => []HerdBounded
<1>1. IInv => HerdBounded
  BY DEF IInv, Bounded
<1> QED
  BY InitOK, StepOK, <1>1, PTL DEF Spec

(***************************************************************************)
(* A hit serves nothing that is older than the TTL (ai_insights.py:183):   *)
(* no row is older than the table, whose age the check looks at.           *)
(***************************************************************************)
THEOREM HitsAreYoung == Spec => HitServesYoung
<1> DEFINE Young(i) == day - i.made < TTL
           Serves == \A r \in Requests : req[r].pc = "idle" /\ req'[r].pc = "hit" =>
                                           \A i \in insights : day - i.made < TTL
<1>1. IInv /\ [Next]_vars => [Serves]_vars
  <2> SUFFICES ASSUME IInv, Next, NEW r \in Requests,
                      req[r].pc = "idle", req'[r].pc = "hit",
                      NEW i \in insights
               PROVE  day - i.made < TTL
    BY DEF Serves
  <2>0. TypeOK /\ day \in Int /\ i.made \in Int /\ 0 <= i.made
    <3>1. TypeOK /\ i \in Row
      BY DEF IInv, TypeOK
    <3>2. i.made \in 0 .. Horizon
      BY <3>1 DEF Row
    <3> QED
      BY <3>1, <3>2, Constants DEF TypeOK
  <2>1. Cached
    <3>1. ASSUME NEW s \in Requests, NEW pc \in {"idle", "miss", "groq", "refresh"},
                 NEW forced \in BOOLEAN, Goto(s, pc, forced)
          PROVE  FALSE
      <4>1. /\ req'[s] = [pc |-> pc, forced |-> forced]
            /\ \A t \in Requests \ {s} : req'[t] = req[t]
        BY <2>0, <3>1, GotoTypes
      <4>2. CASE s = r
        BY <4>1, <4>2
      <4>3. CASE s # r
        BY <4>1, <4>3
      <4> QED
        BY <4>2, <4>3
    <3>2. ASSUME NEW s \in Requests, Hit(s)
          PROVE  Cached
      BY <3>2 DEF Hit
    <3>3. \A s \in Requests : req[s].forced \in BOOLEAN
      BY <2>0 DEF TypeOK, Request
    <3>4. ASSUME NEW s \in Requests,
                 \/ \E forced \in BOOLEAN : Miss(s, forced)
                 \/ Fetch(s) \/ End(s)
                 \/ \E reply \in Replies : Store(s, reply)
          PROVE  FALSE
      BY <3>1, <3>3, <3>4 DEF Miss, Fetch, End, Store
    <3>5. CASE Cleanup \/ Spend \/ Tick
      BY <3>5 DEF Cleanup, Spend, Tick
    <3> QED
      BY <3>2, <3>4, <3>5 DEF Next
  <2>2. day < TTL
    BY <2>0, <2>1, Constants DEF Cached, Within, IInv, OneStamp, Stamp
  <2> QED
    BY <2>0, <2>2, Constants
<1> QED
  BY InitOK, StepOK, <1>1, PTL DEF Spec, HitServesYoung

=============================================================================
