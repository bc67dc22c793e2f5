------------------------- MODULE RateLimiterProofs -------------------------
(***************************************************************************)
(* The rate limiter's invariants for any number of clients, any limit,     *)
(* window and cap, and any resolution of the clock.                        *)
(***************************************************************************)
EXTENDS RateLimiter, FiniteSetTheorems, SequenceTheorems, TLAPS

----------------------------------------------------------------------------
(***************************************************************************)
(* What the operators on deques return.                                    *)
(***************************************************************************)
\* A set of numbers has a least one: of the intervals that end in it, one
\* contains no other.
LEMMA LeastOfSet ==
    ASSUME NEW I \in SUBSET Nat, I # {}
    PROVE  Min(I) \in I /\ \A i \in I : Min(I) <= i
<1> DEFINE F == {1 .. i : i \in I}
<1>1. F \subseteq FiniteSubsetsOf(Nat) /\ F # {}
  <2>1. \A i \in I : IsFiniteSet(1 .. i) /\ 1 .. i \subseteq Nat
    BY FS_Interval
  <2> QED
    BY <2>1 DEF FiniteSubsetsOf
<1>2. PICK x \in F : \A y \in F : ~(<<y, x>> \in StrictSubsetOrdering(Nat))
  <2> HIDE DEF F
  <2> QED
    BY <1>1, WFMin, FS_StrictSubsetOrderingWellFounded
<1>3. PICK m \in I : x = 1 .. m
  OBVIOUS
<1>4. ASSUME NEW i \in I
      PROVE  m <= i
  <2>1. SUFFICES ASSUME i < m PROVE FALSE
    OBVIOUS
  <2>2. 1 .. i \in SUBSET Nat /\ 1 .. m \in SUBSET Nat
    OBVIOUS
  <2>3. m \in 1 .. m /\ m \notin 1 .. i /\ 1 .. i \subseteq 1 .. m
    BY <2>1
  <2>4. <<1 .. i, 1 .. m>> \in StrictSubsetOrdering(Nat)
    BY <2>2, <2>3 DEF StrictSubsetOrdering
  <2> QED
    BY <2>4, <1>2, <1>3
<1> QED
  BY <1>4 DEF Min

Sorted(s) == \A j, k \in 1 .. Len(s) : j <= k => s[j] >= s[k]

FromEnd(s, j) == s[Len(s) - j]

LEMMA SpanNat ==
    /\ Limit \in Nat \ {0} /\ Window \in Nat \ {0} /\ TicksPerSecond \in Nat \ {0}
    /\ MaxClients \in Nat \ {0}
    /\ Span \in Nat \ {0}
    /\ Wait \in Nat /\ Wait = Span + TicksPerSecond
<1>1. {Limit, Window, TicksPerSecond, MaxClients} \subseteq Nat \ {0}
  BY ConstAssumption
<1>2. \A w, t \in Nat \ {0} : w * t \in Nat \ {0} /\ (w + 1) * t = w * t + t
  <2>1. ASSUME NEW w \in Nat \ {0}, NEW t \in Nat \ {0}
        PROVE  w * t \in Nat \ {0} /\ (w + 1) * t = w * t + t
    BY Z3
  <2> QED
    BY <2>1
<1>3. /\ Limit \in Nat \ {0} /\ Window \in Nat \ {0}
      /\ TicksPerSecond \in Nat \ {0} /\ MaxClients \in Nat \ {0}
  BY <1>1
<1>4. /\ Window * TicksPerSecond \in Nat \ {0}
      /\ (Window + 1) * TicksPerSecond = Window * TicksPerSecond + TicksPerSecond
  BY <1>2, <1>3
<1>5. Span \in Nat \ {0} /\ Wait = Span + TicksPerSecond
  BY ONLY <1>4 DEF Span, Wait
<1> QED
  BY <1>3, <1>5

\* Where a new deque begins: after the timestamps that have expired.
FirstFresh(log) == SelectInSeq(log, LAMBDA age : age < Span)

LEMMA FirstFreshIs ==
    ASSUME NEW log \in Seq(Ages)
    PROVE  \/ /\ FirstFresh(log) = 0
              /\ \A k \in 1 .. Len(log) : log[k] >= Span
           \/ /\ FirstFresh(log) \in 1 .. Len(log)
              /\ log[FirstFresh(log)] < Span
              /\ \A k \in 1 .. FirstFresh(log) - 1 : log[k] >= Span
<1> DEFINE I == {i \in 1 .. Len(log) : log[i] < Span}
<1>1. FirstFresh(log) = IF I # {} THEN Min(I) ELSE 0
  BY DEF FirstFresh, SelectInSeq
<1>2. \A k \in 1 .. Len(log) : log[k] \in Nat
  BY SpanNat DEF Ages
<1>3. CASE I = {}
  BY <1>1, <1>2, <1>3, SpanNat
<1>4. CASE I # {}
  <2>1. I \in SUBSET Nat
    OBVIOUS
  <2>2. Min(I) \in I /\ \A i \in I : Min(I) <= i
    <3> HIDE DEF I
    <3> QED
      BY <2>1, <1>4, LeastOfSet
  <2>3. FirstFresh(log) = Min(I)
    BY <1>1, <1>4
  <2>4. \A k \in 1 .. Min(I) - 1 : k \in 1 .. Len(log) /\ k \notin I
    BY <2>2
  <2> QED
    BY <2>2, <2>3, <2>4, <1>2, SpanNat
<1> QED
  BY <1>3, <1>4

\* Pruning drops a beginning of the deque, and nothing that still counts.
LEMMA FreshIs ==
    ASSUME NEW log \in Seq(Ages)
    PROVE  LET f == Fresh(log)
               n == Len(log) - Len(f)
           IN /\ f \in Seq(Ages)
              /\ n \in Nat
              /\ \A j \in 1 .. Len(f) : f[j] = log[n + j]
              /\ \A k \in 1 .. n : log[k] >= Span
              /\ f # <<>> => f[1] < Span
<1> DEFINE first == FirstFresh(log)
<1>1. Fresh(log) = IF first = 0 THEN <<>> ELSE SubSeq(log, first, Len(log))
  BY DEF Fresh, FirstFresh
<1>2. CASE first = 0
  BY <1>1, <1>2, FirstFreshIs, SpanNat
<1>3. CASE first \in 1 .. Len(log)
  <2>0. first # 0
    <3> HIDE DEF first
    <3> QED
      BY <1>3
  <2>1. Fresh(log) = SubSeq(log, first, Len(log))
    BY <1>1, <2>0
  <2>2. /\ Fresh(log) \in Seq(Ages)
        /\ Len(Fresh(log)) = Len(log) - first + 1
        /\ \A j \in 1 .. Len(log) - first + 1 : Fresh(log)[j] = log[first + j - 1]
    <3> HIDE DEF first
    <3> QED
      BY <2>1, <1>3
  <2>3. log[first] < Span /\ \A k \in 1 .. first - 1 : log[k] >= Span
    BY <1>3, FirstFreshIs
  <2> HIDE DEF first
  <2> QED
    BY <1>3, <2>2, <2>3, SpanNat
<1> QED
  BY <1>2, <1>3, FirstFreshIs

Timestamp(log) == \A k \in 1 .. Len(log) : log[k] \in Nat /\ log[k] <= Span

LEMMA TimestampsAre ==
    ASSUME NEW log \in Seq(Ages)
    PROVE  Timestamp(log) /\ Len(log) \in Nat
<1>1. \A k \in 1 .. Len(log) : log[k] \in Ages
  OBVIOUS
<1> QED
  BY <1>1, SpanNat DEF Timestamp, Ages

\* What is left of a deque in order of time is in order of time, and counts.
LEMMA FreshSorted ==
    ASSUME NEW log \in Seq(Ages), Sorted(log)
    PROVE  /\ Sorted(Fresh(log))
           /\ \A k \in 1 .. Len(Fresh(log)) : Fresh(log)[k] < Span
<1> DEFINE f == Fresh(log)
           n == Len(log) - Len(f)
<1>1. /\ f \in Seq(Ages) /\ n \in Nat
      /\ \A j \in 1 .. Len(f) : f[j] = log[n + j]
      /\ f # <<>> => f[1] < Span
  BY FreshIs
<1>2. Timestamp(f) /\ Len(f) \in Nat /\ Len(log) \in Nat
  BY <1>1, TimestampsAre
<1> HIDE DEF f
<1>3. Sorted(f)
  <2> SUFFICES ASSUME NEW j \in 1 .. Len(f), NEW k \in 1 .. Len(f), j <= k
               PROVE  f[j] >= f[k]
    BY DEF Sorted
  <2>1. n + j \in 1 .. Len(log) /\ n + k \in 1 .. Len(log) /\ n + j <= n + k
    BY <1>1, <1>2
  <2>2. log[n + j] >= log[n + k]
    BY <2>1 DEF Sorted
  <2> QED
    BY <2>2, <1>1
<1>4. ASSUME NEW k \in 1 .. Len(f)
      PROVE  f[k] < Span
  <2>1. 1 \in 1 .. Len(f) /\ 1 <= k /\ f # <<>>
    BY <1>1, <1>2
  <2>2. f[1] >= f[k] /\ f[1] < Span
    BY <2>1, <1>1, <1>3 DEF Sorted
  <2> QED
    BY <2>1, <2>2, <1>2, SpanNat DEF Timestamp
<1> QED
  BY <1>3, <1>4 DEF f

\* Time passes for every timestamp alike.
LEMMA OlderIs ==
    /\ \A a \in Ages : Older(a) \in Ages /\ Older(a) >= a
    /\ \A a, b \in Ages : a >= b => Older(a) >= Older(b)
BY SpanNat DEF Older, Ages

LEMMA AgedIs ==
    ASSUME NEW log \in Seq(Ages)
    PROVE  /\ Aged(log) \in Seq(Ages)
           /\ Len(Aged(log)) = Len(log)
           /\ \A k \in 1 .. Len(log) : Aged(log)[k] = Older(log[k])
           /\ Sorted(log) => Sorted(Aged(log))
<1>1. \A k \in 1 .. Len(log) : log[k] \in Ages
  OBVIOUS
<1>2. \A k \in 1 .. Len(log) : Older(log[k]) \in Ages
  BY <1>1, OlderIs
<1>3. Len(log) \in Nat
  OBVIOUS
<1>4. Aged(log) \in Seq(Ages) /\ Len(Aged(log)) = Len(log)
  BY <1>2, <1>3 DEF Aged
<1>5. \A k \in 1 .. Len(log) : Aged(log)[k] = Older(log[k])
  BY DEF Aged
<1>6. Sorted(log) => Sorted(Aged(log))
  BY <1>1, <1>4, <1>5, OlderIs DEF Sorted
<1> QED
  BY <1>4, <1>5, <1>6

LEMMA AppendSorted ==
    ASSUME NEW log \in Seq(Ages), Sorted(log)
    PROVE  Append(log, 0) \in Seq(Ages) /\ Sorted(Append(log, 0))
<1>1. Timestamp(log) /\ Len(log) \in Nat /\ 0 \in Ages
  BY TimestampsAre, SpanNat DEF Ages
<1>2. /\ Append(log, 0) \in Seq(Ages) /\ Len(Append(log, 0)) = Len(log) + 1
      /\ \A k \in 1 .. Len(log) : Append(log, 0)[k] = log[k]
      /\ Append(log, 0)[Len(log) + 1] = 0
  BY <1>1
<1>3. ASSUME NEW j \in 1 .. Len(log) + 1, NEW k \in 1 .. Len(log) + 1, j <= k
      PROVE  Append(log, 0)[j] >= Append(log, 0)[k]
  <2>1. CASE k = Len(log) + 1 /\ j = Len(log) + 1
    BY <2>1, <1>2
  <2>2. CASE k = Len(log) + 1 /\ j # Len(log) + 1
    <3>1. j \in 1 .. Len(log)
      BY <2>2, <1>1
    <3> QED
      BY <3>1, <2>2, <1>1, <1>2 DEF Timestamp
  <2>3. CASE k # Len(log) + 1
    <3>1. j \in 1 .. Len(log) /\ k \in 1 .. Len(log)
      BY <2>3, <1>1, <1>3
    <3> QED
      BY <3>1, <1>2, <1>3 DEF Sorted
  <2> QED
    BY <2>1, <2>2, <2>3
<1> QED
  BY <1>2, <1>3 DEF Sorted

----------------------------------------------------------------------------
(***************************************************************************)
(* What the limiter keeps of one client: its deque, the requests let       *)
(* through, the time since its deque was thrown away, and what Retry-After *)
(* promised it.                                                            *)
(***************************************************************************)
\* The deque has each served request that counts, unless it was thrown away
\* since: the last one last.
Remembered(s, log, e) ==
    \A j \in 0 .. Len(s) - 1 :
        \/ FromEnd(s, j) >= e
        \/ j < Len(log) /\ FromEnd(log, j) = FromEnd(s, j)

Counting(s) == \A k \in 1 .. Len(s) : s[k] < Span

\* The oldest timestamp of a full deque expires by the time promised.
Promised(log, p) == p >= 0 /\ Len(log) = Limit => log[1] + p >= Span

ClientOK(log, s, e, p) ==
    /\ log \in Seq(Ages) /\ s \in Seq(Ages) /\ e \in Ages /\ p \in -1 .. Wait
    /\ Sorted(log) /\ Len(log) <= Limit
    /\ Sorted(s) /\ Counting(s)
    /\ Remembered(s, log, e)
    /\ Promised(log, p)

Recorded(s) == IF Len(s) > Limit THEN Append(Tail(s), 0) ELSE Append(s, 0)

LEMMA RecordedIs ==
    ASSUME NEW s \in Seq(Ages), Sorted(s), Counting(s)
    PROVE  /\ Recorded(s) \in Seq(Ages)
           /\ Sorted(Recorded(s)) /\ Counting(Recorded(s))
           /\ Len(Recorded(s)) \in Nat /\ Len(Recorded(s)) <= Len(s) + 1
           /\ Len(Recorded(s)) > 0
           /\ FromEnd(Recorded(s), 0) = 0
           /\ \A j \in 1 .. Len(Recorded(s)) - 1 :
                FromEnd(Recorded(s), j) = FromEnd(s, j - 1)
<1>1. Timestamp(s) /\ Len(s) \in Nat /\ 0 \in Ages
  BY TimestampsAre, SpanNat DEF Ages
<1> DEFINE n == IF Len(s) > Limit THEN 1 ELSE 0
           t == IF Len(s) > Limit THEN Tail(s) ELSE s
<1>2. /\ t \in Seq(Ages) /\ n \in {0, 1} /\ Len(t) = Len(s) - n /\ Len(t) \in Nat
      /\ \A k \in 1 .. Len(t) : t[k] = s[n + k]
  <2>1. CASE Len(s) > Limit
    <3>1. s # <<>>
      BY <2>1, SpanNat
    <3>2. Tail(s) \in Seq(Ages) /\ Len(Tail(s)) = Len(s) - 1
      BY <3>1
    <3>3. \A k \in 1 .. Len(s) - 1 : Tail(s)[k] = s[1 + k]
      BY <3>1, <1>1
    <3> QED
      BY <2>1, <3>2, <3>3, <1>1
  <2>2. CASE ~(Len(s) > Limit)
    BY <2>2, <1>1
  <2> QED
    BY <2>1, <2>2
<1>3. Recorded(s) = Append(t, 0)
  BY DEF Recorded
<1> HIDE DEF n, t
<1>4. Sorted(t)
  <2> SUFFICES ASSUME NEW j \in 1 .. Len(t), NEW k \in 1 .. Len(t), j <= k
               PROVE  t[j] >= t[k]
    BY DEF Sorted
  <2>1. n + j \in 1 .. Len(s) /\ n + k \in 1 .. Len(s) /\ n + j <= n + k
    BY <1>1, <1>2
  <2> QED
    BY <2>1, <1>2 DEF Sorted
<1>5. \A k \in 1 .. Len(t) : t[k] < Span
  <2> SUFFICES ASSUME NEW k \in 1 .. Len(t)
               PROVE  t[k] < Span
    OBVIOUS
  <2>1. n + k \in 1 .. Len(s)
    BY <1>1, <1>2
  <2> QED
    BY <2>1, <1>2 DEF Counting
<1>6. Append(t, 0) \in Seq(Ages) /\ Sorted(Append(t, 0))
  BY <1>2, <1>4, AppendSorted
<1>7. /\ Len(Append(t, 0)) = Len(t) + 1
      /\ \A k \in 1 .. Len(t) : Append(t, 0)[k] = t[k]
      /\ Append(t, 0)[Len(t) + 1] = 0
  BY <1>1, <1>2
<1>8. Counting(Append(t, 0))
  BY <1>2, <1>5, <1>7, SpanNat DEF Counting
<1>9. FromEnd(Append(t, 0), 0) = 0
  BY <1>2, <1>7 DEF FromEnd
<1>10. ASSUME NEW j \in 1 .. Len(t)
       PROVE  FromEnd(Append(t, 0), j) = FromEnd(s, j - 1)
  <2>1. /\ Len(t) + 1 - j \in 1 .. Len(t)
        /\ n + (Len(t) + 1 - j) = Len(s) - (j - 1)
    BY <1>1, <1>2
  <2> QED
    BY <2>1, <1>2, <1>7 DEF FromEnd
<1> QED
  BY <1>1, <1>2, <1>3, <1>6, <1>7, <1>8, <1>9, <1>10

\* Pruning forgets nothing that counts.
LEMMA PrunedRemembered ==
    ASSUME NEW log \in Seq(Ages), NEW s \in Seq(Ages), NEW e,
           Counting(s), Remembered(s, log, e)
    PROVE  Remembered(s, Fresh(log), e)
<1> DEFINE f == Fresh(log)
           n == Len(log) - Len(f)
<1>1. /\ f \in Seq(Ages) /\ n \in Nat
      /\ \A j \in 1 .. Len(f) : f[j] = log[n + j]
      /\ \A k \in 1 .. n : log[k] >= Span
  BY FreshIs
<1>2. Timestamp(log) /\ Len(f) \in Nat /\ Len(log) \in Nat /\ Len(s) \in Nat
  BY <1>1, TimestampsAre
<1> HIDE DEF f
<1>3. ASSUME NEW j \in 0 .. Len(s) - 1, ~(FromEnd(s, j) >= e)
      PROVE  j < Len(f) /\ FromEnd(f, j) = FromEnd(s, j)
  <2>1. j < Len(log) /\ log[Len(log) - j] = s[Len(s) - j]
    BY <1>3 DEF Remembered, FromEnd
  <2>2. Len(s) - j \in 1 .. Len(s) /\ Len(log) - j \in 1 .. Len(log)
    BY <1>2, <2>1
  <2>3. log[Len(log) - j] < Span
    BY <2>1, <2>2 DEF Counting
  <2>4. Len(log) - j \notin 1 .. n
    BY <2>2, <2>3, <1>1, <1>2, SpanNat DEF Timestamp
  <2>5. Len(f) - j \in 1 .. Len(f) /\ n + (Len(f) - j) = Len(log) - j
    BY <2>2, <2>4, <1>1, <1>2
  <2>6. f[Len(f) - j] = log[Len(log) - j]
    BY <2>5, <1>1
  <2>7. j < Len(f)
    BY <2>5, <1>2
  <2> QED
    BY <2>1, <2>6, <2>7 DEF FromEnd
<1> QED
  BY <1>3 DEF Remembered, f

\* One more request, in the log and in the record.
LEMMA ServedRemembered ==
    ASSUME NEW log \in Seq(Ages), NEW s \in Seq(Ages), NEW e,
           Sorted(s), Counting(s), Remembered(s, log, e)
    PROVE  Remembered(Recorded(s), Append(log, 0), e)
<1> DEFINE r == Recorded(s)
           a == Append(log, 0)
<1>1. /\ Len(r) \in Nat /\ Len(r) <= Len(s) + 1
      /\ FromEnd(r, 0) = 0
      /\ \A j \in 1 .. Len(r) - 1 : FromEnd(r, j) = FromEnd(s, j - 1)
  BY RecordedIs
<1>2. Len(log) \in Nat /\ Len(s) \in Nat /\ 0 \in Ages
  BY SpanNat DEF Ages
<1>3. /\ Len(a) = Len(log) + 1 /\ a[Len(log) + 1] = 0
      /\ \A k \in 1 .. Len(log) : a[k] = log[k]
  BY <1>2
<1> HIDE DEF r, a
<1>4. ASSUME NEW j \in 0 .. Len(r) - 1
      PROVE  FromEnd(r, j) >= e \/ (j < Len(a) /\ FromEnd(a, j) = FromEnd(r, j))
  <2>1. CASE j = 0
    BY <2>1, <1>1, <1>2, <1>3 DEF FromEnd
  <2>2. CASE j # 0
    <3>1. j \in 1 .. Len(r) - 1 /\ j - 1 \in 0 .. Len(s) - 1
      BY <2>2, <1>1, <1>2
    <3>2. FromEnd(r, j) = FromEnd(s, j - 1)
      BY <3>1, <1>1
    <3>3. CASE FromEnd(s, j - 1) >= e
      BY <3>2, <3>3
    <3>4. CASE j - 1 < Len(log) /\ FromEnd(log, j - 1) = FromEnd(s, j - 1)
      <4>1. /\ Len(log) - (j - 1) \in 1 .. Len(log)
            /\ Len(a) - j = Len(log) - (j - 1)
            /\ j < Len(a)
        BY <3>1, <3>4, <1>2, <1>3
      <4>2. a[Len(a) - j] = log[Len(log) - (j - 1)]
        BY <4>1, <1>3
      <4> QED
        BY <4>1, <4>2, <3>2, <3>4 DEF FromEnd
    <3> QED
      BY <3>1, <3>3, <3>4 DEF Remembered
  <2> QED
    BY <2>1, <2>2
<1> QED
  BY <1>4 DEF Remembered, r, a

\* Time passes.
LEMMA OlderRemembered ==
    ASSUME NEW log \in Seq(Ages), NEW s \in Seq(Ages), NEW e \in Ages,
           Remembered(s, log, e)
    PROVE  Remembered(Fresh(Aged(s)), Aged(log), Older(e))
<1> DEFINE b == Aged(s)
           f == Fresh(b)
           n == Len(b) - Len(f)
           a == Aged(log)
<1>1. /\ b \in Seq(Ages) /\ Len(b) = Len(s)
      /\ \A k \in 1 .. Len(s) : b[k] = Older(s[k])
      /\ Len(a) = Len(log)
      /\ \A k \in 1 .. Len(log) : a[k] = Older(log[k])
  BY AgedIs
<1> HIDE DEF a, b
<1>2. f \in Seq(Ages) /\ n \in Nat /\ \A j \in 1 .. Len(f) : f[j] = b[n + j]
  BY <1>1, FreshIs
<1>3. /\ Len(log) \in Nat /\ Len(s) \in Nat /\ Len(f) \in Nat
      /\ n = Len(s) - Len(f)
  BY <1>1, <1>2
<1> HIDE DEF f, n
<1>4. ASSUME NEW j \in 0 .. Len(f) - 1
      PROVE  FromEnd(f, j) >= Older(e) \/ (j < Len(a) /\ FromEnd(a, j) = FromEnd(f, j))
  <2>1. /\ Len(f) - j \in 1 .. Len(f)
        /\ n + (Len(f) - j) = Len(s) - j
        /\ Len(s) - j \in 1 .. Len(s)
        /\ j \in 0 .. Len(s) - 1
    BY <1>1, <1>2, <1>3
  <2>2. f[Len(f) - j] = b[Len(s) - j]
    BY <2>1, <1>2
  <2>3. FromEnd(f, j) = Older(FromEnd(s, j))
    BY <2>1, <2>2, <1>1 DEF FromEnd
  <2>4. FromEnd(s, j) \in Ages
    BY <2>1 DEF FromEnd
  <2>5. CASE FromEnd(s, j) >= e
    BY <2>3, <2>4, <2>5, OlderIs
  <2>6. CASE j < Len(log) /\ FromEnd(log, j) = FromEnd(s, j)
    <3>1. Len(log) - j \in 1 .. Len(log) /\ j < Len(a) /\ Len(a) - j = Len(log) - j
      BY <2>6, <1>1, <1>3
    <3>2. a[Len(a) - j] = Older(log[Len(log) - j])
      BY <3>1, <1>1
    <3> QED
      BY <3>1, <3>2, <2>3, <2>6 DEF FromEnd
  <2> QED
    BY <2>1, <2>5, <2>6 DEF Remembered
<1> QED
  BY <1>4 DEF Remembered, a, b, f

LEMMA DivisionBounds ==
    ASSUME NEW x \in Nat, NEW t \in Nat \ {0}
    PROVE  x \div t \in Nat /\ (x \div t) * t <= x /\ x < (x \div t + 1) * t
BY Z3

LEMMA ProductBounds ==
    \A a, b \in Nat : \A t \in Nat \ {0} :
        /\ a * t \in Nat
        /\ a <= b => a * t <= b * t
        /\ a * t <= b * t => a <= b
<1> SUFFICES ASSUME NEW a \in Nat, NEW b \in Nat, NEW t \in Nat \ {0}
             PROVE  /\ a * t \in Nat
                    /\ a <= b => a * t <= b * t
                    /\ a * t <= b * t => a <= b
  OBVIOUS
<1>1. a * t \in Nat
  BY Z3
<1>2. a <= b => a * t <= b * t
  BY Z3
<1>3. a * t <= b * t => a <= b
  BY Z3
<1> QED
  BY <1>1, <1>2, <1>3

\* Retry-After and a second more cover what is left of the oldest timestamp,
\* and never more than the window and a second.
LEMMA RetryAfterBounds ==
    ASSUME NEW log \in Seq(Ages), log # <<>>, log[1] < Span
    PROVE  /\ (RetryAfter(log) + 1) * TicksPerSecond \in 0 .. Wait
           /\ log[1] + (RetryAfter(log) + 1) * TicksPerSecond >= Span
<1> DEFINE t == TicksPerSecond
           x == Span - log[1]
           q == x \div t
           r == RetryAfter(log)
<1>1. log[1] \in Nat /\ t \in Nat \ {0} /\ Window \in Nat \ {0} /\ Span \in Nat
  <2>1. 1 \in 1 .. Len(log)
    OBVIOUS
  <2> QED
    BY <2>1, TimestampsAre, SpanNat DEF Timestamp
<1>2. x \in Nat
  BY <1>1
<1>3. q \in Nat /\ q * t <= x /\ x < (q + 1) * t
  <2> HIDE DEF x
  <2> QED
    BY <1>1, <1>2, DivisionBounds
<1>4. r = (IF q > 1 THEN q ELSE 1)
  BY DEF RetryAfter
<1> HIDE DEF q, r
<1>5. q * t <= Window * t
  <2>1. x <= Span
    BY <1>1
  <2>2. q * t \in Nat
    BY <1>1, <1>3, ProductBounds
  <2> HIDE DEF x
  <2>3. q * t <= Span
    BY <2>1, <2>2, <1>1, <1>2, <1>3
  <2> QED
    BY <2>3 DEF Span
<1>6. q <= Window
  <2> HIDE DEF t
  <2> QED
    BY <1>1, <1>3, <1>5, ProductBounds
<1>7. r \in Nat /\ q <= r /\ r <= Window
  BY <1>1, <1>3, <1>4, <1>6
<1>8. /\ (r + 1) * t \in Nat
      /\ (q + 1) * t <= (r + 1) * t
      /\ (r + 1) * t <= (Window + 1) * t
  <2>1. q + 1 \in Nat /\ r + 1 \in Nat /\ Window + 1 \in Nat
    BY <1>1, <1>3, <1>7
  <2>2. q + 1 <= r + 1 /\ r + 1 <= Window + 1
    BY <1>1, <1>3, <1>7
  <2> HIDE DEF t
  <2> QED
    BY <1>1, <2>1, <2>2, ProductBounds
<1>9. (q + 1) * t \in Nat
  <2>1. q + 1 \in Nat
    BY <1>3
  <2> HIDE DEF t
  <2> QED
    BY <1>1, <2>1, ProductBounds
<1>10. x <= (r + 1) * t
  <2> HIDE DEF x, t
  <2> QED
    BY <1>2, <1>3, <1>8, <1>9
<1>11. (r + 1) * t \in 0 .. Wait
  BY <1>8, SpanNat DEF Wait
<1>12. log[1] + (r + 1) * t >= Span
  BY <1>1, <1>8, <1>10
<1> QED
  BY <1>11, <1>12 DEF r

\* A refused request prunes the deque and makes a promise.
LEMMA ClientRefused ==
    ASSUME NEW log, NEW s, NEW e, NEW p, ClientOK(log, s, e, p), Full(Fresh(log))
    PROVE  /\ ClientOK(Fresh(log), s, e, (RetryAfter(Fresh(log)) + 1) * TicksPerSecond)
           /\ log # <<>> /\ Fresh(log) # <<>> /\ Last(Fresh(log)) = Last(log)
<1> DEFINE f == Fresh(log)
           n == Len(log) - Len(f)
           q == (RetryAfter(f) + 1) * TicksPerSecond
<1>1. /\ log \in Seq(Ages) /\ s \in Seq(Ages) /\ e \in Ages
      /\ Sorted(log) /\ Len(log) <= Limit
      /\ Sorted(s) /\ Counting(s) /\ Remembered(s, log, e)
  BY DEF ClientOK
<1>2. /\ f \in Seq(Ages) /\ n \in Nat
      /\ \A j \in 1 .. Len(f) : f[j] = log[n + j]
      /\ f # <<>> => f[1] < Span
  BY <1>1, FreshIs
<1>3. Sorted(f)
  BY <1>1, FreshSorted
<1>4. Remembered(s, f, e)
  BY <1>1, PrunedRemembered
<1>5. Len(f) >= Limit
  BY DEF Full
<1> HIDE DEF f
<1>6. Len(f) \in Nat /\ Len(log) \in Nat /\ Len(f) <= Limit /\ Len(f) > 0
  BY <1>1, <1>2, <1>5, SpanNat
<1>7. f # <<>> /\ log # <<>> /\ Last(f) = Last(log)
  <2>1. Len(f) \in 1 .. Len(f) /\ n + Len(f) = Len(log) /\ Len(log) # 0
    BY <1>2, <1>6
  <2> QED
    BY <2>1, <1>2, <1>6 DEF Last
<1>8. q \in 0 .. Wait /\ f[1] + q >= Span
  BY <1>2, <1>7, RetryAfterBounds
<1>9. q \in -1 .. Wait
  BY <1>8, SpanNat
<1>10. Promised(f, q)
  BY <1>8 DEF Promised
<1> HIDE DEF q
<1>11. ClientOK(f, s, e, q)
  BY <1>1, <1>2, <1>3, <1>4, <1>6, <1>9, <1>10 DEF ClientOK
<1> QED
  BY <1>7, <1>11 DEF f, q

\* A request let through is in the deque and in the record, and the promise
\* is kept.
LEMMA ClientServed ==
    ASSUME NEW log, NEW s, NEW e, NEW p, ClientOK(log, s, e, p), ~Full(Fresh(log))
    PROVE  /\ ClientOK(Append(Fresh(log), 0), Recorded(s), e, -1)
           /\ Append(Fresh(log), 0) # <<>> /\ Last(Append(Fresh(log), 0)) = 0
<1> DEFINE f == Fresh(log)
           a == Append(f, 0)
<1>1. /\ log \in Seq(Ages) /\ s \in Seq(Ages) /\ e \in Ages
      /\ Sorted(log) /\ Sorted(s) /\ Counting(s) /\ Remembered(s, log, e)
  BY DEF ClientOK
<1>2. f \in Seq(Ages) /\ Sorted(f)
  BY <1>1, FreshIs, FreshSorted
<1>3. Remembered(s, f, e)
  BY <1>1, PrunedRemembered
<1>4. ~(Len(f) >= Limit)
  BY DEF Full
<1> HIDE DEF f
<1>5. a \in Seq(Ages) /\ Sorted(a)
  BY <1>2, AppendSorted
<1>6. Len(a) = Len(f) + 1 /\ a[Len(f) + 1] = 0 /\ Len(f) \in Nat
  BY <1>2, SpanNat DEF Ages
<1>7. Len(a) <= Limit
  BY <1>4, <1>6, SpanNat
<1>8. a # <<>> /\ Last(a) = 0
  BY <1>6 DEF Last
<1>9. Recorded(s) \in Seq(Ages) /\ Sorted(Recorded(s)) /\ Counting(Recorded(s))
  BY <1>1, RecordedIs
<1>10. Remembered(Recorded(s), a, e)
  BY <1>1, <1>2, <1>3, ServedRemembered
<1> HIDE DEF a
<1>11. -1 \in -1 .. Wait /\ Promised(a, -1)
  BY SpanNat DEF Promised
<1>12. ClientOK(a, Recorded(s), e, -1)
  BY <1>1, <1>5, <1>7, <1>9, <1>10, <1>11 DEF ClientOK
<1> QED
  BY <1>8, <1>12 DEF a, f

\* The cap throws the deque away: what was served since is nothing.
LEMMA ClientLost ==
    ASSUME NEW log, NEW s, NEW e, NEW p, ClientOK(log, s, e, p)
    PROVE  ClientOK(<<>>, s, 0, p)
<1>1. s \in Seq(Ages) /\ p \in -1 .. Wait /\ Sorted(s) /\ Counting(s)
  BY DEF ClientOK
<1>2. <<>> \in Seq(Ages) /\ Sorted(<<>>) /\ Len(<<>>) <= Limit /\ 0 \in Ages
  BY SpanNat DEF Sorted, Ages
<1>3. Remembered(s, <<>>, 0)
  <2> SUFFICES ASSUME NEW j \in 0 .. Len(s) - 1
               PROVE  s[Len(s) - j] >= 0
    BY DEF Remembered, FromEnd
  <2>1. Len(s) - j \in 1 .. Len(s) /\ Timestamp(s)
    BY <1>1, TimestampsAre
  <2> QED
    BY <2>1 DEF Timestamp
<1>4. Promised(<<>>, p)
  BY SpanNat DEF Promised
<1> QED
  BY <1>1, <1>2, <1>3, <1>4 DEF ClientOK

\* Time passes: the oldest timestamp expires before the promise runs out.
LEMMA ClientOlder ==
    ASSUME NEW log, NEW s, NEW e, NEW p, ClientOK(log, s, e, p)
    PROVE  /\ ClientOK(Aged(log), Fresh(Aged(s)), Older(e), IF p > 0 THEN p - 1 ELSE p)
           /\ Aged(log) = <<>> <=> log = <<>>
           /\ log # <<>> => Last(log) \in Ages /\ Last(Aged(log)) = Older(Last(log))
<1> DEFINE a == Aged(log)
           r == Fresh(Aged(s))
           q == IF p > 0 THEN p - 1 ELSE p
<1>1. /\ log \in Seq(Ages) /\ s \in Seq(Ages) /\ e \in Ages /\ p \in -1 .. Wait
      /\ Sorted(log) /\ Len(log) <= Limit
      /\ Sorted(s) /\ Counting(s) /\ Remembered(s, log, e) /\ Promised(log, p)
  BY DEF ClientOK
<1>2. /\ a \in Seq(Ages) /\ Len(a) = Len(log) /\ Sorted(a)
      /\ \A k \in 1 .. Len(log) : a[k] = Older(log[k])
  BY <1>1, AgedIs
<1>3. r \in Seq(Ages) /\ Sorted(r) /\ Counting(r)
  <2>1. Aged(s) \in Seq(Ages) /\ Sorted(Aged(s))
    BY <1>1, AgedIs
  <2> QED
    BY <2>1, FreshIs, FreshSorted DEF Counting
<1>4. Remembered(r, a, Older(e))
  BY <1>1, OlderRemembered
<1>5. Older(e) \in Ages
  BY <1>1, OlderIs
<1>6. q \in -1 .. Wait
  BY <1>1, SpanNat
<1> HIDE DEF a, r
<1>7. Promised(a, q)
  <2> SUFFICES ASSUME q >= 0, Len(log) = Limit
               PROVE  a[1] + q >= Span
    BY <1>2 DEF Promised
  <2>1. p >= 0 /\ log[1] + p >= Span
    BY <1>1 DEF Promised
  <2>2. 1 \in 1 .. Len(log)
    BY SpanNat
  <2>3. log[1] \in Ages /\ a[1] = Older(log[1])
    BY <2>2, <1>1, <1>2
  <2> QED
    BY <2>1, <2>3, <1>1, SpanNat DEF Older, Ages
<1> HIDE DEF q
<1>8. ClientOK(a, r, Older(e), q)
  BY <1>1, <1>2, <1>3, <1>4, <1>5, <1>6, <1>7 DEF ClientOK
<1>9. a = <<>> <=> log = <<>>
  BY <1>1, <1>2
<1>10. log # <<>> => Last(log) \in Ages /\ Last(a) = Older(Last(log))
  <2> SUFFICES ASSUME log # <<>>
               PROVE  Last(log) \in Ages /\ Last(a) = Older(Last(log))
    OBVIOUS
  <2>1. Len(log) \in 1 .. Len(log)
    BY <1>1
  <2> QED
    BY <2>1, <1>1, <1>2 DEF Last
<1> QED
  BY <1>8, <1>9, <1>10 DEF a, r, q

\* What the record of a client means for WindowBound and RetryAfterHonoured.
LEMMA ClientBounds ==
    ASSUME NEW log, NEW s, NEW e, NEW p, ClientOK(log, s, e, p)
    PROVE  /\ e = Span => Len(s) <= Limit
           /\ p = 0 => ~Full(Fresh(log))
<1>1. /\ log \in Seq(Ages) /\ s \in Seq(Ages) /\ Len(log) <= Limit
      /\ Counting(s) /\ Remembered(s, log, e) /\ Promised(log, p)
  BY DEF ClientOK
<1>2. ASSUME e = Span
      PROVE  Len(s) <= Limit
  <2>1. CASE Len(s) = 0
    BY <2>1, SpanNat
  <2>2. CASE Len(s) # 0
    <3>1. Len(s) - 1 \in 0 .. Len(s) - 1 /\ 1 \in 1 .. Len(s) /\ Len(s) - (Len(s) - 1) = 1
      BY <2>2, <1>1
    <3>2. ~(s[1] >= Span)
      BY <3>1, <1>1, TimestampsAre, SpanNat DEF Counting, Timestamp
    <3>3. Len(s) - 1 < Len(log)
      BY <3>1, <3>2, <1>1, <1>2 DEF Remembered, FromEnd
    <3> QED
      BY <3>3, <1>1, SpanNat
  <2> QED
    BY <2>1, <2>2
<1>3. ASSUME p = 0, Full(Fresh(log))
      PROVE  FALSE
  <2> DEFINE f == Fresh(log)
             n == Len(log) - Len(f)
  <2>1. /\ f \in Seq(Ages) /\ n \in Nat
        /\ \A j \in 1 .. Len(f) : f[j] = log[n + j]
        /\ f # <<>> => f[1] < Span
    BY <1>1, FreshIs
  <2>2. Len(f) >= Limit
    BY <1>3 DEF Full
  <2> HIDE DEF f
  <2>3. Len(log) = Limit /\ n = 0 /\ 1 \in 1 .. Len(f) /\ f # <<>>
    BY <1>1, <2>1, <2>2, SpanNat
  <2>4. f[1] = log[1] /\ log[1] < Span
    BY <2>1, <2>3
  <2>5. log[1] + 0 >= Span
    BY <1>1, <1>3, <2>3 DEF Promised
  <2>6. log[1] \in Nat
    BY <1>1, <2>3, SpanNat, TimestampsAre DEF Timestamp
  <2> QED
    BY <2>4, <2>5, <2>6, SpanNat
<1> QED
  BY <1>2, <1>3

----------------------------------------------------------------------------
(***************************************************************************)
(* The order of the keys.                                                  *)
(***************************************************************************)
Distinct(o) == \A j, k \in 1 .. Len(o) : o[j] = o[k] => j = k

\* o is s without the keys in X, which it has once each if at all.
Thinned(o, s, X) ==
    /\ o \in Seq(Clients) /\ Distinct(o)
    /\ \A k \in 1 .. Len(o) : o[k] \notin X /\ \E a \in 1 .. Len(s) : o[k] = s[a]
    /\ \A a \in 1 .. Len(s) : s[a] \notin X => \E k \in 1 .. Len(o) : o[k] = s[a]
    /\ \A j, k \in 1 .. Len(o) :
         j < k => \E a, b \in 1 .. Len(s) : a < b /\ o[j] = s[a] /\ o[k] = s[b]

LEMMA WithoutPlace ==
    ASSUME NEW s \in Seq(Clients), NEW i \in 1 .. Len(s)
    PROVE  /\ RemoveAt(s, i) \in Seq(Clients)
           /\ Len(RemoveAt(s, i)) = Len(s) - 1
           /\ \A k \in 1 .. i - 1 : RemoveAt(s, i)[k] = s[k]
           /\ \A k \in i .. Len(s) - 1 : RemoveAt(s, i)[k] = s[k + 1]
<1> DEFINE u == SubSeq(s, 1, i - 1)
           v == SubSeq(s, i + 1, Len(s))
<1>1. Len(s) \in Nat /\ i \in Nat /\ 1 <= i /\ i <= Len(s)
  OBVIOUS
<1>2. /\ u \in Seq(Clients) /\ Len(u) = i - 1
      /\ \A k \in 1 .. i - 1 : u[k] = s[k]
  BY <1>1
<1>3. /\ v \in Seq(Clients) /\ Len(v) = Len(s) - i
      /\ \A k \in 1 .. Len(s) - i : v[k] = s[i + k]
  BY <1>1
<1> HIDE DEF u, v
<1>4. /\ u \o v \in Seq(Clients) /\ Len(u \o v) = Len(u) + Len(v)
      /\ \A k \in 1 .. Len(u) + Len(v) :
           (u \o v)[k] = IF k <= Len(u) THEN u[k] ELSE v[k - Len(u)]
  BY <1>2, <1>3, ConcatProperties
<1> DEFINE w == u \o v
<1>5. RemoveAt(s, i) = w
  BY DEF RemoveAt, u, v
<1> HIDE DEF w
<1>6. Len(w) = Len(s) - 1 /\ w \in Seq(Clients)
  BY <1>1, <1>2, <1>3, <1>4 DEF w
<1>7. ASSUME NEW k \in 1 .. i - 1
      PROVE  w[k] = s[k]
  <2>1. k \in 1 .. Len(u) + Len(v) /\ k <= Len(u)
    BY <1>1, <1>2, <1>3
  <2> QED
    BY <2>1, <1>2, <1>4 DEF w
<1>8. ASSUME NEW k \in i .. Len(s) - 1
      PROVE  w[k] = s[k + 1]
  <2>1. /\ k \in 1 .. Len(u) + Len(v) /\ ~(k <= Len(u))
        /\ k - Len(u) \in 1 .. Len(s) - i /\ i + (k - Len(u)) = k + 1
    BY <1>1, <1>2, <1>3
  <2>2. w[k] = v[k - Len(u)]
    BY <2>1, <1>4 DEF w
  <2> QED
    BY <2>1, <2>2, <1>3
<1> QED
  BY <1>5, <1>6, <1>7, <1>8

\* A list without repetitions loses the element it is rid of, and keeps the
\* others in their order.
LEMMA RemoveFirstThins ==
    ASSUME NEW s \in Seq(Clients), Distinct(s), NEW c
    PROVE  /\ Thinned(RemoveFirst(s, c), s, {c})
           /\ Len(RemoveFirst(s, c)) <= Len(s)
           /\ (\E a \in 1 .. Len(s) : s[a] = c) => Len(RemoveFirst(s, c)) = Len(s) - 1
<1>1. CASE \E a \in 1 .. Len(s) : s[a] = c
  <2> DEFINE I == {a \in 1 .. Len(s) : s[a] = c}
             i == SelectInSeq(s, LAMBDA d : d = c)
             r == RemoveAt(s, i)
  <2>1. I \in SUBSET Nat /\ I # {}
    BY <1>1
  <2>2. i = Min(I)
    BY <2>1 DEF SelectInSeq
  <2>3. Min(I) \in I
    <3> HIDE DEF I
    <3> QED
      BY <2>1, LeastOfSet
  <2>4. i \in 1 .. Len(s) /\ s[i] = c
    BY <2>2, <2>3
  <2> HIDE DEF i
  <2>5. /\ r \in Seq(Clients) /\ Len(r) = Len(s) - 1
        /\ \A k \in 1 .. i - 1 : r[k] = s[k]
        /\ \A k \in i .. Len(s) - 1 : r[k] = s[k + 1]
    BY <2>4, WithoutPlace
  <2>6. RemoveFirst(s, c) = r
    BY <1>1 DEF RemoveFirst, i
  <2> HIDE DEF r
  <2> DEFINE at(k) == IF k < i THEN k ELSE k + 1
  <2>7. Len(s) \in Nat /\ i \in Nat /\ 1 <= i /\ i <= Len(s)
    BY <2>4
  <2>8. ASSUME NEW k \in 1 .. Len(r)
        PROVE  at(k) \in 1 .. Len(s) /\ at(k) # i /\ r[k] = s[at(k)]
    <3>1. CASE k < i
      BY <3>1, <2>5, <2>7
    <3>2. CASE ~(k < i)
      <4>1. k \in i .. Len(s) - 1
        BY <3>2, <2>5, <2>7
      <4> QED
        BY <3>2, <4>1, <2>5, <2>7
    <3> QED
      BY <3>1, <3>2
  <2>9. \A j, k \in 1 .. Len(r) : j < k => at(j) < at(k)
    BY <2>5, <2>7
  <2> HIDE DEF at
  <2>10. \A k \in 1 .. Len(r) : r[k] # c
    BY <2>4, <2>8 DEF Distinct
  <2>11. Distinct(r)
    <3> SUFFICES ASSUME NEW j \in 1 .. Len(r), NEW k \in 1 .. Len(r), r[j] = r[k]
                 PROVE  j = k
      BY DEF Distinct
    <3>1. at(j) = at(k)
      BY <2>8 DEF Distinct
    <3>2. ~(j < k) /\ ~(k < j)
      BY <2>8, <2>9, <3>1
    <3> QED
      BY <3>2, <2>5, <2>7
  <2>12. ASSUME NEW a \in 1 .. Len(s), s[a] # c
         PROVE  \E k \in 1 .. Len(r) : r[k] = s[a]
    <3>1. a # i
      BY <2>4, <2>12
    <3>2. CASE a < i
      <4>1. a \in 1 .. i - 1 /\ a \in 1 .. Len(r)
        BY <3>2, <2>5, <2>7
      <4> QED
        BY <4>1, <2>5
    <3>3. CASE a > i
      <4>1. a - 1 \in i .. Len(s) - 1 /\ a - 1 \in 1 .. Len(r) /\ (a - 1) + 1 = a
        BY <3>3, <2>5, <2>7
      <4>2. r[a - 1] = s[a]
        BY <4>1, <2>5
      <4> QED
        BY <4>1, <4>2
    <3> QED
      BY <3>1, <3>2, <3>3, <2>7
  <2>13. \A j, k \in 1 .. Len(r) :
           j < k => \E a, b \in 1 .. Len(s) : a < b /\ r[j] = s[a] /\ r[k] = s[b]
    BY <2>8, <2>9
  <2>14. \A k \in 1 .. Len(r) : r[k] \notin {c} /\ \E a \in 1 .. Len(s) : r[k] = s[a]
    BY <2>8, <2>10
  <2>15. \A a \in 1 .. Len(s) : s[a] \notin {c} => \E k \in 1 .. Len(r) : r[k] = s[a]
    BY <2>12
  <2>16. Thinned(r, s, {c})
    BY <2>5, <2>11, <2>13, <2>14, <2>15 DEF Thinned
  <2> QED
    BY <2>5, <2>6, <2>7, <2>16
<1>2. CASE ~(\E a \in 1 .. Len(s) : s[a] = c)
  <2>1. RemoveFirst(s, c) = s
    BY <1>2 DEF RemoveFirst
  <2>2. Thinned(s, s, {c})
    BY <1>2 DEF Thinned
  <2>3. Len(s) \in Nat
    OBVIOUS
  <2> QED
    BY <1>2, <2>1, <2>2, <2>3
<1> QED
  BY <1>1, <1>2

\* The least recently used of them goes as well.
LEMMA TailThins ==
    ASSUME NEW s \in Seq(Clients), NEW X, NEW o, Thinned(o, s, X), o # <<>>
    PROVE  Thinned(Tail(o), s, X \cup {Head(o)}) /\ Len(Tail(o)) = Len(o) - 1
<1> DEFINE t == Tail(o)
<1>1. /\ o \in Seq(Clients) /\ Distinct(o)
      /\ \A k \in 1 .. Len(o) : o[k] \notin X /\ \E a \in 1 .. Len(s) : o[k] = s[a]
      /\ \A a \in 1 .. Len(s) : s[a] \notin X => \E k \in 1 .. Len(o) : o[k] = s[a]
      /\ \A j, k \in 1 .. Len(o) :
           j < k => \E a, b \in 1 .. Len(s) : a < b /\ o[j] = s[a] /\ o[k] = s[b]
  BY DEF Thinned
<1>2. /\ t \in Seq(Clients) /\ Len(t) = Len(o) - 1 /\ Len(o) \in Nat
      /\ \A k \in 1 .. Len(t) : t[k] = o[k + 1]
      /\ 1 \in 1 .. Len(o) /\ Head(o) = o[1]
  BY <1>1
<1> HIDE DEF t
<1>3. \A k \in 1 .. Len(t) : k + 1 \in 1 .. Len(o) /\ k + 1 # 1
  BY <1>2
<1>4. Distinct(t)
  <2> SUFFICES ASSUME NEW j \in 1 .. Len(t), NEW k \in 1 .. Len(t), t[j] = t[k]
               PROVE  j = k
    BY DEF Distinct
  <2>1. o[j + 1] = o[k + 1]
    BY <1>2
  <2>2. j + 1 = k + 1
    BY <2>1, <1>1, <1>3 DEF Distinct
  <2> QED
    BY <2>2
<1>5. ASSUME NEW k \in 1 .. Len(t)
      PROVE  t[k] \notin X \cup {Head(o)} /\ \E a \in 1 .. Len(s) : t[k] = s[a]
  <2>1. o[k + 1] # o[1]
    BY <1>1, <1>2, <1>3 DEF Distinct
  <2> QED
    BY <2>1, <1>1, <1>2, <1>3
<1>6. ASSUME NEW a \in 1 .. Len(s), s[a] \notin X \cup {Head(o)}
      PROVE  \E k \in 1 .. Len(t) : t[k] = s[a]
  <2>1. PICK k \in 1 .. Len(o) : o[k] = s[a]
    BY <1>1, <1>6
  <2>2. k # 1
    BY <2>1, <1>2, <1>6
  <2>3. k - 1 \in 1 .. Len(t) /\ (k - 1) + 1 = k
    BY <2>2, <1>2
  <2>4. t[k - 1] = s[a]
    BY <2>1, <2>3, <1>2
  <2> QED
    BY <2>3, <2>4
<1>7. ASSUME NEW j \in 1 .. Len(t), NEW k \in 1 .. Len(t), j < k
      PROVE  \E a, b \in 1 .. Len(s) : a < b /\ t[j] = s[a] /\ t[k] = s[b]
  <2>1. j + 1 < k + 1
    BY <1>7
  <2>2. \E a, b \in 1 .. Len(s) : a < b /\ o[j + 1] = s[a] /\ o[k + 1] = s[b]
    BY <2>1, <1>1, <1>3
  <2> QED
    BY <2>2, <1>2
<1>8. Thinned(t, s, X \cup {Head(o)})
  BY <1>2, <1>4, <1>5, <1>6, <1>7 DEF Thinned
<1> QED
  BY <1>2, <1>8 DEF t

\* The keys are the clients with a deque, once each, in the order of their
\* last timestamps, and no more of them than the cap allows.
OrderOK(o, l) ==
    /\ o \in Seq(Clients) /\ Distinct(o)
    /\ \A c \in Clients : (\E k \in 1 .. Len(o) : o[k] = c) <=> l[c] # <<>>
    /\ Len(o) <= MaxClients
    /\ \A j, k \in 1 .. Len(o) : j < k => Last(l[o[j]]) >= Last(l[o[k]])

\* Requests that are refused, and time, change deques and not their order.
LEMMA OrderKept ==
    ASSUME NEW o, NEW l, NEW m, OrderOK(o, l),
           \A c \in Clients : l[c] = <<>> <=> m[c] = <<>>,
           \A c, d \in Clients :
               l[c] # <<>> /\ l[d] # <<>> /\ Last(l[c]) >= Last(l[d])
                   => Last(m[c]) >= Last(m[d])
    PROVE  OrderOK(o, m)
<1>1. \A k \in 1 .. Len(o) : o[k] \in Clients
  BY DEF OrderOK
<1>2. \A k \in 1 .. Len(o) : l[o[k]] # <<>>
  BY <1>1 DEF OrderOK
<1>3. \A j, k \in 1 .. Len(o) : j < k => Last(m[o[j]]) >= Last(m[o[k]])
  BY <1>1, <1>2 DEF OrderOK
<1> QED
  BY <1>3 DEF OrderOK

\* The client let through goes to the end, the others keep their places.
LEMMA OrderMoved ==
    ASSUME NEW o, NEW l, NEW m, NEW X, NEW c \in X, NEW kept,
           OrderOK(o, l), Thinned(kept, o, X), Len(kept) < MaxClients, c \in Clients,
           m[c] # <<>> /\ Last(m[c]) = 0,
           \A d \in Clients \ X : m[d] = l[d],
           \A d \in X \ {c} : m[d] = <<>>,
           \A d \in Clients : l[d] # <<>> => Last(l[d]) \in Nat
    PROVE  OrderOK(Append(kept, c), m)
<1> DEFINE n == Append(kept, c)
<1>1. /\ o \in Seq(Clients)
      /\ \A d \in Clients : (\E k \in 1 .. Len(o) : o[k] = d) <=> l[d] # <<>>
      /\ \A j, k \in 1 .. Len(o) : j < k => Last(l[o[j]]) >= Last(l[o[k]])
  BY DEF OrderOK
<1>2. /\ kept \in Seq(Clients) /\ Distinct(kept)
      /\ \A k \in 1 .. Len(kept) :
           kept[k] \notin X /\ \E a \in 1 .. Len(o) : kept[k] = o[a]
      /\ \A a \in 1 .. Len(o) : o[a] \notin X => \E k \in 1 .. Len(kept) : kept[k] = o[a]
      /\ \A j, k \in 1 .. Len(kept) :
           j < k => \E a, b \in 1 .. Len(o) : a < b /\ kept[j] = o[a] /\ kept[k] = o[b]
  BY DEF Thinned
<1>3. /\ n \in Seq(Clients) /\ Len(n) = Len(kept) + 1 /\ Len(kept) \in Nat
      /\ \A k \in 1 .. Len(kept) : n[k] = kept[k]
      /\ n[Len(kept) + 1] = c
  BY <1>2
<1> HIDE DEF n
<1>4. \A k \in 1 .. Len(n) : k \in 1 .. Len(kept) \/ k = Len(kept) + 1
  BY <1>3
<1>5. \A k \in 1 .. Len(kept) : kept[k] \in Clients \ X
  BY <1>2
<1>6. Distinct(n)
  <2> SUFFICES ASSUME NEW j \in 1 .. Len(n), NEW k \in 1 .. Len(n), n[j] = n[k]
               PROVE  j = k
    BY DEF Distinct
  <2>1. CASE j \in 1 .. Len(kept) /\ k \in 1 .. Len(kept)
    BY <2>1, <1>2, <1>3 DEF Distinct
  <2>2. CASE j \in 1 .. Len(kept) /\ k = Len(kept) + 1
    BY <2>2, <1>3, <1>5
  <2>3. CASE k \in 1 .. Len(kept) /\ j = Len(kept) + 1
    BY <2>3, <1>3, <1>5
  <2> QED
    BY <2>1, <2>2, <2>3, <1>4
<1>7. Len(n) <= MaxClients
  BY <1>3, SpanNat
<1>8. ASSUME NEW d \in Clients
      PROVE  (\E k \in 1 .. Len(n) : n[k] = d) <=> m[d] # <<>>
  <2>1. CASE d = c
    <3>1. Len(kept) + 1 \in 1 .. Len(n)
      BY <1>3
    <3> QED
      BY <2>1, <3>1, <1>3
  <2>2. CASE d \in X \ {c}
    BY <2>2, <1>3, <1>4, <1>5
  <2>3. CASE d \notin X
    <3>1. \A k \in 1 .. Len(kept) : k \in 1 .. Len(n)
      BY <1>3
    <3>2. (\E k \in 1 .. Len(n) : n[k] = d) <=> (\E k \in 1 .. Len(kept) : kept[k] = d)
      BY <2>3, <3>1, <1>3, <1>4
    <3>3. (\E k \in 1 .. Len(kept) : kept[k] = d) => (\E a \in 1 .. Len(o) : o[a] = d)
      <4> SUFFICES ASSUME NEW k \in 1 .. Len(kept), kept[k] = d
                   PROVE  \E a \in 1 .. Len(o) : o[a] = d
        OBVIOUS
      <4>1. \E a \in 1 .. Len(o) : kept[k] = o[a]
        BY <1>2
      <4> QED
        BY <4>1
    <3>4. (\E a \in 1 .. Len(o) : o[a] = d) => (\E k \in 1 .. Len(kept) : kept[k] = d)
      <4> SUFFICES ASSUME NEW a \in 1 .. Len(o), o[a] = d
                   PROVE  \E k \in 1 .. Len(kept) : kept[k] = d
        OBVIOUS
      <4>1. \E k \in 1 .. Len(kept) : kept[k] = o[a]
        BY <2>3, <1>2
      <4> QED
        BY <4>1
    <3> QED
      BY <2>3, <3>2, <3>3, <3>4, <1>1
  <2> QED
    BY <2>1, <2>2, <2>3
<1>9. ASSUME NEW j \in 1 .. Len(n), NEW k \in 1 .. Len(n), j < k
      PROVE  Last(m[n[j]]) >= Last(m[n[k]])
  <2>1. j \in 1 .. Len(kept)
    BY <1>3, <1>9
  <2>2. m[n[j]] = l[n[j]] /\ n[j] \in Clients /\ n[j] = kept[j]
    BY <2>1, <1>3, <1>5
  <2>3. CASE k \in 1 .. Len(kept)
    <3>1. PICK a, b \in 1 .. Len(o) : a < b /\ kept[j] = o[a] /\ kept[k] = o[b]
      BY <2>1, <2>3, <1>2, <1>9
    <3>2. m[n[k]] = l[n[k]] /\ n[k] = kept[k]
      BY <2>3, <1>3, <1>5
    <3> QED
      BY <2>2, <3>1, <3>2, <1>1
  <2>4. CASE k = Len(kept) + 1
    <3>1. Last(m[n[k]]) = 0
      BY <2>4, <1>3
    <3>2. \E a \in 1 .. Len(o) : kept[j] = o[a]
      BY <2>1, <1>2
    <3>3. l[n[j]] # <<>>
      BY <2>2, <3>2, <1>1
    <3>4. Last(m[n[j]]) \in Nat
      BY <2>2, <3>3
    <3> QED
      BY <3>1, <3>4
  <2> QED
    BY <2>3, <2>4, <1>4
<1>10. OrderOK(n, m)
  BY <1>3, <1>6, <1>7, <1>8, <1>9 DEF OrderOK
<1> QED
  BY <1>10 DEF n

----------------------------------------------------------------------------
(***************************************************************************)
(* The inductive invariant.                                                *)
(***************************************************************************)
IInv ==
    /\ logs \in [Clients -> Seq(Ages)]
    /\ served \in [Clients -> Seq(Ages)]
    /\ evicted \in [Clients -> Ages]
    /\ promise \in [Clients -> -1 .. Wait]
    /\ locks \subseteq Clients
    /\ OrderOK(order, logs)
    /\ \A c \in Clients : ClientOK(logs[c], served[c], evicted[c], promise[c])

LEMMA LastNat ==
    IInv => \A c \in Clients : logs[c] # <<>> => Last(logs[c]) \in Nat
<1> SUFFICES ASSUME IInv, NEW c \in Clients, logs[c] # <<>>
             PROVE  Last(logs[c]) \in Nat
  OBVIOUS
<1>1. logs[c] \in Seq(Ages)
  BY DEF IInv
<1>2. Len(logs[c]) \in 1 .. Len(logs[c])
  BY <1>1
<1> QED
  BY <1>1, <1>2, TimestampsAre DEF Last, Timestamp

LEMMA InitInv == Init => IInv
<1> SUFFICES ASSUME Init
             PROVE  IInv
  OBVIOUS
<1>1. /\ <<>> \in Seq(Ages) /\ Len(<<>>) = 0 /\ <<>> \in Seq(Clients)
      /\ Span \in Ages /\ -1 \in -1 .. Wait
  BY SpanNat DEF Ages
<1>2. ClientOK(<<>>, <<>>, Span, -1)
  BY <1>1, SpanNat DEF ClientOK, Sorted, Counting, Remembered, Promised
<1>3. OrderOK(order, logs)
  BY <1>1, SpanNat DEF Init, OrderOK, Distinct
<1> QED
  BY <1>1, <1>2, <1>3 DEF Init, IInv

LEMMA RefuseInv ==
    ASSUME IInv, NEW c \in Clients, Refuse(c)
    PROVE  IInv'
<1> DEFINE f == Fresh(logs[c])
           q == (RetryAfter(f) + 1) * TicksPerSecond
<1>1. /\ Full(f)
      /\ logs' = [logs EXCEPT ![c] = f]
      /\ promise' = [promise EXCEPT ![c] = q]
      /\ locks' = locks \cup {c}
      /\ order' = order /\ served' = served /\ evicted' = evicted
  BY DEF Refuse, LockMade
<1>2. /\ ClientOK(f, served[c], evicted[c], q)
      /\ logs[c] # <<>> /\ f # <<>> /\ Last(f) = Last(logs[c])
  <2>1. ClientOK(logs[c], served[c], evicted[c], promise[c])
    BY DEF IInv
  <2> QED
    BY <2>1, <1>1, ClientRefused
<1> HIDE DEF f, q
<1>3. f \in Seq(Ages) /\ q \in -1 .. Wait
  BY <1>2 DEF ClientOK
<1>4. /\ logs' \in [Clients -> Seq(Ages)] /\ served' \in [Clients -> Seq(Ages)]
      /\ evicted' \in [Clients -> Ages] /\ promise' \in [Clients -> -1 .. Wait]
      /\ locks' \subseteq Clients
  BY <1>1, <1>3 DEF IInv
<1>5. \A d \in Clients : logs'[d] = IF d = c THEN f ELSE logs[d]
  BY <1>1 DEF IInv
<1>6. OrderOK(order', logs')
  <2>1. OrderOK(order, logs)
    BY DEF IInv
  <2>2. \A d \in Clients : logs[d] = <<>> <=> logs'[d] = <<>>
    BY <1>2, <1>5
  <2>3. \A d \in Clients : Last(logs'[d]) = Last(logs[d])
    BY <1>2, <1>5
  <2>4. OrderOK(order, logs')
    BY <2>1, <2>2, <2>3, OrderKept
  <2> QED
    BY <2>4, <1>1
<1>7. ASSUME NEW d \in Clients
      PROVE  ClientOK(logs'[d], served'[d], evicted'[d], promise'[d])
  <2>1. promise'[d] = IF d = c THEN q ELSE promise[d]
    BY <1>1 DEF IInv
  <2> QED
    BY <2>1, <1>1, <1>2, <1>5 DEF IInv
<1> QED
  BY <1>4, <1>6, <1>7 DEF IInv

LEMMA AdmitInv ==
    ASSUME IInv, NEW c \in Clients, Admit(c)
    PROVE  IInv'
<1> DEFINE f == Fresh(logs[c])
           a == Append(f, 0)
           r == Recorded(served[c])
           kept == RemoveFirst(order, c)
<1>1. /\ ~Full(f) /\ f # <<>>
      /\ logs' = [logs EXCEPT ![c] = a]
      /\ order' = Append(kept, c)
      /\ served' = [served EXCEPT ![c] = r]
      /\ promise' = [promise EXCEPT ![c] = -1]
      /\ locks' = locks \cup {c}
      /\ evicted' = evicted
  BY DEF Admit, LockMade, Serve, MovedToEnd, Recorded
<1>2. ClientOK(logs[c], served[c], evicted[c], promise[c])
  BY DEF IInv
<1>3. ClientOK(a, r, evicted[c], -1) /\ a # <<>> /\ Last(a) = 0
  BY <1>1, <1>2, ClientServed
<1>4. logs[c] # <<>>
  <2>1. logs[c] \in Seq(Ages)
    BY <1>2 DEF ClientOK
  <2>2. f \in Seq(Ages) /\ Len(logs[c]) - Len(f) \in Nat
    BY <2>1, FreshIs
  <2> HIDE DEF f
  <2> QED
    BY <1>1, <2>1, <2>2
<1> HIDE DEF f, a, r
<1>5. a \in Seq(Ages) /\ r \in Seq(Ages) /\ -1 \in -1 .. Wait
  BY <1>3 DEF ClientOK
<1>6. /\ logs' \in [Clients -> Seq(Ages)] /\ served' \in [Clients -> Seq(Ages)]
      /\ evicted' \in [Clients -> Ages] /\ promise' \in [Clients -> -1 .. Wait]
      /\ locks' \subseteq Clients
  BY <1>1, <1>5 DEF IInv
<1>7. \A d \in Clients : logs'[d] = IF d = c THEN a ELSE logs[d]
  BY <1>1 DEF IInv
<1>8. OrderOK(order', logs')
  <2>1. /\ OrderOK(order, logs) /\ order \in Seq(Clients) /\ Distinct(order)
        /\ \E k \in 1 .. Len(order) : order[k] = c
        /\ Len(order) <= MaxClients /\ Len(order) \in Nat
    BY <1>4 DEF IInv, OrderOK
  <2>2. Thinned(kept, order, {c}) /\ Len(kept) = Len(order) - 1
    BY <2>1, RemoveFirstThins
  <2> HIDE DEF kept
  <2>3. Len(kept) < MaxClients
    BY <2>1, <2>2, SpanNat
  <2>4. logs'[c] # <<>> /\ Last(logs'[c]) = 0
    BY <1>3, <1>7
  <2>5. /\ \A d \in Clients \ {c} : logs'[d] = logs[d]
        /\ \A d \in {c} \ {c} : logs'[d] = <<>>
    BY <1>7
  <2>6. OrderOK(Append(kept, c), logs')
    BY <2>1, <2>2, <2>3, <2>4, <2>5, LastNat, OrderMoved
  <2> QED
    BY <2>6, <1>1
<1>9. ASSUME NEW d \in Clients
      PROVE  ClientOK(logs'[d], served'[d], evicted'[d], promise'[d])
  <2>1. /\ promise'[d] = (IF d = c THEN -1 ELSE promise[d])
        /\ served'[d] = (IF d = c THEN r ELSE served[d])
    BY <1>1 DEF IInv
  <2> QED
    BY <2>1, <1>1, <1>3, <1>7 DEF IInv
<1> QED
  BY <1>6, <1>8, <1>9 DEF IInv

LEMMA AdmitNewInv ==
    ASSUME IInv, NEW c \in Clients, AdmitNew(c)
    PROVE  IInv'
<1> DEFINE others == RemoveFirst(order, c)
           kept == IF AtCap(others) THEN Tail(others) ELSE others
           lost == IF AtCap(others) THEN {Head(others)} ELSE {}
           r == Recorded(served[c])
<1>1. /\ Fresh(logs[c]) = <<>>
      /\ order' = Append(kept, c)
      /\ logs' = [d \in Clients |-> IF d = c THEN <<0>>
                                    ELSE IF d \in lost THEN <<>> ELSE logs[d]]
      /\ evicted' = [d \in Clients |-> IF d \in lost THEN 0 ELSE evicted[d]]
      /\ served' = [served EXCEPT ![c] = r]
      /\ promise' = [promise EXCEPT ![c] = -1]
      /\ locks' = locks \cup {c}
  BY DEF AdmitNew, LockMade, Serve, Recorded
<1>2. /\ OrderOK(order, logs) /\ order \in Seq(Clients) /\ Distinct(order)
      /\ Len(order) <= MaxClients /\ Len(order) \in Nat
  BY DEF IInv, OrderOK
<1>3. Thinned(others, order, {c}) /\ Len(others) <= Len(order)
  BY <1>2, RemoveFirstThins
<1> HIDE DEF others
<1>4. Len(others) \in Nat /\ others \in Seq(Clients)
  BY <1>3 DEF Thinned
<1>5. /\ Thinned(kept, order, {c} \cup lost) /\ Len(kept) < MaxClients
      /\ c \notin lost
  <2>1. CASE AtCap(others)
    <3>1. Len(others) >= MaxClients /\ others # <<>>
      BY <2>1, <1>4, SpanNat DEF AtCap
    <3>2. Thinned(Tail(others), order, {c} \cup {Head(others)})
          /\ Len(Tail(others)) = Len(others) - 1
      BY <1>2, <1>3, <3>1, TailThins
    <3>3. Head(others) # c
      <4>1. 1 \in 1 .. Len(others) /\ Head(others) = others[1]
        BY <1>4, <3>1
      <4> QED
        BY <4>1, <1>3 DEF Thinned
    <3> QED
      BY <2>1, <3>2, <3>3, <1>2, <1>3, <1>4, SpanNat
  <2>2. CASE ~AtCap(others)
    <3>1. Len(others) < MaxClients
      BY <2>2, <1>4, SpanNat DEF AtCap
    <3>2. {c} \cup {} = {c}
      OBVIOUS
    <3> QED
      BY <2>2, <3>1, <3>2, <1>3
  <2> QED
    BY <2>1, <2>2
<1> HIDE DEF kept, lost
<1>6. ClientOK(<<0>>, r, evicted[c], -1) /\ <<0>> # <<>> /\ Last(<<0>>) = 0
  <2>1. ClientOK(logs[c], served[c], evicted[c], promise[c])
    BY DEF IInv
  <2>2. ~Full(<<>>)
    BY SpanNat DEF Full
  <2>3. Append(<<>>, 0) = <<0>>
    OBVIOUS
  <2>4. /\ ClientOK(Append(<<>>, 0), r, evicted[c], -1)
        /\ Append(<<>>, 0) # <<>> /\ Last(Append(<<>>, 0)) = 0
    BY <2>1, <2>2, <1>1, ClientServed
  <2> QED
    BY <2>3, <2>4
<1> HIDE DEF r
<1>7. /\ <<0>> \in Seq(Ages) /\ r \in Seq(Ages) /\ -1 \in -1 .. Wait
      /\ 0 \in Ages /\ <<>> \in Seq(Ages)
  BY <1>6, SpanNat DEF ClientOK, Ages
<1>8. logs' \in [Clients -> Seq(Ages)]
  BY <1>1, <1>7 DEF IInv
<1>9. evicted' \in [Clients -> Ages]
  BY <1>1, <1>7 DEF IInv
<1>10. /\ served' \in [Clients -> Seq(Ages)]
       /\ promise' \in [Clients -> -1 .. Wait] /\ locks' \subseteq Clients
  BY <1>1, <1>7 DEF IInv
<1>11. OrderOK(order', logs')
  <2> DEFINE X == {c} \cup lost
  <2>1. c \in X /\ Thinned(kept, order, X)
    BY <1>5
  <2>2. logs'[c] # <<>> /\ Last(logs'[c]) = 0
    BY <1>1, <1>6
  <2>3. /\ \A d \in Clients \ X : logs'[d] = logs[d]
        /\ \A d \in X \ {c} : logs'[d] = <<>>
    <3>1. \A d \in Clients \ X : logs'[d] = logs[d]
      BY <1>1
    <3>2. lost \subseteq Clients
      BY <1>4, SpanNat DEF lost, AtCap
    <3>3. \A d \in X \ {c} : logs'[d] = <<>>
      BY <1>1, <3>2
    <3> QED
      BY <3>1, <3>3
  <2> HIDE DEF X
  <2>4. OrderOK(Append(kept, c), logs')
    BY <2>1, <2>2, <2>3, <1>2, <1>5, LastNat, OrderMoved
  <2> QED
    BY <2>4, <1>1
<1>12. ASSUME NEW d \in Clients
       PROVE  ClientOK(logs'[d], served'[d], evicted'[d], promise'[d])
  <2>1. /\ promise'[d] = (IF d = c THEN -1 ELSE promise[d])
        /\ served'[d] = (IF d = c THEN r ELSE served[d])
    BY <1>1 DEF IInv
  <2>2. ClientOK(logs[d], served[d], evicted[d], promise[d])
    BY DEF IInv
  <2>3. CASE d = c
    BY <2>1, <2>3, <1>1, <1>5, <1>6
  <2>4. CASE d # c /\ d \in lost
    <3>1. ClientOK(<<>>, served[d], 0, promise[d])
      BY <2>2, ClientLost
    <3> QED
      BY <3>1, <2>1, <2>4, <1>1
  <2>5. CASE d # c /\ d \notin lost
    BY <2>1, <2>2, <2>5, <1>1
  <2> QED
    BY <2>3, <2>4, <2>5
<1> QED
  BY <1>8, <1>9, <1>10, <1>11, <1>12 DEF IInv

LEMMA TickInv ==
    ASSUME IInv, Tick
    PROVE  IInv'
<1> DEFINE p(c) == IF promise[c] > 0 THEN promise[c] - 1 ELSE promise[c]
           s(c) == Fresh(Aged(served[c]))
<1>1. /\ logs' = [c \in Clients |-> Aged(logs[c])]
      /\ served' = [c \in Clients |-> s(c)]
      /\ evicted' = [c \in Clients |-> Older(evicted[c])]
      /\ promise' = [c \in Clients |-> p(c)]
      /\ order' = order /\ locks' = locks
  BY DEF Tick
<1>2. ASSUME NEW c \in Clients
      PROVE  /\ ClientOK(Aged(logs[c]), s(c), Older(evicted[c]), p(c))
             /\ Aged(logs[c]) = <<>> <=> logs[c] = <<>>
             /\ logs[c] # <<>> => /\ Last(logs[c]) \in Ages
                                  /\ Last(Aged(logs[c])) = Older(Last(logs[c]))
  <2>1. ClientOK(logs[c], served[c], evicted[c], promise[c])
    BY DEF IInv
  <2> QED
    BY <2>1, ClientOlder
<1> HIDE DEF p, s
<1>3. \A c \in Clients : /\ Aged(logs[c]) \in Seq(Ages) /\ s(c) \in Seq(Ages)
                          /\ Older(evicted[c]) \in Ages /\ p(c) \in -1 .. Wait
  BY <1>2 DEF ClientOK
<1>4. /\ logs' \in [Clients -> Seq(Ages)] /\ served' \in [Clients -> Seq(Ages)]
      /\ evicted' \in [Clients -> Ages] /\ promise' \in [Clients -> -1 .. Wait]
      /\ locks' \subseteq Clients
  BY <1>1, <1>3 DEF IInv
<1>5. \A c \in Clients : logs'[c] = Aged(logs[c])
  BY <1>1
<1>6. OrderOK(order', logs')
  <2>1. OrderOK(order, logs)
    BY DEF IInv
  <2>2. \A c \in Clients : logs[c] = <<>> <=> logs'[c] = <<>>
    BY <1>2, <1>5
  <2>3. ASSUME NEW c \in Clients, NEW d \in Clients, logs[c] # <<>>, logs[d] # <<>>,
               Last(logs[c]) >= Last(logs[d])
        PROVE  Last(logs'[c]) >= Last(logs'[d])
    BY <2>3, <1>2, <1>5, OlderIs
  <2>4. OrderOK(order, logs')
    BY <2>1, <2>2, <2>3, OrderKept
  <2> QED
    BY <2>4, <1>1
<1>7. \A c \in Clients : ClientOK(logs'[c], served'[c], evicted'[c], promise'[c])
  BY <1>1, <1>2
<1> QED
  BY <1>4, <1>6, <1>7 DEF IInv

LEMMA StepInv == IInv /\ [Next]_vars => IInv'
<1> SUFFICES ASSUME IInv, [Next]_vars
             PROVE  IInv'
  OBVIOUS
<1>1. ASSUME NEW c \in Clients, Refuse(c)
      PROVE  IInv'
  BY <1>1, RefuseInv
<1>2. ASSUME NEW c \in Clients, Admit(c)
      PROVE  IInv'
  BY <1>2, AdmitInv
<1>3. ASSUME NEW c \in Clients, AdmitNew(c)
      PROVE  IInv'
  BY <1>3, AdmitNewInv
<1>4. CASE Tick
  BY <1>4, TickInv
<1>5. CASE UNCHANGED vars
  BY <1>5 DEF vars, IInv
<1> QED
  BY <1>1, <1>2, <1>3, <1>4, <1>5 DEF Next

----------------------------------------------------------------------------
\* A list without repetitions has as many keys as places.
LEMMA DistinctSize ==
    ASSUME NEW o \in Seq(Clients), Distinct(o)
    PROVE  Cardinality(ToSet(o)) = Len(o)
<1> DEFINE D == 1 .. Len(o)
           T == ToSet(o)
<1>1. o \in Bijection(D, T)
  <2>1. T = {o[k] : k \in D}
    BY DEF ToSet
  <2>2. o \in [D -> T]
    BY <2>1
  <2>3. (\A j, k \in D : o[j] = o[k] => j = k) /\ (\A t \in T : \E k \in D : o[k] = t)
    BY <2>1 DEF Distinct
  <2> QED
    BY <2>2, <2>3 DEF Bijection, Injection, Surjection, IsInjective
<1>2. IsFiniteSet(D) /\ Cardinality(D) = Len(o)
  <2>1. Len(o) \in Nat
    OBVIOUS
  <2>2. IsFiniteSet(D) /\ Cardinality(D) = IF 1 > Len(o) THEN 0 ELSE Len(o) - 1 + 1
    BY <2>1, FS_Interval
  <2> QED
    BY <2>1, <2>2
<1> HIDE DEF D, T
<1>3. ExistsBijection(D, T)
  BY <1>1 DEF ExistsBijection
<1>4. Cardinality(T) = Cardinality(D)
  BY <1>2, <1>3, FS_Bijection
<1> QED
  BY <1>2, <1>4 DEF T

LEMMA InvType == IInv => TypeOK
<1> SUFFICES ASSUME IInv
             PROVE  TypeOK
  OBVIOUS
<1>1. /\ order \in Seq(Clients) /\ Distinct(order)
      /\ \A c \in Clients : (\E k \in 1 .. Len(order) : order[k] = c) <=> logs[c] # <<>>
  BY DEF IInv, OrderOK
<1>2. Cardinality(Keys) = Len(order)
  BY <1>1, DistinctSize DEF Keys
<1>3. \A c \in Clients : c \in Keys <=> logs[c] # <<>>
  <2>1. Keys = {order[k] : k \in 1 .. Len(order)}
    BY <1>1 DEF Keys, ToSet
  <2> QED
    BY <2>1, <1>1
<1> QED
  BY <1>1, <1>2, <1>3 DEF IInv, TypeOK

LEMMA Invariance == Spec => []IInv
BY InitInv, StepInv, PTL DEF Spec

(***************************************************************************)
(* The deques, their order and the locks keep their types: a client is in  *)
(* the OrderedDict, once, exactly when its deque has a timestamp           *)
(* (rate_limit.py:64-95), for any clients, limit, window and cap.          *)
(***************************************************************************)
THEOREM TypeCorrect == Spec => []TypeOK
BY Invariance, InvType, PTL

(***************************************************************************)
(* The window slides (rate_limit.py:64-71, 95): whatever the limit and the *)
(* window, no more than config.requests of a client are let through in any *)
(* window_seconds, unless the cap threw its deque away meanwhile.          *)
(***************************************************************************)
THEOREM WindowSlides == Spec => []WindowBound
<1>1. IInv => WindowBound
  BY ClientBounds DEF IInv, WindowBound
<1> QED
  BY <1>1, Invariance, PTL

(***************************************************************************)
(* The deques never number more than _MAX_CLIENTS (rate_limit.py:88-93),   *)
(* also when a client returns whose own deque has expired.                 *)
(***************************************************************************)
THEOREM TableBounded == Spec => []DequesBounded
<1>1. IInv => DequesBounded
  BY DEF IInv, OrderOK, DequesBounded
<1> QED
  BY <1>1, Invariance, PTL

(***************************************************************************)
(* The first key of the OrderedDict, the one that the cap deletes          *)
(* (rate_limit.py:88-93), is of the client let through longest ago.        *)
(***************************************************************************)
THEOREM VictimIsOldest == Spec => []LruOrder
<1>1. IInv => LruOrder
  BY DEF IInv, OrderOK, LruOrder
<1> QED
  BY <1>1, Invariance, PTL

(***************************************************************************)
(* A refused client that lets Retry-After and a second more pass           *)
(* (rate_limit.py:74) is not refused again, whatever the window, the limit *)
(* and the resolution of the clock.                                        *)
(***************************************************************************)
THEOREM PromiseKept == Spec => []RetryAfterHonoured
<1>1. IInv => RetryAfterHonoured
  BY ClientBounds DEF IInv, RetryAfterHonoured
<1> QED
  BY <1>1, Invariance, PTL
============================================================================
