---------------------------- MODULE RateLimiter ----------------------------
(***************************************************************************)
(* InMemoryRateLimiterMiddleware (app/utils/rate_limit.py), enabled: a     *)
(* sliding window of timestamps per client key, in an OrderedDict of at    *)
(* most MaxClients keys that is kept in LRU order.                         *)
(*                                                                         *)
(* Between "async with lock" and the end of that block nothing awaits, so  *)
(* on the event loop's one thread the verdict on a request is one step.    *)
(*                                                                         *)
(* A timestamp is kept as its AGE in ticks, which stops counting at Span   *)
(* (log[0] <= cutoff holds from then on); the states are finite without a  *)
(* bound on time.                                                          *)
(***************************************************************************)
EXTENDS Integers, FiniteSets, SequencesExt

CONSTANTS Clients,         \* client keys: remote addresses, or "unknown"
          Limit,           \* config.requests
          Window,          \* config.window_seconds
          TicksPerSecond,  \* resolution of time.monotonic()
          MaxClients       \* _MAX_CLIENTS

\* config.py:92-96 rejects a limit or a window that is not positive.
ASSUME ConstAssumption ==
    {Limit, Window, TicksPerSecond, MaxClients} \subseteq Nat \ {0}

Span == Window * TicksPerSecond
Ages == 0 .. Span

VARIABLES
    order,    \* the keys of _logs, least recently used first
    logs,     \* logs[c]: the deque of c, oldest first; <<>> without a key
    locks,    \* the keys of _client_locks
    served,   \* served[c]: ages of the last Limit + 1 requests let through
    evicted,  \* evicted[c]: time since the LRU cap threw c's deque away
    promise   \* promise[c]: time left until Retry-After + 1 s is over, or -1

vars == <<order, logs, locks, served, evicted, promise>>

Keys == ToSet(order)
Wait == (Window + 1) * TicksPerSecond

TypeOK ==
    /\ order \in Seq(Clients)
    /\ Cardinality(Keys) = Len(order)
    /\ logs \in [Clients -> Seq(Ages)]
    /\ \A c \in Clients : c \in Keys <=> logs[c] # <<>>
    /\ locks \subseteq Clients
    /\ served \in [Clients -> Seq(Ages)]
    /\ evicted \in [Clients -> Ages]
    /\ promise \in [Clients -> -1 .. Wait]

Init ==
    /\ order = <<>>
    /\ logs = [c \in Clients |-> <<>>]
    /\ locks = {}
    /\ served = [c \in Clients |-> <<>>]
    /\ evicted = [c \in Clients |-> Span]
    /\ promise = [c \in Clients |-> -1]

----------------------------------------------------------------------------
\* while log and log[0] <= cutoff: log.popleft()
Fresh(log) ==
    LET first == SelectInSeq(log, LAMBDA age : age < Span)
    IN IF first = 0 THEN <<>> ELSE SubSeq(log, first, Len(log))

\* Mutant: one request too many.
Full_OneMore(log) == Len(log) > Limit
Full(log) == Len(log) >= Limit

\* max(1, int(window_seconds - (now - log[0]))): the seconds, rounded down.
\* Mutants: the age added, not subtracted; the seconds that have passed instead
\* of those that are left.
RetryAfter_Added(log) ==
    LET seconds == (Span + log[1]) \div TicksPerSecond
    IN IF seconds > 1 THEN seconds ELSE 1
RetryAfter_Elapsed(log) ==
    LET seconds == log[1] \div TicksPerSecond IN IF seconds > 1 THEN seconds ELSE 1
RetryAfter(log) ==
    LET seconds == (Span - log[1]) \div TicksPerSecond
    IN IF seconds > 1 THEN seconds ELSE 1

\* _get_client_lock, before anything else and for whatever key.
LockMade(c) == locks' = locks \cup {c}

\* Served requests, remembered whatever becomes of the deque.
Serve(c) ==
    /\ served' = [served EXCEPT ![c] =
                    IF Len(@) > Limit THEN Append(Tail(@), 0) ELSE Append(@, 0)]
    /\ promise' = [promise EXCEPT ![c] = -1]

\* 429: the pruned deque is kept, its place in the LRU order unchanged.
Refuse(c) ==
    LET log == Fresh(logs[c])
    IN /\ Full(log)
       /\ logs' = [logs EXCEPT ![c] = log]
       /\ promise' = [promise EXCEPT ![c] = (RetryAfter(log) + 1) * TicksPerSecond]
       /\ LockMade(c)
       /\ UNCHANGED <<order, served, evicted>>

\* move_to_end.  Mutant: not done.
MovedToEnd_Not(c) == order
MovedToEnd(c) == Append(RemoveFirst(order, c), c)

\* The cap, tested before a key is added.  Mutant: tested too late.
AtCap_Late(keys) == Len(keys) > MaxClients
AtCap(keys) == Len(keys) >= MaxClients

\* A key with a timestamp in the window and room for another.
Admit(c) ==
    LET log == Fresh(logs[c])
    IN /\ log # <<>>
       /\ ~Full(log)
       /\ logs' = [logs EXCEPT ![c] = Append(log, 0)]
       /\ order' = MovedToEnd(c)
       /\ Serve(c)
       /\ LockMade(c)
       /\ UNCHANGED evicted

\* No key, or one whose timestamps have all expired, which is deleted first:
\* a new deque, in the place of the least recently used if the cap is reached.
AdmitNew(c) ==
    LET others == RemoveFirst(order, c)
        atCap  == AtCap(others)
        kept   == IF atCap THEN Tail(others) ELSE others
        lost   == IF atCap THEN {Head(others)} ELSE {}
    IN /\ Fresh(logs[c]) = <<>>
       /\ order' = Append(kept, c)
       /\ logs' = [d \in Clients |-> IF d = c THEN <<0>>
                                     ELSE IF d \in lost THEN <<>> ELSE logs[d]]
       /\ evicted' = [d \in Clients |-> IF d \in lost THEN 0 ELSE evicted[d]]
       /\ Serve(c)
       /\ LockMade(c)

Older(age) == IF age < Span THEN age + 1 ELSE Span
Aged(log)  == [k \in 1 .. Len(log) |-> Older(log[k])]

Tick ==
    /\ logs' = [c \in Clients |-> Aged(logs[c])]
    /\ served' = [c \in Clients |-> Fresh(Aged(served[c]))]
    /\ evicted' = [c \in Clients |-> Older(evicted[c])]
    /\ promise' = [c \in Clients |-> IF promise[c] > 0 THEN promise[c] - 1 ELSE promise[c]]
    /\ UNCHANGED <<order, locks>>

Next ==
    \/ \E c \in Clients : Refuse(c) \/ Admit(c) \/ AdmitNew(c)
    \/ Tick

Spec == Init /\ [][Next]_vars

----------------------------------------------------------------------------
(***************************************************************************)
(* The window slides (rate_limit.py:64-71, 95): of a client whose deque    *)
(* the cap has not thrown away during the last window_seconds, no more     *)
(* than config.requests were let through in ANY window_seconds, not just   *)
(* in windows that start at a fixed instant.                               *)
(***************************************************************************)
WindowBound ==
    \A c \in Clients : evicted[c] = Span => Len(served[c]) <= Limit

(***************************************************************************)
(* "an LRU cap prevents unbounded memory growth" (rate_limit.py:25-26):    *)
(* the deques never number more than _MAX_CLIENTS, also when a client      *)
(* returns whose own deque has expired just as the table is full.          *)
(***************************************************************************)
DequesBounded == Len(order) <= MaxClients

(***************************************************************************)
(* The victim of the cap is the client let through longest ago             *)
(* (rate_limit.py:88-93): the order of the keys is the order of their last *)
(* timestamps, although a refused request and the pruning of a deque do    *)
(* not touch it.                                                           *)
(***************************************************************************)
LruOrder ==
    \A j, k \in 1 .. Len(order) :
        j < k => Last(logs[order[j]]) >= Last(logs[order[k]])

(***************************************************************************)
(* Retry-After (rate_limit.py:74) is off by at most the second it is       *)
(* rounded down by: a refused client that lets Retry-After plus one second *)
(* pass is not refused again, whatever the others do meanwhile.            *)
(***************************************************************************)
RetryAfterHonoured ==
    \A c \in Clients : promise[c] = 0 => ~Full(Fresh(logs[c]))

=============================================================================
