------------------------------ MODULE Sessions ------------------------------
(***************************************************************************)
(* What the refresh tokens of app/routers/auth.py are for, with no tokens, *)
(* rows, cookies or requests: a login opens a session, which stays open    *)
(* through every rotation until it is over, and then it is over for good.  *)
(* Several sessions may end at once, by a reset or when a login or refresh *)
(* tidies up.                                                              *)
(***************************************************************************)
CONSTANT Ids    \* the sessions that may ever be opened

VARIABLES open, \* the sessions that can be refreshed
          over  \* those that have ended

SessionsInit == open = {} /\ over = {}

Close(closed) ==
    /\ open' = open \ closed
    /\ over' = over \cup closed

Open(s, closed) ==
    /\ s \notin open \cup over
    /\ open' = (open \ closed) \cup {s}
    /\ over' = over \cup closed

SessionsNext ==
    \E closed \in SUBSET open :
        Close(closed) \/ \E s \in Ids : Open(s, closed)

SessionsSpec == SessionsInit /\ [][SessionsNext]_<<open, over>>

============================================================================
