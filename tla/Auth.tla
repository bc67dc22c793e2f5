-------------------------------- MODULE Auth --------------------------------
(***************************************************************************)
(* The handlers of app/routers/auth.py over the tables users,              *)
(* refresh_tokens and password_reset_tokens, with the browsers' cookie     *)
(* jars and the reset links in people's mailboxes around them.             *)
(*                                                                         *)
(* A handler is split where it awaits something that other handlers can    *)
(* overtake: between what it reads and the transaction that writes.        *)
(* PostgreSQL runs at READ COMMITTED, so the writes of a handler take      *)
(* effect together at its COMMIT, where a statement that matches its rows  *)
(* again after waiting for a row lock (UPDATE ... WHERE revoked_at IS      *)
(* NULL) tests them as they are then; a statement over several rows works  *)
(* on the rows that were there when it STARTED (its snapshot), and this is *)
(* a step of its own in forgot_password and reset_password.                *)
(*                                                                         *)
(* A password is the number of times it has been changed (0: there is no   *)
(* account), a token is an id, and its hash and its JWT are the token.     *)
(***************************************************************************)
EXTENDS Integers

CONSTANTS Users, Jars,  \* accounts (by email), and browsers' cookie jars
          Requests,     \* how many requests the server works on at once
          Tokens,       \* refresh tokens that can be issued
          Links,        \* password-reset tokens that can be issued
          MaxPassword,  \* bound on the changes of one password
          None, Keep

ASSUME ConstAssumption ==
    /\ MaxPassword \in Nat
    /\ None \notin Users \cup Jars \cup Tokens \cup Links
    /\ Keep \notin Tokens \cup {None}

VARIABLES
    password, \* users.password_hash
    rt,       \* refresh_tokens, by token
    link,     \* password_reset_tokens, by token
    indexed,  \* made by the migrations, with their partial unique index on unused
              \* links, or by init_models (main.py:78-79), whose model has none?
    mailed,   \* the links that reached their user's mailbox
    jar,      \* the refresh_token cookie of each browser
    req,      \* the requests in flight
    lossy,    \* history: the jars a reply to which was lost
    ended,    \* history: sessions ended by logout, reset or expiry
    uses      \* history: successful resets per link

vars == <<password, rt, link, indexed, mailed, jar, req, lossy, ended, uses>>
tables == <<password, rt, link, indexed>>
history == <<lossy, ended, uses>>

(***************************************************************************)
(* A row of refresh_tokens.  "gone": deleted.  pw is the password with     *)
(* which the session was opened, root the token of its login; raced is     *)
(* history: the token was made by a request that overlapped a password     *)
(* reset of its user, or descends from one that was.                       *)
(***************************************************************************)
TokenRow == [st : {"unissued", "live", "revoked", "gone"},
             user : Users \cup {None}, expired : BOOLEAN,
             pw : Nat, root : Tokens, raced : BOOLEAN]

LinkRow == [st : {"unissued", "unused", "used", "gone"},
            user : Users \cup {None}, expired : BOOLEAN]

Ops == {"none", "login", "refresh", "logout", "forgot", "reset"}
PCs == {"idle", "writing", "sweeping", "mailing", "reply"}

(***************************************************************************)
(* A request: what it has read so far (user, tok, link, pw), the rows its  *)
(* multi-row statement works on (sweep, drop), and the reply it is going   *)
(* to send (code, and the refresh_token cookie to set, clear or keep).     *)
(***************************************************************************)
Request == [op : Ops, pc : PCs, user : Users \cup {None}, jar : Jars \cup {None},
            tok : Tokens \cup {None}, link : Links \cup {None}, pw : Nat,
            raced : BOOLEAN, sweep : SUBSET Tokens, drop : SUBSET Links,
            code : {"none", "ok", "refused", "failed"},
            cookie : Tokens \cup {None, Keep}]

NoRequest == [op |-> "none", pc |-> "idle", user |-> None, jar |-> None,
              tok |-> None, link |-> None, pw |-> 0, raced |-> FALSE,
              sweep |-> {}, drop |-> {}, code |-> "none", cookie |-> Keep]

TypeOK ==
    /\ password \in [Users -> Nat]
    /\ rt \in [Tokens -> TokenRow]
    /\ link \in [Links -> LinkRow]
    /\ indexed \in BOOLEAN
    /\ mailed \subseteq Links
    /\ jar \in [Jars -> Tokens \cup {None}]
    /\ req \in [Requests -> Request]
    /\ lossy \subseteq Jars
    /\ ended \subseteq Tokens
    /\ uses \in [Links -> 0 .. 2]

Init ==
    /\ password = [u \in Users |-> 0]
    /\ rt = [t \in Tokens |-> [st |-> "unissued", user |-> None,
               expired |-> FALSE, pw |-> 0, root |-> t, raced |-> FALSE]]
    /\ link = [l \in Links |-> [st |-> "unissued", user |-> None, expired |-> FALSE]]
    /\ indexed \in BOOLEAN
    /\ mailed = {}
    /\ jar = [b \in Jars |-> None]
    /\ req = [r \in Requests |-> NoRequest]
    /\ lossy = {} /\ ended = {}
    /\ uses = [l \in Links |-> 0]

----------------------------------------------------------------------------
\* How requests move.
At(r, op, pc) == req[r].op = op /\ req[r].pc = pc

Begin(r, op, user, b, tok, l, pw) ==
    /\ req[r].pc = "idle"
    /\ req' = [req EXCEPT ![r] = [NoRequest EXCEPT
                 !.op = op, !.pc = "writing", !.user = user, !.jar = b,
                 !.tok = tok, !.link = l, !.pw = pw]]

\* The handler is over but for its reply: a status and a cookie.  A reply that
\* touches no cookie and is not a 500 has no effect left, so the request ends.
Replied(q, code, cookie) ==
    IF cookie = Keep /\ code # "failed" THEN NoRequest
    ELSE [NoRequest EXCEPT !.op = q.op, !.pc = "reply", !.jar = q.jar,
                           !.code = code, !.cookie = cookie]

Reply(r, code, cookie) ==
    req' = [req EXCEPT ![r] = Replied(@, code, cookie)]

Live(t) == rt[t].st = "live"

\* A reset of u whose statements hold the lock on the row of u in users.
Resetting(u) == \E r \in Requests : At(r, "reset", "sweeping") /\ req[r].user = u

----------------------------------------------------------------------------
(***************************************************************************)
(* POST /register: one INSERT; a second account with the same email is an  *)
(* IntegrityError and answered 400, which changes nothing.                 *)
(***************************************************************************)
Register(u) ==
    /\ password[u] = 0
    /\ password' = [password EXCEPT ![u] = 1]
    /\ UNCHANGED <<indexed, rt, link, mailed, jar, req, history>>

(***************************************************************************)
(* _prune_refresh_tokens: every expired or revoked row goes, whoever's.    *)
(* The row of t stays if it is live: the caller has just inserted it.      *)
(***************************************************************************)
\* Mutant: the comparison with now() the wrong way round.
Prunable_Swapped(row) == row.st = "revoked" \/ (row.st = "live" /\ ~row.expired)
Prunable(row) == row.st = "revoked" \/ (row.st = "live" /\ row.expired)

Pruned(rows) ==
    [t \in Tokens |-> IF Prunable(rows[t]) THEN [rows[t] EXCEPT !.st = "gone"]
                                           ELSE rows[t]]

\* Sessions that end because their last token expired before it was rotated.
ExpiredSessions(rows) ==
    {rows[t].root : t \in {x \in Tokens : rows[x].st = "live" /\ rows[x].expired}}

\* Mutant: user and session mixed up.
NewToken_Mixed(u, pw, root, raced) ==
    [st |-> "live", user |-> root, expired |-> FALSE,
     pw |-> pw, root |-> u, raced |-> raced]
NewToken(u, pw, root, raced) ==
    [st |-> "live", user |-> u, expired |-> FALSE,
     pw |-> pw, root |-> root, raced |-> raced]

(***************************************************************************)
(* POST /login: the stored hash is read, the password compared with it in  *)
(* a thread; then the token is inserted, whatever became of the hash.      *)
(* A wrong password is answered 401 and changes nothing.                   *)
(***************************************************************************)
LoginRead(r, b, u) ==
    /\ password[u] > 0
    /\ Begin(r, "login", u, b, None, None, password[u])
    /\ UNCHANGED <<tables, mailed, jar, history>>

LoginCommit(r, t) ==
    /\ At(r, "login", "writing")
    /\ rt[t].st = "unissued"
    /\ LET u == req[r].user
       IN rt' = Pruned([rt EXCEPT ![t] =
                   NewToken(u, req[r].pw, t, req[r].raced \/ Resetting(u))])
    /\ ended' = ended \cup ExpiredSessions(rt)
    /\ Reply(r, "ok", t)
    /\ UNCHANGED <<indexed, password, link, mailed, jar, lossy, uses>>

(***************************************************************************)
(* POST /refresh: the cookie's JWT must not have expired.  The UPDATE ...  *)
(* RETURNING takes the row if it is still unrevoked and keeps it locked    *)
(* until the COMMIT, which inserts the successor and prunes the old row.   *)
(***************************************************************************)
RefreshRead(r, b) ==
    /\ jar[b] # None
    /\ ~rt[jar[b]].expired
    /\ Begin(r, "refresh", rt[jar[b]].user, b, jar[b], None, 0)
    /\ UNCHANGED <<tables, mailed, jar, history>>

\* Mutant: the successor is inserted and the old row not revoked.
RefreshCommit_KeepsOld(r, t) ==
    /\ At(r, "refresh", "writing")
    /\ rt[t].st = "unissued"
    /\ LET old == req[r].tok
       IN /\ Live(old)
          /\ rt' = Pruned([rt EXCEPT
                     ![t] = NewToken(rt[old].user, rt[old].pw, rt[old].root,
                                     rt[old].raced \/ Resetting(rt[old].user))])
    /\ Reply(r, "ok", t)
    /\ UNCHANGED <<indexed, password, link, mailed, jar, history>>

\* Mutant: the old row is written by primary key, revoked or not.
RefreshCommit_ByKey(r, t) ==
    /\ At(r, "refresh", "writing")
    /\ rt[t].st = "unissued"
    /\ LET old == req[r].tok
       IN /\ rt[old].st # "gone"
          /\ rt' = Pruned([rt EXCEPT
                     ![old].st = "revoked",
                     ![t] = NewToken(rt[old].user, rt[old].pw, rt[old].root,
                                     rt[old].raced \/ Resetting(rt[old].user))])
          /\ ended' = ended \cup ExpiredSessions([rt EXCEPT ![old].st = "revoked"])
    /\ Reply(r, "ok", t)
    /\ UNCHANGED <<indexed, password, link, mailed, jar, lossy, uses>>

RefreshCommit(r, t) ==
    /\ At(r, "refresh", "writing")
    /\ rt[t].st = "unissued"
    /\ LET old == req[r].tok
       IN /\ Live(old)
          /\ rt' = Pruned([rt EXCEPT
                     ![old].st = "revoked",
                     ![t] = NewToken(rt[old].user, rt[old].pw, rt[old].root,
                                     rt[old].raced \/ Resetting(rt[old].user))])
          /\ ended' = ended \cup ExpiredSessions([rt EXCEPT ![old].st = "revoked"])
    /\ Reply(r, "ok", t)
    /\ UNCHANGED <<indexed, password, link, mailed, jar, lossy, uses>>

\* No row to rotate: 401, and the cookies stay as they are.
RefreshRefused(r) ==
    /\ At(r, "refresh", "writing")
    /\ ~Live(req[r].tok)
    /\ Reply(r, "refused", Keep)
    /\ UNCHANGED <<tables, mailed, jar, history>>

(***************************************************************************)
(* POST /logout: SELECT the unrevoked row of the cookie, expired or not,   *)
(* then write revoked_at by primary key.  Without a row (or a cookie) the  *)
(* answer is "Logged out" all the same.                                    *)
(***************************************************************************)
HasRow(b) == jar[b] # None /\ Live(jar[b])

LogoutRead(r, b) ==
    /\ HasRow(b)
    /\ Begin(r, "logout", None, b, jar[b], None, 0)
    /\ UNCHANGED <<tables, mailed, jar, history>>

LogoutNoRow(r, b) ==
    /\ req[r].pc = "idle"
    /\ ~HasRow(b)
    /\ req' = [req EXCEPT ![r] = [NoRequest EXCEPT !.op = "logout", !.pc = "reply",
                 !.jar = b, !.code = "ok", !.cookie = None]]
    /\ UNCHANGED <<tables, mailed, jar, history>>

LogoutCommit(r) ==
    /\ At(r, "logout", "writing")
    /\ rt[req[r].tok].st # "gone"
    /\ rt' = [rt EXCEPT ![req[r].tok].st = "revoked"]
    /\ ended' = ended \cup {rt[req[r].tok].root}
    /\ Reply(r, "ok", None)
    /\ UNCHANGED <<indexed, password, link, mailed, jar, lossy, uses>>

\* The row was rotated or pruned meanwhile: the UPDATE by primary key matches
\* nothing, the ORM raises StaleDataError, the reply is a 500.
LogoutStale(r) ==
    /\ At(r, "logout", "writing")
    /\ rt[req[r].tok].st = "gone"
    /\ Reply(r, "failed", Keep)
    /\ UNCHANGED <<tables, mailed, jar, history>>

(***************************************************************************)
(* POST /forgot-password: DELETE the user's links, INSERT a new one, send  *)
(* it.  An unknown email is answered in the same way and changes nothing.  *)
(***************************************************************************)
LinksOf(u, states) == {l \in Links : link[l].user = u /\ link[l].st \in states}

ForgotDelete(r, u) ==
    /\ password[u] > 0
    /\ req[r].pc = "idle"
    /\ req' = [req EXCEPT ![r] = [NoRequest EXCEPT !.op = "forgot", !.pc = "writing",
                 !.user = u, !.drop = LinksOf(u, {"unused", "used"})]]
    /\ UNCHANGED <<tables, mailed, jar, history>>

\* The DELETE waits for a reset that has already written one of its rows.
NotWaiting(r) ==
    \A q \in Requests : At(q, "reset", "sweeping") => req[q].link \notin req[r].drop

\* A link somebody else inserted since the DELETE started is still there.
\* The index refuses a second one.
Collides(r) ==
    indexed /\ LinksOf(req[r].user, {"unused"}) \ req[r].drop # {}

ForgotCommit(r, l) ==
    /\ At(r, "forgot", "writing")
    /\ NotWaiting(r)
    /\ ~Collides(r)
    /\ link[l].st = "unissued"
    /\ link' = [k \in Links |->
                  IF k = l THEN [st |-> "unused", user |-> req[r].user, expired |-> FALSE]
                  ELSE IF k \in req[r].drop THEN [link[k] EXCEPT !.st = "gone"]
                  ELSE link[k]]
    /\ req' = [req EXCEPT ![r] = [NoRequest EXCEPT !.op = "forgot", !.pc = "mailing",
                                                   !.link = l]]
    /\ UNCHANGED <<indexed, password, rt, mailed, jar, history>>

\* IntegrityError, which nothing here catches: rolled back, a 500.
ForgotCollides(r) ==
    /\ At(r, "forgot", "writing")
    /\ NotWaiting(r)
    /\ Collides(r)
    /\ Reply(r, "failed", Keep)
    /\ UNCHANGED <<tables, mailed, jar, history>>

\* EmailDeliveryError is swallowed: the answer is the same.
ForgotMail(r) ==
    /\ At(r, "forgot", "mailing")
    /\ \/ mailed' = mailed \cup {req[r].link}
       \/ UNCHANGED mailed
    /\ Reply(r, "ok", Keep)
    /\ UNCHANGED <<tables, jar, history>>

(***************************************************************************)
(* POST /reset-password: look the link up, hash the new password in a      *)
(* thread, then write: the flush locks the user's and the link's rows, the *)
(* sweep revokes the refresh tokens, the COMMIT publishes all of it.       *)
(***************************************************************************)
ResetRead(r, l) ==
    /\ l \in mailed
    /\ link[l].st = "unused" /\ ~link[l].expired
    /\ password[link[l].user] < MaxPassword
    /\ Begin(r, "reset", link[l].user, None, None, l, 0)
    /\ UNCHANGED <<tables, mailed, jar, history>>

\* Mutant: a statement that may match no row, without a look at how many it did.
ResetSweep_Unchecked(r) ==
    /\ At(r, "reset", "writing")
    /\ ~Resetting(req[r].user)
    /\ req' = [req EXCEPT ![r].pc = "sweeping",
                 ![r].sweep = {t \in Tokens : Live(t) /\ rt[t].user = req[r].user}]
    /\ UNCHANGED <<tables, mailed, jar, history>>

\* used_at is written by primary key: a link used meanwhile is used again.
ResetSweep(r) ==
    /\ At(r, "reset", "writing")
    /\ ~Resetting(req[r].user)
    /\ link[req[r].link].st # "gone"
    /\ req' = [req EXCEPT ![r].pc = "sweeping",
                 ![r].sweep = {t \in Tokens : Live(t) /\ rt[t].user = req[r].user}]
    /\ UNCHANGED <<tables, mailed, jar, history>>

\* forgot-password deleted the link meanwhile: StaleDataError, a 500.
ResetStale(r) ==
    /\ At(r, "reset", "writing")
    /\ ~Resetting(req[r].user)
    /\ link[req[r].link].st = "gone"
    /\ Reply(r, "failed", Keep)
    /\ UNCHANGED <<tables, mailed, jar, history>>

\* Mutant: the reset leaves the refresh tokens alone.
Swept_Nothing(r) == {}
Swept(r) == {t \in req[r].sweep : Live(t)}

ResetCommit(r) ==
    /\ At(r, "reset", "sweeping")
    /\ password[req[r].user] < MaxPassword
    /\ LET u == req[r].user
           l == req[r].link
       IN /\ password' = [password EXCEPT ![u] = @ + 1]
          /\ link' = [link EXCEPT ![l].st = "used"]
          /\ uses' = [uses EXCEPT ![l] = IF @ < 2 THEN @ + 1 ELSE 2]
          /\ rt' = [t \in Tokens |->
                      IF t \in Swept(r) THEN [rt[t] EXCEPT !.st = "revoked"] ELSE rt[t]]
          /\ ended' = ended \cup {rt[t].root : t \in Swept(r)}
          /\ req' = [q \in Requests |->
                       IF q = r THEN Replied(req[r], "ok", Keep)
                       ELSE IF At(q, "login", "writing") /\ req[q].user = u
                       THEN [req[q] EXCEPT !.raced = TRUE]
                       ELSE req[q]]
    /\ UNCHANGED <<indexed, mailed, jar, lossy>>

----------------------------------------------------------------------------
\* The reply reaches the browser, which obeys its Set-Cookie.
Deliver(r) ==
    /\ req[r].pc = "reply"
    /\ jar' = IF req[r].cookie = Keep THEN jar
              ELSE [jar EXCEPT ![req[r].jar] = req[r].cookie]
    /\ req' = [req EXCEPT ![r] = NoRequest]
    /\ UNCHANGED <<tables, mailed, history>>

\* The reply is lost, or the process dies before it is sent.
Lose(r) ==
    /\ req[r].pc = "reply"
    /\ lossy' = IF req[r].cookie = Keep THEN lossy ELSE lossy \cup {req[r].jar}
    /\ req' = [req EXCEPT ![r] = NoRequest]
    /\ UNCHANGED <<tables, mailed, jar, ended, uses>>

\* The process dies, or the database fails, before the COMMIT (or the mail).
Abort(r) ==
    /\ req[r].pc \in {"writing", "sweeping", "mailing"}
    /\ req' = [req EXCEPT ![r] = NoRequest]
    /\ UNCHANGED <<tables, mailed, jar, history>>

ExpireToken(t) ==
    /\ Live(t) /\ ~rt[t].expired
    /\ rt' = [rt EXCEPT ![t].expired = TRUE]
    /\ UNCHANGED <<indexed, password, link, mailed, jar, req, history>>

ExpireLink(l) ==
    /\ link[l].st = "unused" /\ ~link[l].expired
    /\ link' = [link EXCEPT ![l].expired = TRUE]
    /\ UNCHANGED <<indexed, password, rt, mailed, jar, req, history>>

Next ==
    \/ \E u \in Users : Register(u)
    \/ \E r \in Requests :
         \/ \E b \in Jars : \/ \E u \in Users : LoginRead(r, b, u)
                            \/ RefreshRead(r, b)
                            \/ LogoutRead(r, b) \/ LogoutNoRow(r, b)
         \/ \E t \in Tokens : LoginCommit(r, t) \/ RefreshCommit(r, t)
         \/ RefreshRefused(r)
         \/ LogoutCommit(r) \/ LogoutStale(r)
         \/ \E u \in Users : ForgotDelete(r, u)
         \/ \E l \in Links : ForgotCommit(r, l) \/ ResetRead(r, l)
         \/ ForgotCollides(r) \/ ForgotMail(r)
         \/ ResetSweep(r) \/ ResetStale(r) \/ ResetCommit(r)
         \/ Deliver(r) \/ Lose(r) \/ Abort(r)
    \/ \E t \in Tokens : ExpireToken(t)
    \/ \E l \in Links : ExpireLink(l)

Spec == Init /\ [][Next]_vars

----------------------------------------------------------------------------
(***************************************************************************)
(* Rotation never forks a session (auth.py:210-238): of all the tokens     *)
(* that descend from one login, at most one can still be used, however     *)
(* many refreshes of the same cookie are in flight.                        *)
(***************************************************************************)
OneLiveTokenPerSession ==
    \A s, t \in Tokens : Live(s) /\ Live(t) /\ rt[s].root = rt[t].root => s = t

(***************************************************************************)
(* A password reset ends the user's sessions (auth.py:425-429): a token    *)
(* that can still be used was obtained with the CURRENT password, unless   *)
(* the login or refresh it comes from overlapped the reset.                *)
(***************************************************************************)
ResetEndsSessions ==
    \A t \in Tokens : Live(t) /\ ~rt[t].raced => rt[t].pw = password[rt[t].user]

(***************************************************************************)
(* What has ended a session stays: once a logout has COMMITted its write   *)
(* (auth.py:259-261), or a reset or pruning its own, no token of that      *)
(* login can be used, and no refresh that was under way makes a new one.   *)
(***************************************************************************)
EndedStaysEnded == \A t \in Tokens : Live(t) => rt[t].root \notin ended

(***************************************************************************)
(* The rows of refresh_tokens implement sessions: rotation, pruning and    *)
(* overlapping requests neither lose a session nor bring one back.  It is  *)
(* open while it has a usable token, and only a logout, a reset, or the    *)
(* pruning of an expired token ends it (auth.py:92-97, 210-238, 259, 425). *)
(***************************************************************************)
OpenSessions == {rt[t].root : t \in {x \in Tokens : Live(x)}}
Service == INSTANCE Sessions WITH Ids <- Tokens, open <- OpenSessions, over <- ended
SessionsImplemented == Service!SessionsSpec

(***************************************************************************)
(* Refresh-on-401 does not log people out: a browser no reply to which was *)
(* lost and that is waiting for none holds the usable token of its         *)
(* session, as long as no logout, reset or expiry has ended the session.   *)
(***************************************************************************)
JarHoldsSession ==
    \A b \in Jars \ lossy :
        /\ jar[b] # None
        /\ \A r \in Requests : req[r].jar # b
        => Live(jar[b]) \/ rt[jar[b]].root \in ended

(***************************************************************************)
(* A link that was replaced is dead (auth.py:352-354, 405-430): when       *)
(* forgot_password has deleted it, the password is not reset with it, even *)
(* by a request that found it unused before and was still hashing, and     *)
(* even if no index keeps a second request from inserting one of its own.  *)
(***************************************************************************)
ReplacedLinkDies ==
    [][\A l \in Links : link[l].st = "gone"
                        => link'[l].st = "gone" /\ uses'[l] = uses[l]]_vars

(***************************************************************************)
(* A reset link works once (tests/test_auth.py:88, one_time_use).          *)
(***************************************************************************)
LinkWorksOnce == \A l \in Links : uses[l] <= 1

=============================================================================
