----------------------------- MODULE AuthProofs -----------------------------
(***************************************************************************)
(* The session invariants of Auth for any number of accounts, browsers,    *)
(* concurrent requests, tokens and links.                                  *)
(***************************************************************************)
EXTENDS Auth, TLAPS

----------------------------------------------------------------------------
(***************************************************************************)
(* What a request has read by the time it writes, by handler.              *)
(***************************************************************************)
Ready(q) ==
    /\ q.op = "login" /\ q.pc = "writing" => q.user \in Users
    /\ q.op \in {"refresh", "logout"} /\ q.pc = "writing" => q.tok \in Tokens
    /\ q.op = "forgot" /\ q.pc = "writing" => q.user \in Users
    /\ q.op = "forgot" /\ q.pc = "mailing" => q.link \in Links
    /\ q.op = "reset" /\ q.pc \in {"writing", "sweeping"}
         => q.user \in Users /\ q.link \in Links
    /\ q.op \in {"login", "refresh", "logout"} => q.jar \in Jars
    /\ q.pc = "reply" /\ q.cookie # Keep => q.jar \in Jars

(***************************************************************************)
(* Types, what requests have read, and that rows have owners: a usable     *)
(* token belongs to an existing account, a link to some account.           *)
(***************************************************************************)
WellFormed ==
    /\ TypeOK
    /\ \A r \in Requests : Ready(req[r])
    /\ \A t \in Tokens : rt[t].st = "live" => rt[t].user \in Users
    /\ \A l \in Links : link[l].st = "unused" => link[l].user \in Users

LEMMA NoRequestType == NoRequest \in Request /\ Ready(NoRequest)
BY ConstAssumption DEF NoRequest, Request, Ready, Ops, PCs

LEMMA ReplyType ==
    ASSUME NEW q \in Request,
           NEW code \in {"ok", "refused", "failed"},
           NEW cookie \in Tokens \cup {None, Keep},
           cookie = Keep \/ q.jar \in Jars
    PROVE  /\ Replied(q, code, cookie) \in Request
           /\ Ready(q) => Ready(Replied(q, code, cookie))
           /\ Replied(q, code, cookie).pc \in {"idle", "reply"}
<1> DEFINE rep == [NoRequest EXCEPT !.op = q.op, !.pc = "reply", !.jar = q.jar,
                                    !.code = code, !.cookie = cookie]
<1>1. rep \in Request
  BY ConstAssumption DEF NoRequest, Request, Ops, PCs
<1>2. rep.op = q.op /\ rep.pc = "reply" /\ rep.jar = q.jar /\ rep.cookie = cookie
  BY DEF NoRequest
<1>3. Ready(q) => Ready(rep)
  BY <1>2 DEF Ready
<1>4. Replied(q, code, cookie) \in {NoRequest, rep}
  BY DEF Replied
<1>5. NoRequest.pc = "idle"
  BY DEF NoRequest
<1> HIDE DEF rep
<1> QED
  BY <1>1, <1>2, <1>3, <1>4, <1>5, NoRequestType

LEMMA RowType ==
    ASSUME NEW row \in TokenRow
    PROVE  /\ [row EXCEPT !.st = "revoked"] \in TokenRow
           /\ [row EXCEPT !.st = "gone"] \in TokenRow
           /\ [row EXCEPT !.expired = TRUE] \in TokenRow
BY DEF TokenRow

\* Pruning deletes rows and changes nothing else.
LEMMA PrunedType ==
    ASSUME NEW rows \in [Tokens -> TokenRow]
    PROVE  /\ Pruned(rows) \in [Tokens -> TokenRow]
           /\ \A t \in Tokens :
                /\ Pruned(rows)[t].st \in {rows[t].st, "gone"}
                /\ Pruned(rows)[t].st = "live" => rows[t].st = "live"
                /\ Pruned(rows)[t].st = "unissued" => rows[t].st = "unissued"
                /\ Pruned(rows)[t].user = rows[t].user
                /\ Pruned(rows)[t].pw = rows[t].pw
                /\ Pruned(rows)[t].root = rows[t].root
                /\ Pruned(rows)[t].raced = rows[t].raced
           /\ ExpiredSessions(rows) \subseteq Tokens
<1>1. \A t \in Tokens : Pruned(rows)[t] \in {rows[t], [rows[t] EXCEPT !.st = "gone"]}
  BY DEF Pruned
<1>2. \A t \in Tokens : rows[t] \in TokenRow
  OBVIOUS
<1>4. Pruned(rows) \in [Tokens -> TokenRow]
  BY <1>1, <1>2, RowType DEF Pruned
<1>5. ExpiredSessions(rows) \subseteq Tokens
  BY <1>2 DEF ExpiredSessions, TokenRow
<1> QED
  BY <1>1, <1>2, <1>4, <1>5 DEF TokenRow

LEMMA NewTokenType ==
    ASSUME NEW u \in Users, NEW pw \in Nat, NEW root \in Tokens,
           NEW raced \in BOOLEAN
    PROVE  NewToken(u, pw, root, raced) \in TokenRow
BY DEF NewToken, TokenRow

----------------------------------------------------------------------------
\* One request moves on, and every other one stays as it is.
Moves(r) ==
    /\ req' \in [Requests -> Request]
    /\ Ready(req'[r])
    /\ \A q \in Requests : q # r => req'[q] = req[q]

\* Steps that only move one request keep WellFormed.
LEMMA OnlyMoves ==
    ASSUME WellFormed, NEW r \in Requests, Moves(r),
           UNCHANGED <<tables, mailed, jar, history>>
    PROVE  WellFormed'
BY DEF WellFormed, TypeOK, Moves, Ready, tables, history

LEMMA ReplyMoves ==
    ASSUME WellFormed, NEW r \in Requests,
           NEW code \in {"ok", "refused", "failed"},
           NEW cookie \in Tokens \cup {None, Keep},
           cookie = Keep \/ req[r].jar \in Jars,
           Reply(r, code, cookie)
    PROVE  Moves(r)
<1>1. req[r] \in Request /\ Ready(req[r])
  BY DEF WellFormed, TypeOK
<1>2. req' = [req EXCEPT ![r] = Replied(req[r], code, cookie)]
  BY DEF Reply
<1>3. req \in [Requests -> Request]
  BY DEF WellFormed, TypeOK
<1> QED
  BY <1>1, <1>2, <1>3, ReplyType DEF Moves

LEMMA IdleMoves ==
    ASSUME WellFormed, NEW r \in Requests, req' = [req EXCEPT ![r] = NoRequest]
    PROVE  Moves(r)
BY NoRequestType DEF Moves, WellFormed, TypeOK

\* The requests that Begin starts are ready for their second step.
LEMMA BeginMoves ==
    ASSUME WellFormed, NEW r \in Requests,
           NEW op \in {"login", "refresh", "logout", "reset"},
           NEW u \in Users \cup {None}, NEW b \in Jars \cup {None},
           NEW t \in Tokens \cup {None}, NEW l \in Links \cup {None},
           NEW pw \in Nat, Begin(r, op, u, b, t, l, pw),
           op = "login" => u \in Users /\ b \in Jars,
           op \in {"refresh", "logout"} => t \in Tokens /\ b \in Jars,
           op = "reset" => u \in Users /\ l \in Links
    PROVE  Moves(r)
<1>1. req \in [Requests -> Request]
  BY DEF WellFormed, TypeOK
<1>2. /\ req' \in [Requests -> Request]
      /\ \A q \in Requests : q # r => req'[q] = req[q]
      /\ req'[r].op = op /\ req'[r].pc = "writing" /\ req'[r].user = u
      /\ req'[r].jar = b /\ req'[r].tok = t /\ req'[r].link = l
  BY <1>1 DEF Begin, NoRequest, Request, Ops, PCs
<1> QED
  BY <1>2 DEF Moves, Ready

LEMMA RowFields ==
    ASSUME TypeOK
    PROVE  /\ \A t \in Tokens : /\ rt[t].user \in Users \cup {None}
                                /\ rt[t].pw \in Nat /\ rt[t].root \in Tokens
                                /\ rt[t].raced \in BOOLEAN
           /\ \A l \in Links : link[l].user \in Users \cup {None}
           /\ \A r \in Requests : /\ req[r].pw \in Nat /\ req[r].raced \in BOOLEAN
                                  /\ req[r].jar \in Jars \cup {None}
                                  /\ req[r].link \in Links \cup {None}
                                  /\ req[r].tok \in Tokens \cup {None}
                                  /\ req[r].user \in Users \cup {None}
BY DEF TypeOK, TokenRow, LinkRow, Request

LEMMA WellFormedInit == Init => WellFormed
<1> SUFFICES ASSUME Init PROVE WellFormed
  OBVIOUS
<1>1. TypeOK
  BY NoRequestType DEF Init, TypeOK, TokenRow, LinkRow
<1> QED
  BY <1>1, NoRequestType DEF Init, WellFormed

\* Login and refresh: the new row, the rotated row and the pruned ones.
LEMMA LoginCommitWellFormed ==
    ASSUME WellFormed, NEW r \in Requests, NEW t \in Tokens, LoginCommit(r, t)
    PROVE  WellFormed'
<1> DEFINE raced == req[r].raced \/ Resetting(req[r].user)
           rows == [rt EXCEPT ![t] = NewToken(req[r].user, req[r].pw, t, raced)]
<1>1. req[r].user \in Users /\ req[r].jar \in Jars /\ Ready(req[r])
  BY DEF WellFormed, LoginCommit, At, Ready
<1>2. raced \in BOOLEAN /\ req[r].pw \in Nat
  BY RowFields DEF WellFormed, Resetting
<1>3. rows \in [Tokens -> TokenRow]
  BY <1>1, <1>2, NewTokenType DEF WellFormed, TypeOK
<1>4. rt' = Pruned(rows)
  BY DEF LoginCommit
<1>a. rt \in [Tokens -> TokenRow]
  BY DEF WellFormed, TypeOK
<1>b. ExpiredSessions(rt) \subseteq Tokens
  BY <1>a, PrunedType
<1>c. rt' \in [Tokens -> TokenRow]
  BY <1>3, <1>4, PrunedType
<1>5. rt' \in [Tokens -> TokenRow] /\ ended' \subseteq Tokens
  BY <1>c, <1>b DEF LoginCommit, WellFormed, TypeOK
<1>6. Moves(r)
  BY <1>1, ReplyMoves DEF LoginCommit
<1>7. \A s \in Tokens : rt'[s].st = "live" => rt'[s].user \in Users
  <2> TAKE s \in Tokens
  <2>1. rt'[s].st = "live" => rows[s].st = "live"
    BY <1>3, <1>4, PrunedType
  <2>2. rt'[s].user = rows[s].user
    BY <1>3, <1>4, PrunedType
  <2>3. rows[s].st = "live" => rows[s].user \in Users
    BY <1>1 DEF WellFormed, TypeOK, NewToken
  <2> QED
    BY <2>1, <2>2, <2>3
<1> QED
  BY <1>5, <1>6, <1>7 DEF LoginCommit, WellFormed, TypeOK, Moves, Ready

LEMMA RefreshCommitWellFormed ==
    ASSUME WellFormed, NEW r \in Requests, NEW t \in Tokens, RefreshCommit(r, t)
    PROVE  WellFormed'
<1> DEFINE old == req[r].tok
           raced == rt[old].raced \/ Resetting(rt[old].user)
           rows == [rt EXCEPT ![old].st = "revoked",
                      ![t] = NewToken(rt[old].user, rt[old].pw, rt[old].root, raced)]
           gone == [rt EXCEPT ![old].st = "revoked"]
<1>1. old \in Tokens /\ req[r].jar \in Jars /\ Live(old) /\ old # t
  BY DEF WellFormed, RefreshCommit, At, Ready, Live
<1>2. /\ raced \in BOOLEAN /\ rt[old].pw \in Nat /\ rt[old].root \in Tokens
      /\ rt[old].user \in Users
  BY <1>1, RowFields DEF WellFormed, Resetting, Live
<1>3. gone \in [Tokens -> TokenRow]
  BY <1>1, RowType DEF WellFormed, TypeOK
<1>4. rows = [gone EXCEPT ![t] = NewToken(rt[old].user, rt[old].pw, rt[old].root, raced)]
  OBVIOUS
<1>5. rows \in [Tokens -> TokenRow]
  BY <1>2, <1>3, <1>4, NewTokenType
<1>6. rt' = Pruned(rows) /\ ended' = ended \cup ExpiredSessions(gone)
  BY DEF RefreshCommit
<1>7. rt' \in [Tokens -> TokenRow] /\ ended' \subseteq Tokens
  BY <1>3, <1>5, <1>6, PrunedType DEF WellFormed, TypeOK
<1>8. Moves(r)
  BY <1>1, ReplyMoves DEF RefreshCommit
<1>9. \A s \in Tokens : rt'[s].st = "live" => rt'[s].user \in Users
  <2> TAKE s \in Tokens
  <2>1. rt'[s].st = "live" => rows[s].st = "live"
    BY <1>5, <1>6, PrunedType
  <2>2. rt'[s].user = rows[s].user
    BY <1>5, <1>6, PrunedType
  <2>3. gone[s].st = "live" => gone[s].user \in Users
    BY <1>1, <1>2 DEF WellFormed, TypeOK
  <2>4. rows[s].st = "live" => rows[s].user \in Users
    BY <1>2, <1>3, <1>4, <2>3 DEF NewToken
  <2> QED
    BY <2>1, <2>2, <2>4
<1> QED
  BY <1>7, <1>8, <1>9 DEF RefreshCommit, WellFormed, TypeOK, Moves, Ready

LEMMA LogoutWellFormed ==
    ASSUME WellFormed, NEW r \in Requests,
           \/ \E b \in Jars : LogoutRead(r, b) \/ LogoutNoRow(r, b)
           \/ LogoutCommit(r) \/ LogoutStale(r)
    PROVE  WellFormed'
<1>1. ASSUME NEW b \in Jars, LogoutRead(r, b)
      PROVE  WellFormed'
  <2>1. jar[b] \in Tokens
    BY <1>1 DEF LogoutRead, HasRow, WellFormed, TypeOK
  <2>2. Moves(r)
    BY <1>1, <2>1, BeginMoves, 0 \in Nat DEF LogoutRead
  <2> QED
    BY <1>1, <2>2, OnlyMoves DEF LogoutRead
<1>2. ASSUME NEW b \in Jars, LogoutNoRow(r, b)
      PROVE  WellFormed'
  <2>1. Moves(r)
    BY <1>2 DEF LogoutNoRow, Moves, NoRequest, Request, Ops, PCs, Ready,
                WellFormed, TypeOK
  <2> QED
    BY <1>2, <2>1, OnlyMoves DEF LogoutNoRow
<1>3. CASE LogoutCommit(r)
  <2> DEFINE t == req[r].tok
  <2>1. t \in Tokens /\ req[r].jar \in Jars /\ rt[t].root \in Tokens
    BY <1>3, RowFields DEF LogoutCommit, At, Ready, WellFormed
  <2>2. Moves(r)
    BY <1>3, <2>1, ReplyMoves DEF LogoutCommit
  <2>3. rt' \in [Tokens -> TokenRow]
    BY <1>3, <2>1, RowType DEF LogoutCommit, WellFormed, TypeOK
  <2> QED
    BY <1>3, <2>1, <2>2, <2>3 DEF LogoutCommit, WellFormed, TypeOK, Moves
<1>4. CASE LogoutStale(r)
  <2>1. Moves(r)
    BY <1>4, ReplyMoves DEF LogoutStale
  <2> QED
    BY <1>4, <2>1, OnlyMoves DEF LogoutStale
<1> QED
  BY <1>1, <1>2, <1>3, <1>4

LEMMA ForgotWellFormed ==
    ASSUME WellFormed, NEW r \in Requests,
           \/ \E u \in Users : ForgotDelete(r, u)
           \/ \E l \in Links : ForgotCommit(r, l)
           \/ ForgotCollides(r) \/ ForgotMail(r)
    PROVE  WellFormed'
<1>1. ASSUME NEW u \in Users, ForgotDelete(r, u)
      PROVE  WellFormed'
  <2>1. LinksOf(u, {"unused", "used"}) \subseteq Links
    BY DEF LinksOf
  <2>2. Moves(r)
    BY <1>1, <2>1 DEF ForgotDelete, Moves, NoRequest, Request, Ops, PCs, Ready,
                      WellFormed, TypeOK
  <2> QED
    BY <1>1, <2>2, OnlyMoves DEF ForgotDelete
<1>2. ASSUME NEW l \in Links, ForgotCommit(r, l)
      PROVE  WellFormed'
  <2>1. req[r].user \in Users
    BY <1>2 DEF ForgotCommit, At, Ready, WellFormed
  <2>2. Moves(r)
    BY <1>2 DEF ForgotCommit, Moves, NoRequest, Request, Ops, PCs, Ready,
                WellFormed, TypeOK
  <2>3. \A k \in Links : [link[k] EXCEPT !.st = "gone"] \in LinkRow
    BY DEF WellFormed, TypeOK, LinkRow
  <2>4. [st |-> "unused", user |-> req[r].user, expired |-> FALSE] \in LinkRow
    BY <2>1 DEF LinkRow
  <2>5. link' \in [Links -> LinkRow]
    BY <1>2, <2>3, <2>4 DEF ForgotCommit, WellFormed, TypeOK
  <2>6. \A k \in Links : link'[k].st = "unused" => link'[k].user \in Users
    <3> TAKE k \in Links
    <3>1. link[k] \in LinkRow /\ (link[k].st = "unused" => link[k].user \in Users)
      BY DEF WellFormed, TypeOK
    <3>2. \/ link'[k] = [st |-> "unused", user |-> req[r].user, expired |-> FALSE]
          \/ link'[k] = [link[k] EXCEPT !.st = "gone"]
          \/ link'[k] = link[k]
      BY <1>2 DEF ForgotCommit
    <3> QED
      BY <2>1, <3>1, <3>2 DEF LinkRow
  <2> QED
    BY <1>2, <2>2, <2>5, <2>6 DEF ForgotCommit, WellFormed, TypeOK, Moves, history
<1>3. CASE ForgotCollides(r)
  <2>1. Moves(r)
    BY <1>3, ReplyMoves DEF ForgotCollides
  <2> QED
    BY <1>3, <2>1, OnlyMoves DEF ForgotCollides
<1>4. CASE ForgotMail(r)
  <2>1. Moves(r)
    BY <1>4, ReplyMoves DEF ForgotMail
  <2>2. mailed' \subseteq Links
    BY <1>4 DEF ForgotMail, At, Ready, WellFormed, TypeOK
  <2> QED
    BY <1>4, <2>1, <2>2 DEF ForgotMail, WellFormed, TypeOK, Moves, Ready, tables, history
<1> QED
  BY <1>1, <1>2, <1>3, <1>4

LEMMA ResetWellFormed ==
    ASSUME WellFormed, NEW r \in Requests,
           \/ \E l \in Links : ResetRead(r, l)
           \/ ResetSweep(r) \/ ResetStale(r) \/ ResetCommit(r)
    PROVE  WellFormed'
<1>1. ASSUME NEW l \in Links, ResetRead(r, l)
      PROVE  WellFormed'
  <2>1. link[l].user \in Users
    BY <1>1 DEF ResetRead, WellFormed
  <2>2. Moves(r)
    BY <1>1, <2>1, BeginMoves, 0 \in Nat DEF ResetRead
  <2> QED
    BY <1>1, <2>2, OnlyMoves DEF ResetRead
<1>2. CASE ResetSweep(r)
  <2> DEFINE S == {t \in Tokens : Live(t) /\ rt[t].user = req[r].user}
  <2>1. req[r].user \in Users /\ req[r].link \in Links /\ req[r] \in Request
    BY <1>2 DEF ResetSweep, At, Ready, WellFormed, TypeOK
  <2>2. req' = [req EXCEPT ![r] = [req[r] EXCEPT !.pc = "sweeping", !.sweep = S]]
    BY <1>2 DEF ResetSweep
  <2>3. [req[r] EXCEPT !.pc = "sweeping", !.sweep = S] \in Request
    BY <2>1 DEF Request, PCs
  <2>4. Ready([req[r] EXCEPT !.pc = "sweeping", !.sweep = S])
    BY <1>2, <2>1 DEF Ready, Request, ResetSweep, At
  <2>5. Moves(r)
    BY <2>2, <2>3, <2>4 DEF Moves, WellFormed, TypeOK
  <2> QED
    BY <1>2, <2>5, OnlyMoves DEF ResetSweep
<1>3. CASE ResetStale(r)
  <2>1. Moves(r)
    BY <1>3, ReplyMoves DEF ResetStale
  <2> QED
    BY <1>3, <2>1, OnlyMoves DEF ResetStale
<1>4. CASE ResetCommit(r)
  <2>1. req[r].user \in Users /\ req[r].link \in Links /\ req[r] \in Request
        /\ Ready(req[r])
    BY <1>4 DEF ResetCommit, At, Ready, WellFormed, TypeOK
  <2>2. \A q \in Requests : req'[q] \in Request /\ Ready(req'[q])
    <3> TAKE q \in Requests
    <3>1. req[q] \in Request /\ Ready(req[q])
      BY DEF WellFormed, TypeOK
    <3>2. [req[q] EXCEPT !.raced = TRUE] \in Request
          /\ Ready([req[q] EXCEPT !.raced = TRUE])
      BY <3>1 DEF Request, Ready
    <3>3. Replied(req[r], "ok", Keep) \in Request /\ Ready(Replied(req[r], "ok", Keep))
      BY <2>1, ReplyType
    <3>4. req'[q] \in {req[q], [req[q] EXCEPT !.raced = TRUE], Replied(req[r], "ok", Keep)}
      BY <1>4 DEF ResetCommit
    <3> QED
      BY <3>1, <3>2, <3>3, <3>4
  <2>3. req' \in [Requests -> Request]
    BY <1>4, <2>2 DEF ResetCommit
  <2>4. \A t \in Tokens : rt'[t] \in {rt[t], [rt[t] EXCEPT !.st = "revoked"]}
    BY <1>4 DEF ResetCommit
  <2>5. rt' \in [Tokens -> TokenRow]
    BY <1>4, <2>4, RowType DEF ResetCommit, WellFormed, TypeOK
  <2>6. \A t \in Tokens : rt'[t].st = "live" => rt'[t].user \in Users
    BY <2>4 DEF WellFormed, TypeOK, TokenRow
  <2>7. link' = [link EXCEPT ![req[r].link].st = "used"]
    BY <1>4 DEF ResetCommit
  <2>8. link' \in [Links -> LinkRow]
        /\ \A k \in Links : link'[k].st = "unused" => link'[k].user \in Users
    BY <2>1, <2>7 DEF WellFormed, TypeOK, LinkRow
  <2>9. password' \in [Users -> Nat] /\ uses' \in [Links -> 0 .. 2]
    BY <1>4, <2>1 DEF ResetCommit, WellFormed, TypeOK
  <2>10. ended' \subseteq Tokens
    <3>1. Swept(r) \subseteq Tokens
      BY <2>1 DEF Swept, Request
    <3> QED
      BY <1>4, <3>1, RowFields DEF ResetCommit, WellFormed, TypeOK
  <2> QED
    BY <1>4, <2>2, <2>3, <2>5, <2>6, <2>8, <2>9, <2>10
       DEF ResetCommit, WellFormed, TypeOK
<1> QED
  BY <1>1, <1>2, <1>3, <1>4

LEMMA OtherWellFormed ==
    ASSUME WellFormed, NEW r \in Requests,
           \/ \E b \in Jars : (\E u \in Users : LoginRead(r, b, u)) \/ RefreshRead(r, b)
           \/ RefreshRefused(r) \/ Deliver(r) \/ Lose(r) \/ Abort(r)
    PROVE  WellFormed'
<1>1. ASSUME NEW b \in Jars, NEW u \in Users, LoginRead(r, b, u)
      PROVE  WellFormed'
  <2>1. password[u] \in Nat
    BY DEF WellFormed, TypeOK
  <2>2. Moves(r)
    BY <1>1, <2>1, BeginMoves DEF LoginRead
  <2> QED
    BY <1>1, <2>2, OnlyMoves DEF LoginRead
<1>2. ASSUME NEW b \in Jars, RefreshRead(r, b)
      PROVE  WellFormed'
  <2>1. jar[b] \in Tokens /\ rt[jar[b]].user \in Users \cup {None}
    BY <1>2, RowFields DEF RefreshRead, WellFormed, TypeOK
  <2>2. Moves(r)
    BY <1>2, <2>1, BeginMoves, 0 \in Nat DEF RefreshRead
  <2> QED
    BY <1>2, <2>2, OnlyMoves DEF RefreshRead
<1>3. CASE RefreshRefused(r)
  <2>1. Moves(r)
    BY <1>3, ReplyMoves DEF RefreshRefused
  <2> QED
    BY <1>3, <2>1, OnlyMoves DEF RefreshRefused
<1>4. CASE Deliver(r)
  <2>1. Moves(r)
    BY <1>4, IdleMoves DEF Deliver
  <2>2. req[r].cookie \in Tokens \cup {None, Keep}
    BY DEF WellFormed, TypeOK, Request
  <2>3. jar' \in [Jars -> Tokens \cup {None}]
    BY <1>4, <2>2 DEF Deliver, WellFormed, TypeOK
  <2> QED
    BY <1>4, <2>1, <2>3 DEF Deliver, WellFormed, TypeOK, Moves, Ready, tables, history
<1>5. CASE Lose(r)
  <2>1. Moves(r)
    BY <1>5, IdleMoves DEF Lose
  <2>2. lossy' \subseteq Jars
    BY <1>5 DEF Lose, WellFormed, TypeOK, Ready
  <2> QED
    BY <1>5, <2>1, <2>2 DEF Lose, WellFormed, TypeOK, Moves, Ready, tables
<1>6. CASE Abort(r)
  <2>1. Moves(r)
    BY <1>6, IdleMoves DEF Abort
  <2> QED
    BY <1>6, <2>1, OnlyMoves DEF Abort
<1> QED
  BY <1>1, <1>2, <1>3, <1>4, <1>5, <1>6

\* The steps outside any request.
LEMMA BackgroundWellFormed ==
    ASSUME WellFormed,
           \/ \E u \in Users : Register(u)
           \/ \E t \in Tokens : ExpireToken(t)
           \/ \E l \in Links : ExpireLink(l)
    PROVE  WellFormed'
<1>1. ASSUME NEW u \in Users, Register(u)
      PROVE  WellFormed'
  BY <1>1 DEF Register, WellFormed, TypeOK, history
<1>2. ASSUME NEW t \in Tokens, ExpireToken(t)
      PROVE  WellFormed'
  <2>1. rt' \in [Tokens -> TokenRow]
    BY <1>2, RowType DEF ExpireToken, WellFormed, TypeOK
  <2>2. \A s \in Tokens : rt'[s].st = "live" => rt'[s].user \in Users
    BY <1>2 DEF ExpireToken, WellFormed, TypeOK, TokenRow
  <2> QED
    BY <1>2, <2>1, <2>2 DEF ExpireToken, WellFormed, TypeOK, history
<1>3. ASSUME NEW l \in Links, ExpireLink(l)
      PROVE  WellFormed'
  <2>1. link' \in [Links -> LinkRow]
        /\ \A k \in Links : link'[k].st = "unused" => link'[k].user \in Users
    BY <1>3 DEF ExpireLink, WellFormed, TypeOK, LinkRow
  <2> QED
    BY <1>3, <2>1 DEF ExpireLink, WellFormed, TypeOK, history
<1> QED
  BY <1>1, <1>2, <1>3

(***************************************************************************)
(* The tables, jars and requests of the auth handlers keep their types,    *)
(* and no handler reaches its write without what it has to have read.      *)
(***************************************************************************)
LEMMA AlwaysWellFormed == Spec => []WellFormed
<1>1. WellFormed /\ [Next]_vars => WellFormed'
  <2> SUFFICES ASSUME WellFormed, [Next]_vars PROVE WellFormed'
    OBVIOUS
  <2>1. ASSUME NEW r \in Requests, NEW t \in Tokens,
               LoginCommit(r, t) \/ RefreshCommit(r, t)
        PROVE  WellFormed'
    BY <2>1, LoginCommitWellFormed, RefreshCommitWellFormed
  <2>2. CASE UNCHANGED vars
    BY <2>2 DEF vars, history, WellFormed, TypeOK, Ready
  <2> QED
    BY <2>1, <2>2, LogoutWellFormed, ForgotWellFormed, ResetWellFormed,
       OtherWellFormed, BackgroundWellFormed DEF Next
<1> QED
  BY <1>1, WellFormedInit, PTL DEF Spec

(***************************************************************************)
(* Whatever the handlers of auth.py (133-435) interleave to, the tables,   *)
(* jars and requests keep their types: no row without a user is written,   *)
(* and no handler goes on with a token or link it has not read.            *)
(***************************************************************************)
THEOREM TypeCorrect == Spec => []TypeOK
<1>1. WellFormed => TypeOK
  BY DEF WellFormed
<1> QED
  BY <1>1, AlwaysWellFormed, PTL

----------------------------------------------------------------------------
(***************************************************************************)
(* The strengthening of the two session invariants.  Rows: a usable token  *)
(* descends from an issued one (so a fresh login starts a fresh session)   *)
(* and belongs to a registered account.  Requests: a login that no reset   *)
(* overlapped has read the current password, and a reset that is about to  *)
(* commit has every unraced token of its user in its sweep.                *)
(***************************************************************************)
RowsInv ==
    /\ OneLiveTokenPerSession
    /\ ResetEndsSessions
    /\ \A t \in Tokens : Live(t) => /\ rt[rt[t].root].st # "unissued"
                                    /\ password[rt[t].user] > 0

RequestsInv ==
    \A r \in Requests :
      /\ At(r, "login", "writing")
           => /\ password[req[r].user] > 0
              /\ req[r].raced \/ req[r].pw = password[req[r].user]
      /\ At(r, "reset", "sweeping")
           => \A t \in Tokens : Live(t) /\ rt[t].user = req[r].user
                                => rt[t].raced \/ t \in req[r].sweep

SessionInv == WellFormed /\ RowsInv /\ RequestsInv

\* No token becomes usable and no row changes its owner or its session.
Shrinks ==
    \A t \in Tokens :
      /\ rt'[t].user = rt[t].user /\ rt'[t].pw = rt[t].pw
      /\ rt'[t].root = rt[t].root /\ rt'[t].raced = rt[t].raced
      /\ rt'[t].st = "live" => rt[t].st = "live"
      /\ rt'[t].st = "unissued" => rt[t].st = "unissued"

LEMMA ShrinkingRows ==
    ASSUME SessionInv, Shrinks, UNCHANGED password
    PROVE  RowsInv'
<1>1. \A t \in Tokens : rt[t].root \in Tokens
  BY RowFields DEF SessionInv, WellFormed
<1> QED
  BY <1>1 DEF SessionInv, RowsInv, Shrinks, OneLiveTokenPerSession,
              ResetEndsSessions, Live

\* A step that brings no request to the point of writing keeps RequestsInv.
Quiet(q) ==
    \/ req'[q] = req[q]
    \/ ~At(q, "login", "writing")' /\ ~At(q, "reset", "sweeping")'

LEMMA QuietRequests ==
    ASSUME SessionInv, Shrinks, UNCHANGED password, \A q \in Requests : Quiet(q)
    PROVE  RequestsInv'
BY DEF SessionInv, RequestsInv, Shrinks, Live, At, Quiet

LEMMA StartedRequest ==
    ASSUME NEW r \in Requests, WellFormed, NEW op \in Ops, NEW u, NEW b, NEW t, NEW l,
           NEW pw, Begin(r, op, u, b, t, l, pw)
    PROVE  /\ \A q \in Requests : q # r => req'[q] = req[q]
           /\ req'[r].op = op /\ req'[r].pc = "writing"
           /\ req'[r].user = u /\ req'[r].pw = pw
BY DEF Begin, NoRequest, WellFormed, TypeOK

LEMMA RepliedQuiet ==
    ASSUME NEW r \in Requests, WellFormed, NEW code, NEW cookie,
           Reply(r, code, cookie)
    PROVE  \A q \in Requests : Quiet(q)
BY DEF Reply, Replied, NoRequest, WellFormed, TypeOK, Quiet, At

LEMMA SessionInit == Init => SessionInv
BY WellFormedInit DEF Init, SessionInv, RowsInv, RequestsInv, NoRequest, Live, At,
   OneLiveTokenPerSession, ResetEndsSessions

\* A new session has a root of its own, and the password its login has read.
LEMMA LoginCommitSession ==
    ASSUME SessionInv, NEW r \in Requests, NEW t \in Tokens, LoginCommit(r, t)
    PROVE  RowsInv' /\ RequestsInv'
<1> DEFINE u == req[r].user
           raced == req[r].raced \/ Resetting(u)
           rows == [rt EXCEPT ![t] = NewToken(u, req[r].pw, t, raced)]
<1>1. /\ u \in Users /\ raced \in BOOLEAN /\ req[r].pw \in Nat
      /\ rt \in [Tokens -> TokenRow]
  BY RowFields DEF SessionInv, WellFormed, TypeOK, LoginCommit, At, Ready, Resetting
<1>2. rows \in [Tokens -> TokenRow]
  BY <1>1, NewTokenType
<1>3. rt' = Pruned(rows) /\ UNCHANGED password
  BY DEF LoginCommit
<1>4. \A s \in Tokens :
        /\ rt'[s].st = "live" => rows[s].st = "live"
        /\ rt'[s].st = "unissued" => rows[s].st = "unissued"
        /\ rt'[s].user = rows[s].user /\ rt'[s].pw = rows[s].pw
        /\ rt'[s].root = rows[s].root /\ rt'[s].raced = rows[s].raced
  BY <1>2, <1>3, PrunedType
<1>5. \A s \in Tokens : s # t => rows[s] = rt[s]
  BY <1>1
<1>6. /\ rows[t].st = "live" /\ rows[t].user = u /\ rows[t].pw = req[r].pw
      /\ rows[t].root = t /\ rows[t].raced = raced /\ rt[t].st = "unissued"
  BY <1>1 DEF NewToken, LoginCommit
<1>7. password[u] > 0 /\ (raced \/ req[r].pw = password[u])
  BY DEF SessionInv, RequestsInv, LoginCommit
<1>8. \A s \in Tokens : rt[s].root \in Tokens
  BY RowFields DEF SessionInv, WellFormed
<1>9. RowsInv'
  <2>1. OneLiveTokenPerSession'
    BY <1>4, <1>5, <1>6 DEF SessionInv, RowsInv, OneLiveTokenPerSession, Live
  <2>2. ASSUME NEW s \in Tokens, Live(s)'
        PROVE  /\ ~rt'[s].raced => rt'[s].pw = password'[rt'[s].user]
               /\ rt'[rt'[s].root].st # "unissued"
               /\ password'[rt'[s].user] > 0
    <3>1. CASE s = t
      BY <1>3, <1>4, <1>6, <1>7, <3>1, <2>2 DEF Live
    <3>2. CASE s # t
      <4>1. /\ Live(s) /\ rt'[s].user = rt[s].user /\ rt'[s].pw = rt[s].pw
            /\ rt'[s].root = rt[s].root /\ rt'[s].raced = rt[s].raced
        BY <1>4, <1>5, <3>2, <2>2 DEF Live
      <4>2. rt[rt[s].root].st # "unissued" /\ rt[s].root # t
        BY <4>1, <1>6 DEF SessionInv, RowsInv
      <4>3. rt'[rt[s].root].st # "unissued"
        BY <4>2, <1>4, <1>5, <1>8
      <4> QED
        BY <4>1, <4>3, <1>3 DEF SessionInv, RowsInv, ResetEndsSessions
    <3> QED
      BY <3>1, <3>2
  <2> QED
    BY <2>1, <2>2 DEF RowsInv, ResetEndsSessions
<1>10. RequestsInv'
  <2>1. \A q \in Requests : Quiet(q)
    BY RepliedQuiet DEF LoginCommit, SessionInv
  <2> SUFFICES ASSUME NEW q \in Requests, At(q, "reset", "sweeping")',
                      NEW s \in Tokens, Live(s)', rt'[s].user = req'[q].user
               PROVE  rt'[s].raced \/ s \in req'[q].sweep
    BY <1>3, <2>1 DEF RequestsInv, SessionInv, Quiet, At
  <2>2. req'[q] = req[q] /\ At(q, "reset", "sweeping")
    BY <2>1 DEF Quiet, At
  <2>3. CASE s = t
    <3>1. Resetting(u)
      BY <1>4, <1>6, <2>2, <2>3 DEF Resetting
    <3> QED
      BY <1>4, <1>6, <2>3, <3>1
  <2>4. CASE s # t
    BY <1>4, <1>5, <2>2, <2>4 DEF SessionInv, RequestsInv, Live
  <2> QED
    BY <2>3, <2>4
<1> QED
  BY <1>9, <1>10

\* The successor takes over the session of the token it replaces.
LEMMA RefreshCommitSession ==
    ASSUME SessionInv, NEW r \in Requests, NEW t \in Tokens, RefreshCommit(r, t)
    PROVE  RowsInv' /\ RequestsInv'
<1> DEFINE old == req[r].tok
           u == rt[old].user
           raced == rt[old].raced \/ Resetting(u)
           gone == [rt EXCEPT ![old].st = "revoked"]
           rows == [rt EXCEPT ![old].st = "revoked",
                      ![t] = NewToken(u, rt[old].pw, rt[old].root, raced)]
<1>1. /\ old \in Tokens /\ Live(old) /\ old # t /\ rt[t].st = "unissued"
      /\ rt \in [Tokens -> TokenRow]
  BY DEF SessionInv, WellFormed, TypeOK, RefreshCommit, At, Ready, Live
<1>2. /\ u \in Users /\ raced \in BOOLEAN /\ rt[old].pw \in Nat
      /\ rt[old].root \in Tokens
  BY <1>1, RowFields DEF SessionInv, WellFormed, Resetting, Live
<1>3. gone \in [Tokens -> TokenRow] /\ gone[old].st = "revoked"
  BY <1>1, RowType DEF TokenRow
<1>4. rows = [gone EXCEPT ![t] = NewToken(u, rt[old].pw, rt[old].root, raced)]
  OBVIOUS
<1>5. rows \in [Tokens -> TokenRow]
  BY <1>2, <1>3, <1>4, NewTokenType
<1>6. rt' = Pruned(rows) /\ UNCHANGED password
  BY DEF RefreshCommit
<1>7. \A s \in Tokens :
        /\ rt'[s].st = "live" => rows[s].st = "live"
        /\ rt'[s].st = "unissued" => rows[s].st = "unissued"
        /\ rt'[s].user = rows[s].user /\ rt'[s].pw = rows[s].pw
        /\ rt'[s].root = rows[s].root /\ rt'[s].raced = rows[s].raced
  BY <1>5, <1>6, PrunedType
<1>8. \A s \in Tokens : s \notin {t, old} => rows[s] = rt[s]
  BY <1>1, <1>4
<1>9. /\ rows[t].st = "live" /\ rows[t].user = u /\ rows[t].pw = rt[old].pw
      /\ rows[t].root = rt[old].root /\ rows[t].raced = raced
  BY <1>3, <1>4 DEF NewToken
<1>10. rows[old].st = "revoked"
  BY <1>1, <1>3, <1>4
<1>11. \A s \in Tokens : rt[s].root \in Tokens
  BY RowFields DEF SessionInv, WellFormed
<1> HIDE DEF rows, gone
<1>12. RowsInv'
  <2>1. OneLiveTokenPerSession'
    BY <1>1, <1>7, <1>8, <1>9, <1>10
       DEF SessionInv, RowsInv, OneLiveTokenPerSession, Live
  <2>2. ASSUME NEW s \in Tokens, Live(s)', ~rt'[s].raced
        PROVE  rt'[s].pw = password'[rt'[s].user]
    <3>1. CASE s = t
      <4>1. ~rt[old].raced
        BY <1>7, <1>9, <2>2, <3>1
      <4>2. rt[old].pw = password[u]
        BY <1>1, <4>1 DEF SessionInv, RowsInv, ResetEndsSessions
      <4> QED
        BY <4>2, <1>6, <1>7, <1>9, <3>1
    <3>2. CASE s # t
      <4>1. /\ Live(s) /\ rt'[s].user = rt[s].user /\ rt'[s].pw = rt[s].pw
            /\ rt'[s].raced = rt[s].raced
        BY <1>7, <1>8, <1>10, <3>2, <2>2 DEF Live
      <4> QED
        BY <4>1, <1>6, <2>2 DEF SessionInv, RowsInv, ResetEndsSessions
    <3> QED
      BY <3>1, <3>2
  <2>3. \A s \in Tokens : Live(s)' => /\ rt'[rt'[s].root].st # "unissued"
                                      /\ password'[rt'[s].user] > 0
    BY <1>1, <1>6, <1>7, <1>8, <1>9, <1>10, <1>11 DEF SessionInv, RowsInv, Live
  <2> QED
    BY <2>1, <2>2, <2>3 DEF RowsInv, ResetEndsSessions
<1>13. RequestsInv'
  <2>1. \A q \in Requests : Quiet(q)
    BY RepliedQuiet DEF RefreshCommit, SessionInv
  <2> SUFFICES ASSUME NEW q \in Requests, At(q, "reset", "sweeping")',
                      NEW s \in Tokens, Live(s)', rt'[s].user = req'[q].user
               PROVE  rt'[s].raced \/ s \in req'[q].sweep
    BY <1>6, <2>1 DEF RequestsInv, SessionInv, Quiet, At
  <2>2. req'[q] = req[q] /\ At(q, "reset", "sweeping")
    BY <2>1 DEF Quiet, At
  <2>3. CASE s = t
    <3>1. Resetting(u)
      BY <1>7, <1>9, <2>2, <2>3 DEF Resetting
    <3> QED
      BY <1>7, <1>9, <2>3, <3>1
  <2>4. CASE s # t
    BY <1>7, <1>8, <1>10, <2>2, <2>4 DEF SessionInv, RequestsInv, Live
  <2> QED
    BY <2>3, <2>4
<1> QED
  BY <1>12, <1>13

\* The sweep has all the unraced tokens of the user; logins on their way with
\* the old password become raced.
LEMMA ResetCommitSession ==
    ASSUME SessionInv, NEW r \in Requests, ResetCommit(r)
    PROVE  RowsInv' /\ RequestsInv'
<1> DEFINE u == req[r].user
<1>1. u \in Users /\ At(r, "reset", "sweeping") /\ rt \in [Tokens -> TokenRow]
      /\ password \in [Users -> Nat] /\ req \in [Requests -> Request]
  BY DEF SessionInv, WellFormed, TypeOK, ResetCommit, At, Ready
<1>2. \A t \in Tokens : rt'[t] = IF t \in Swept(r) THEN [rt[t] EXCEPT !.st = "revoked"]
                                                   ELSE rt[t]
  BY DEF ResetCommit
<1>3. Shrinks
  BY <1>1, <1>2 DEF Shrinks, TokenRow
<1>4. \A t \in Tokens : Live(t)' => Live(t) /\ t \notin Swept(r)
  BY <1>1, <1>2 DEF Live, TokenRow
<1>5. \A t \in Tokens : Live(t)' /\ rt[t].user = u => rt[t].raced
  BY <1>1, <1>4 DEF SessionInv, RequestsInv, Swept
<1>6. password' = [password EXCEPT ![u] = @ + 1]
  BY DEF ResetCommit
<1>7. \A v \in Users : v # u => password'[v] = password[v]
  BY <1>6
<1>8. password'[u] > 0 /\ \A v \in Users : password[v] > 0 => password'[v] > 0
  BY <1>1, <1>6
<1>9. \A t \in Tokens : Live(t) => rt[t].user \in Users
  BY DEF SessionInv, WellFormed, Live
<1>10. RowsInv'
  <2>1. OneLiveTokenPerSession'
    BY <1>3, <1>4 DEF SessionInv, RowsInv, OneLiveTokenPerSession, Shrinks
  <2>2. ASSUME NEW t \in Tokens, Live(t)'
        PROVE  /\ ~rt'[t].raced => rt'[t].pw = password'[rt'[t].user]
               /\ rt'[rt'[t].root].st # "unissued"
               /\ password'[rt'[t].user] > 0
    <3>1. /\ Live(t) /\ rt[t].user \in Users
          /\ rt[t].root \in Tokens /\ rt[rt[t].root].st # "unissued"
          /\ password[rt[t].user] > 0
          /\ ~rt[t].raced => rt[t].pw = password[rt[t].user]
      BY <2>2, <1>4, <1>9, RowFields
         DEF SessionInv, WellFormed, RowsInv, ResetEndsSessions
    <3>2. ~rt[t].raced => rt[t].user # u
      BY <2>2, <1>5
    <3> QED
      BY <3>1, <3>2, <1>3, <1>7, <1>8 DEF Shrinks
  <2> QED
    BY <2>1, <2>2 DEF RowsInv, ResetEndsSessions
<1>11. \A q \in Requests :
         req'[q] = IF q = r THEN Replied(req[r], "ok", Keep)
                   ELSE IF At(q, "login", "writing") /\ req[q].user = u
                   THEN [req[q] EXCEPT !.raced = TRUE]
                   ELSE req[q]
  BY DEF ResetCommit
<1>12. ~At(r, "login", "writing")' /\ ~At(r, "reset", "sweeping")'
  <2>1. Replied(req[r], "ok", Keep) = NoRequest
    BY DEF Replied
  <2>2. req'[r] = NoRequest
    BY <1>11, <2>1
  <2> QED
    BY <2>2 DEF At, NoRequest
<1>13. ASSUME NEW q \in Requests, At(q, "login", "writing")'
       PROVE  /\ password'[req'[q].user] > 0
              /\ req'[q].raced \/ req'[q].pw = password'[req'[q].user]
  <2>0. q # r /\ req[q] \in Request
    BY <1>1, <1>12, <1>13
  <2>1. /\ At(q, "login", "writing") /\ req'[q].user = req[q].user
        /\ req'[q].pw = req[q].pw /\ req'[q].raced \in {TRUE, req[q].raced}
        /\ req[q].user = u => req'[q].raced = TRUE
    BY <1>11, <1>13, <2>0 DEF At, Request
  <2>2. /\ req[q].user \in Users /\ password[req[q].user] > 0
        /\ req[q].raced \/ req[q].pw = password[req[q].user]
    BY <2>1 DEF SessionInv, RequestsInv, WellFormed, Ready, At
  <2>3. req[q].raced \in BOOLEAN
    BY <2>0 DEF Request
  <2> QED
    BY <2>1, <2>2, <2>3, <1>7, <1>8
<1>14. ASSUME NEW q \in Requests, At(q, "reset", "sweeping")',
              NEW t \in Tokens, Live(t)', rt'[t].user = req'[q].user
       PROVE  rt'[t].raced \/ t \in req'[q].sweep
  <2>1. q # r /\ req[q] \in Request
    BY <1>1, <1>12, <1>14
  <2>2. req'[q] = req[q]
    BY <1>11, <1>14, <2>1 DEF At, Request
  <2> QED
    BY <2>2, <1>3, <1>4, <1>14 DEF SessionInv, RequestsInv, Shrinks, At
<1> QED
  BY <1>10, <1>13, <1>14 DEF RequestsInv

\* A new account has no session, no login and no reset yet.
LEMMA RegisterSession ==
    ASSUME SessionInv, NEW u \in Users, Register(u)
    PROVE  RowsInv' /\ RequestsInv'
<1>1. \A v \in Users : v # u => password'[v] = password[v]
  BY DEF Register, SessionInv, WellFormed, TypeOK
<1>2. password[u] = 0 /\ password'[u] = 1 /\ UNCHANGED <<rt, req>>
  BY DEF Register, SessionInv, WellFormed, TypeOK
<1>3. \A t \in Tokens : Live(t) => rt[t].user \in Users /\ rt[t].user # u
  BY <1>2 DEF SessionInv, WellFormed, RowsInv, Live
<1>4. \A r \in Requests : At(r, "login", "writing")
                          => req[r].user \in Users /\ req[r].user # u
  BY <1>2 DEF SessionInv, WellFormed, RequestsInv, Ready, At
<1>5. RowsInv'
  BY <1>1, <1>2, <1>3 DEF SessionInv, RowsInv, OneLiveTokenPerSession,
                          ResetEndsSessions, Live
<1>6. RequestsInv'
  BY <1>1, <1>2, <1>4 DEF SessionInv, RequestsInv, At, Live
<1> QED
  BY <1>5, <1>6

\* The two reads whose outcome RequestsInv speaks about.
LEMMA ReadsSession ==
    ASSUME SessionInv, NEW r \in Requests,
           \/ \E b \in Jars, u \in Users : LoginRead(r, b, u)
           \/ ResetSweep(r)
    PROVE  RowsInv' /\ RequestsInv'
<1>1. UNCHANGED tables
  BY DEF LoginRead, ResetSweep
<1>2. Shrinks /\ UNCHANGED password
  BY <1>1 DEF Shrinks, tables
<1>3. RowsInv'
  BY <1>2, ShrinkingRows
<1>4. ASSUME NEW b \in Jars, NEW u \in Users, LoginRead(r, b, u)
      PROVE  RequestsInv'
  <2>1. /\ \A q \in Requests : q # r => req'[q] = req[q]
        /\ req'[r].op = "login" /\ req'[r].pc = "writing"
        /\ req'[r].user = u /\ req'[r].pw = password[u] /\ password[u] > 0
    BY <1>4, StartedRequest DEF LoginRead, Ops, SessionInv
  <2> QED
    BY <1>1, <2>1 DEF tables, SessionInv, RequestsInv, At, Live
<1>5. ASSUME ResetSweep(r)
      PROVE  RequestsInv'
  <2> DEFINE S == {t \in Tokens : Live(t) /\ rt[t].user = req[r].user}
  <2>1. req[r] \in Request /\ req \in [Requests -> Request]
    BY DEF SessionInv, WellFormed, TypeOK
  <2>2. req' = [req EXCEPT ![r] = [req[r] EXCEPT !.pc = "sweeping", !.sweep = S]]
    BY <1>5 DEF ResetSweep
  <2>3. /\ \A q \in Requests : q # r => req'[q] = req[q]
        /\ req'[r].op = "reset" /\ req'[r].pc = "sweeping"
        /\ req'[r].user = req[r].user /\ req'[r].sweep = S
    BY <1>5, <2>1, <2>2 DEF ResetSweep, At, Request
  <2> QED
    BY <1>1, <2>3 DEF tables, SessionInv, RequestsInv, At, Live
<1> QED
  BY <1>3, <1>4, <1>5

\* The steps that neither make a login or a reset write, nor a token usable.
Lesser(r) ==
    \/ \E b \in Jars : RefreshRead(r, b) \/ LogoutRead(r, b) \/ LogoutNoRow(r, b)
    \/ RefreshRefused(r) \/ LogoutCommit(r) \/ LogoutStale(r)
    \/ \E u \in Users : ForgotDelete(r, u)
    \/ \E l \in Links : ForgotCommit(r, l) \/ ResetRead(r, l)
    \/ ForgotCollides(r) \/ ForgotMail(r) \/ ResetStale(r)
    \/ Deliver(r) \/ Lose(r) \/ Abort(r)

LEMMA LesserQuiet ==
    ASSUME WellFormed, NEW r \in Requests, Lesser(r)
    PROVE  \A q \in Requests : Quiet(q)
<1>0. req \in [Requests -> Request]
  BY DEF WellFormed, TypeOK
<1>1. CASE \/ RefreshRefused(r) \/ LogoutCommit(r) \/ LogoutStale(r)
           \/ ForgotCollides(r) \/ ForgotMail(r) \/ ResetStale(r)
  BY <1>1, <1>0, RepliedQuiet
     DEF RefreshRefused, LogoutCommit, LogoutStale, ForgotCollides, ForgotMail,
         ResetStale
<1>2. CASE \E b \in Jars : RefreshRead(r, b) \/ LogoutRead(r, b)
  <2>1. /\ \A q \in Requests : q # r => req'[q] = req[q]
        /\ req'[r].op \in {"refresh", "logout"}
    BY <1>2, <1>0, StartedRequest DEF RefreshRead, LogoutRead, Ops
  <2> QED
    BY <2>1 DEF Quiet, At
<1>3. CASE \E l \in Links : ResetRead(r, l)
  <2>1. /\ \A q \in Requests : q # r => req'[q] = req[q]
        /\ req'[r].op = "reset" /\ req'[r].pc = "writing"
    BY <1>3, <1>0, StartedRequest DEF ResetRead, Ops
  <2> QED
    BY <2>1 DEF Quiet, At
<1>4. CASE \/ \E b \in Jars : LogoutNoRow(r, b)
           \/ \E u \in Users : ForgotDelete(r, u)
           \/ \E l \in Links : ForgotCommit(r, l)
           \/ Deliver(r) \/ Lose(r) \/ Abort(r)
  <2>1. /\ \A q \in Requests : q # r => req'[q] = req[q]
        /\ req'[r].op \in {"logout", "forgot", "none"}
    <3>1. CASE \E b \in Jars : LogoutNoRow(r, b)
      BY <3>1, <1>0 DEF LogoutNoRow, NoRequest
    <3>2. CASE \E u \in Users : ForgotDelete(r, u)
      BY <3>2, <1>0 DEF ForgotDelete, NoRequest
    <3>3. CASE \E l \in Links : ForgotCommit(r, l)
      BY <3>3, <1>0 DEF ForgotCommit, NoRequest
    <3>4. CASE Deliver(r) \/ Lose(r) \/ Abort(r)
      BY <3>4, <1>0 DEF Deliver, Lose, Abort, NoRequest
    <3> QED
      BY <1>4, <3>1, <3>2, <3>3, <3>4
  <2> QED
    BY <2>1 DEF Quiet, At
<1> QED
  BY <1>1, <1>2, <1>3, <1>4 DEF Lesser

\* Every other step leaves the request it moves short of writing, and makes no
\* token usable.
LEMMA OtherSession ==
    ASSUME SessionInv, NEW r \in Requests,
           Lesser(r)
    PROVE  RowsInv' /\ RequestsInv'
<1>0. WellFormed /\ req \in [Requests -> Request] /\ rt \in [Tokens -> TokenRow]
  BY DEF SessionInv, WellFormed, TypeOK
<1>1. UNCHANGED password
  BY DEF Lesser, RefreshRead, LogoutRead, LogoutNoRow, RefreshRefused, LogoutCommit,
     LogoutStale, ForgotDelete, ForgotCommit, ResetRead, ForgotCollides,
     ForgotMail, ResetStale, Deliver, Lose, Abort, tables
<1>2. Shrinks
  <2>1. CASE LogoutCommit(r)
    BY <2>1, <1>0 DEF LogoutCommit, Shrinks, TokenRow
  <2>2. CASE UNCHANGED rt
    BY <2>2 DEF Shrinks
  <2> QED
    BY <2>1, <2>2
       DEF Lesser, RefreshRead, LogoutRead, LogoutNoRow, RefreshRefused,
           LogoutStale, ForgotDelete, ForgotCommit, ResetRead, ForgotCollides,
           ForgotMail, ResetStale, Deliver, Lose, Abort, tables
<1>3. \A q \in Requests : Quiet(q)
  BY <1>0, LesserQuiet
<1> QED
  BY <1>1, <1>2, <1>3, ShrinkingRows, QuietRequests

LEMMA ExpirySession ==
    ASSUME SessionInv,
           (\E t \in Tokens : ExpireToken(t)) \/ (\E l \in Links : ExpireLink(l))
    PROVE  RowsInv' /\ RequestsInv'
<1>1. UNCHANGED <<password, req>>
  BY DEF ExpireToken, ExpireLink
<1>2. Shrinks
  BY DEF ExpireToken, ExpireLink, Shrinks, SessionInv, WellFormed, TypeOK, TokenRow
<1>3. \A q \in Requests : Quiet(q)
  BY <1>1 DEF Quiet
<1> QED
  BY <1>1, <1>2, <1>3, ShrinkingRows, QuietRequests

LEMMA SessionInvariant == Spec => []SessionInv
<1>1. SessionInv /\ WellFormed' /\ [Next]_vars => SessionInv'
  <2> SUFFICES ASSUME SessionInv, [Next]_vars PROVE RowsInv' /\ RequestsInv'
    BY DEF SessionInv
  <2>1. ASSUME NEW r \in Requests, NEW t \in Tokens,
               LoginCommit(r, t) \/ RefreshCommit(r, t)
        PROVE  RowsInv' /\ RequestsInv'
    BY <2>1, LoginCommitSession, RefreshCommitSession
  <2>2. ASSUME NEW u \in Users, Register(u)
        PROVE  RowsInv' /\ RequestsInv'
    BY <2>2, RegisterSession
  <2>3. CASE UNCHANGED vars
    <3>1. Shrinks /\ UNCHANGED password /\ \A q \in Requests : Quiet(q)
      BY <2>3 DEF vars, Shrinks, Quiet
    <3> QED
      BY <3>1, ShrinkingRows, QuietRequests
  <2> QED
    BY <2>1, <2>2, <2>3, ResetCommitSession, ReadsSession, OtherSession,
       ExpirySession DEF Next, Lesser
<1> QED
  BY <1>1, SessionInit, AlwaysWellFormed, PTL DEF Spec

(***************************************************************************)
(* However many refreshes of one cookie run at once, and whatever fails,   *)
(* a session never has two usable refresh tokens (auth.py:210-238).        *)
(***************************************************************************)
THEOREM RotationNeverForks == Spec => []OneLiveTokenPerSession
<1>1. SessionInv => OneLiveTokenPerSession
  BY DEF SessionInv, RowsInv
<1> QED
  BY <1>1, SessionInvariant, PTL

(***************************************************************************)
(* A password reset leaves usable only the sessions opened with the new    *)
(* password and those whose login or refresh overlapped the reset          *)
(* (auth.py:417-430).                                                      *)
(***************************************************************************)
THEOREM ResetRevokes == Spec => []ResetEndsSessions
<1>1. SessionInv => ResetEndsSessions
  BY DEF SessionInv, RowsInv
<1> QED
  BY <1>1, SessionInvariant, PTL

----------------------------------------------------------------------------
(***************************************************************************)
(* EndedStaysEnded, strengthened: a revoked row's session has ended, only  *)
(* issued tokens open sessions, and a logout has read an issued one.       *)
(***************************************************************************)
EndedInv ==
    /\ EndedStaysEnded
    /\ \A t \in Tokens : rt[t].st = "revoked" => rt[t].root \in ended
    /\ \A t \in ended : rt[t].st # "unissued"
    /\ \A r \in Requests : At(r, "logout", "writing") => rt[req[r].tok].st # "unissued"

\* No request is brought to the point of writing a logout.
NoNewLogout == \A q \in Requests : req'[q] = req[q] \/ ~At(q, "logout", "writing")'

\* Steps that make no row usable, revoked or unissued, and end no session.
LEMMA QuietEnded ==
    ASSUME SessionInv, EndedInv, UNCHANGED ended, NoNewLogout,
           \A t \in Tokens : rt'[t].root = rt[t].root /\ rt'[t].st = rt[t].st
    PROVE  EndedInv'
<1>1. ended \subseteq Tokens
      /\ \A r \in Requests : At(r, "logout", "writing") => req[r].tok \in Tokens
  BY DEF SessionInv, WellFormed, TypeOK, Ready, At
<1> QED
  BY <1>1 DEF EndedInv, EndedStaysEnded, Live, NoNewLogout, At

LEMMA RepliedNoLogout ==
    ASSUME NEW r \in Requests, WellFormed, NEW code, NEW cookie,
           Reply(r, code, cookie)
    PROVE  NoNewLogout
BY DEF Reply, Replied, NoRequest, WellFormed, TypeOK, NoNewLogout, At

LEMMA PrunedRow ==
    ASSUME NEW rows \in [Tokens -> TokenRow], NEW s \in Tokens
    PROVE  /\ Pruned(rows)[s].root = rows[s].root
           /\ Pruned(rows)[s].st = "unissued" => rows[s].st = "unissued"
           /\ Pruned(rows)[s].st = "live" => rows[s].st = "live" /\ rows[s].expired = FALSE
           /\ Pruned(rows)[s].st # "revoked"
<1>1. rows[s] \in TokenRow
  OBVIOUS
<1>2. CASE Prunable(rows[s])
  <2>1. Pruned(rows)[s] = [rows[s] EXCEPT !.st = "gone"]
    BY <1>2 DEF Pruned
  <2> QED
    BY <1>1, <2>1 DEF TokenRow
<1>3. CASE ~Prunable(rows[s])
  <2>1. Pruned(rows)[s] = rows[s]
    BY <1>3 DEF Pruned
  <2>2. rows[s].st # "revoked" /\ (rows[s].st = "live" => rows[s].expired = FALSE)
    BY <1>1, <1>3 DEF Prunable, TokenRow
  <2> QED
    BY <2>1, <2>2
<1> QED
  BY <1>2, <1>3

\* What a login or refresh does to the rows: t is new and live, old rows are as
\* in rows, and pruned.
LEMMA IssuedEnded ==
    ASSUME SessionInv, EndedInv, NEW t \in Tokens, NEW gone, NEW root \in Tokens,
           NEW rows \in [Tokens -> TokenRow],
           rows[t].st = "live", rows[t].root = root,
           \A s \in Tokens : s # t => rows[s] = gone[s],
           rt' = Pruned(rows),
           rt[t].st = "unissued",
           gone \in [Tokens -> TokenRow],
           \A s \in Tokens : gone[s].st = "live" => rt[s].st = "live",
           \A s \in Tokens : rt[s].st # "unissued" => gone[s].st # "unissued",
           \A s \in Tokens : gone[s].root = rt[s].root,
           root = t \/ (root \notin ended /\ rt[root].st # "unissued"),
           \A s \in Tokens : gone[s].st = "live" => rt[s].root # root,
           ended' = ended \cup ExpiredSessions(gone),
           NoNewLogout
    PROVE  EndedInv'
<1>3. \A s \in Tokens :
        /\ rt'[s].root = rows[s].root
        /\ rt'[s].st = "unissued" => rows[s].st = "unissued"
        /\ rt'[s].st = "live" => rows[s].st = "live" /\ rows[s].expired = FALSE
        /\ rt'[s].st # "revoked"
  BY PrunedRow
<1>4. ended \subseteq Tokens /\ \A s \in Tokens : rt[s].root \in Tokens
      /\ \A r \in Requests : At(r, "logout", "writing") => req[r].tok \in Tokens
  BY RowFields DEF SessionInv, WellFormed, TypeOK, Ready, At
<1>5. \A e \in ExpiredSessions(gone) :
        \E x \in Tokens : rt[x].st = "live" /\ gone[x].st = "live" /\ gone[x].expired = TRUE
                          /\ e = rt[x].root
  BY DEF ExpiredSessions, TokenRow
<1>6. \A e \in ended' : e \in Tokens /\ rt[e].st # "unissued"
  BY <1>4, <1>5 DEF EndedInv, SessionInv, RowsInv, Live
<1>7. EndedStaysEnded'
  <2> SUFFICES ASSUME NEW s \in Tokens, rt'[s].st = "live", rt'[s].root \in ended'
               PROVE  FALSE
    BY DEF EndedStaysEnded, Live
  <2>1. CASE s = t
    <3>1. rt'[s].root = root
      BY <1>3, <2>1
    <3>2. root \in ExpiredSessions(gone)
      BY <1>6, <2>1, <3>1
    <3>3. \A e \in ExpiredSessions(gone) : e # root
      BY <1>5
    <3> QED
      BY <3>2, <3>3
  <2>2. CASE s # t
    <3>1. /\ gone[s].st = "live" /\ gone[s].expired = FALSE /\ rt[s].st = "live"
          /\ rt'[s].root = rt[s].root
      <4>1. rows[s] = gone[s]
        BY <2>2
      <4>2. rows[s].st = "live" /\ rows[s].expired = FALSE /\ rt'[s].root = rows[s].root
        BY <1>3
      <4> QED
        BY <4>1, <4>2
    <3>2. rt[s].root \in ExpiredSessions(gone)
      BY <3>1 DEF EndedInv, EndedStaysEnded, Live
    <3>3. PICK x \in Tokens : rt[x].st = "live" /\ gone[x].expired = TRUE /\ rt[s].root = rt[x].root
      BY <1>5, <3>2
    <3> QED
      BY <3>1, <3>3 DEF SessionInv, RowsInv, OneLiveTokenPerSession, Live
  <2> QED
    BY <2>1, <2>2
<1>8. \A s \in Tokens : rt[s].st # "unissued" => rt'[s].st # "unissued"
  BY <1>3
<1>9. \A r \in Requests : At(r, "logout", "writing")' => rt'[req'[r].tok].st # "unissued"
  BY <1>4, <1>8 DEF EndedInv, NoNewLogout, At
<1>10. \A e \in ended' : rt'[e].st # "unissued"
  BY <1>6, <1>8
<1>11. \A s \in Tokens : rt'[s].st # "revoked"
  BY <1>3
<1> QED
  BY <1>7, <1>9, <1>10, <1>11 DEF EndedInv

LEMMA LoginCommitEnded ==
    ASSUME SessionInv, EndedInv, NEW r \in Requests, NEW t \in Tokens, LoginCommit(r, t)
    PROVE  EndedInv'
<1> DEFINE u == req[r].user
           row == NewToken(u, req[r].pw, t, req[r].raced \/ Resetting(u))
           gone == rt
           root == t
           rows == [gone EXCEPT ![t] = row]
<1>1. /\ u \in Users /\ (req[r].raced \/ Resetting(u)) \in BOOLEAN /\ req[r].pw \in Nat
      /\ rt \in [Tokens -> TokenRow] /\ rt[t].st = "unissued"
  BY RowFields DEF SessionInv, WellFormed, TypeOK, LoginCommit, At, Ready, Resetting
<1>2. row \in TokenRow /\ row.st = "live" /\ row.root = root
  <2>1. row \in TokenRow
    BY <1>1, NewTokenType
  <2> QED
    BY <2>1 DEF NewToken
<1>3. rt' = Pruned(rows) /\ ended' = ended \cup ExpiredSessions(gone)
  BY DEF LoginCommit
<1>4. NoNewLogout
  BY RepliedNoLogout DEF LoginCommit, SessionInv
<1>5. \A s \in Tokens : gone[s].st = "live" => rt[s].root # root
  BY <1>1 DEF SessionInv, RowsInv, Live
<1>6. /\ gone \in [Tokens -> TokenRow] /\ root \in Tokens /\ root = t
      /\ \A s \in Tokens : gone[s].root = rt[s].root
      /\ \A s \in Tokens : gone[s].st = "live" => rt[s].st = "live"
      /\ \A s \in Tokens : rt[s].st # "unissued" => gone[s].st # "unissued"
  BY <1>1
<1> HIDE DEF row, gone, root
<1>7. /\ rows \in [Tokens -> TokenRow] /\ rows[t].st = "live" /\ rows[t].root = root
      /\ \A s \in Tokens : s # t => rows[s] = gone[s]
  BY <1>2, <1>6
<1>8. /\ rt[t].st = "unissued"
      /\ root = t \/ (root \notin ended /\ rt[root].st # "unissued")
  BY <1>1, <1>6
<1> HIDE DEF rows
<1> QED
  BY <1>3, <1>4, <1>5, <1>6, <1>7, <1>8, IssuedEnded

LEMMA RefreshCommitEnded ==
    ASSUME SessionInv, EndedInv, NEW r \in Requests, NEW t \in Tokens, RefreshCommit(r, t)
    PROVE  EndedInv'
<1> DEFINE old == req[r].tok
           u == rt[old].user
           raced == rt[old].raced \/ Resetting(u)
           root == rt[old].root
           row == NewToken(u, rt[old].pw, root, raced)
           gone == [rt EXCEPT ![old].st = "revoked"]
           rows == [gone EXCEPT ![t] = row]
<1>1. /\ old \in Tokens /\ Live(old) /\ old # t /\ rt[t].st = "unissued"
      /\ rt \in [Tokens -> TokenRow]
  BY DEF SessionInv, WellFormed, TypeOK, RefreshCommit, At, Ready, Live
<1>2. /\ u \in Users /\ raced \in BOOLEAN /\ rt[old].pw \in Nat /\ root \in Tokens
  BY <1>1, RowFields DEF SessionInv, WellFormed, Resetting, Live
<1>3. row \in TokenRow /\ row.st = "live" /\ row.root = root
  <2>1. row \in TokenRow
    BY <1>2, NewTokenType
  <2> QED
    BY <2>1 DEF NewToken
<1>4. rt' = Pruned(rows) /\ ended' = ended \cup ExpiredSessions(gone)
  BY DEF RefreshCommit
<1>5. NoNewLogout
  BY RepliedNoLogout DEF RefreshCommit, SessionInv
<1>6. /\ gone \in [Tokens -> TokenRow] /\ gone[old].st = "revoked"
      /\ \A s \in Tokens : gone[s].root = rt[s].root /\ (s # old => gone[s] = rt[s])
  BY <1>1, RowType DEF TokenRow
<1>7. root \notin ended /\ rt[root].st # "unissued"
  BY <1>1 DEF EndedInv, EndedStaysEnded, SessionInv, RowsInv, Live
<1>8. \A s \in Tokens : s # old /\ rt[s].st = "live" => rt[s].root # root
  BY <1>1 DEF SessionInv, RowsInv, OneLiveTokenPerSession, Live
<1>9. /\ \A s \in Tokens : gone[s].st = "live" => rt[s].st = "live" /\ rt[s].root # root
      /\ \A s \in Tokens : rt[s].st # "unissued" => gone[s].st # "unissued"
  BY <1>6, <1>8
<1> HIDE DEF row, gone, root
<1>10. /\ rows \in [Tokens -> TokenRow] /\ rows[t].st = "live" /\ rows[t].root = root
       /\ \A s \in Tokens : s # t => rows[s] = gone[s]
  BY <1>3, <1>6
<1> HIDE DEF rows
<1> QED
  BY <1>1, <1>2, <1>4, <1>5, <1>6, <1>7, <1>9, <1>10, IssuedEnded

\* A logout or reset revokes the one usable token that a session has.
LEMMA RevokedEnded ==
    ASSUME SessionInv, EndedInv, NEW over \in SUBSET Tokens,
           \A t \in over : rt[t].st \in {"live", "revoked"},
           rt' = [t \in Tokens |-> IF t \in over THEN [rt[t] EXCEPT !.st = "revoked"]
                                                 ELSE rt[t]],
           ended' = ended \cup {rt[t].root : t \in over},
           NoNewLogout
    PROVE  EndedInv'
<1>1. /\ \A t \in Tokens : rt[t] \in TokenRow /\ rt[t].root \in Tokens
      /\ ended \subseteq Tokens
      /\ \A r \in Requests : At(r, "logout", "writing") => req[r].tok \in Tokens
  BY RowFields DEF SessionInv, WellFormed, TypeOK, Ready, At
<1>2. \A t \in Tokens :
        /\ rt'[t].root = rt[t].root
        /\ rt'[t].st = IF t \in over THEN "revoked" ELSE rt[t].st
  BY <1>1 DEF TokenRow
<1>3. \A t \in over : rt[rt[t].root].st # "unissued"
  BY <1>1 DEF EndedInv, SessionInv, RowsInv, Live
<1>4. EndedStaysEnded'
  <2> SUFFICES ASSUME NEW t \in Tokens, rt'[t].st = "live", rt[t].root \in ended'
               PROVE  FALSE
    BY <1>2 DEF EndedStaysEnded, Live
  <2>1. rt[t].st = "live" /\ t \notin over /\ rt[t].root \notin ended
    BY <1>2 DEF EndedInv, EndedStaysEnded, Live
  <2>2. PICK s \in over : rt[s].root = rt[t].root
    BY <2>1
  <2>3. rt[s].st = "live"
    BY <2>1, <2>2 DEF EndedInv
  <2> QED
    BY <2>1, <2>2, <2>3 DEF SessionInv, RowsInv, OneLiveTokenPerSession, Live
<1>5. \A t \in Tokens : rt'[t].st = "revoked" => rt'[t].root \in ended'
  BY <1>2 DEF EndedInv
<1>6. \A e \in ended' : e \in Tokens /\ rt[e].st # "unissued"
  BY <1>1, <1>3 DEF EndedInv
<1> QED
  BY <1>1, <1>2, <1>4, <1>5, <1>6 DEF EndedInv, NoNewLogout, At

LEMMA EndedInit == Init => EndedInv
BY DEF Init, EndedInv, EndedStaysEnded, Live, NoRequest, At

\* The steps of a request that leave the rows alone.
ReadsOnly(r) ==
    \/ \E b \in Jars, u \in Users : LoginRead(r, b, u)
    \/ \E b \in Jars : RefreshRead(r, b) \/ LogoutRead(r, b) \/ LogoutNoRow(r, b)
    \/ RefreshRefused(r) \/ LogoutStale(r)
    \/ \E u \in Users : ForgotDelete(r, u)
    \/ \E l \in Links : ForgotCommit(r, l) \/ ResetRead(r, l)
    \/ ForgotCollides(r) \/ ForgotMail(r) \/ ResetStale(r) \/ ResetSweep(r)
    \/ Deliver(r) \/ Lose(r) \/ Abort(r)

LEMMA ReadsKeepRows ==
    ASSUME NEW r \in Requests, ReadsOnly(r)
    PROVE  UNCHANGED <<rt, ended>>
BY DEF ReadsOnly, LoginRead, RefreshRead, LogoutRead, LogoutNoRow, RefreshRefused,
   LogoutStale, ForgotDelete, ForgotCommit, ResetRead, ForgotCollides,
   ForgotMail, ResetStale, ResetSweep, Deliver, Lose, Abort, tables, history

LEMMA RequestEnded ==
    ASSUME SessionInv, EndedInv, NEW r \in Requests, ReadsOnly(r)
    PROVE  EndedInv'
<1>0. WellFormed /\ req \in [Requests -> Request]
  BY DEF SessionInv, WellFormed, TypeOK
<1>1. UNCHANGED <<rt, ended>>
  BY ReadsKeepRows
<1>2. ASSUME NoNewLogout
      PROVE  EndedInv'
  BY <1>1, <1>2, QuietEnded
<1>3. CASE \/ RefreshRefused(r) \/ LogoutStale(r) \/ ForgotCollides(r)
           \/ ForgotMail(r) \/ ResetStale(r)
  <2>1. NoNewLogout
    BY <1>3, <1>0, RepliedNoLogout
       DEF RefreshRefused, LogoutStale, ForgotCollides, ForgotMail, ResetStale
  <2> QED
    BY <1>2, <2>1
<1>4. CASE \/ \E b \in Jars, u \in Users : LoginRead(r, b, u)
           \/ \E b \in Jars : RefreshRead(r, b)
           \/ \E l \in Links : ResetRead(r, l)
  <2>1. /\ \A q \in Requests : q # r => req'[q] = req[q]
        /\ req'[r].op \in {"login", "refresh", "reset"}
    BY <1>4, <1>0, StartedRequest DEF LoginRead, RefreshRead, ResetRead, Ops
  <2> QED
    BY <1>2, <2>1 DEF NoNewLogout, At
<1>5. CASE \/ \E b \in Jars : LogoutNoRow(r, b)
           \/ \E u \in Users : ForgotDelete(r, u)
           \/ \E l \in Links : ForgotCommit(r, l)
           \/ Deliver(r) \/ Lose(r) \/ Abort(r)
  <2>1. /\ \A q \in Requests : q # r => req'[q] = req[q]
        /\ req'[r].op # "logout" \/ req'[r].pc = "reply"
    <3>1. CASE \E b \in Jars : LogoutNoRow(r, b)
      BY <3>1, <1>0 DEF LogoutNoRow, NoRequest
    <3>2. CASE \E u \in Users : ForgotDelete(r, u)
      BY <3>2, <1>0 DEF ForgotDelete, NoRequest
    <3>3. CASE \E l \in Links : ForgotCommit(r, l)
      BY <3>3, <1>0 DEF ForgotCommit, NoRequest
    <3>4. CASE Deliver(r) \/ Lose(r) \/ Abort(r)
      BY <3>4, <1>0 DEF Deliver, Lose, Abort, NoRequest
    <3> QED
      BY <1>5, <3>1, <3>2, <3>3, <3>4
  <2> QED
    BY <1>2, <2>1 DEF NoNewLogout, At
<1>6. CASE ResetSweep(r)
  <2>1. /\ \A q \in Requests : q # r => req'[q] = req[q]
        /\ req'[r].pc = "sweeping"
    BY <1>6, <1>0 DEF ResetSweep, Request
  <2> QED
    BY <1>2, <2>1 DEF NoNewLogout, At
<1>7. ASSUME NEW b \in Jars, LogoutRead(r, b)
      PROVE  EndedInv'
  <2>1. /\ \A q \in Requests : q # r => req'[q] = req[q]
        /\ req'[r].tok = jar[b] /\ rt[jar[b]].st = "live"
    BY <1>7, <1>0 DEF LogoutRead, Begin, NoRequest, HasRow, Live
  <2> QED
    BY <1>1, <2>1 DEF EndedInv, EndedStaysEnded, Live, At
<1> QED
  BY <1>3, <1>4, <1>5, <1>6, <1>7 DEF ReadsOnly

LEMMA CommitEnded ==
    ASSUME SessionInv, EndedInv, NEW r \in Requests, LogoutCommit(r) \/ ResetCommit(r)
    PROVE  EndedInv'
<1>0. rt \in [Tokens -> TokenRow] /\ req \in [Requests -> Request] /\ WellFormed
  BY DEF SessionInv, WellFormed, TypeOK
<1>1. CASE LogoutCommit(r)
  <2> DEFINE over == {req[r].tok}
  <2>1. req[r].tok \in Tokens /\ rt[req[r].tok].st \notin {"gone", "unissued"}
    BY <1>1 DEF SessionInv, WellFormed, Ready, LogoutCommit, At, EndedInv
  <2>2. \A t \in over : t \in Tokens /\ rt[t].st \in {"live", "revoked"}
    BY <2>1, <1>0 DEF TokenRow
  <2>3. rt' = [t \in Tokens |-> IF t \in over THEN [rt[t] EXCEPT !.st = "revoked"] ELSE rt[t]]
    BY <1>0, <1>1 DEF LogoutCommit
  <2>4. ended' = ended \cup {rt[t].root : t \in over}
    BY <1>1 DEF LogoutCommit
  <2>5. NoNewLogout
    BY <1>0, <1>1, RepliedNoLogout DEF LogoutCommit
  <2> HIDE DEF over
  <2> QED
    BY <2>2, <2>3, <2>4, <2>5, RevokedEnded
<1>2. CASE ResetCommit(r)
  <2>1. \A t \in Swept(r) : t \in Tokens /\ rt[t].st = "live"
    BY <1>0, <1>2 DEF Swept, Live, Request
  <2>2. /\ rt' = [t \in Tokens |-> IF t \in Swept(r) THEN [rt[t] EXCEPT !.st = "revoked"]
                                                     ELSE rt[t]]
        /\ ended' = ended \cup {rt[t].root : t \in Swept(r)}
    BY <1>2 DEF ResetCommit
  <2>3. \A q \in Requests :
         req'[q] = IF q = r THEN Replied(req[r], "ok", Keep)
                   ELSE IF At(q, "login", "writing") /\ req[q].user = req[r].user
                   THEN [req[q] EXCEPT !.raced = TRUE]
                   ELSE req[q]
    BY <1>2 DEF ResetCommit
  <2>4. Replied(req[r], "ok", Keep).op = "none"
    BY DEF Replied, NoRequest
  <2>5. ASSUME NEW q \in Requests, req'[q] # req[q]
        PROVE  req'[q].op # "logout"
    <3>1. CASE q = r
      BY <2>3, <2>4, <3>1
    <3>2. CASE q # r
      <4>1. At(q, "login", "writing") /\ req'[q] = [req[q] EXCEPT !.raced = TRUE]
        BY <2>3, <2>5, <3>2
      <4> QED
        BY <4>1, <1>0 DEF At, Request
    <3> QED
      BY <3>1, <3>2
  <2>6. NoNewLogout
    BY <2>5 DEF NoNewLogout, At
  <2> QED
    BY <2>1, <2>2, <2>6, RevokedEnded
<1> QED
  BY <1>1, <1>2

LEMMA EndedInductive == SessionInv /\ EndedInv /\ [Next]_vars => EndedInv'
<1> SUFFICES ASSUME SessionInv, EndedInv, [Next]_vars PROVE EndedInv'
  OBVIOUS
<1>1. ASSUME NEW r \in Requests, NEW t \in Tokens,
             LoginCommit(r, t) \/ RefreshCommit(r, t)
      PROVE  EndedInv'
  BY <1>1, LoginCommitEnded, RefreshCommitEnded
<1>2. CASE \/ \E u \in Users : Register(u)
           \/ \E t \in Tokens : ExpireToken(t)
           \/ \E l \in Links : ExpireLink(l)
           \/ UNCHANGED vars
  <2>1. UNCHANGED <<req, ended>>
        /\ \A t \in Tokens : rt'[t].root = rt[t].root /\ rt'[t].st = rt[t].st
    BY <1>2 DEF Register, ExpireToken, ExpireLink, vars, history, SessionInv,
                WellFormed, TypeOK, TokenRow
  <2> QED
    BY <2>1, QuietEnded DEF NoNewLogout
<1> QED
  BY <1>1, <1>2, RequestEnded, CommitEnded DEF Next, ReadsOnly

(***************************************************************************)
(* A session that was ended is not revived: not by a refresh that was      *)
(* under way when a logout, a reset or the pruning committed (auth.py:210, *)
(* 259-261, 425-430).                                                      *)
(***************************************************************************)
THEOREM EndedForGood == Spec => []EndedStaysEnded
<1>1. SessionInv /\ EndedInv => EndedStaysEnded
  BY DEF EndedInv
<1> QED
  BY <1>1, EndedInductive, SessionInvariant, EndedInit, PTL DEF Spec

----------------------------------------------------------------------------
\* Steps that make no row usable or unusable are stutters of Sessions.
LEMMA OpenUnchanged ==
    ASSUME \A t \in Tokens : rt'[t].root = rt[t].root /\ (Live(t)' <=> Live(t))
    PROVE  UNCHANGED OpenSessions
BY DEF OpenSessions

\* A logout or reset closes the open sessions among those it revokes.
LEMMA RevokedCloses ==
    ASSUME SessionInv, EndedInv, NEW over \in SUBSET Tokens,
           \A t \in over : rt[t].st \in {"live", "revoked"},
           rt' = [t \in Tokens |-> IF t \in over THEN [rt[t] EXCEPT !.st = "revoked"]
                                                 ELSE rt[t]],
           ended' = ended \cup {rt[t].root : t \in over}
    PROVE  Service!SessionsNext
<1> DEFINE closed == {rt[t].root : t \in {x \in over : Live(x)}}
<1>1. \A t \in Tokens : rt[t] \in TokenRow
  BY RowFields DEF SessionInv, WellFormed, TypeOK
<1>2. \A t \in Tokens :
        /\ rt'[t].root = rt[t].root
        /\ Live(t)' <=> Live(t) /\ t \notin over
  BY <1>1 DEF TokenRow, Live
<1>3. closed \subseteq OpenSessions
  BY DEF OpenSessions
<1>4. OpenSessions' = OpenSessions \ closed
  <2>1. ASSUME NEW t \in Tokens, Live(t), t \notin over
        PROVE  rt[t].root \notin closed
    BY <2>1 DEF SessionInv, RowsInv, OneLiveTokenPerSession
  <2> QED
    BY <1>2, <2>1 DEF OpenSessions
<1>5. ended' = ended \cup closed
  BY DEF EndedInv, Live
<1>6. Service!Close(closed)
  BY <1>4, <1>5 DEF Service!Close
<1> QED
  BY <1>3, <1>6 DEF Service!SessionsNext

\* rows: the table once t has been inserted for the session root, gone: before
\* it, with the old token of a rotated session revoked.
IssuedRows(t, gone, root, rows) ==
    /\ root \in Tokens
    /\ rows \in [Tokens -> TokenRow]
    /\ rows[t].st = "live" /\ rows[t].root = root /\ rows[t].expired = FALSE
    /\ \A s \in Tokens : s # t => rows[s] = gone[s]
    /\ rt[t].st = "unissued"
    /\ gone \in [Tokens -> TokenRow] /\ gone[t].st = "unissued"
    /\ \A s \in Tokens : gone[s].root = rt[s].root
    /\ \A s \in Tokens : gone[s].st = "live" => rt[s].st = "live"
    /\ \A s \in Tokens : gone[s].st = "live" => rt[s].root # root
    /\ \A s \in Tokens : rt[s].st = "live" => gone[s].st = "live" \/ rt[s].root = root
    /\ root = t \/ root \in OpenSessions

\* A login opens the session of its token and a refresh keeps its own open;
\* both close the sessions whose token is pruned because it expired.
LEMMA IssuedServes ==
    ASSUME SessionInv, EndedInv, NEW t \in Tokens, NEW gone, NEW root, NEW rows,
           IssuedRows(t, gone, root, rows),
           rt' = Pruned(rows),
           ended' = ended \cup ExpiredSessions(gone)
    PROVE  Service!SessionsNext
<1> USE DEF IssuedRows
<1> DEFINE closed == ExpiredSessions(gone)
<1>1. \A s \in Tokens :
        /\ rt'[s].root = rows[s].root
        /\ rt'[s].st = "live" <=> rows[s].st = "live" /\ rows[s].expired = FALSE
  <2> SUFFICES ASSUME NEW s \in Tokens
               PROVE  /\ rt'[s].root = rows[s].root
                      /\ rt'[s].st = "live" <=> rows[s].st = "live" /\ rows[s].expired = FALSE
    OBVIOUS
  <2>1. /\ rt'[s].root = rows[s].root
        /\ rt'[s].st = "live" => rows[s].st = "live" /\ rows[s].expired = FALSE
    BY PrunedRow
  <2>2. ASSUME rows[s].st = "live", rows[s].expired = FALSE
        PROVE  rt'[s].st = "live"
    <3>1. ~Prunable(rows[s])
      BY <2>2 DEF Prunable
    <3> QED
      BY <2>2, <3>1 DEF Pruned
  <2> QED
    BY <2>1, <2>2
<1>2. \A x : x \in closed <=> \E s \in Tokens :
               gone[s].st = "live" /\ gone[s].expired = TRUE /\ x = rt[s].root
  BY DEF ExpiredSessions, TokenRow
<1>3. \A x : x \in OpenSessions <=> \E s \in Tokens : rt[s].st = "live" /\ x = rt[s].root
  BY DEF OpenSessions, Live
<1>4. \A x : x \in OpenSessions' <=> \E s \in Tokens : rt'[s].st = "live" /\ x = rt'[s].root
  BY DEF OpenSessions, Live
<1>5. \A s \in Tokens : gone[s].expired \in BOOLEAN
  BY DEF TokenRow
<1>6. \A s, x \in Tokens : rt[s].st = "live" /\ rt[x].st = "live" /\ rt[s].root = rt[x].root
                           => s = x
  BY DEF SessionInv, RowsInv, OneLiveTokenPerSession, Live
<1>7. closed \subseteq OpenSessions /\ root \notin closed
  BY <1>2, <1>3
<1> HIDE DEF closed
<1>8. OpenSessions' = (OpenSessions \ closed) \cup {root}
  <2>1. ASSUME NEW x \in OpenSessions'
        PROVE  x \in (OpenSessions \ closed) \cup {root}
    <3>1. PICK s \in Tokens : rt'[s].st = "live" /\ x = rt'[s].root
      BY <1>4
    <3>2. CASE s = t
      BY <1>1, <3>1, <3>2
    <3>3. CASE s # t
      <4>1. /\ gone[s].st = "live" /\ gone[s].expired = FALSE
            /\ rt[s].st = "live" /\ x = rt[s].root
        BY <1>1, <3>1, <3>3
      <4>2. x \notin closed
        <5> SUFFICES ASSUME x \in closed PROVE FALSE
          OBVIOUS
        <5>1. PICK y \in Tokens : gone[y].st = "live" /\ gone[y].expired = TRUE /\ x = rt[y].root
          BY <1>2
        <5>2. rt[y].st = "live" /\ rt[s].root = rt[y].root
          BY <4>1, <5>1
        <5>3. y = s
          BY <1>6, <4>1, <5>2, Zenon
        <5> QED
          BY <4>1, <5>1, <5>3
      <4> QED
        BY <1>3, <4>1, <4>2
    <3> QED
      BY <3>2, <3>3
  <2>2. ASSUME NEW x \in OpenSessions, x \notin closed, x # root
        PROVE  x \in OpenSessions'
    <3>1. PICK s \in Tokens : rt[s].st = "live" /\ x = rt[s].root
      BY <1>3
    <3>2. gone[s].st = "live" /\ gone[s].expired = FALSE /\ s # t
      BY <1>2, <1>5, <2>2, <3>1
    <3>3. rows[s] = gone[s] /\ gone[s].root = rt[s].root
      BY <3>2
    <3> QED
      BY <1>1, <1>4, <3>1, <3>2, <3>3
  <2>3. root \in OpenSessions'
    <3>1. rt'[t].st = "live" /\ rt'[t].root = root
      BY <1>1
    <3> QED
      BY <1>4, <3>1
  <2> QED
    BY <2>1, <2>2, <2>3
<1>9. CASE root = t
  <2>1. t \notin ended
    BY DEF EndedInv
  <2>2. t \notin OpenSessions
    BY <1>3 DEF SessionInv, RowsInv, Live
  <2>3. Service!Open(t, closed)
    BY <1>8, <1>9, <2>1, <2>2 DEF Service!Open, closed
  <2> QED
    BY <1>7, <2>3 DEF Service!SessionsNext
<1>10. CASE root \in OpenSessions
  <2>1. OpenSessions' = OpenSessions \ closed
    BY <1>7, <1>8, <1>10
  <2>2. Service!Close(closed)
    BY <2>1 DEF Service!Close, closed
  <2> QED
    BY <1>7, <2>2 DEF Service!SessionsNext
<1> QED
  BY <1>9, <1>10

LEMMA LoginCommitServes ==
    ASSUME SessionInv, EndedInv, NEW r \in Requests, NEW t \in Tokens, LoginCommit(r, t)
    PROVE  Service!SessionsNext
<1> DEFINE u == req[r].user
           row == NewToken(u, req[r].pw, t, req[r].raced \/ Resetting(u))
           gone == rt
           root == t
           rows == [gone EXCEPT ![t] = row]
<1>1. /\ u \in Users /\ (req[r].raced \/ Resetting(u)) \in BOOLEAN /\ req[r].pw \in Nat
      /\ rt \in [Tokens -> TokenRow] /\ rt[t].st = "unissued"
  BY RowFields DEF SessionInv, WellFormed, TypeOK, LoginCommit, At, Ready, Resetting
<1>2. row \in TokenRow /\ row.st = "live" /\ row.root = root /\ row.expired = FALSE
  <2>1. row \in TokenRow
    BY <1>1, NewTokenType
  <2> QED
    BY <2>1 DEF NewToken
<1>3. rt' = Pruned(rows) /\ ended' = ended \cup ExpiredSessions(gone)
  BY DEF LoginCommit
<1>4. \A s \in Tokens : gone[s].st = "live" => rt[s].root # root
  BY <1>1 DEF SessionInv, RowsInv, Live
<1>5. /\ gone \in [Tokens -> TokenRow] /\ gone[t].st = "unissued"
      /\ root \in Tokens /\ (root = t \/ root \in OpenSessions)
      /\ \A s \in Tokens : gone[s].root = rt[s].root
      /\ \A s \in Tokens : gone[s].st = "live" => rt[s].st = "live"
      /\ \A s \in Tokens : rt[s].st = "live" => gone[s].st = "live" \/ rt[s].root = root
  BY <1>1
<1> HIDE DEF row, gone, root
<1>6. /\ rows \in [Tokens -> TokenRow]
      /\ rows[t].st = "live" /\ rows[t].root = root /\ rows[t].expired = FALSE
      /\ \A s \in Tokens : s # t => rows[s] = gone[s]
  BY <1>2, <1>5
<1> HIDE DEF rows
<1>7. IssuedRows(t, gone, root, rows)
  BY <1>1, <1>4, <1>5, <1>6 DEF IssuedRows
<1> QED
  BY <1>3, <1>7, IssuedServes

LEMMA RefreshCommitServes ==
    ASSUME SessionInv, EndedInv, NEW r \in Requests, NEW t \in Tokens, RefreshCommit(r, t)
    PROVE  Service!SessionsNext
<1> DEFINE old == req[r].tok
           u == rt[old].user
           raced == rt[old].raced \/ Resetting(u)
           root == rt[old].root
           row == NewToken(u, rt[old].pw, root, raced)
           gone == [rt EXCEPT ![old].st = "revoked"]
           rows == [gone EXCEPT ![t] = row]
<1>1. /\ old \in Tokens /\ Live(old) /\ old # t /\ rt[t].st = "unissued"
      /\ rt \in [Tokens -> TokenRow]
  BY DEF SessionInv, WellFormed, TypeOK, RefreshCommit, At, Ready, Live
<1>2. /\ u \in Users /\ raced \in BOOLEAN /\ rt[old].pw \in Nat /\ root \in Tokens
  BY <1>1, RowFields DEF SessionInv, WellFormed, Resetting, Live
<1>3. row \in TokenRow /\ row.st = "live" /\ row.root = root /\ row.expired = FALSE
  <2>1. row \in TokenRow
    BY <1>2, NewTokenType
  <2> QED
    BY <2>1 DEF NewToken
<1>4. rt' = Pruned(rows) /\ ended' = ended \cup ExpiredSessions(gone)
  BY DEF RefreshCommit
<1>5. /\ gone \in [Tokens -> TokenRow] /\ gone[old].st = "revoked"
      /\ \A s \in Tokens : gone[s].root = rt[s].root /\ (s # old => gone[s] = rt[s])
  BY <1>1, RowType DEF TokenRow
<1>6. \A s \in Tokens : s # old /\ rt[s].st = "live" => rt[s].root # root
  BY <1>1 DEF SessionInv, RowsInv, OneLiveTokenPerSession, Live
<1>7. root = t \/ root \in OpenSessions
  BY <1>1 DEF OpenSessions
<1>8. /\ gone[t].st = "unissued"
      /\ \A s \in Tokens : gone[s].st = "live" => rt[s].st = "live"
      /\ \A s \in Tokens : gone[s].st = "live" => rt[s].root # root
      /\ \A s \in Tokens : rt[s].st = "live" => gone[s].st = "live" \/ rt[s].root = root
  BY <1>1, <1>5, <1>6
<1> HIDE DEF row, gone, root
<1>9. /\ rows \in [Tokens -> TokenRow]
      /\ rows[t].st = "live" /\ rows[t].root = root /\ rows[t].expired = FALSE
      /\ \A s \in Tokens : s # t => rows[s] = gone[s]
  BY <1>3, <1>5
<1> HIDE DEF rows
<1>10. IssuedRows(t, gone, root, rows)
  BY <1>1, <1>2, <1>5, <1>7, <1>8, <1>9 DEF IssuedRows
<1> QED
  BY <1>4, <1>10, IssuedServes

(***************************************************************************)
(* The rows of refresh_tokens implement Sessions (auth.py:92-97, 168-178,  *)
(* 210-238, 259-261, 425-429).  That a refresh keeps its session open and  *)
(* opens no other needs OneLiveTokenPerSession, and that a login opens a   *)
(* session that never was needs the two invariants' "unissued" parts.      *)
(***************************************************************************)
THEOREM SessionsServed == Spec => SessionsImplemented
<1>1. Init => Service!SessionsInit
  BY DEF Init, Service!SessionsInit, OpenSessions, Live
<1>2. SessionInv /\ EndedInv /\ [Next]_vars
        => [Service!SessionsNext]_<<OpenSessions, ended>>
  <2> SUFFICES ASSUME SessionInv, EndedInv, [Next]_vars
               PROVE  Service!SessionsNext \/ UNCHANGED <<OpenSessions, ended>>
    OBVIOUS
  <2>0. /\ WellFormed /\ rt \in [Tokens -> TokenRow] /\ req \in [Requests -> Request]
        /\ \A t \in Tokens : rt[t] \in TokenRow
    BY DEF SessionInv, WellFormed, TypeOK
  <2>1. ASSUME NEW r \in Requests, NEW t \in Tokens,
               LoginCommit(r, t) \/ RefreshCommit(r, t)
        PROVE  Service!SessionsNext
    BY <2>1, LoginCommitServes, RefreshCommitServes
  <2>2. ASSUME NEW r \in Requests, LogoutCommit(r)
        PROVE  Service!SessionsNext
    <3> DEFINE over == {req[r].tok}
    <3>1. req[r].tok \in Tokens /\ rt[req[r].tok].st \notin {"gone", "unissued"}
      BY <2>2 DEF SessionInv, WellFormed, Ready, LogoutCommit, At, EndedInv
    <3>2. \A t \in over : t \in Tokens /\ rt[t].st \in {"live", "revoked"}
      BY <2>0, <3>1 DEF TokenRow
    <3>3. rt' = [t \in Tokens |-> IF t \in over THEN [rt[t] EXCEPT !.st = "revoked"] ELSE rt[t]]
      BY <2>0, <2>2 DEF LogoutCommit
    <3>4. ended' = ended \cup {rt[t].root : t \in over}
      BY <2>2 DEF LogoutCommit
    <3> HIDE DEF over
    <3> QED
      BY <3>2, <3>3, <3>4, RevokedCloses
  <2>3. ASSUME NEW r \in Requests, ResetCommit(r)
        PROVE  Service!SessionsNext
    <3>1. \A t \in Swept(r) : t \in Tokens /\ rt[t].st = "live"
      BY <2>0 DEF Swept, Live, Request
    <3>2. /\ rt' = [t \in Tokens |-> IF t \in Swept(r) THEN [rt[t] EXCEPT !.st = "revoked"]
                                                       ELSE rt[t]]
          /\ ended' = ended \cup {rt[t].root : t \in Swept(r)}
      BY <2>3 DEF ResetCommit
    <3> QED
      BY <3>1, <3>2, RevokedCloses
  <2>4. ASSUME NEW t \in Tokens, ExpireToken(t)
        PROVE  UNCHANGED <<OpenSessions, ended>>
    <3>1. \A s \in Tokens : rt'[s].root = rt[s].root /\ (Live(s)' <=> Live(s))
      BY <2>0, <2>4 DEF ExpireToken, TokenRow, Live
    <3> QED
      BY <2>4, <3>1, OpenUnchanged DEF ExpireToken, history
  <2>5. CASE UNCHANGED <<rt, ended>>
    BY <2>5, OpenUnchanged DEF Live
  <2>6. ASSUME NEW r \in Requests, ReadsOnly(r)
        PROVE  UNCHANGED <<rt, ended>>
    BY <2>6, ReadsKeepRows
  <2>7. CASE \/ \E u \in Users : Register(u)
             \/ \E l \in Links : ExpireLink(l)
             \/ UNCHANGED vars
    <3>1. UNCHANGED <<rt, ended>>
      BY <2>7 DEF Register, ExpireLink, vars, history
    <3> QED
      BY <2>5, <3>1
  <2> QED
    BY <2>1, <2>2, <2>3, <2>4, <2>5, <2>6, <2>7 DEF Next, ReadsOnly
<1>3. Spec => [](SessionInv /\ EndedInv)
  BY SessionInvariant, EndedInductive, EndedInit, PTL DEF Spec
<1> QED
  BY <1>1, <1>2, <1>3, PTL DEF Spec, SessionsImplemented, Service!SessionsSpec

----------------------------------------------------------------------------
(***************************************************************************)
(* ReplacedLinkDies, strengthened: the link of a reset whose flush has     *)
(* written it is still there, because its row is locked until the COMMIT.  *)
(***************************************************************************)
LinkInv ==
    \A r \in Requests : At(r, "reset", "sweeping") => link[req[r].link].st # "gone"

\* Steps that delete no link and bring no reset to its sweep.
LEMMA LinkKept ==
    ASSUME LinkInv, \A q \in Requests : Quiet(q),
           \A l \in Links : link'[l].st = "gone" => link[l].st = "gone",
           \A q \in Requests : At(q, "reset", "sweeping") => req[q].link \in Links
    PROVE  LinkInv'
BY DEF LinkInv, Quiet, At

LEMMA LinkInductive == SessionInv /\ LinkInv /\ [Next]_vars => LinkInv'
<1> SUFFICES ASSUME SessionInv, LinkInv, [Next]_vars PROVE LinkInv'
  OBVIOUS
<1>0. /\ WellFormed /\ req \in [Requests -> Request] /\ link \in [Links -> LinkRow]
      /\ \A q \in Requests : At(q, "reset", "sweeping") => req[q].link \in Links
  BY DEF SessionInv, WellFormed, TypeOK, At, Ready
<1>1. ASSUME NEW r \in Requests, NEW l \in Links, ForgotCommit(r, l)
      PROVE  LinkInv'
  <2>1. \A q \in Requests : Quiet(q)
    BY <1>0, <1>1, LesserQuiet DEF Lesser
  <2>2. ASSUME NEW q \in Requests, At(q, "reset", "sweeping")'
        PROVE  link'[req'[q].link].st # "gone"
    <3>1. req'[q] = req[q] /\ At(q, "reset", "sweeping")
      BY <2>1, <2>2 DEF Quiet, At
    <3>2. req[q].link \notin req[r].drop /\ req[q].link \in Links
      BY <1>0, <1>1, <3>1 DEF ForgotCommit, NotWaiting
    <3>3. link'[req[q].link] = link[req[q].link] \/ link'[req[q].link].st = "unused"
      BY <1>1, <3>2 DEF ForgotCommit
    <3> QED
      BY <3>1, <3>3 DEF LinkInv
  <2> QED
    BY <2>2 DEF LinkInv
<1>2. ASSUME NEW r \in Requests, ResetSweep(r)
      PROVE  LinkInv'
  <2>1. /\ UNCHANGED link /\ link[req[r].link].st # "gone"
        /\ \A q \in Requests : q # r => req'[q] = req[q]
        /\ req'[r].link = req[r].link
    BY <1>0, <1>2 DEF ResetSweep, tables, Request
  <2> QED
    BY <2>1 DEF LinkInv, At
<1>3. ASSUME NEW r \in Requests, ResetCommit(r)
      PROVE  LinkInv'
  <2>1. link' = [link EXCEPT ![req[r].link].st = "used"]
    BY <1>3 DEF ResetCommit
  <2>2. \A l \in Links : link'[l].st = "gone" => link[l].st = "gone"
    BY <1>0, <2>1 DEF LinkRow
  <2>3. ASSUME NEW q \in Requests, At(q, "reset", "sweeping")'
        PROVE  req'[q] = req[q]
    <3>1. CASE q = r
      <4>1. req'[r] = Replied(req[r], "ok", Keep)
        BY <1>3 DEF ResetCommit
      <4> QED
        BY <2>3, <3>1, <4>1 DEF Replied, NoRequest, At
    <3>2. CASE q # r
      <4>1. \/ req'[q] = req[q]
            \/ At(q, "login", "writing") /\ req'[q] = [req[q] EXCEPT !.raced = TRUE]
        BY <1>3, <3>2 DEF ResetCommit
      <4> QED
        BY <1>0, <2>3, <4>1 DEF At, Request
    <3> QED
      BY <3>1, <3>2
  <2> QED
    BY <1>0, <2>2, <2>3 DEF LinkInv, At
<1>4. ASSUME NEW l \in Links, ExpireLink(l)
      PROVE  LinkInv'
  <2>1. UNCHANGED req /\ \A k \in Links : link'[k].st = link[k].st
    BY <1>0, <1>4 DEF ExpireLink, LinkRow
  <2> QED
    BY <1>0, <2>1 DEF LinkInv, At
<1>5. ASSUME NEW r \in Requests, Lesser(r), UNCHANGED link
      PROVE  LinkInv'
  BY <1>0, <1>5, LesserQuiet, LinkKept
<1>6. ASSUME NEW r \in Requests, NEW t \in Tokens, LoginCommit(r, t) \/ RefreshCommit(r, t)
      PROVE  LinkInv'
  BY <1>0, <1>6, RepliedQuiet, LinkKept DEF LoginCommit, RefreshCommit
<1>7. ASSUME NEW r \in Requests, NEW b \in Jars, NEW u \in Users, LoginRead(r, b, u)
      PROVE  LinkInv'
  <2>1. /\ UNCHANGED link /\ req'[r].op = "login"
        /\ \A q \in Requests : q # r => req'[q] = req[q]
    BY <1>0, <1>7, StartedRequest DEF LoginRead, Ops, tables
  <2> QED
    BY <2>1 DEF LinkInv, At
<1>8. CASE UNCHANGED <<link, req>>
  BY <1>8 DEF LinkInv, At
<1> QED
  BY <1>1, <1>2, <1>3, <1>4, <1>5, <1>6, <1>7, <1>8
     DEF Next, vars, tables, Register, RefreshRead, RefreshRefused, LogoutRead,
         LogoutNoRow, LogoutCommit, LogoutStale, ForgotDelete, ForgotCollides,
         ForgotMail, ResetRead, ResetStale, Deliver, Lose, Abort, ExpireToken, Lesser

(***************************************************************************)
(* A reset link that forgot_password has deleted never resets a password   *)
(* again, whoever found it unused before (auth.py:352-354, 405-430), with  *)
(* the migration's index or without, for any number of users and requests. *)
(***************************************************************************)
THEOREM ReplacedLinksDie == Spec => ReplacedLinkDies
<1>1. Init => LinkInv
  BY DEF Init, LinkInv, At, NoRequest
<1>2. SessionInv /\ LinkInv /\ [Next]_vars
      => [\A l \in Links : link[l].st = "gone"
                           => link'[l].st = "gone" /\ uses'[l] = uses[l]]_vars
  <2> SUFFICES ASSUME SessionInv, LinkInv, [Next]_vars, NEW l \in Links,
                      link[l].st = "gone"
               PROVE  link'[l].st = "gone" /\ uses'[l] = uses[l]
    OBVIOUS
  <2>0. /\ link \in [Links -> LinkRow] /\ uses \in [Links -> 0 .. 2]
    BY DEF SessionInv, WellFormed, TypeOK
  <2>1. ASSUME NEW r \in Requests, ResetCommit(r)
        PROVE  link'[l].st = "gone" /\ uses'[l] = uses[l]
    <3>1. l # req[r].link
      BY <2>1 DEF ResetCommit, LinkInv
    <3> QED
      BY <2>0, <2>1, <3>1 DEF ResetCommit
  <2>2. ASSUME NEW r \in Requests, NEW k \in Links, ForgotCommit(r, k)
        PROVE  link'[l].st = "gone" /\ uses'[l] = uses[l]
    <3>1. l # k /\ uses' = uses
      BY <2>2 DEF ForgotCommit, history
    <3>2. link'[l] = link[l] \/ link'[l] = [link[l] EXCEPT !.st = "gone"]
      BY <2>2, <3>1 DEF ForgotCommit
    <3> QED
      BY <2>0, <3>1, <3>2 DEF LinkRow
  <2>3. ASSUME NEW k \in Links, ExpireLink(k)
        PROVE  link'[l].st = "gone" /\ uses'[l] = uses[l]
    BY <2>0, <2>3 DEF ExpireLink, history, LinkRow
  <2>4. CASE UNCHANGED <<link, uses>>
    BY <2>4
  <2> QED
    BY <2>1, <2>2, <2>3, <2>4
       DEF Next, vars, tables, history, Register, LoginRead, LoginCommit, RefreshRead,
           RefreshCommit, RefreshRefused, LogoutRead, LogoutNoRow, LogoutCommit,
           LogoutStale, ForgotDelete, ForgotCollides, ForgotMail, ResetRead,
           ResetSweep, ResetStale, Deliver, Lose, Abort, ExpireToken
<1> QED
  BY <1>1, <1>2, LinkInductive, SessionInvariant, PTL DEF Spec, ReplacedLinkDies

----------------------------------------------------------------------------
(***************************************************************************)
(* JarHoldsSession, strengthened: a token that is not where its session    *)
(* goes on has its successor under way to the same browser.  For that, a   *)
(* token is in one place: one browser's jar, or a reply to one.            *)
(***************************************************************************)
Intact(t) == Live(t) \/ rt[t].root \in ended

Carries(r, t) == req[r].pc = "reply" /\ req[r].cookie = t
Rotates(r, t) == At(r, "refresh", "writing") /\ req[r].tok = t

Awaits(b) == \E r \in Requests : /\ req[r].pc = "reply" /\ req[r].jar = b
                                 /\ req[r].cookie # Keep

JarsUpToDate == \A b \in Jars \ lossy : jar[b] # None => Intact(jar[b]) \/ Awaits(b)

CarriedOnce ==
    \A t \in Tokens : \A r \in Requests : Carries(r, t) =>
        /\ Intact(t)
        /\ \A b \in Jars : jar[b] # t
        /\ \A q \in Requests : ~Rotates(q, t) /\ (Carries(q, t) => q = r)

HeldOnce ==
    \A t \in Tokens : \A b \in Jars : jar[b] = t =>
        /\ \A c \in Jars : jar[c] = t => c = b
        /\ \A q \in Requests : Rotates(q, t) => req[q].jar = b

NotYetHeld ==
    \A t \in Tokens : rt[t].st = "unissued" =>
        /\ \A b \in Jars : jar[b] # t
        /\ \A r \in Requests : ~Carries(r, t) /\ ~Rotates(r, t)

JarInv == JarsUpToDate /\ CarriedOnce /\ HeldOnce /\ NotYetHeld

\* A request that neither takes a token nor has one to deliver.
Tame(q) ==
    \/ req'[q] = req[q]
    \/ /\ req[q].pc = "reply" => req[q].cookie = Keep
       /\ req'[q].pc = "reply" => req'[q].cookie \in {Keep, None}
       /\ ~At(q, "refresh", "writing")'

\* Steps of such requests leave jars and tokens as they are, or end sessions.
LEMMA TameSteps ==
    ASSUME JarInv, UNCHANGED jar, lossy \subseteq lossy', \A q \in Requests : Tame(q),
           \A t \in Tokens : Intact(t) => Intact(t)',
           \A t \in Tokens : rt'[t].st = "unissued" => rt[t].st = "unissued",
           \A b \in Jars : jar[b] \in Tokens \cup {None}
    PROVE  JarInv'
<1>0. None \notin Tokens /\ Keep \notin Tokens
  BY ConstAssumption
<1>1. \A q \in Requests, t \in Tokens : /\ Carries(q, t)' => Carries(q, t)
                                        /\ Rotates(q, t)' => Rotates(q, t)
  BY <1>0 DEF Tame, Carries, Rotates, At
<1>2. \A q \in Requests, t \in Tokens : Rotates(q, t)' => req'[q] = req[q]
  BY DEF Tame, Rotates, At
<1>3. \A b \in Jars : Awaits(b) => Awaits(b)'
  BY DEF Tame, Awaits
<1>4. JarsUpToDate'
  BY <1>3 DEF JarInv, JarsUpToDate
<1>5. CarriedOnce'
  BY <1>1 DEF JarInv, CarriedOnce
<1>6. HeldOnce'
  BY <1>1, <1>2 DEF JarInv, HeldOnce
<1>7. NotYetHeld'
  BY <1>1 DEF JarInv, NotYetHeld
<1> QED
  BY <1>4, <1>5, <1>6, <1>7 DEF JarInv

\* A request that is not carrying a token may be answered without one.
LEMMA RepliedTame ==
    ASSUME WellFormed, NEW r \in Requests, NEW code, NEW cookie \in {Keep, None},
           Reply(r, code, cookie), req[r].pc # "reply"
    PROVE  \A q \in Requests : Tame(q)
BY DEF Reply, Replied, NoRequest, WellFormed, TypeOK, Tame, At

\* The steps of a request that touch neither tokens nor jars.
Answers(r) ==
    RefreshRefused(r) \/ LogoutStale(r) \/ ForgotCollides(r) \/ ForgotMail(r) \/ ResetStale(r)
Begins(r) ==
    \/ \E b \in Jars, u \in Users : LoginRead(r, b, u)
    \/ \E b \in Jars : LogoutRead(r, b)
    \/ \E l \in Links : ResetRead(r, l)
Proceeds(r) ==
    \/ \E b \in Jars : LogoutNoRow(r, b)
    \/ \E u \in Users : ForgotDelete(r, u)
    \/ \E l \in Links : ForgotCommit(r, l)
    \/ ResetSweep(r) \/ Abort(r)
TakesNoToken(r) == Answers(r) \/ Begins(r) \/ Proceeds(r)

LEMMA ReadsTame ==
    ASSUME SessionInv, NEW r \in Requests,
           TakesNoToken(r)
    PROVE  \A q \in Requests : Tame(q)
<1>0. WellFormed /\ req \in [Requests -> Request] /\ req[r] \in Request
  BY DEF SessionInv, WellFormed, TypeOK
<1>1. CASE Answers(r)
  <2>1. req[r].pc # "reply"
    BY <1>1 DEF Answers, RefreshRefused, LogoutStale, ForgotCollides, ForgotMail, ResetStale, At
  <2> QED
    BY <1>0, <1>1, <2>1, RepliedTame
       DEF Answers, RefreshRefused, LogoutStale, ForgotCollides, ForgotMail, ResetStale
<1>2. CASE Begins(r)
  <2>1. /\ \A q \in Requests : q # r => req'[q] = req[q]
        /\ req'[r].op # "refresh" /\ req'[r].pc = "writing"
    BY <1>0, <1>2, StartedRequest DEF Begins, LoginRead, LogoutRead, ResetRead, Ops
  <2>2. req[r].pc = "idle"
    <3>1. ASSUME NEW op, NEW u, NEW b, NEW x, NEW l, NEW pw, Begin(r, op, u, b, x, l, pw)
          PROVE  req[r].pc = "idle"
      BY <3>1 DEF Begin
    <3> QED
      BY <1>2, <3>1 DEF Begins, LoginRead, LogoutRead, ResetRead
  <2> QED
    BY <2>1, <2>2 DEF Tame, At
<1>3. CASE Proceeds(r)
  <2>1. /\ req[r].pc # "reply"
        /\ \A q \in Requests : q # r => req'[q] = req[q]
        /\ req'[r].op # "refresh"
        /\ req'[r].pc = "reply" => req'[r].cookie = None
    <3>1. ASSUME NEW b \in Jars, LogoutNoRow(r, b)
          PROVE  /\ req[r].pc = "idle"
                 /\ \A q \in Requests : q # r => req'[q] = req[q]
                 /\ req'[r].op = "logout" /\ req'[r].cookie = None
      BY <3>1, <1>0 DEF LogoutNoRow, NoRequest
    <3>2. ASSUME NEW u \in Users, ForgotDelete(r, u)
          PROVE  /\ req[r].pc = "idle"
                 /\ \A q \in Requests : q # r => req'[q] = req[q]
                 /\ req'[r].op = "forgot" /\ req'[r].pc = "writing"
      BY <3>2, <1>0 DEF ForgotDelete, NoRequest
    <3>3. ASSUME NEW l \in Links, ForgotCommit(r, l)
          PROVE  /\ req[r].pc = "writing"
                 /\ \A q \in Requests : q # r => req'[q] = req[q]
                 /\ req'[r].op = "forgot" /\ req'[r].pc = "mailing"
      <4>1. /\ req[r].pc = "writing"
            /\ req' = [req EXCEPT ![r] = [NoRequest EXCEPT
                         !.op = "forgot", !.pc = "mailing", !.link = l]]
        BY <3>3 DEF ForgotCommit, At
      <4> QED
        BY <4>1, <1>0 DEF NoRequest
    <3>4. CASE ResetSweep(r)
      BY <3>4, <1>0 DEF ResetSweep, Request, At
    <3>5. CASE Abort(r)
      BY <3>5, <1>0 DEF Abort, NoRequest
    <3> QED
      BY <1>3, <3>1, <3>2, <3>3, <3>4, <3>5 DEF Proceeds
  <2> QED
    BY <2>1 DEF Tame, At
<1> QED
  BY <1>1, <1>2, <1>3 DEF TakesNoToken

LEMMA ReadsJar ==
    ASSUME SessionInv, JarInv, NEW r \in Requests,
           TakesNoToken(r)
    PROVE  JarInv'
<1>1. \A q \in Requests : Tame(q)
  BY ReadsTame
<1>2. UNCHANGED <<rt, jar, lossy, ended>>
  <2>1. UNCHANGED <<rt, ended>>
    BY ReadsKeepRows DEF ReadsOnly, TakesNoToken, Answers, Begins, Proceeds
  <2>2. CASE Answers(r)
    BY <2>2 DEF Answers, RefreshRefused, LogoutStale, ForgotCollides, ForgotMail,
                ResetStale, history, tables
  <2>3. CASE Begins(r)
    BY <2>3 DEF Begins, LoginRead, LogoutRead, ResetRead, history, tables
  <2>4. CASE Proceeds(r)
    <3>1. ASSUME NEW l \in Links, ForgotCommit(r, l)
          PROVE  UNCHANGED <<rt, jar, history>>
      BY <3>1 DEF ForgotCommit
    <3>2. CASE ResetSweep(r) \/ Abort(r)
      BY <3>2 DEF ResetSweep, Abort, tables, history
    <3>3. ASSUME NEW u \in Users, ForgotDelete(r, u)
          PROVE  UNCHANGED <<rt, jar, history>>
      BY <3>3 DEF ForgotDelete, tables
    <3>4. ASSUME NEW b \in Jars, LogoutNoRow(r, b)
          PROVE  UNCHANGED <<rt, jar, history>>
      BY <3>4 DEF LogoutNoRow, tables
    <3> QED
      BY <2>4, <3>1, <3>2, <3>3, <3>4 DEF Proceeds, history
  <2> QED
    BY <2>1, <2>2, <2>3, <2>4 DEF TakesNoToken
<1>3. \A b \in Jars : jar[b] \in Tokens \cup {None}
  BY DEF SessionInv, WellFormed, TypeOK
<1>4. \A t \in Tokens : (Intact(t) => Intact(t)') /\ rt'[t].st = rt[t].st
  BY <1>2 DEF Intact, Live
<1> QED
  BY <1>1, <1>2, <1>3, <1>4, TameSteps

\* A refresh takes the token of one jar.
LEMMA RefreshReadJar ==
    ASSUME SessionInv, JarInv, NEW r \in Requests, NEW b \in Jars, RefreshRead(r, b)
    PROVE  JarInv'
<1>1. UNCHANGED <<rt, jar, lossy, ended>>
  BY DEF RefreshRead, tables, history
<1>2. /\ req[r].pc = "idle"
      /\ \A q \in Requests : q # r => req'[q] = req[q]
      /\ req'[r].op = "refresh" /\ req'[r].pc = "writing"
      /\ req'[r].tok = jar[b] /\ req'[r].jar = b
  BY DEF RefreshRead, Begin, NoRequest, SessionInv, WellFormed, TypeOK
<1>3. \A q \in Requests, t \in Tokens :
        /\ Carries(q, t)' <=> Carries(q, t)
        /\ Rotates(q, t)' => (Rotates(q, t) /\ req'[q] = req[q]) \/ (q = r /\ t = jar[b])
  BY <1>2 DEF Carries, Rotates, At
<1>4. \A c \in Jars : Awaits(c) => Awaits(c)'
  BY <1>2 DEF Awaits
<1>5. \A t \in Tokens : Intact(t)' <=> Intact(t)
  BY <1>1 DEF Intact, Live
<1>6. JarsUpToDate'
  <2>1. \A c \in Jars : jar[c] # None => jar[c] \in Tokens
    BY DEF SessionInv, WellFormed, TypeOK
  <2> QED
    BY <1>1, <1>4, <1>5, <2>1 DEF JarInv, JarsUpToDate
<1>7. CarriedOnce'
  BY <1>1, <1>3, <1>5 DEF JarInv, CarriedOnce
<1>8. HeldOnce'
  BY <1>1, <1>2, <1>3 DEF JarInv, HeldOnce
<1>9. NotYetHeld'
  BY <1>1, <1>3 DEF JarInv, NotYetHeld
<1> QED
  BY <1>6, <1>7, <1>8, <1>9 DEF JarInv

\* A reply that is delivered brings a token that is nowhere else; one that is
\* lost leaves the jar behind.
LEMMA ArrivalJar ==
    ASSUME SessionInv, JarInv, NEW r \in Requests, Deliver(r) \/ Lose(r)
    PROVE  JarInv'
<1> DEFINE b == req[r].jar
           x == req[r].cookie
<1>0. /\ req \in [Requests -> Request] /\ jar \in [Jars -> Tokens \cup {None}]
      /\ lossy \subseteq Jars
      /\ None \notin Tokens /\ Keep \notin Tokens /\ Keep # None
  BY ConstAssumption DEF SessionInv, WellFormed, TypeOK
<1>1. /\ req[r].pc = "reply" /\ UNCHANGED <<rt, ended>>
      /\ \A q \in Requests : req'[q] = IF q = r THEN NoRequest ELSE req[q]
  BY <1>0 DEF Deliver, Lose, tables, history
<1>2. NoRequest.pc = "idle"
  BY DEF NoRequest
<1>3. \A q \in Requests, t \in Tokens :
        /\ Carries(q, t)' => Carries(q, t) /\ q # r
        /\ Rotates(q, t)' => Rotates(q, t) /\ req'[q] = req[q]
  BY <1>1, <1>2 DEF Carries, Rotates, At
<1>4. \A t \in Tokens : Intact(t)' <=> Intact(t)
  BY <1>1 DEF Intact, Live
<1>5. CASE x = Keep
  <2>1. \A q \in Requests : Tame(q)
    BY <1>1, <1>2, <1>5 DEF Tame, At
  <2>2. UNCHANGED <<jar, lossy>>
    BY <1>5 DEF Deliver, Lose, history
  <2> QED
    BY <1>0, <1>1, <1>4, <2>1, <2>2, TameSteps
<1>6. CASE x # Keep
  <2>1. b \in Jars /\ x \in Tokens \cup {None}
    BY <1>0, <1>1, <1>6 DEF SessionInv, WellFormed, Ready, Request
  <2>2. \A c \in Jars : c # b /\ Awaits(c) => Awaits(c)'
    BY <1>1 DEF Awaits
  <2>3. CASE Deliver(r)
    <3>1. /\ \A c \in Jars : jar'[c] = IF c = b THEN x ELSE jar[c]
          /\ lossy' = lossy
      BY <2>3, <1>0, <1>6, <2>1 DEF Deliver, history
    <3>2. x # None => Intact(x) /\ Carries(r, x)
      BY <1>1, <2>1 DEF JarInv, CarriedOnce, Carries
    <3>3. JarsUpToDate'
      BY <1>0, <1>4, <2>1, <2>2, <3>1, <3>2 DEF JarInv, JarsUpToDate
    <3>4. CarriedOnce'
      <4>1. ASSUME NEW t \in Tokens, NEW q \in Requests, Carries(q, t)'
            PROVE  \A c \in Jars : jar'[c] # t
        <5>1. Carries(q, t) /\ q # r
          BY <1>3, <4>1
        <5>2. x # t
          BY <1>1, <5>1 DEF JarInv, CarriedOnce, Carries
        <5> QED
          BY <3>1, <5>1, <5>2 DEF JarInv, CarriedOnce
      <4> QED
        BY <1>3, <1>4, <4>1 DEF JarInv, CarriedOnce
    <3>5. HeldOnce'
      <4> SUFFICES ASSUME NEW t \in Tokens, NEW c \in Jars, jar'[c] = t
                   PROVE  /\ \A d \in Jars : jar'[d] = t => d = c
                          /\ \A q \in Requests : Rotates(q, t)' => req'[q].jar = c
        BY DEF HeldOnce
      <4>1. CASE t = x
        <5>1. /\ \A d \in Jars : jar[d] # t
              /\ \A q \in Requests : ~Rotates(q, t)
          BY <1>0, <3>2, <4>1 DEF JarInv, CarriedOnce
        <5> QED
          BY <1>3, <3>1, <4>1, <5>1
      <4>2. CASE t # x
        BY <1>3, <3>1, <4>2 DEF JarInv, HeldOnce
      <4> QED
        BY <4>1, <4>2
    <3>6. NotYetHeld'
      <4>1. \A t \in Tokens : rt[t].st = "unissued" => x # t
        BY <1>1 DEF JarInv, NotYetHeld, Carries
      <4> QED
        BY <1>1, <1>3, <3>1, <4>1 DEF JarInv, NotYetHeld
    <3> QED
      BY <3>3, <3>4, <3>5, <3>6 DEF JarInv
  <2>4. CASE Lose(r)
    <3>1. jar' = jar /\ lossy' = lossy \cup {b}
      BY <2>4, <1>6 DEF Lose
    <3>2. JarsUpToDate'
      BY <1>0, <1>4, <2>2, <3>1 DEF JarInv, JarsUpToDate
    <3>3. CarriedOnce'
      BY <1>3, <1>4, <3>1 DEF JarInv, CarriedOnce
    <3>4. HeldOnce'
      BY <1>3, <3>1 DEF JarInv, HeldOnce
    <3>5. NotYetHeld'
      BY <1>1, <1>3, <3>1 DEF JarInv, NotYetHeld
    <3> QED
      BY <3>2, <3>3, <3>4, <3>5 DEF JarInv
  <2> QED
    BY <2>3, <2>4
<1> QED
  BY <1>5, <1>6

\* A logout or reset ends the sessions of the tokens it revokes.
LEMMA RevokedIntact ==
    ASSUME SessionInv, NEW over \in SUBSET Tokens,
           rt' = [t \in Tokens |-> IF t \in over THEN [rt[t] EXCEPT !.st = "revoked"]
                                                 ELSE rt[t]],
           ended' = ended \cup {rt[t].root : t \in over},
           \A t \in over : rt[t].st # "unissued"
    PROVE  \A t \in Tokens : /\ Intact(t) => Intact(t)'
                             /\ rt'[t].st = "unissued" => rt[t].st = "unissued"
<1> SUFFICES ASSUME NEW t \in Tokens
             PROVE  /\ Intact(t) => Intact(t)'
                    /\ rt'[t].st = "unissued" => rt[t].st = "unissued"
  OBVIOUS
<1>1. rt[t] \in TokenRow
  BY DEF SessionInv, WellFormed, TypeOK
<1>2. CASE t \in over
  <2>1. rt'[t].root = rt[t].root /\ rt'[t].st = "revoked" /\ rt[t].root \in ended'
    BY <1>1, <1>2 DEF TokenRow
  <2> QED
    BY <2>1 DEF Intact
<1>3. CASE t \notin over
  BY <1>3 DEF Intact, Live
<1> QED
  BY <1>2, <1>3

LEMMA CommitJar ==
    ASSUME SessionInv, EndedInv, JarInv, NEW r \in Requests,
           LogoutCommit(r) \/ ResetCommit(r)
    PROVE  JarInv'
<1>0. /\ WellFormed /\ req \in [Requests -> Request]
      /\ \A b \in Jars : jar[b] \in Tokens \cup {None}
      /\ rt \in [Tokens -> TokenRow]
  BY DEF SessionInv, WellFormed, TypeOK
<1>1. CASE LogoutCommit(r)
  <2> DEFINE over == {req[r].tok}
  <2>1. req[r].tok \in Tokens /\ rt[req[r].tok].st # "unissued"
    BY <1>1 DEF SessionInv, WellFormed, Ready, LogoutCommit, At, EndedInv
  <2>2. over \in SUBSET Tokens /\ \A t \in over : rt[t].st # "unissued"
    BY <2>1
  <2>3. rt' = [t \in Tokens |-> IF t \in over THEN [rt[t] EXCEPT !.st = "revoked"] ELSE rt[t]]
    BY <1>0, <1>1 DEF LogoutCommit
  <2>4. ended' = ended \cup {rt[t].root : t \in over}
    BY <1>1 DEF LogoutCommit
  <2>5. \A q \in Requests : Tame(q)
    <3>1. Reply(r, "ok", None) /\ req[r].pc # "reply"
      BY <1>1 DEF LogoutCommit, At
    <3> QED
      BY <3>1, <1>0, RepliedTame
  <2>6. jar' = jar /\ lossy' = lossy
    BY <1>1 DEF LogoutCommit
  <2> HIDE DEF over
  <2>7. \A t \in Tokens : /\ Intact(t) => Intact(t)'
                          /\ rt'[t].st = "unissued" => rt[t].st = "unissued"
    BY <2>2, <2>3, <2>4, RevokedIntact
  <2> QED
    BY <1>0, <2>5, <2>6, <2>7, TameSteps
<1>2. CASE ResetCommit(r)
  <2>1. Swept(r) \in SUBSET Tokens /\ \A t \in Swept(r) : rt[t].st # "unissued"
    BY <1>0 DEF Swept, Live, Request
  <2>2. /\ rt' = [t \in Tokens |-> IF t \in Swept(r) THEN [rt[t] EXCEPT !.st = "revoked"]
                                                     ELSE rt[t]]
        /\ ended' = ended \cup {rt[t].root : t \in Swept(r)}
        /\ jar' = jar /\ lossy' = lossy
    BY <1>2 DEF ResetCommit
  <2>3. \A t \in Tokens : /\ Intact(t) => Intact(t)'
                          /\ rt'[t].st = "unissued" => rt[t].st = "unissued"
    BY <2>1, <2>2, RevokedIntact
  <2>4. \A q \in Requests :
         req'[q] = IF q = r THEN Replied(req[r], "ok", Keep)
                   ELSE IF At(q, "login", "writing") /\ req[q].user = req[r].user
                   THEN [req[q] EXCEPT !.raced = TRUE]
                   ELSE req[q]
    BY <1>2 DEF ResetCommit
  <2>5. Replied(req[r], "ok", Keep) = NoRequest /\ NoRequest.pc = "idle"
    BY DEF Replied, NoRequest
  <2>6. ASSUME NEW q \in Requests, req'[q] # req[q]
        PROVE  req[q].pc # "reply" /\ req'[q].op # "refresh" /\ req'[q].pc # "reply"
    <3>1. CASE q = r
      <4>1. req[r].pc = "sweeping" /\ req'[q] = NoRequest
        BY <1>2, <2>4, <2>5, <3>1 DEF ResetCommit, At
      <4> QED
        BY <4>1, <3>1 DEF NoRequest
    <3>2. CASE q # r
      <4>1. At(q, "login", "writing") /\ req'[q] = [req[q] EXCEPT !.raced = TRUE]
        BY <2>4, <2>6, <3>2
      <4> QED
        BY <4>1, <1>0 DEF At, Request
    <3> QED
      BY <3>1, <3>2
  <2>7. \A q \in Requests : Tame(q)
    BY <2>6 DEF Tame, At
  <2> QED
    BY <1>0, <2>2, <2>3, <2>7, TameSteps
<1> QED
  BY <1>1, <1>2

\* What a login or refresh does to jars and tokens: t is on its way to the
\* browser of r, and old, if there was one, was in no other's jar.
Issues(r, t, old) ==
    /\ rt[t].st = "unissued" /\ req[r].pc = "writing"
    /\ old \in Tokens => Rotates(r, old)
    /\ UNCHANGED <<jar, lossy>>
    /\ \A q \in Requests : q # r => req'[q] = req[q]
    /\ req'[r].pc = "reply" /\ req'[r].jar = req[r].jar /\ req'[r].cookie = t
    /\ Intact(t)'
    /\ \A s \in Tokens : s # old /\ Intact(s) => Intact(s)'
    /\ \A s \in Tokens : rt'[s].st = "unissued" => s # t /\ rt[s].st = "unissued"

LEMMA IssuedJar ==
    ASSUME JarInv, NEW r \in Requests, NEW t \in Tokens, NEW old, Issues(r, t, old),
           \A b \in Jars : jar[b] \in Tokens \cup {None}
    PROVE  JarInv'
<1>0. None \notin Tokens /\ Keep \notin Tokens
  BY ConstAssumption
<1>1. \A q \in Requests, s \in Tokens :
        /\ Carries(q, s)' => (q = r /\ s = t) \/ (q # r /\ Carries(q, s))
        /\ Rotates(q, s)' => Rotates(q, s) /\ req'[q] = req[q]
  BY DEF Issues, Carries, Rotates, At
<1>2. /\ \A b \in Jars : jar[b] # t
      /\ \A q \in Requests : ~Carries(q, t) /\ ~Rotates(q, t)
  BY DEF Issues, JarInv, NotYetHeld
<1>3. \A b \in Jars : Awaits(b) => Awaits(b)'
  BY DEF Issues, Awaits
<1>4. \A b \in Jars : req[r].jar = b => Awaits(b)'
  BY <1>0 DEF Issues, Awaits
<1>5. JarsUpToDate'
  <2> SUFFICES ASSUME NEW b \in Jars, b \notin lossy, jar[b] # None
               PROVE  Intact(jar[b])' \/ Awaits(b)'
    BY DEF JarsUpToDate, Issues
  <2>1. jar[b] \in Tokens
    OBVIOUS
  <2>2. CASE jar[b] = old
    <3>1. Rotates(r, jar[b])
      BY <2>1, <2>2 DEF Issues
    <3>2. req[r].jar = b
      BY <2>1, <3>1 DEF JarInv, HeldOnce
    <3> QED
      BY <1>4, <3>2
  <2>3. CASE jar[b] # old
    <3>1. Intact(jar[b]) \/ Awaits(b)
      BY DEF JarInv, JarsUpToDate
    <3>2. Intact(jar[b]) => Intact(jar[b])'
      <4>1. \A s \in Tokens : s # old /\ Intact(s) => Intact(s)'
        BY DEF Issues
      <4>2. jar' = jar
        BY DEF Issues
      <4> QED
        BY <2>1, <2>3, <4>1, <4>2 DEF Intact, Live
    <3> QED
      BY <1>3, <3>1, <3>2
  <2> QED
    BY <2>2, <2>3
<1>6. CarriedOnce'
  <2> SUFFICES ASSUME NEW s \in Tokens, NEW q \in Requests, Carries(q, s)'
               PROVE  /\ Intact(s)'
                      /\ \A b \in Jars : jar'[b] # s
                      /\ \A p \in Requests : ~Rotates(p, s)' /\ (Carries(p, s)' => p = q)
    BY DEF CarriedOnce
  <2>1. CASE q = r /\ s = t
    BY <1>1, <1>2, <2>1 DEF Issues
  <2>2. CASE q # r /\ Carries(q, s)
    <3>1. /\ Intact(s) /\ \A b \in Jars : jar[b] # s
          /\ \A p \in Requests : ~Rotates(p, s) /\ (Carries(p, s) => p = q)
      BY <2>2 DEF JarInv, CarriedOnce
    <3>2. s # old /\ s # t
      BY <1>2, <2>2, <3>1 DEF Issues
    <3> QED
      BY <1>1, <3>1, <3>2 DEF Issues
  <2> QED
    BY <1>1, <2>1, <2>2
<1>7. HeldOnce'
  BY <1>1 DEF Issues, JarInv, HeldOnce
<1>8. NotYetHeld'
  BY <1>1 DEF Issues, JarInv, NotYetHeld
<1> QED
  BY <1>5, <1>6, <1>7, <1>8 DEF JarInv

\* The rows a login or refresh COMMITs: t is new, old (if any) revoked, in gone;
\* then rows is pruned.
Writes(rows, gone, t, old) ==
    /\ rows \in [Tokens -> TokenRow] /\ rt \in [Tokens -> TokenRow]
    /\ rows[t].st = "live" /\ rows[t].expired = FALSE /\ rt[t].st = "unissued"
    /\ \A s \in Tokens : s # t => rows[s] = gone[s]
    /\ \A s \in Tokens : s # old => gone[s] = rt[s]
    /\ old \in Tokens => gone[old].st # "unissued"
    /\ rt' = Pruned(rows)
    /\ ended' = ended \cup ExpiredSessions(gone)

\* The new token is usable; an older row that is usable and not written stays so,
\* or was pruned as expired and its session has ended.
LEMMA IssuedIntact ==
    ASSUME NEW t \in Tokens, NEW gone, NEW old, NEW rows, Writes(rows, gone, t, old)
    PROVE  /\ Intact(t)'
           /\ \A s \in Tokens : s # old /\ Intact(s) => Intact(s)'
           /\ \A s \in Tokens : rt'[s].st = "unissued" => s # t /\ rt[s].st = "unissued"
<1>1. \A s \in Tokens : /\ rt'[s].root = rows[s].root
                        /\ rt'[s].st = "unissued" => rows[s].st = "unissued"
  BY PrunedRow DEF Writes
<1>2. \A s \in Tokens : rows[s].st = "live" /\ ~rows[s].expired => rt'[s] = rows[s]
  BY DEF Writes, Pruned, Prunable
<1>3. Intact(t)'
  BY <1>2 DEF Writes, Intact, Live
<1>4. ASSUME NEW s \in Tokens, s # old, Intact(s)
      PROVE  Intact(s)'
  <2>1. CASE s = t
    BY <1>3, <2>1
  <2>2. CASE s # t
    <3>1. rows[s] = rt[s] /\ gone[s] = rt[s] /\ rt'[s].root = rt[s].root
      BY <1>1, <1>4, <2>2 DEF Writes
    <3>2. CASE rt[s].st = "live" /\ rt[s].expired
      <4>1. rt[s].root \in ExpiredSessions(gone)
        <5>1. s \in {x \in Tokens : gone[x].st = "live" /\ gone[x].expired}
          BY <3>1, <3>2
        <5> QED
          BY <3>1, <5>1 DEF ExpiredSessions
      <4> QED
        BY <3>1, <4>1 DEF Writes, Intact
    <3>3. CASE rt[s].st = "live" /\ ~rt[s].expired
      BY <1>2, <3>1, <3>3 DEF Intact, Live
    <3>4. CASE rt[s].root \in ended
      BY <3>1, <3>4 DEF Writes, Intact
    <3> QED
      BY <1>4, <3>2, <3>3, <3>4 DEF Intact, Live
  <2> QED
    BY <2>1, <2>2
<1>5. \A s \in Tokens : rt'[s].st = "unissued" => s # t /\ rt[s].st = "unissued"
  BY <1>1 DEF Writes
<1> QED
  BY <1>3, <1>4, <1>5

\* The cookie of an issued token.
LEMMA RepliedToken ==
    ASSUME WellFormed, NEW r \in Requests, NEW t \in Tokens, Reply(r, "ok", t)
    PROVE  /\ \A q \in Requests : q # r => req'[q] = req[q]
           /\ req'[r].pc = "reply" /\ req'[r].jar = req[r].jar /\ req'[r].cookie = t
BY ConstAssumption DEF WellFormed, TypeOK, Reply, Replied, NoRequest

LEMMA LoginCommitJar ==
    ASSUME SessionInv, JarInv, NEW r \in Requests, NEW t \in Tokens, LoginCommit(r, t)
    PROVE  JarInv'
<1> DEFINE u == req[r].user
           row == NewToken(u, req[r].pw, t, req[r].raced \/ Resetting(u))
           rows == [rt EXCEPT ![t] = row]
<1>1. /\ u \in Users /\ (req[r].raced \/ Resetting(u)) \in BOOLEAN /\ req[r].pw \in Nat
      /\ rt \in [Tokens -> TokenRow] /\ rt[t].st = "unissued" /\ req[r].pc = "writing"
      /\ WellFormed /\ None \notin Tokens
      /\ \A b \in Jars : jar[b] \in Tokens \cup {None}
  BY RowFields, ConstAssumption
     DEF SessionInv, WellFormed, TypeOK, LoginCommit, At, Ready, Resetting
<1>2. row \in TokenRow /\ row.st = "live" /\ row.expired = FALSE
  <2>1. row \in TokenRow
    BY <1>1, NewTokenType
  <2> QED
    BY <2>1 DEF NewToken
<1>3. /\ rt' = Pruned(rows) /\ ended' = ended \cup ExpiredSessions(rt)
      /\ Reply(r, "ok", t) /\ UNCHANGED <<jar, lossy>>
  BY DEF LoginCommit
<1> HIDE DEF row
<1>4. /\ rows \in [Tokens -> TokenRow] /\ rows[t].st = "live" /\ rows[t].expired = FALSE
      /\ \A s \in Tokens : s # t => rows[s] = rt[s]
  BY <1>1, <1>2
<1> HIDE DEF rows
<1>5. /\ Intact(t)'
      /\ \A s \in Tokens : s # None /\ Intact(s) => Intact(s)'
      /\ \A s \in Tokens : rt'[s].st = "unissued" => s # t /\ rt[s].st = "unissued"
  <2>1. Writes(rows, rt, t, None)
    BY <1>1, <1>3, <1>4 DEF Writes
  <2> QED
    BY <2>1, IssuedIntact
<1>6. /\ \A q \in Requests : q # r => req'[q] = req[q]
      /\ req'[r].pc = "reply" /\ req'[r].jar = req[r].jar /\ req'[r].cookie = t
  BY <1>1, <1>3, RepliedToken
<1>7. Issues(r, t, None)
  BY <1>1, <1>3, <1>5, <1>6 DEF Issues
<1> QED
  BY <1>1, <1>7, IssuedJar

LEMMA RefreshCommitJar ==
    ASSUME SessionInv, JarInv, NEW r \in Requests, NEW t \in Tokens, RefreshCommit(r, t)
    PROVE  JarInv'
<1> DEFINE old == req[r].tok
           u == rt[old].user
           raced == rt[old].raced \/ Resetting(u)
           row == NewToken(u, rt[old].pw, rt[old].root, raced)
           gone == [rt EXCEPT ![old].st = "revoked"]
           rows == [gone EXCEPT ![t] = row]
<1>1. /\ old \in Tokens /\ Live(old) /\ old # t /\ rt[t].st = "unissued"
      /\ rt \in [Tokens -> TokenRow] /\ WellFormed
      /\ Rotates(r, old) /\ req[r].pc = "writing"
      /\ \A b \in Jars : jar[b] \in Tokens \cup {None}
  BY DEF SessionInv, WellFormed, TypeOK, RefreshCommit, At, Ready, Live, Rotates
<1>2. /\ u \in Users /\ raced \in BOOLEAN /\ rt[old].pw \in Nat /\ rt[old].root \in Tokens
  BY <1>1, RowFields DEF WellFormed, Resetting, Live
<1>3. row \in TokenRow /\ row.st = "live" /\ row.expired = FALSE
  <2>1. row \in TokenRow
    BY <1>2, NewTokenType
  <2> QED
    BY <2>1 DEF NewToken
<1>4. /\ rt' = Pruned(rows) /\ ended' = ended \cup ExpiredSessions(gone)
      /\ Reply(r, "ok", t) /\ UNCHANGED <<jar, lossy>>
  BY DEF RefreshCommit
<1>5. /\ gone \in [Tokens -> TokenRow] /\ gone[old].st = "revoked"
      /\ \A s \in Tokens : s # old => gone[s] = rt[s]
  BY <1>1, RowType DEF TokenRow
<1> HIDE DEF row, gone
<1>6. /\ rows \in [Tokens -> TokenRow] /\ rows[t].st = "live" /\ rows[t].expired = FALSE
      /\ \A s \in Tokens : s # t => rows[s] = gone[s]
  BY <1>3, <1>5
<1> HIDE DEF rows
<1>7. /\ Intact(t)'
      /\ \A s \in Tokens : s # old /\ Intact(s) => Intact(s)'
      /\ \A s \in Tokens : rt'[s].st = "unissued" => s # t /\ rt[s].st = "unissued"
  <2> HIDE DEF old
  <2>1. Writes(rows, gone, t, old)
    BY <1>1, <1>4, <1>5, <1>6 DEF Writes
  <2> QED
    BY <2>1, IssuedIntact
<1>8. /\ \A q \in Requests : q # r => req'[q] = req[q]
      /\ req'[r].pc = "reply" /\ req'[r].jar = req[r].jar /\ req'[r].cookie = t
  BY <1>1, <1>4, RepliedToken
<1>9. Issues(r, t, old)
  <2> HIDE DEF old
  <2> QED
    BY <1>1, <1>4, <1>7, <1>8 DEF Issues
<1> QED
  BY <1>1, <1>9, IssuedJar

LEMMA JarInit == Init => JarInv
<1> SUFFICES ASSUME Init PROVE JarInv
  OBVIOUS
<1>1. \A b \in Jars : jar[b] = None
  BY DEF Init
<1>2. \A r \in Requests : req[r] = NoRequest
  BY DEF Init
<1>3. NoRequest.pc = "idle"
  BY DEF NoRequest
<1>4. None \notin Tokens
  BY ConstAssumption
<1> QED
  BY <1>1, <1>2, <1>3, <1>4
     DEF JarInv, JarsUpToDate, CarriedOnce, HeldOnce, NotYetHeld, Carries, Rotates, At

LEMMA JarInductive == SessionInv /\ EndedInv /\ JarInv /\ [Next]_vars => JarInv'
<1> SUFFICES ASSUME SessionInv, EndedInv, JarInv, [Next]_vars PROVE JarInv'
  OBVIOUS
<1>1. ASSUME NEW r \in Requests, NEW t \in Tokens,
             LoginCommit(r, t) \/ RefreshCommit(r, t)
      PROVE  JarInv'
  BY <1>1, LoginCommitJar, RefreshCommitJar
<1>2. ASSUME NEW r \in Requests, TakesNoToken(r)
      PROVE  JarInv'
  BY <1>2, ReadsJar
<1>3. ASSUME NEW r \in Requests, NEW b \in Jars, RefreshRead(r, b)
      PROVE  JarInv'
  BY <1>3, RefreshReadJar
<1>4. ASSUME NEW r \in Requests, Deliver(r) \/ Lose(r)
      PROVE  JarInv'
  BY <1>4, ArrivalJar
<1>5. ASSUME NEW r \in Requests, LogoutCommit(r) \/ ResetCommit(r)
      PROVE  JarInv'
  BY <1>5, CommitJar
<1>6. CASE \/ \E u \in Users : Register(u)
           \/ \E t \in Tokens : ExpireToken(t)
           \/ \E l \in Links : ExpireLink(l)
           \/ UNCHANGED vars
  <2>1. UNCHANGED <<req, jar, lossy, ended>>
        /\ \A t \in Tokens : rt'[t].root = rt[t].root /\ rt'[t].st = rt[t].st
    BY <1>6 DEF Register, ExpireToken, ExpireLink, vars, history, SessionInv,
                WellFormed, TypeOK, TokenRow
  <2>2. \A q \in Requests : Tame(q)
    BY <2>1 DEF Tame
  <2>3. \A t \in Tokens : Intact(t) => Intact(t)'
    BY <2>1 DEF Intact, Live
  <2>4. \A b \in Jars : jar[b] \in Tokens \cup {None}
    BY DEF SessionInv, WellFormed, TypeOK
  <2> QED
    BY <2>1, <2>2, <2>3, <2>4, TameSteps
<1> QED
  BY <1>1, <1>2, <1>3, <1>4, <1>5, <1>6
     DEF Next, TakesNoToken, Answers, Begins, Proceeds

(***************************************************************************)
(* Refresh-on-401 does not log people out (auth.py:43-63, 185-244):        *)
(* for any number of accounts, browsers, requests and tokens, the cookie   *)
(* of a browser that missed no reply and awaits none is the usable token   *)
(* of its session, unless the session was ended (auth.py:248-265, 425).    *)
(***************************************************************************)
THEOREM BrowsersKeepUp == Spec => []JarHoldsSession
<1>1. JarInv => JarHoldsSession
  BY DEF JarInv, JarsUpToDate, JarHoldsSession, Intact, Awaits
<1> QED
  BY <1>1, JarInductive, JarInit, EndedInductive, EndedInit, SessionInvariant, PTL DEF Spec
=============================================================================
