------------------------------- MODULE Ledger -------------------------------
(***************************************************************************)
(* The rows a user keeps: transactions (app/routers/transactions.py) and   *)
(* goals (app/routers/goals.py), under the handlers that create, PATCH and *)
(* DELETE them, and a client that pages through the list of transactions.  *)
(*                                                                         *)
(* A PATCH or DELETE SELECTs its row without locking it, checks what it    *)
(* has read, and COMMITs; after the COMMIT a create or PATCH reads the row *)
(* once more (db.refresh) for its answer.  Requests interleave between     *)
(* these.  The ORM's UPDATE goes by primary key and writes the columns     *)
(* that the PATCH changed with respect to what it had read.                *)
(*                                                                         *)
(* A row is a function from its columns to values.  The columns no         *)
(* property is about (amount, note, created_at) are left out, and so is    *)
(* the owner: every SELECT is restricted to the caller's own rows, so one  *)
(* user's rows are all there is to see.                                    *)
(***************************************************************************)
EXTENDS Integers, FiniteSets, SequencesExt

CONSTANTS Requests,     \* how many requests the server works on at once
          Transactions, \* the ids (fresh uuids) of rows of transactions
          Goals,        \* the ids of rows of goals
          Bodies,       \* Bodies[id]: what a POST that makes id may carry
          Patches,      \* Patches[id]: what a PATCH of id may carry
          PageSize,     \* limit of GET /transactions
          Null          \* JSON null, SQL NULL

Ids == Transactions \cup Goals

TransactionType == {"income", "expense"}
ExpenseCategory == {"groceries", "dining", "transport", "entertainment",
                    "utilities_bills", "education", "subscriptions", "other"}
IncomeCategory  == {"salary_wages", "returns", "gift", "other"}

TransactionRow == [type : TransactionType,
                   category : ExpenseCategory \cup IncomeCategory, date : Int]
GoalRow == [category : ExpenseCategory, limit : Nat \ {0}]

\* The fields the schemas let through, with their types: any string may be sent
\* as the category of a transaction.
ASSUME LedgerAssumption ==
    /\ Transactions \cap Goals = {}
    /\ PageSize \in Nat \ {0}
    /\ \A t \in Transactions :
         /\ Bodies[t] \subseteq [type : TransactionType, category : STRING, date : Int]
         /\ \A patch \in Patches[t] :
              "date" \in DOMAIN patch => patch.date \in Int \cup {Null}
    /\ \A g \in Goals :
         /\ Bodies[g] \subseteq [category : ExpenseCategory, limit : Int]
         /\ \A patch \in Patches[g] : DOMAIN patch \subseteq {"limit"}

VARIABLES
    table, \* the rows by id, Unused before the INSERT and Deleted after the DELETE
    req,   \* the requests being worked on
    scan   \* a client that reads GET /transactions page after page

vars == <<table, req, scan>>

Unused  == [row |-> "unused"]
Deleted == [row |-> "deleted"]
Here(id) == table[id] \notin {Unused, Deleted}

Idle   == [op |-> "idle"]
NoScan == [page |-> 0, seen |-> {}, from |-> {}]

\* Columns and what the application's enums let into them.
Fits(type, category) ==
    \/ type = "expense" /\ category \in ExpenseCategory
    \/ type = "income" /\ category \in IncomeCategory

(***************************************************************************)
(* The constraints of the two tables: NOT NULL, and the CHECKs on type,    *)
(* category and limit.                                                     *)
(***************************************************************************)
\* Mutant: the tables have their NOT NULLs and no transaction_category_check.
Allowed_NoCheck(id, row) == \A f \in DOMAIN row : row[f] # Null
Allowed(id, row) ==
    /\ \A f \in DOMAIN row : row[f] # Null
    /\ id \in Transactions => Fits(row.type, row.category)
    /\ id \in Goals => row.category \in ExpenseCategory /\ row.limit \in Nat \ {0}

(***************************************************************************)
(* Rows, requests and the scan are well-formed.  In particular overlapping *)
(* PATCHes, of the type by one and the category by the other, each checked *)
(* against what it read (transactions.py:90-120), store no category that   *)
(* is not one of the type's.                                               *)
(***************************************************************************)
TypeOK ==
    /\ \A t \in Transactions : Here(t) =>
         table[t] \in TransactionRow /\ Fits(table[t].type, table[t].category)
    /\ \A g \in Goals : Here(g) => table[g] \in GoalRow
    /\ \A r \in Requests :
         req[r] # Idle => /\ req[r].op \in {"patch", "delete", "refresh"}
                          /\ req[r].id \in Ids /\ table[req[r].id] # Unused
    /\ scan.page \in Nat
    /\ scan.seen \cup scan.from \subseteq Transactions

Init ==
    /\ table = [id \in Ids |-> Unused]
    /\ req = [r \in Requests |-> Idle]
    /\ scan = NoScan

----------------------------------------------------------------------------
\* What is left of a create or a PATCH after its COMMIT.
Refreshing(r, id) == req' = [req EXCEPT ![r] = [op |-> "refresh", id |-> id]]
Done(r) == req' = [req EXCEPT ![r] = Idle]

Listed == {id \in Transactions : Here(id)}

\* The scan is followed as long as rows only appear: not when one goes, changes
\* its place in the list, or shares its place with another.
FollowedIf(steady) == scan' = IF steady THEN scan ELSE NoScan

(***************************************************************************)
(* POST: the schema lets through only what the table allows.               *)
(***************************************************************************)
Create(r, id, body) ==
    /\ req[r] = Idle
    /\ table[id] = Unused
    /\ Allowed(id, body)
    /\ table' = [table EXCEPT ![id] = body]
    /\ Refreshing(r, id)
    /\ FollowedIf(id \in Goals \/ \A t \in Listed : table[t].date # body.date)

(***************************************************************************)
(* PATCH of a transaction: the category must fit the type, each taken from *)
(* the body, or from the row if the body has none (or a null); 422 if not. *)
(* A goal has only its limit to change, and the schema checks that.        *)
(***************************************************************************)
Effective(row, patch, f) ==
    IF f \in DOMAIN patch /\ patch[f] # Null THEN patch[f] ELSE row[f]

\* Mutant: type and category are compared when the body has both.
Accepted_BodyOnly(id, row, patch) ==
    {"type", "category"} \subseteq DOMAIN patch => Fits(patch.type, patch.category)
Accepted(id, row, patch) ==
    /\ id \in Transactions =>
         Fits(Effective(row, patch, "type"), Effective(row, patch, "category"))
    /\ id \in Goals /\ "limit" \in DOMAIN patch =>
         patch.limit \in {Null} \cup (Nat \ {0})

PatchRead(r, id, patch) ==
    /\ req[r] = Idle
    /\ Here(id)
    /\ Accepted(id, table[id], patch)
    /\ req' = [req EXCEPT ![r] = [op |-> "patch", id |-> id, patch |-> patch,
                                  read |-> table[id]]]
    /\ UNCHANGED <<table, scan>>

\* The fields that were set, null or not, and differ from what was read.
Written(q) == {f \in DOMAIN q.patch : q.patch[f] # q.read[f]}

\* Mutant: the UPDATE writes the whole row, as read and patched.
Merged_WholeRow(row, q) ==
    [f \in DOMAIN row |-> IF f \in Written(q) THEN q.patch[f] ELSE q.read[f]]
Merged(row, q) ==
    [f \in DOMAIN row |-> IF f \in Written(q) THEN q.patch[f] ELSE row[f]]

PatchCommit(r) ==
    /\ req[r].op = "patch"
    /\ LET q == req[r]
       IN /\ Here(q.id)
          /\ Allowed(q.id, Merged(table[q.id], q))
          /\ table' = [table EXCEPT ![q.id] = Merged(@, q)]
          /\ Refreshing(r, q.id)
          /\ FollowedIf("date" \notin Written(q))

\* Nothing to write: no UPDATE is sent, and nobody notices that the row went.
PatchOfNothing(r) ==
    /\ req[r].op = "patch"
    /\ ~Here(req[r].id)
    /\ Written(req[r]) = {}
    /\ Refreshing(r, req[r].id)
    /\ UNCHANGED <<table, scan>>

(***************************************************************************)
(* A 500 and a rollback: the UPDATE finds no row (StaleDataError), or the  *)
(* row it would make is not allowed (IntegrityError); nobody catches them. *)
(***************************************************************************)
PatchFails(r) ==
    /\ req[r].op = "patch"
    /\ LET q == req[r]
       IN IF Here(q.id) THEN ~Allowed(q.id, Merged(table[q.id], q))
                        ELSE Written(q) # {}
    /\ Done(r)
    /\ UNCHANGED <<table, scan>>

DeleteRead(r, id) ==
    /\ req[r] = Idle
    /\ Here(id)
    /\ req' = [req EXCEPT ![r] = [op |-> "delete", id |-> id]]
    /\ UNCHANGED <<table, scan>>

\* A DELETE that finds no row is only a warning.
DeleteCommit(r) ==
    /\ req[r].op = "delete"
    /\ table' = [table EXCEPT ![req[r].id] = Deleted]
    /\ Done(r)
    /\ FollowedIf(req[r].id \in Goals)

\* The answer: the row as it is now, or a 500 if it has been deleted, although
\* the COMMIT is done.  Likewise a crash, or any failure before the COMMIT.
End(r) ==
    /\ req[r] # Idle
    /\ Done(r)
    /\ UNCHANGED <<table, scan>>

----------------------------------------------------------------------------
(***************************************************************************)
(* GET /transactions: ORDER BY date DESC LIMIT limit OFFSET (page-1)*limit *)
(* leaves the order of rows with one date to the database, at each query.  *)
(***************************************************************************)
Orders == {s \in SetToSeqs(Listed) :
             \A i, j \in DOMAIN s : i < j => table[s[i]].date >= table[s[j]].date}

\* Mutant: pages counted from zero.
Offset_FromZero(page) == page * PageSize
Offset(page) == (page - 1) * PageSize

Page(order, page) ==
    {order[i] : i \in {n \in DOMAIN order : /\ n > Offset(page)
                                            /\ n <= Offset(page) + PageSize}}

\* The client reads the first page, and the next one while pages are full.
ScanStart ==
    /\ scan = NoScan
    /\ Listed # {}
    /\ \A s, t \in Listed : table[s].date = table[t].date => s = t
    /\ scan' = [page |-> 1, seen |-> {}, from |-> Listed]
    /\ UNCHANGED <<table, req>>

ScanPage ==
    /\ scan.page > 0
    /\ \E order \in Orders :
         LET rows == Page(order, scan.page)
         IN scan' = [scan EXCEPT
                       !.seen = @ \cup rows,
                       !.page = IF Cardinality(rows) = PageSize THEN @ + 1 ELSE 0]
    /\ UNCHANGED <<table, req>>

\* The client is done with what it read.
ScanEnd ==
    /\ scan.page = 0
    /\ scan # NoScan
    /\ scan' = NoScan
    /\ UNCHANGED <<table, req>>

Next ==
    \/ \E r \in Requests :
         \/ \E id \in Ids : \/ \E body \in Bodies[id] : Create(r, id, body)
                            \/ \E patch \in Patches[id] : PatchRead(r, id, patch)
                            \/ DeleteRead(r, id)
         \/ PatchCommit(r) \/ PatchOfNothing(r) \/ PatchFails(r)
         \/ DeleteCommit(r) \/ End(r)
    \/ ScanStart \/ ScanPage \/ ScanEnd

Spec == Init /\ [][Next]_vars

----------------------------------------------------------------------------
(***************************************************************************)
(* The handler's checks are as strict as the table's: a PATCH without an   *)
(* explicit null whose row nobody has changed since it was read is never   *)
(* turned down by the database (transactions.py:100-120 answers 422, not    *)
(* 500).                                                                   *)
(***************************************************************************)
ChecksAgree ==
    \A r \in Requests :
        LET q == req[r]
        IN /\ q.op = "patch"
           /\ table[q.id] = q.read
           /\ \A f \in DOMAIN q.patch : q.patch[f] # Null
           => Allowed(q.id, Merged(q.read, q))

(***************************************************************************)
(* No row changes but as some request asked: an overtaken PATCH does not   *)
(* put back columns it was not sent (exclude_unset, transactions.py:122),  *)
(* and no PATCH brings a deleted row back.                                 *)
(***************************************************************************)
ChangedAsAsked ==
    [][\A id \in Ids :
         /\ Here(id) /\ table'[id] # table[id] /\ table'[id] # Deleted =>
              \E r \in Requests :
                /\ req[r].op = "patch" /\ req[r].id = id
                /\ \A f \in DOMAIN table[id] :
                     table'[id][f] # table[id][f] =>
                       f \in DOMAIN req[r].patch /\ table'[id][f] = req[r].patch[f]
         /\ table[id] = Deleted => table'[id] = Deleted]_vars

(***************************************************************************)
(* Paging sees everything (transactions.py:27, 40-46): a client that reads *)
(* pages until one is short has read every transaction that was there when *)
(* it began, whatever has been added meanwhile, as long as none was        *)
(* deleted or moved and no two had one date.                               *)
(***************************************************************************)
ScanMissesNothing == scan.page = 0 => scan.from \subseteq scan.seen

=============================================================================
