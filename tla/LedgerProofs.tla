---------------------------- MODULE LedgerProofs ----------------------------
(***************************************************************************)
(* What Ledger promises, for any number of requests, rows, bodies, patches *)
(* and any page size.                                                      *)
(***************************************************************************)
EXTENDS Ledger, FiniteSetTheorems, TLAPS

\* A row of the table of id, as the handlers and the constraints leave it.
RowOK(id, row) ==
    /\ Allowed(id, row)
    /\ id \in Transactions => row \in TransactionRow
    /\ id \in Goals => row \in GoalRow

\* A PATCH whose handler has done its checks.
PatchOK(q) ==
    /\ q.id \in Ids
    /\ q.patch \in Patches[q.id]
    /\ RowOK(q.id, q.read)
    /\ Accepted(q.id, q.read, q.patch)

\* A request is about a row that has been made, in this state of the table.
RequestOK(rows, q) ==
    q # Idle =>
        /\ q.op \in {"patch", "delete", "refresh"}
        /\ q.id \in Ids /\ rows[q.id] # Unused
        /\ q.op = "patch" => PatchOK(q)

TableOK == /\ table = [id \in Ids |-> table[id]]
           /\ \A id \in Ids : Here(id) => RowOK(id, table[id])
RequestsOK == /\ req = [r \in Requests |-> req[r]]
              /\ \A r \in Requests : RequestOK(table, req[r])
ScanOK == scan \in [page : Nat, seen : SUBSET Transactions, from : SUBSET Transactions]

IInv == TableOK /\ RequestsOK /\ ScanOK

LEMMA Types == IInv => TypeOK
BY DEF IInv, TableOK, RequestsOK, ScanOK, RequestOK, RowOK, Allowed, TypeOK, Ids

----------------------------------------------------------------------------
\* What a POST inserts.
LEMMA BodyOK ==
    ASSUME NEW id \in Ids, NEW body \in Bodies[id], Allowed(id, body)
    PROVE  RowOK(id, body) /\ body \notin {Unused, Deleted}
<1>1. CASE id \in Transactions
  <2>1. body \in [type : TransactionType, category : STRING, date : Int]
    BY <1>1, LedgerAssumption
  <2>2. Fits(body.type, body.category)
    BY <1>1 DEF Allowed
  <2>3. body.category \in ExpenseCategory \cup IncomeCategory
    BY <2>2 DEF Fits
  <2>4. body \in TransactionRow
    BY <2>1, <2>3 DEF TransactionRow
  <2>5. id \notin Goals
    BY <1>1, LedgerAssumption
  <2> QED
    BY <2>4, <2>5 DEF RowOK, TransactionRow, Unused, Deleted
<1>2. CASE id \in Goals
  <2>1. body \in [category : ExpenseCategory, limit : Int] /\ id \notin Transactions
    BY <1>2, LedgerAssumption
  <2>2. body \in GoalRow
    BY <1>2, <2>1 DEF Allowed, GoalRow
  <2> QED
    BY <2>1, <2>2 DEF RowOK, GoalRow, Unused, Deleted
<1> QED
  BY <1>1, <1>2 DEF Ids

\* What an UPDATE that the constraints let through makes of a row.
LEMMA MergedOK ==
    ASSUME NEW row, NEW q, NEW id \in Ids, q.id = id, RowOK(id, row),
           q.patch \in Patches[id], Allowed(id, Merged(row, q))
    PROVE  RowOK(id, Merged(row, q)) /\ Merged(row, q) \notin {Unused, Deleted}
<1> DEFINE new == Merged(row, q)
<1>1. CASE id \in Transactions
  <2>1. row \in TransactionRow /\ id \notin Goals
    BY <1>1, LedgerAssumption DEF RowOK
  <2>2. DOMAIN row = {"type", "category", "date"}
    BY <2>1 DEF TransactionRow
  <2>3. new = [f \in {"type", "category", "date"} |->
                 IF f \in Written(q) THEN q.patch[f] ELSE row[f]]
    BY <2>2 DEF Merged
  <2>4. Fits(new.type, new.category)
    BY <1>1 DEF Allowed
  <2>5. new.type \in TransactionType /\ new.category \in ExpenseCategory \cup IncomeCategory
    BY <2>4 DEF Fits, TransactionType
  <2>6. new.date \in Int
    <3>1. new.date # Null
      BY <2>3 DEF Allowed
    <3>2. new.date = IF "date" \in Written(q) THEN q.patch["date"] ELSE row["date"]
      BY <2>3
    <3>3. row.date \in Int
      BY <2>1 DEF TransactionRow
    <3>4. "date" \in Written(q) => q.patch.date \in Int \cup {Null}
      BY <1>1, LedgerAssumption DEF Written
    <3> QED
      BY <3>1, <3>2, <3>3, <3>4
  <2>7. new \in TransactionRow
    BY <2>3, <2>5, <2>6 DEF TransactionRow
  <2> QED
    BY <2>1, <2>7 DEF RowOK, TransactionRow, Unused, Deleted
<1>2. CASE id \in Goals
  <2>1. row \in GoalRow /\ id \notin Transactions
    BY <1>2, LedgerAssumption DEF RowOK
  <2>2. DOMAIN row = {"category", "limit"}
    BY <2>1 DEF GoalRow
  <2>3. new = [f \in {"category", "limit"} |->
                 IF f \in Written(q) THEN q.patch[f] ELSE row[f]]
    BY <2>2 DEF Merged
  <2>4. new.category \in ExpenseCategory /\ new.limit \in Nat \ {0}
    BY <1>2 DEF Allowed
  <2>5. new \in GoalRow
    BY <2>3, <2>4 DEF GoalRow
  <2> QED
    BY <2>1, <2>5 DEF RowOK, GoalRow, Unused, Deleted
<1> QED
  BY <1>1, <1>2 DEF Ids

\* The requests other than r, and r itself if its new state is in order, stay in
\* order when no row that has been used becomes unused.
LEMMA RequestsKept ==
    ASSUME IInv, NEW r \in Requests, NEW q,
           req' = [req EXCEPT ![r] = q], RequestOK(table', q),
           \A id \in Ids : table[id] # Unused => table'[id] # Unused
    PROVE  RequestsOK'
<1>1. req' = [s \in Requests |-> IF s = r THEN q ELSE req[s]]
  BY DEF IInv, RequestsOK
<1>2. ASSUME NEW s \in Requests, s # r
      PROVE  RequestOK(table', req'[s])
  BY <1>1, <1>2 DEF IInv, RequestsOK, RequestOK, PatchOK
<1>3. RequestOK(table', req'[r])
  BY <1>1
<1> QED
  BY <1>1, <1>2, <1>3 DEF RequestsOK

LEMMA DoneOK ==
    ASSUME IInv, NEW r \in Requests, Done(r),
           \A id \in Ids : table[id] # Unused => table'[id] # Unused
    PROVE  RequestsOK'
<1>1. RequestOK(table', Idle)
  BY DEF RequestOK
<1> QED
  BY <1>1, RequestsKept DEF Done

LEMMA RefreshingOK ==
    ASSUME IInv, NEW r \in Requests, NEW id \in Ids, Refreshing(r, id), table'[id] # Unused,
           \A i \in Ids : table[i] # Unused => table'[i] # Unused
    PROVE  RequestsOK'
<1>1. RequestOK(table', [op |-> "refresh", id |-> id])
  BY DEF RequestOK
<1> QED
  BY <1>1, RequestsKept DEF Refreshing

LEMMA FollowedOK ==
    ASSUME ScanOK, NEW steady, FollowedIf(steady)
    PROVE  ScanOK'
BY DEF ScanOK, FollowedIf, NoScan

\* The rows of a page are transactions.
LEMMA PageOK ==
    ASSUME NEW order \in Orders, NEW page
    PROVE  Page(order, page) \subseteq Transactions
<1>1. order \in [1 .. Cardinality(Listed) -> Listed]
  BY DEF Orders, SetToSeqs
<1> QED
  BY <1>1 DEF Page, Listed

----------------------------------------------------------------------------
LEMMA InitOK == Init => IInv
BY DEF Init, IInv, TableOK, RequestsOK, ScanOK, RequestOK, NoScan, Here

LEMMA CreateKeeps ==
    ASSUME IInv, NEW r \in Requests, NEW id \in Ids, NEW body \in Bodies[id],
           Create(r, id, body)
    PROVE  IInv'
<1>1. RowOK(id, body) /\ body \notin {Unused, Deleted}
  BY BodyOK DEF Create
<1>2. table' = [i \in Ids |-> IF i = id THEN body ELSE table[i]]
  BY DEF Create, IInv, TableOK
<1>3. TableOK'
  BY <1>1, <1>2 DEF IInv, TableOK, Here
<1>4. RequestsOK'
  BY <1>1, <1>2, RefreshingOK DEF Create
<1>5. ScanOK'
  BY FollowedOK DEF Create, IInv
<1> QED
  BY <1>3, <1>4, <1>5 DEF IInv

LEMMA PatchReadKeeps ==
    ASSUME IInv, NEW r \in Requests, NEW id \in Ids, NEW patch \in Patches[id],
           PatchRead(r, id, patch)
    PROVE  IInv'
<1> DEFINE q == [op |-> "patch", id |-> id, patch |-> patch, read |-> table[id]]
<1>1. /\ req' = [req EXCEPT ![r] = q] /\ table' = table /\ scan' = scan
      /\ Here(id) /\ Accepted(id, table[id], patch)
  BY DEF PatchRead
<1>2. RowOK(id, table[id]) /\ table[id] # Unused
  BY <1>1 DEF IInv, TableOK, Here
<1>3. RequestOK(table', q)
  BY <1>1, <1>2 DEF RequestOK, PatchOK
<1>4. RequestsOK'
  <2> HIDE DEF q
  <2> QED
    BY <1>1, <1>3, RequestsKept
<1> QED
  BY <1>1, <1>4 DEF IInv, TableOK, ScanOK, Here

LEMMA PatchCommitKeeps ==
    ASSUME IInv, NEW r \in Requests, PatchCommit(r)
    PROVE  IInv'
<1> DEFINE q == req[r]
           id == q.id
           new == Merged(table[id], q)
<1>1. /\ q.op = "patch" /\ Here(id) /\ Allowed(id, new)
      /\ table' = [table EXCEPT ![id] = new]
      /\ Refreshing(r, id)
      /\ FollowedIf("date" \notin Written(q))
  BY DEF PatchCommit
<1>2. PatchOK(q) /\ id \in Ids
  BY <1>1 DEF IInv, RequestsOK, RequestOK, PatchOK, Idle
<1>3. RowOK(id, new) /\ new \notin {Unused, Deleted}
  <2>1. RowOK(id, table[id]) /\ q.patch \in Patches[id]
    BY <1>1, <1>2 DEF IInv, TableOK, PatchOK
  <2> QED
    BY <1>1, <1>2, <2>1, MergedOK
<1>4. table' = [i \in Ids |-> IF i = id THEN new ELSE table[i]]
  BY <1>1 DEF IInv, TableOK
<1> HIDE DEF new
<1>5. TableOK'
  BY <1>2, <1>3, <1>4 DEF IInv, TableOK, Here
<1>6. RequestsOK'
  BY <1>1, <1>2, <1>3, <1>4, RefreshingOK
<1>7. ScanOK'
  BY <1>1, FollowedOK DEF IInv
<1> QED
  BY <1>5, <1>6, <1>7 DEF IInv

LEMMA DeleteCommitKeeps ==
    ASSUME IInv, NEW r \in Requests, DeleteCommit(r)
    PROVE  IInv'
<1>1. req[r].id \in Ids
  BY DEF DeleteCommit, IInv, RequestsOK, RequestOK, Idle
<1>2. table' = [i \in Ids |-> IF i = req[r].id THEN Deleted ELSE table[i]]
  BY <1>1 DEF DeleteCommit, IInv, TableOK
<1>3. Deleted # Unused
  BY DEF Deleted, Unused
<1>4. TableOK'
  BY <1>2 DEF IInv, TableOK, Here
<1>5. RequestsOK'
  BY <1>2, <1>3, DoneOK DEF DeleteCommit
<1>6. ScanOK'
  BY FollowedOK DEF DeleteCommit, IInv
<1> QED
  BY <1>4, <1>5, <1>6 DEF IInv

LEMMA ScanKeeps ==
    ASSUME IInv, ScanStart \/ ScanPage \/ ScanEnd
    PROVE  IInv'
<1>1. table' = table /\ req' = req
  BY DEF ScanStart, ScanPage, ScanEnd
<1>2. TableOK' /\ RequestsOK'
  BY <1>1 DEF IInv, TableOK, RequestsOK, Here, RequestOK, PatchOK
<1>3. CASE ScanStart
  BY <1>2, <1>3 DEF ScanStart, IInv, ScanOK, Listed
<1>4. CASE ScanPage
  <2>1. PICK order \in Orders :
          LET rows == Page(order, scan.page)
          IN scan' = [scan EXCEPT
                        !.seen = @ \cup rows,
                        !.page = IF Cardinality(rows) = PageSize THEN @ + 1 ELSE 0]
    BY <1>4 DEF ScanPage
  <2>2. Page(order, scan.page) \subseteq Transactions
    BY PageOK
  <2>3. /\ scan.page \in Nat /\ scan.seen \subseteq Transactions
        /\ scan.from \subseteq Transactions
        /\ scan = [page |-> scan.page, seen |-> scan.seen, from |-> scan.from]
    BY DEF IInv, ScanOK
  <2> DEFINE next == IF Cardinality(Page(order, scan.page)) = PageSize
                     THEN scan.page + 1 ELSE 0
  <2>4. next \in Nat
    BY <2>3
  <2>5. scan' = [page |-> next, seen |-> scan.seen \cup Page(order, scan.page),
                 from |-> scan.from]
    BY <2>1, <2>3
  <2> QED
    BY <1>2, <2>2, <2>3, <2>4, <2>5 DEF IInv, ScanOK
<1>5. CASE ScanEnd
  BY <1>2, <1>5 DEF ScanEnd, IInv, ScanOK, NoScan
<1> QED
  BY <1>3, <1>4, <1>5

LEMMA StepOK == IInv /\ [Next]_vars => IInv'
<1> SUFFICES ASSUME IInv, [Next]_vars
             PROVE  IInv'
  OBVIOUS
<1>1. ASSUME NEW r \in Requests, NEW id \in Ids, NEW body \in Bodies[id],
             Create(r, id, body)
      PROVE  IInv'
  BY <1>1, CreateKeeps
<1>2. ASSUME NEW r \in Requests, NEW id \in Ids, NEW patch \in Patches[id],
             PatchRead(r, id, patch)
      PROVE  IInv'
  BY <1>2, PatchReadKeeps
<1>3. ASSUME NEW r \in Requests, NEW id \in Ids, DeleteRead(r, id)
      PROVE  IInv'
  <2>1. /\ req' = [req EXCEPT ![r] = [op |-> "delete", id |-> id]]
        /\ table' = table /\ scan' = scan /\ table[id] # Unused
    BY <1>3 DEF DeleteRead, Here
  <2>2. RequestOK(table', [op |-> "delete", id |-> id])
    BY <2>1 DEF RequestOK
  <2>3. RequestsOK'
    BY <2>1, <2>2, RequestsKept
  <2> QED
    BY <2>1, <2>3 DEF IInv, TableOK, ScanOK, Here
<1>4. ASSUME NEW r \in Requests, PatchCommit(r)
      PROVE  IInv'
  BY <1>4, PatchCommitKeeps
<1>5. ASSUME NEW r \in Requests, PatchOfNothing(r)
      PROVE  IInv'
  <2>1. req[r].id \in Ids /\ table[req[r].id] # Unused
    BY <1>5 DEF PatchOfNothing, IInv, RequestsOK, RequestOK, Idle
  <2>2. RequestsOK'
    BY <1>5, <2>1, RefreshingOK DEF PatchOfNothing
  <2> QED
    BY <1>5, <2>2 DEF PatchOfNothing, IInv, TableOK, ScanOK, Here
<1>6. ASSUME NEW r \in Requests, PatchFails(r) \/ End(r)
      PROVE  IInv'
  <2>1. Done(r) /\ table' = table /\ scan' = scan
    BY <1>6 DEF PatchFails, End
  <2>2. RequestsOK'
    BY <2>1, DoneOK
  <2> QED
    BY <2>1, <2>2 DEF IInv, TableOK, ScanOK, Here
<1>7. ASSUME NEW r \in Requests, DeleteCommit(r)
      PROVE  IInv'
  BY <1>7, DeleteCommitKeeps
<1>8. CASE ScanStart \/ ScanPage \/ ScanEnd
  BY <1>8, ScanKeeps
<1>9. CASE UNCHANGED vars
  BY <1>9 DEF vars, IInv, TableOK, RequestsOK, ScanOK, Here, RequestOK, PatchOK
<1> QED
  BY <1>1, <1>2, <1>3, <1>4, <1>5, <1>6, <1>7, <1>8, <1>9 DEF Next

----------------------------------------------------------------------------
(***************************************************************************)
(* Overlapping PATCHes, each checked against what it read, store no row    *)
(* that the enums do not allow (transactions.py:90-120).                   *)
(***************************************************************************)
THEOREM TypeCorrect == Spec => []TypeOK
BY InitOK, StepOK, Types, PTL DEF Spec

\* A PATCH without nulls writes what its handler validated.
LEMMA AcceptedIsAllowed ==
    ASSUME NEW r \in Requests, PatchOK(req[r]),
           \A f \in DOMAIN req[r].patch : req[r].patch[f] # Null
    PROVE  Allowed(req[r].id, Merged(req[r].read, req[r]))
<1> DEFINE q == req[r]
           id == q.id
           row == q.read
           new == Merged(row, q)
<1>1. /\ id \in Ids /\ q.patch \in Patches[id] /\ RowOK(id, row)
      /\ Accepted(id, row, q.patch)
  BY DEF PatchOK
<1>2. new = [f \in DOMAIN row |-> IF f \in Written(q) THEN q.patch[f] ELSE row[f]]
  BY DEF Merged
<1>3. ASSUME NEW f \in DOMAIN new
      PROVE  new[f] # Null /\ new[f] = Effective(row, q.patch, f)
  BY <1>1, <1>2 DEF RowOK, Allowed, Written, Effective
<1>4. CASE id \in Transactions
  <2>1. row \in TransactionRow /\ id \notin Goals
    BY <1>1, <1>4, LedgerAssumption DEF RowOK
  <2>2. DOMAIN row = {"type", "category", "date"}
    BY <2>1 DEF TransactionRow
  <2>3. new["type"] = Effective(row, q.patch, "type") /\ new["category"] = Effective(row, q.patch, "category")
    BY <1>2, <1>3, <2>2
  <2>4. Fits(new["type"], new["category"])
    BY <1>1, <1>4, <2>3 DEF Accepted
  <2>5. \A f \in DOMAIN new : new[f] # Null
    BY <1>3
  <2> QED
    BY <2>1, <2>4, <2>5 DEF Allowed
<1>5. CASE id \in Goals
  <2>1. row \in GoalRow /\ id \notin Transactions
    BY <1>1, <1>5, LedgerAssumption DEF RowOK
  <2>2. DOMAIN row = {"category", "limit"}
    BY <2>1 DEF GoalRow
  <2>3. DOMAIN q.patch \subseteq {"limit"}
    BY <1>1, <1>5, LedgerAssumption
  <2>4. new["category"] = row["category"] /\ row["category"] \in ExpenseCategory
    BY <1>2, <2>1, <2>2, <2>3 DEF Written, GoalRow
  <2>5. new["limit"] \in Nat \ {0}
    <3>1. CASE "limit" \in Written(q)
      <4>1. "limit" \in DOMAIN q.patch /\ q.patch["limit"] # Null
        BY <3>1 DEF Written
      <4>2. q.patch["limit"] \in Nat \ {0}
        BY <1>1, <1>5, <4>1 DEF Accepted
      <4> QED
        BY <1>2, <2>2, <3>1, <4>2
    <3>2. CASE "limit" \notin Written(q)
      BY <1>2, <2>1, <2>2, <3>2 DEF GoalRow
    <3> QED
      BY <3>1, <3>2
  <2>6. \A f \in DOMAIN new : new[f] # Null
    BY <1>3
  <2> QED
    BY <2>1, <2>4, <2>5, <2>6 DEF Allowed
<1> QED
  BY <1>1, <1>4, <1>5 DEF Ids

(***************************************************************************)
(* The handlers' checks are as strict as the tables'                       *)
(* (transactions.py:100-120, models/transactions.py:9-23).                 *)
(***************************************************************************)
THEOREM HandlersCheckEnough == Spec => []ChecksAgree
<1>1. IInv => ChecksAgree
  <2> SUFFICES ASSUME IInv, NEW r \in Requests, req[r].op = "patch",
                      \A f \in DOMAIN req[r].patch : req[r].patch[f] # Null
               PROVE  Allowed(req[r].id, Merged(req[r].read, req[r]))
    BY DEF ChecksAgree
  <2>1. PatchOK(req[r])
    BY DEF IInv, RequestsOK, RequestOK, Idle
  <2> QED
    BY <2>1, AcceptedIsAllowed
<1> QED
  BY InitOK, StepOK, <1>1, PTL DEF Spec

(***************************************************************************)
(* A row changes by a PATCH of that row, in the columns it was sent, to    *)
(* the values it was sent; a deleted row stays deleted.                    *)
(***************************************************************************)
THEOREM RowsChangeAsAsked == Spec => ChangedAsAsked
<1> DEFINE Asked(id) == \E r \in Requests :
                          /\ req[r].op = "patch" /\ req[r].id = id
                          /\ \A f \in DOMAIN table[id] :
                               table'[id][f] # table[id][f] =>
                                 f \in DOMAIN req[r].patch /\ table'[id][f] = req[r].patch[f]
           Kept(id) == /\ Here(id) /\ table'[id] # table[id] /\ table'[id] # Deleted => Asked(id)
                       /\ table[id] = Deleted => table'[id] = Deleted
<1>1. IInv /\ [Next]_vars => [\A id \in Ids : Kept(id)]_vars
  <2> SUFFICES ASSUME IInv, Next, NEW i \in Ids
               PROVE  Kept(i)
    OBVIOUS
  <2>1. CASE table' = table
    BY <2>1
  <2>2. ASSUME NEW r \in Requests, NEW id \in Ids, NEW body \in Bodies[id],
               Create(r, id, body)
        PROVE  Kept(i)
    <3>1. table' = [j \in Ids |-> IF j = id THEN body ELSE table[j]] /\ table[id] = Unused
      BY <2>2 DEF Create, IInv, TableOK
    <3> QED
      BY <3>1 DEF Here, Unused, Deleted
  <2>3. ASSUME NEW r \in Requests, PatchCommit(r)
        PROVE  Kept(i)
    <3> DEFINE q == req[r]
    <3>1. /\ q.op = "patch" /\ Here(q.id)
          /\ table' = [table EXCEPT ![q.id] = Merged(table[q.id], q)]
      BY <2>3 DEF PatchCommit
    <3>2. CASE i = q.id
      <4>1. table'[i] = [f \in DOMAIN table[i] |->
                           IF f \in Written(q) THEN q.patch[f] ELSE table[i][f]]
        BY <3>1, <3>2 DEF IInv, TableOK, Merged
      <4>2. Asked(i)
        BY <3>1, <3>2, <4>1 DEF Written
      <4> QED
        BY <3>1, <3>2, <4>2 DEF Here
    <3>3. CASE i # q.id
      BY <3>1, <3>3 DEF IInv, TableOK
    <3> QED
      BY <3>2, <3>3
  <2>4. ASSUME NEW r \in Requests, DeleteCommit(r)
        PROVE  Kept(i)
    <3>1. table' = [table EXCEPT ![req[r].id] = Deleted]
      BY <2>4 DEF DeleteCommit
    <3> QED
      BY <3>1 DEF IInv, TableOK
  <2> QED
    BY <2>1, <2>2, <2>3, <2>4 DEF Next, PatchRead, DeleteRead, PatchOfNothing, PatchFails,
       End, ScanStart, ScanPage, ScanEnd
<1> QED
  BY InitOK, StepOK, <1>1, PTL DEF Spec, ChangedAsAsked

----------------------------------------------------------------------------
(***************************************************************************)
(* Reading GET /transactions page after page misses no transaction, for    *)
(* any number of transactions, insertions meanwhile and any page size.     *)
(***************************************************************************)
Date(t) == table[t].date

\* The transactions that the list has before t.
Before(t) == {s \in Listed : Date(s) > Date(t)}

DatesDiffer == \A s, t \in Listed : Date(s) = Date(t) => s = t

(***************************************************************************)
(* What the scan has not seen yet is beyond the pages it has read: new     *)
(* rows move it only further back.                                         *)
(***************************************************************************)
ScanInv ==
    /\ IsFiniteSet(Listed)
    /\ scan # NoScan => DatesDiffer /\ scan.from \subseteq Listed
    /\ scan.page > 0 => \A x \in scan.from \ scan.seen :
                          Offset(scan.page) <= Cardinality(Before(x))
    /\ ScanMissesNothing

LEMMA DatesInt == IInv => \A t \in Listed : Date(t) \in Int
BY DEF IInv, TableOK, RowOK, Listed, Date, TransactionRow, Ids

LEMMA BeforeFinite ==
    ASSUME IsFiniteSet(Listed), NEW x
    PROVE  IsFiniteSet(Before(x)) /\ Cardinality(Before(x)) \in Nat
<1>1. Before(x) \subseteq Listed
  BY DEF Before
<1> QED
  BY <1>1, FS_Subset, FS_CardinalityType

----------------------------------------------------------------------------
\* A part of a list without repetitions has as many elements as places.
LEMMA PartSize ==
    ASSUME NEW f, NEW S, IsFiniteSet(S),
           \A i, j \in S : i # j => f[i] # f[j]
    PROVE  Cardinality({f[i] : i \in S}) = Cardinality(S)
<1> DEFINE T == {f[i] : i \in S}
           g == [i \in S |-> f[i]]
<1>1. g \in Bijection(S, T)
  <2>1. g \in [S -> T] /\ \A i, j \in S : g[i] = g[j] => i = j
    OBVIOUS
  <2>2. \A t \in T : \E i \in S : g[i] = t
    OBVIOUS
  <2> QED
    BY <2>1, <2>2 DEF Bijection, Injection, Surjection, IsInjective
<1>2. ExistsBijection(S, T)
  BY <1>1 DEF ExistsBijection
<1> HIDE DEF T
<1>3. Cardinality(T) = Cardinality(S)
  BY <1>2, FS_Bijection
<1> QED
  BY <1>3 DEF T

LEMMA StretchSize ==
    ASSUME NEW f, NEW a \in Int, NEW b \in Int, a <= b + 1,
           \A i, j \in a .. b : i # j => f[i] # f[j]
    PROVE  Cardinality({f[i] : i \in a .. b}) = b - a + 1
<1> DEFINE S == a .. b
<1>1. IsFiniteSet(S) /\ Cardinality(S) = IF a > b THEN 0 ELSE b - a + 1
  BY FS_Interval
<1>2. Cardinality(S) = b - a + 1
  BY <1>1
<1>3. \A i, j \in S : i # j => f[i] # f[j]
  OBVIOUS
<1>4. Cardinality({f[i] : i \in S}) = Cardinality(S)
  <2> HIDE DEF S
  <2> QED
    BY <1>1, <1>3, PartSize
<1> QED
  BY <1>2, <1>4

LEMMA BeginningSize ==
    ASSUME NEW f, NEW b \in Nat,
           \A i, j \in 1 .. b : i # j => f[i] # f[j]
    PROVE  Cardinality({f[i] : i \in 1 .. b}) = b
<1> DEFINE S == 1 .. b
<1>1. IsFiniteSet(S) /\ Cardinality(S) = IF 1 > b THEN 0 ELSE b - 1 + 1
  BY FS_Interval
<1>2. Cardinality(S) = b
  BY <1>1
<1>3. \A i, j \in S : i # j => f[i] # f[j]
  OBVIOUS
<1>4. Cardinality({f[i] : i \in S}) = Cardinality(S)
  <2> HIDE DEF S
  <2> QED
    BY <1>1, <1>3, PartSize
<1> QED
  BY <1>2, <1>4

\* Each order the database may answer in has every listed row in one place.
LEMMA OrderIsComplete ==
    ASSUME IsFiniteSet(Listed), NEW order \in Orders
    PROVE  \E n \in Nat :
             /\ DOMAIN order = 1 .. n
             /\ \A i \in 1 .. n : order[i] \in Listed
             /\ \A i, j \in 1 .. n : i # j => order[i] # order[j]
             /\ \A i, j \in 1 .. n : i < j => Date(order[i]) >= Date(order[j])
             /\ \A t \in Listed : \E i \in 1 .. n : t = order[i]
<1> DEFINE n == Cardinality(Listed)
           T == {order[i] : i \in 1 .. n}
<1>1. n \in Nat
  BY FS_CardinalityType
<1>2. /\ order \in [1 .. n -> Listed]
      /\ \A i, j \in 1 .. n : i # j => order[i] # order[j]
      /\ \A i, j \in DOMAIN order : i < j => Date(order[i]) >= Date(order[j])
  BY DEF Orders, SetToSeqs, Date
<1> HIDE DEF n
<1>3. DOMAIN order = 1 .. n /\ T \subseteq Listed
  BY <1>2
<1>4. Cardinality(T) = n
  BY <1>1, <1>2, BeginningSize
<1>5. T = Listed
  BY <1>3, <1>4, FS_Subset DEF n
<1> QED
  BY <1>1, <1>2, <1>3, <1>5

\* The row in place i has i - 1 rows before it.
LEMMA PlaceCounts ==
    ASSUME IInv, DatesDiffer, NEW order, NEW n \in Nat, NEW i \in 1 .. n,
           \A k \in 1 .. n : order[k] \in Listed,
           \A j, k \in 1 .. n : j # k => order[j] # order[k],
           \A j, k \in 1 .. n : j < k => Date(order[j]) >= Date(order[k]),
           \A t \in Listed : \E k \in 1 .. n : t = order[k]
    PROVE  Cardinality(Before(order[i])) = i - 1
<1>1. \A k \in 1 .. n : Date(order[k]) \in Int
  BY DatesInt
<1>2. ASSUME NEW k \in 1 .. i - 1
      PROVE  order[k] \in Before(order[i])
  <2>1. k \in 1 .. n /\ k < i
    OBVIOUS
  <2>2. order[k] \in Listed /\ order[i] \in Listed /\ order[k] # order[i]
    BY <2>1
  <2>3. Date(order[k]) >= Date(order[i]) /\ Date(order[k]) # Date(order[i])
    BY <2>1, <2>2 DEF DatesDiffer
  <2> QED
    BY <1>1, <2>1, <2>2, <2>3 DEF Before
<1>3. ASSUME NEW t \in Before(order[i])
      PROVE  \E k \in 1 .. i - 1 : t = order[k]
  <2>1. t \in Listed /\ Date(t) > Date(order[i])
    BY DEF Before
  <2>2. PICK k \in 1 .. n : t = order[k]
    BY <2>1
  <2>3. ~(i < k) /\ i # k
    BY <1>1, <2>1, <2>2
  <2> QED
    BY <2>2, <2>3
<1>4. Before(order[i]) = {order[k] : k \in 1 .. i - 1}
  BY <1>2, <1>3
<1> DEFINE m == i - 1
           T == {order[k] : k \in 1 .. m}
<1>5. \A j, k \in 1 .. m : j # k => order[j] # order[k]
  OBVIOUS
<1>6. m \in Nat
  OBVIOUS
<1>7. Cardinality(T) = m
  <2> HIDE DEF m
  <2> QED
    BY <1>5, <1>6, BeginningSize
<1> QED
  BY <1>4, <1>7

----------------------------------------------------------------------------
LEMMA OffsetSteps ==
    ASSUME NEW page \in Nat \ {0}
    PROVE  /\ Offset(page) \in Nat
           /\ Offset(page + 1) = Offset(page) + PageSize
<1>1. PageSize \in Nat
  BY LedgerAssumption
<1>2. \A p, q \in Nat : p * q \in Nat /\ (p + 1) * q = p * q + q
  OBVIOUS
<1>3. page - 1 \in Nat /\ page + 1 - 1 = (page - 1) + 1
  OBVIOUS
<1> QED
  BY <1>1, <1>2, <1>3 DEF Offset

(***************************************************************************)
(* A page read: rows beyond it have a page's worth more before them, and   *)
(* there are none if it is short.                                          *)
(***************************************************************************)
LEMMA PageRead ==
    ASSUME IInv, ScanInv, ScanPage
    PROVE  ScanInv'
<1>1. /\ scan.page \in Nat \ {0} /\ scan # NoScan
      /\ DatesDiffer /\ scan.from \subseteq Listed
      /\ table' = table
  BY DEF ScanPage, ScanInv, IInv, ScanOK, NoScan
<1>2. PICK order \in Orders :
        LET rows == Page(order, scan.page)
        IN scan' = [scan EXCEPT
                      !.seen = @ \cup rows,
                      !.page = IF Cardinality(rows) = PageSize THEN @ + 1 ELSE 0]
  BY DEF ScanPage
<1> DEFINE rows == Page(order, scan.page)
           first == Offset(scan.page) + 1
           last == Offset(scan.page) + PageSize
<1>3. PICK n \in Nat :
        /\ DOMAIN order = 1 .. n
        /\ \A i \in 1 .. n : order[i] \in Listed
        /\ \A i, j \in 1 .. n : i # j => order[i] # order[j]
        /\ \A i, j \in 1 .. n : i < j => Date(order[i]) >= Date(order[j])
        /\ \A t \in Listed : \E i \in 1 .. n : t = order[i]
  BY OrderIsComplete DEF ScanInv
<1>4. Offset(scan.page) \in Nat /\ PageSize \in Nat \ {0}
  BY <1>1, OffsetSteps, LedgerAssumption
<1>5. /\ scan'.seen = scan.seen \cup rows /\ scan'.from = scan.from
      /\ scan'.page = IF Cardinality(rows) = PageSize THEN scan.page + 1 ELSE 0
  <2>1. scan = [page |-> scan.page, seen |-> scan.seen, from |-> scan.from]
    BY DEF IInv, ScanOK
  <2> QED
    BY <1>2, <2>1
\* What is not on this page nor on one before comes after it.
<1>6. ASSUME NEW x \in scan.from \ (scan.seen \cup rows)
      PROVE  \E i \in 1 .. n : x = order[i] /\ last < i /\ Cardinality(Before(x)) = i - 1
  <2>1. PICK i \in 1 .. n : x = order[i]
    BY <1>1, <1>3
  <2>2. Cardinality(Before(x)) = i - 1
    BY <1>1, <1>3, <2>1, PlaceCounts
  <2>3. Offset(scan.page) <= i - 1
    BY <1>1, <2>2 DEF ScanInv
  <2>4. ~(i > Offset(scan.page) /\ i <= last)
    BY <1>3, <1>6, <2>1 DEF Page
  <2> QED
    BY <1>4, <2>1, <2>2, <2>3, <2>4
\* If there is such a row, the page is full.
<1>7. ASSUME NEW i \in 1 .. n, last < i
      PROVE  Cardinality(rows) = PageSize
  <2>1. first .. last \subseteq 1 .. n
    BY <1>4, <1>7
  <2>2. rows = {order[k] : k \in first .. last}
    BY <1>3, <1>4, <2>1 DEF Page
  <2>3. \A j, k \in first .. last : j # k => order[j] # order[k]
    BY <1>3, <2>1
  <2> DEFINE T == {order[k] : k \in first .. last}
  <2>4. first \in Int /\ last \in Int /\ first <= last + 1 /\ last - first + 1 = PageSize
    BY <1>4
  <2>5. Cardinality(T) = last - first + 1
    <3> HIDE DEF first, last
    <3> QED
      BY <2>3, <2>4, StretchSize
  <2>6. Cardinality(T) = PageSize
    <3> HIDE DEF T, first, last
    <3> QED
      BY <2>4, <2>5
  <2> QED
    BY <2>2, <2>6
<1>8. Listed' = Listed /\ DatesDiffer' /\ \A x : Before(x)' = Before(x)
  BY <1>1 DEF Listed, Here, DatesDiffer, Before, Date
<1>9. scan'.page > 0 =>
        \A x \in scan'.from \ scan'.seen : Offset(scan'.page) <= Cardinality(Before(x))
  <2> SUFFICES ASSUME scan'.page > 0, NEW x \in scan'.from \ scan'.seen
               PROVE  Offset(scan'.page) <= Cardinality(Before(x))
    OBVIOUS
  <2>1. Offset(scan'.page) = last
    BY <1>1, <1>5, OffsetSteps
  <2>2. x \in scan.from \ (scan.seen \cup rows)
    BY <1>5
  <2> HIDE DEF last, rows
  <2>3. PICK i \in 1 .. n : x = order[i] /\ last < i /\ Cardinality(Before(x)) = i - 1
    BY <1>6, <2>2
  <2>4. last \in Int
    BY <1>4 DEF last
  <2> QED
    BY <2>1, <2>3, <2>4
<1>10. ScanMissesNothing'
  <2> SUFFICES ASSUME scan'.page = 0, NEW x \in scan.from \ (scan.seen \cup rows)
               PROVE  FALSE
    BY <1>5 DEF ScanMissesNothing
  <2>1. Cardinality(rows) = PageSize
    BY <1>6, <1>7
  <2> QED
    BY <1>1, <1>5, <2>1
<1> QED
  BY <1>1, <1>5, <1>8, <1>9, <1>10 DEF ScanInv, Offset

----------------------------------------------------------------------------
\* The list is as it was, and the scan goes on or is given up.
LEMMA SameList ==
    ASSUME ScanInv, Listed' = Listed, \A t \in Listed : Date(t)' = Date(t),
           scan' = scan \/ scan' = NoScan
    PROVE  ScanInv'
<1>1. \A x \in Listed : Before(x)' = Before(x)
  BY DEF Before
<1>2. CASE scan' = NoScan
  BY <1>2 DEF ScanInv, NoScan, ScanMissesNothing
<1>3. CASE scan' = scan /\ scan # NoScan
  BY <1>1, <1>3 DEF ScanInv, ScanMissesNothing, DatesDiffer, Offset
<1> QED
  BY <1>2, <1>3

LEMMA CreateKeepsScan ==
    ASSUME IInv, ScanInv, NEW r \in Requests, NEW id \in Ids, NEW body \in Bodies[id],
           Create(r, id, body)
    PROVE  ScanInv'
<1>1. /\ table' = [i \in Ids |-> IF i = id THEN body ELSE table[i]]
      /\ table[id] = Unused /\ body \notin {Unused, Deleted}
  BY BodyOK DEF Create, IInv, TableOK
<1>2. CASE id \in Goals
  <2>1. id \notin Transactions
    BY <1>2, LedgerAssumption
  <2>2. Listed' = Listed /\ \A t \in Listed : Date(t)' = Date(t)
    BY <1>1, <2>1 DEF Listed, Here, Date, Ids
  <2> QED
    BY <2>2, SameList DEF Create, FollowedIf
<1>3. CASE id \in Transactions
  <2>1. Listed' = Listed \cup {id} /\ id \notin Listed
    BY <1>1, <1>3 DEF Listed, Here, Ids
  <2>2. Date(id)' = body.date /\ \A t \in Listed : Date(t)' = Date(t)
    BY <1>1, <1>3, <2>1 DEF Date, Listed, Ids
  <2>3. IsFiniteSet(Listed')
    BY <2>1, FS_AddElement DEF ScanInv
  <2>4. CASE scan' = NoScan
    BY <2>3, <2>4 DEF ScanInv, NoScan, ScanMissesNothing
  <2>5. CASE scan' = scan /\ scan # NoScan
    <3>1. id \notin Goals
      BY <1>3, LedgerAssumption
    <3>2. \A t \in Listed : Date(t) # body.date
      BY <2>5, <3>1 DEF Create, FollowedIf, Date
    <3>3. DatesDiffer' /\ scan.from \subseteq Listed'
      BY <2>1, <2>2, <2>5, <3>2 DEF ScanInv, DatesDiffer
    <3>4. ASSUME NEW x \in scan.from, x \notin scan.seen, scan.page > 0
          PROVE  Offset(scan.page) <= Cardinality(Before(x)')
      <4>1. x \in Listed
        BY <2>5, <3>4 DEF ScanInv
      <4>2. Before(x) \subseteq Before(x)' /\ Before(x)' \subseteq Listed'
        BY <2>1, <2>2, <4>1 DEF Before
      <4>3. /\ IsFiniteSet(Before(x)') /\ Cardinality(Before(x)') \in Nat
            /\ Cardinality(Before(x)) <= Cardinality(Before(x)')
        BY <2>3, <4>2, FS_Subset, FS_CardinalityType
      <4>4. Offset(scan.page) <= Cardinality(Before(x))
        BY <3>4 DEF ScanInv
      <4>5. Cardinality(Before(x)) \in Nat
        BY BeforeFinite DEF ScanInv
      <4>6. Offset(scan.page) \in Int
        BY <3>4, OffsetSteps DEF IInv, ScanOK
      <4> QED
        BY <4>3, <4>4, <4>5, <4>6
    <3> QED
      BY <2>3, <2>5, <3>3, <3>4 DEF ScanInv, ScanMissesNothing, Offset
  <2> QED
    BY <2>4, <2>5 DEF Create, FollowedIf
<1> QED
  BY <1>2, <1>3 DEF Ids

LEMMA PatchKeepsScan ==
    ASSUME IInv, ScanInv, NEW r \in Requests, PatchCommit(r)
    PROVE  ScanInv'
<1> DEFINE q == req[r]
           id == q.id
           new == Merged(table[id], q)
<1>1. /\ q.op = "patch" /\ Here(id) /\ Allowed(id, new)
      /\ table' = [table EXCEPT ![id] = new]
      /\ FollowedIf("date" \notin Written(q))
  BY DEF PatchCommit
<1>2. PatchOK(q) /\ id \in Ids
  BY <1>1 DEF IInv, RequestsOK, RequestOK, PatchOK, Idle
<1>3. RowOK(id, table[id]) /\ q.patch \in Patches[id]
  BY <1>1, <1>2 DEF IInv, TableOK, PatchOK
<1>4. new \notin {Unused, Deleted}
  BY <1>1, <1>2, <1>3, MergedOK
<1>5. table' = [i \in Ids |-> IF i = id THEN new ELSE table[i]]
  BY <1>1 DEF IInv, TableOK
<1>6. Listed' = Listed
  <2> HIDE DEF new
  <2> QED
    BY <1>1, <1>2, <1>4, <1>5 DEF Listed, Here, Ids
<1>7. IsFiniteSet(Listed')
  BY <1>6 DEF ScanInv
<1>8. CASE "date" \in Written(q)
  <2>1. scan' = NoScan
    BY <1>1, <1>8 DEF FollowedIf
  <2> QED
    BY <1>7, <2>1 DEF ScanInv, NoScan, ScanMissesNothing
<1>9. CASE "date" \notin Written(q)
  <2>1. id \in Transactions => new["date"] = table[id]["date"]
    <3>1. id \in Transactions => "date" \in DOMAIN table[id]
      BY <1>3 DEF RowOK, TransactionRow
    <3> QED
      BY <1>9, <3>1 DEF Merged
  <2>2. \A t \in Listed : Date(t)' = Date(t)
    <3> HIDE DEF new
    <3> QED
      BY <1>5, <2>1 DEF Date, Listed, Ids
  <2>3. scan' = scan
    BY <1>1, <1>9 DEF FollowedIf
  <2> QED
    BY <1>6, <2>2, <2>3, SameList
<1> QED
  BY <1>8, <1>9

LEMMA DeleteKeepsScan ==
    ASSUME IInv, ScanInv, NEW r \in Requests, DeleteCommit(r)
    PROVE  ScanInv'
<1> DEFINE id == req[r].id
<1>1. id \in Ids
  BY DEF DeleteCommit, IInv, RequestsOK, RequestOK, Idle
<1>2. table' = [i \in Ids |-> IF i = id THEN Deleted ELSE table[i]]
  BY <1>1 DEF DeleteCommit, IInv, TableOK
<1>3. CASE id \in Goals
  <2>1. id \notin Transactions
    BY <1>3, LedgerAssumption
  <2>2. Listed' = Listed /\ \A t \in Listed : Date(t)' = Date(t)
    BY <1>2, <2>1 DEF Listed, Here, Date, Ids
  <2> QED
    BY <2>2, SameList DEF DeleteCommit, FollowedIf
<1>4. CASE id \notin Goals
  <2>1. scan' = NoScan
    BY <1>4 DEF DeleteCommit, FollowedIf
  <2>2. Listed' \subseteq Listed
    BY <1>2 DEF Listed, Here, Ids
  <2>3. IsFiniteSet(Listed')
    BY <2>2, FS_Subset DEF ScanInv
  <2> QED
    BY <2>1, <2>3 DEF ScanInv, NoScan, ScanMissesNothing
<1> QED
  BY <1>3, <1>4

LEMMA ScanInitOK == Init => ScanInv
<1> SUFFICES ASSUME Init PROVE ScanInv
  OBVIOUS
<1>1. Listed = {} /\ scan = NoScan
  BY DEF Init, Listed, Here, Ids
<1> QED
  BY <1>1, FS_EmptySet DEF ScanInv, NoScan, ScanMissesNothing

LEMMA ScanStepOK == IInv /\ ScanInv /\ [Next]_vars => ScanInv'
<1> SUFFICES ASSUME IInv, ScanInv, [Next]_vars
             PROVE  ScanInv'
  OBVIOUS
<1>1. ASSUME table' = table, scan' = scan \/ scan' = NoScan
      PROVE  ScanInv'
  BY <1>1, SameList DEF Listed, Here, Date
<1>2. CASE ScanStart
  <2>1. table' = table /\ scan' = [page |-> 1, seen |-> {}, from |-> Listed] /\ DatesDiffer
    BY <1>2 DEF ScanStart, DatesDiffer, Date
  <2>2. Listed' = Listed /\ DatesDiffer' /\ \A x : Before(x)' = Before(x)
    BY <2>1 DEF Listed, Here, DatesDiffer, Before, Date
  <2>3. \A x : Cardinality(Before(x)) \in Nat
    BY BeforeFinite DEF ScanInv
  <2>4. Offset(1) = 0
    BY LedgerAssumption DEF Offset
  <2>5. \A x : Offset(scan'.page) <= Cardinality(Before(x))
    BY <2>1, <2>3, <2>4
  <2> QED
    BY <2>1, <2>2, <2>5 DEF ScanInv, ScanMissesNothing, Offset
<1>3. CASE ScanPage
  BY <1>3, PageRead
<1>4. CASE ScanEnd
  BY <1>1, <1>4 DEF ScanEnd
<1>5. ASSUME NEW r \in Requests, NEW id \in Ids, NEW body \in Bodies[id],
             Create(r, id, body)
      PROVE  ScanInv'
  BY <1>5, CreateKeepsScan
<1>6. ASSUME NEW r \in Requests, PatchCommit(r)
      PROVE  ScanInv'
  BY <1>6, PatchKeepsScan
<1>7. ASSUME NEW r \in Requests, DeleteCommit(r)
      PROVE  ScanInv'
  BY <1>7, DeleteKeepsScan
<1>8. CASE UNCHANGED <<table, scan>>
  BY <1>1, <1>8
<1> QED
  BY <1>2, <1>3, <1>4, <1>5, <1>6, <1>7, <1>8
     DEF Next, PatchRead, DeleteRead, PatchOfNothing, PatchFails, End, vars

(***************************************************************************)
(* A client that reads pages until one is short has read every transaction *)
(* that was there when it began (transactions.py:27, 40-46).               *)
(***************************************************************************)
THEOREM PagingIsComplete == Spec => []ScanMissesNothing
<1>1. Init => IInv /\ ScanInv
  BY InitOK, ScanInitOK
<1>2. (IInv /\ ScanInv) /\ [Next]_vars => (IInv /\ ScanInv)'
  BY StepOK, ScanStepOK
<1>3. ScanInv => ScanMissesNothing
  BY DEF ScanInv
<1> QED
  BY <1>1, <1>2, <1>3, PTL DEF Spec

=============================================================================
