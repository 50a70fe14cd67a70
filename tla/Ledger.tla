------------------------------- MODULE Ledger -------------------------------
(***************************************************************************)
(* The write handlers of internal/server over the store: every HTTP        *)
(* request runs in a goroutine of its own, and reads and writes the        *)
(* database one statement at a time.  Nothing is held between two          *)
(* statements of a handler but what the handler read, except inside the    *)
(* two database transactions the store opens, CreateTransfer and           *)
(* Imports.Commit, whose rows stay unseen until they commit and whose      *)
(* accounts stay locked FOR KEY SHARE meanwhile.                           *)
(***************************************************************************)
EXTENDS Schema

CONSTANTS Menu,       \* the requests clients may send
          InitialDB   \* the database earlier requests left

(* What a client sends: a PATCH names the fields it sets in `fields`; a    *)
(* category of NULL is none (POST) or clearCategory (PATCH).               *)
Op == {"createAccount", "updateAccount", "deleteAccount",
       "createCategory", "updateCategory", "deleteCategory",
       "createTransaction", "updateTransaction", "deleteTransaction",
       "createTransfer", "commitImport", "revertImport",
       "upsertSnapshot", "deleteSnapshot"}

Field == {"name", "type", "opening", "archived",
          "date", "amount", "payee", "category"}

CsvRow == [date: Date, amount: Int \ {0}, payee: Payee]

Input == [op: Op, user: User, id: Id \cup {NULL}, account: Id \cup {NULL},
          peer: Id \cup {NULL}, category: Id \cup {NULL}, fields: SUBSET Field,
          date: Date, amount: Int, payee: Payee, name: Name,
          type: AccountType, kind: Kind, archived: BOOLEAN, rows: Seq(CsvRow)]

ASSUME MenuAssumption == Menu \subseteq Input

(* The row a request is about is named in its path, by a uuid. *)
NamesRow == {"updateAccount", "deleteAccount", "updateCategory", "deleteCategory",
             "updateTransaction", "deleteTransaction", "revertImport", "deleteSnapshot"}

ASSUME PathAssumption == \A q \in Menu : q.op \in NamesRow => q.id # NULL

(* Ids are named for their row's user in the database we start from. *)
NamedFor(user, id) == id = NULL \/ id[1] = user

ASSUME InitialDBAssumption ==
  /\ InitialDB \in Database
  /\ \A x \in InitialDB.accounts \cup InitialDB.categories : NamedFor(x.owner, x.id)
  /\ \A x \in InitialDB.batches \cup InitialDB.snapshots :
       NamedFor(x.owner, x.id) /\ NamedFor(x.owner, x.account)
  /\ \A t \in InitialDB.transactions :
       \A id \in {t.id, t.account, t.category, t.group, t.batch} : NamedFor(t.owner, id)
  /\ OwnersAgreeIn(InitialDB)
  /\ ReferencesLiveIn(InitialDB)
  /\ HashCurrentIn(InitialDB)

(* A transfer leg has no category (and nothing gives it one). *)
LegsPlainIn(d) == \A t \in d.transactions : t.group # NULL => t.category = NULL

ASSUME InitialKeysAssumption == KeysIn(InitialDB) /\ LegsPlainIn(InitialDB)

VARIABLES db,     \* the committed database
          in,     \* in[r]: what request r asks for
          pc,     \* pc[r]: the statement r's handler runs next
          row,    \* row[r]: the row an update handler loaded and patched
          open,   \* open[r]: what r's database transaction wrote so far
          resp    \* resp[r]: the answer sent

vars == <<db, in, pc, row, open, resp>>

Label == {"start", "peer", "category", "reassign", "write", "batch", "rows",
          "commit", "done"}

Answer == {"none", "created", "ok", "no_content", "bad_request", "not_found",
           "conflict", "error"}

NothingOpen == [batches |-> {}, transactions |-> <<>>]

TypeOK ==
  /\ db \in Database
  /\ in \in [Request -> Input]
  /\ pc \in [Request -> Label]
  /\ row \in [Request -> Transaction \cup Account \cup Category \cup {NULL}]
  /\ open \in [Request -> [batches: SUBSET Batch, transactions: Seq(Transaction)]]
  /\ resp \in [Request -> Answer]

Init ==
  /\ db = InitialDB
  /\ in \in [Request -> Menu]
  /\ pc = [r \in Request |-> "start"]
  /\ row = [r \in Request |-> NULL]
  /\ open = [r \in Request |-> NothingOpen]
  /\ resp = [r \in Request |-> "none"]

-----------------------------------------------------------------------------
(* Moving a handler along. *)

At(r, op, label) == in[r].op = op /\ pc[r] = label

Goto(r, label) == pc' = [pc EXCEPT ![r] = label] /\ UNCHANGED <<in, resp>>

Respond(r, answer) ==
  /\ pc' = [pc EXCEPT ![r] = "done"]
  /\ resp' = [resp EXCEPT ![r] = answer]
  /\ UNCHANGED in

(* One statement changes the database and the handler answers. *)
Write(r, new, answer) == db' = new /\ Respond(r, answer) /\ UNCHANGED <<row, open>>

Refuse(r, answer) == Respond(r, answer) /\ UNCHANGED <<db, row, open>>

Mine(table, r) == Find(table, in[r].user, in[r].id)

-----------------------------------------------------------------------------
(* The open database transactions and the rows they lock. *)

Staged(r) == {open[r].transactions[k] : k \in DOMAIN open[r].transactions}

(* A slip: a DELETE that does not wait for key-share locks. *)
KeyShared_Never(account) == FALSE

(* Some open transaction inserted a row that references the account. *)
KeyShared(account) ==
  \E r \in Request : \E t \in Staged(r) \cup open[r].batches : t.account = account

(* The next row of r's open transaction is inserted; a missing account is a *)
(* foreign key violation, and the deferred Rollback drops what was staged.  *)
Stage(r, t, next) ==
  \/ /\ AccountLive(db, t.account)
     /\ open' = [open EXCEPT ![r].transactions = Append(@, t)]
     /\ Goto(r, next)
     /\ UNCHANGED <<db, row>>
  \/ /\ ~AccountLive(db, t.account)
     /\ open' = [open EXCEPT ![r] = NothingOpen]
     /\ Respond(r, "error")
     /\ UNCHANGED <<db, row>>

Commit(r) ==
  /\ pc[r] = "commit"
  /\ db' = [db EXCEPT !.batches = @ \cup open[r].batches,
                      !.transactions = @ \cup Staged(r)]
  /\ open' = [open EXCEPT ![r] = NothingOpen]
  /\ Respond(r, "created")
  /\ UNCHANGED row

(* A slip: no deferred Rollback, the connection keeps its open transaction. *)
Abort_KeepsOpen(r) ==
  /\ pc[r] \notin {"start", "done"}
  /\ Respond(r, "error")
  /\ UNCHANGED <<db, row, open>>

(* The client goes away, a statement fails or the process dies while the   *)
(* handler is between two statements: what was committed stays, what was   *)
(* open is rolled back.                                                    *)
Abort(r) ==
  /\ pc[r] \notin {"start", "done"}
  /\ open' = [open EXCEPT ![r] = NothingOpen]
  /\ Respond(r, "error")
  /\ UNCHANGED <<db, row>>

-----------------------------------------------------------------------------
(* ownAccount and ownCategory, the checks the creating handlers share. *)

NeedsAccount == {"createTransaction", "createTransfer", "commitImport",
                 "upsertSnapshot"}

(* A slip: the transfer handler's check, and none for a plain transaction. *)
Malformed_TransfersOnly(q) ==
  q.op = "createTransfer" /\ (q.amount <= 0 \/ q.account = q.peer)

(* What createTransaction and createTransfer refuse before any statement. *)
Malformed(q) ==
  \/ q.op = "createTransaction" /\ q.amount = 0
  \/ q.op = "createTransfer" /\ (q.amount <= 0 \/ q.account = q.peer)

(* A slip: the account is looked up without its owner. *)
AccountFound_AnyOwner(user, account) == AccountLive(db, account)

AccountFound(user, account) == Find(db.accounts, user, account) # {}

CategoryFound(user, category) ==
  category = NULL \/ Find(db.categories, user, category) # {}

AfterAccount(q) ==
  CASE q.op = "createTransaction" -> IF q.category = NULL THEN "write" ELSE "category"
    [] q.op = "createTransfer"    -> "peer"
    [] q.op = "commitImport"      -> "batch"
    [] OTHER                      -> "write"

OwnAccount(r) ==
  /\ pc[r] = "start" /\ in[r].op \in NeedsAccount
  /\ \/ /\ Malformed(in[r])
        /\ Refuse(r, "bad_request")
     \/ /\ ~Malformed(in[r])
        /\ ~AccountFound(in[r].user, in[r].account)
        /\ Refuse(r, "not_found")
     \/ /\ ~Malformed(in[r])
        /\ AccountFound(in[r].user, in[r].account)
        /\ IF in[r].op = "commitImport" /\ in[r].rows = <<>>
             THEN Refuse(r, "bad_request")
             ELSE Goto(r, AfterAccount(in[r])) /\ UNCHANGED <<db, row, open>>

OwnPeer(r) ==
  /\ At(r, "createTransfer", "peer")
  /\ \/ /\ AccountFound(in[r].user, in[r].peer)
        /\ Goto(r, "rows")
        /\ UNCHANGED <<db, row, open>>
     \/ /\ ~AccountFound(in[r].user, in[r].peer)
        /\ Refuse(r, "not_found")

OwnCategory(r) ==
  /\ pc[r] = "category" /\ in[r].op \in {"createTransaction", "updateTransaction"}
  /\ \/ /\ CategoryFound(in[r].user, in[r].category)
        /\ Goto(r, "write")
        /\ UNCHANGED <<db, row, open>>
     \/ /\ ~CategoryFound(in[r].user, in[r].category)
        /\ Refuse(r, "bad_request")

-----------------------------------------------------------------------------
(* Transactions. *)

NewTransaction(r) ==
  [id |-> <<r, 1>>, owner |-> in[r].user, account |-> in[r].account,
   date |-> in[r].date, amount |-> in[r].amount, payee |-> in[r].payee,
   category |-> in[r].category, group |-> NULL, batch |-> NULL,
   hash |-> DedupHash(in[r].date, in[r].amount, in[r].payee)]

CreateTransaction(r) ==
  /\ At(r, "createTransaction", "write")
  /\ IF AccountLive(db, in[r].account) /\ CategoryLive(db, in[r].category)
       THEN Write(r, InsertTransaction(db, NewTransaction(r)), "created")
       ELSE Refuse(r, "error")

(* The row with the fields the PATCH names replaced, the others as read. *)
Patched(old, q) ==
  [old EXCEPT !.date     = IF "date" \in q.fields THEN q.date ELSE @,
              !.amount   = IF "amount" \in q.fields THEN q.amount ELSE @,
              !.payee    = IF "payee" \in q.fields THEN q.payee ELSE @,
              !.category = IF "category" \in q.fields THEN q.category ELSE @]

(* A slip: transfer legs are edited like any row. *)
ReadOnly_Never(t) == FALSE

ReadOnly(t) == t.group # NULL

LoadTransaction(r) ==
  /\ At(r, "updateTransaction", "start")
  /\ \/ /\ Mine(db.transactions, r) = {}
        /\ Refuse(r, "not_found")
     \/ \E t \in Mine(db.transactions, r) :
          \/ /\ ReadOnly(t)
             /\ Refuse(r, "conflict")
          \/ /\ ~ReadOnly(t)
             /\ IF "amount" \in in[r].fields /\ in[r].amount = 0
                  THEN Refuse(r, "bad_request")
                  ELSE /\ row' = [row EXCEPT ![r] = Patched(t, in[r])]
                       /\ Goto(r, IF "category" \in in[r].fields
                                    THEN "category" ELSE "write")
                       /\ UNCHANGED <<db, open>>

(* A slip: an upsert, which brings a deleted row back. *)
WriteTransaction_Upserts(r) ==
  /\ At(r, "updateTransaction", "write")
  /\ Write(r, [db EXCEPT !.transactions =
                 {t \in @ : t.id # row[r].id} \cup {row[r]}], "ok")

(* Store.Update writes the whole row; a row or a category gone since it was *)
(* read makes it fail, and the handler answers 500.                         *)
WriteTransaction(r) ==
  /\ At(r, "updateTransaction", "write")
  /\ IF Mine(db.transactions, r) # {} /\ CategoryLive(db, row[r].category)
       THEN Write(r, UpdateTransaction(db, in[r].user, row[r]), "ok")
       ELSE Refuse(r, "error")

RemoveTransaction(r) ==
  /\ At(r, "deleteTransaction", "start")
  /\ Write(r, DeleteTransaction(db, in[r].user, in[r].id),
           IF Mine(db.transactions, r) = {} THEN "not_found" ELSE "no_content")

(* The k-th leg: money leaves the account and arrives at the peer.  Its     *)
(* fingerprint is that of a payee "transfer", its payee column is empty.    *)
Leg(r, k) ==
  LET cents == IF k = 1 THEN -in[r].amount ELSE in[r].amount
  IN [id |-> <<r, k>>, owner |-> in[r].user,
      account |-> IF k = 1 THEN in[r].account ELSE in[r].peer,
      date |-> in[r].date, amount |-> cents, payee |-> Untitled,
      category |-> NULL, group |-> <<r, 0>>, batch |-> NULL,
      hash |-> DedupHash(in[r].date, cents, TransferWord)]

CreateLeg(r) ==
  /\ At(r, "createTransfer", "rows")
  /\ LET k == Len(open[r].transactions) + 1
     IN Stage(r, Leg(r, k), IF k = 2 THEN "commit" ELSE "rows")

-----------------------------------------------------------------------------
(* Imports. *)

(* A slip: the batch is inserted outside the transaction of its rows. *)
CreateBatch_Alone(r) ==
  /\ At(r, "commitImport", "batch")
  /\ db' = [db EXCEPT !.batches = @ \cup
       {[id |-> <<r, 0>>, owner |-> in[r].user, account |-> in[r].account,
         count |-> Len(in[r].rows)]}]
  /\ Goto(r, "rows")
  /\ UNCHANGED <<row, open>>

CreateBatch(r) ==
  /\ At(r, "commitImport", "batch")
  /\ \/ /\ AccountLive(db, in[r].account)
        /\ open' = [open EXCEPT ![r].batches =
                      {[id |-> <<r, 0>>, owner |-> in[r].user,
                        account |-> in[r].account, count |-> Len(in[r].rows)]}]
        /\ Goto(r, "rows")
        /\ UNCHANGED <<db, row>>
     \/ /\ ~AccountLive(db, in[r].account)
        /\ Refuse(r, "error")

Imported(r, k) ==
  LET line == in[r].rows[k]
  IN [id |-> <<r, k>>, owner |-> in[r].user, account |-> in[r].account,
      date |-> line.date, amount |-> line.amount, payee |-> line.payee,
      category |-> NULL, group |-> NULL, batch |-> <<r, 0>>,
      hash |-> DedupHash(line.date, line.amount, line.payee)]

ImportRow(r) ==
  /\ At(r, "commitImport", "rows")
  /\ LET k == Len(open[r].transactions) + 1
     IN Stage(r, Imported(r, k), IF k = Len(in[r].rows) THEN "commit" ELSE "rows")

RevertImport(r) ==
  /\ At(r, "revertImport", "start")
  /\ Write(r, DeleteBatch(db, in[r].user, in[r].id),
           IF Mine(db.batches, r) = {} THEN "not_found" ELSE "no_content")

-----------------------------------------------------------------------------
(* Accounts and snapshots. *)

CreateAccount(r) ==
  LET new == [id |-> <<r, 1>>, owner |-> in[r].user, name |-> in[r].name,
              type |-> in[r].type, opening |-> in[r].amount, archived |-> FALSE]
  IN /\ At(r, "createAccount", "start")
     /\ IF NameTaken(db.accounts, new)
          THEN Refuse(r, "conflict")
          ELSE Write(r, [db EXCEPT !.accounts = @ \cup {new}], "created")

LoadAccount(r) ==
  /\ At(r, "updateAccount", "start")
  /\ \/ /\ Mine(db.accounts, r) = {}
        /\ Refuse(r, "not_found")
     \/ \E a \in Mine(db.accounts, r) :
          /\ row' = [row EXCEPT ![r] =
               [a EXCEPT !.name = IF "name" \in in[r].fields THEN in[r].name ELSE @,
                         !.type = IF "type" \in in[r].fields THEN in[r].type ELSE @,
                         !.opening = IF "opening" \in in[r].fields THEN in[r].amount ELSE @,
                         !.archived = IF "archived" \in in[r].fields THEN in[r].archived ELSE @]]
          /\ Goto(r, "write")
          /\ UNCHANGED <<db, open>>

(* A rename changes a column of a unique index and waits like a DELETE. *)
WriteAccount(r) ==
  /\ At(r, "updateAccount", "write")
  /\ \/ /\ Mine(db.accounts, r) = {}
        /\ Refuse(r, "error")
     \/ \E a \in Mine(db.accounts, r) :
          /\ a.name = row[r].name \/ ~KeyShared(a.id)
          /\ IF NameTaken(db.accounts, row[r])
               THEN Refuse(r, "conflict")
               ELSE Write(r, UpdateAccount(db, in[r].user, row[r]), "ok")

CountTransactions(r) ==
  /\ At(r, "deleteAccount", "start")
  /\ \/ /\ TransactionsIn(db, in[r].user, in[r].id) = {}
        /\ Goto(r, "write")
        /\ UNCHANGED <<db, row, open>>
     \/ /\ TransactionsIn(db, in[r].user, in[r].id) # {}
        /\ Refuse(r, "conflict")

RemoveAccount(r) ==
  /\ At(r, "deleteAccount", "write")
  /\ \/ /\ Mine(db.accounts, r) = {}
        /\ Refuse(r, "not_found")
     \/ /\ Mine(db.accounts, r) # {}
        /\ ~KeyShared(in[r].id)
        /\ Write(r, DeleteAccount(db, in[r].user, in[r].id), "no_content")

PutSnapshot(r) ==
  /\ At(r, "upsertSnapshot", "write")
  /\ IF AccountLive(db, in[r].account)
       THEN Write(r, UpsertSnapshot(db,
                       [id |-> <<r, 1>>, owner |-> in[r].user,
                        account |-> in[r].account, asOf |-> in[r].date,
                        balance |-> in[r].amount]), "ok")
       ELSE Refuse(r, "error")

RemoveSnapshot(r) ==
  /\ At(r, "deleteSnapshot", "start")
  /\ Write(r, DeleteSnapshot(db, in[r].user, in[r].id),
           IF Mine(db.snapshots, r) = {} THEN "not_found" ELSE "no_content")

-----------------------------------------------------------------------------
(* Categories. *)

CreateCategory(r) ==
  LET new == [id |-> <<r, 1>>, owner |-> in[r].user, kind |-> in[r].kind,
              name |-> in[r].name, archived |-> FALSE]
  IN /\ At(r, "createCategory", "start")
     /\ IF CategoryNameTaken(db.categories, new)
          THEN Refuse(r, "conflict")
          ELSE Write(r, [db EXCEPT !.categories = @ \cup {new}], "created")

LoadCategory(r) ==
  /\ At(r, "updateCategory", "start")
  /\ \/ /\ Mine(db.categories, r) = {}
        /\ Refuse(r, "not_found")
     \/ \E c \in Mine(db.categories, r) :
          /\ row' = [row EXCEPT ![r] =
               [c EXCEPT !.name = IF "name" \in in[r].fields THEN in[r].name ELSE @,
                         !.archived = IF "archived" \in in[r].fields THEN in[r].archived ELSE @]]
          /\ Goto(r, "write")
          /\ UNCHANGED <<db, open>>

WriteCategory(r) ==
  /\ At(r, "updateCategory", "write")
  /\ IF Mine(db.categories, r) = {} THEN Refuse(r, "error")
     ELSE IF CategoryNameTaken(db.categories, row[r]) THEN Refuse(r, "conflict")
     ELSE Write(r, UpdateCategory(db, in[r].user, row[r]), "ok")

(* deleteCategory with ?reassignTo= (in[r].category) first moves the rows.  *)
FindTarget(r) ==
  /\ At(r, "deleteCategory", "start")
  /\ in[r].category # NULL
  /\ IF CategoryFound(in[r].user, in[r].category)
       THEN Goto(r, "reassign") /\ UNCHANGED <<db, row, open>>
       ELSE Refuse(r, "bad_request")

Reassign(r) ==
  /\ At(r, "deleteCategory", "reassign")
  /\ db' = ReassignCategory(db, in[r].user, in[r].id, in[r].category)
  /\ Goto(r, "write")
  /\ UNCHANGED <<row, open>>

RemoveCategory(r) ==
  /\ \/ At(r, "deleteCategory", "start") /\ in[r].category = NULL
     \/ At(r, "deleteCategory", "write")
  /\ Write(r, DeleteCategory(db, in[r].user, in[r].id),
           IF Mine(db.categories, r) = {} THEN "not_found" ELSE "no_content")

-----------------------------------------------------------------------------
(* The next statement of request r's handler. *)
Handle(r) ==
  \/ OwnAccount(r) \/ OwnPeer(r) \/ OwnCategory(r)
  \/ CreateTransaction(r)
  \/ LoadTransaction(r) \/ WriteTransaction(r)
  \/ RemoveTransaction(r)
  \/ CreateLeg(r)
  \/ CreateBatch(r) \/ ImportRow(r) \/ RevertImport(r)
  \/ Commit(r)
  \/ CreateAccount(r)
  \/ LoadAccount(r) \/ WriteAccount(r)
  \/ CountTransactions(r) \/ RemoveAccount(r)
  \/ PutSnapshot(r) \/ RemoveSnapshot(r)
  \/ CreateCategory(r)
  \/ LoadCategory(r) \/ WriteCategory(r)
  \/ FindTarget(r) \/ Reassign(r) \/ RemoveCategory(r)

(* Every request is answered: the server waits for the next one. *)
Idle == (\A r \in Request : pc[r] = "done") /\ UNCHANGED vars

Next == (\E r \in Request : Handle(r) \/ Abort(r)) \/ Idle

Spec == Init /\ [][Next]_vars

(* A goroutine that has begun is scheduled again; nobody has to send. *)
Fairness == \A r \in Request : WF_vars(pc[r] # "start" /\ Handle(r))

FairSpec == Spec /\ Fairness

-----------------------------------------------------------------------------
(***************************************************************************)
(* What holds of the database at every moment.                             *)
(***************************************************************************)

(* A row and the rows it refers to belong to one user: no schema constraint *)
(* says so, only the handlers' ownAccount and ownCategory checks, made some *)
(* statements before the row is written.                                    *)
OwnersAgree == OwnersAgreeIn(db)

(* Nothing refers to a row that is gone: what the deletes' cascades, the    *)
(* foreign key checks at each write and the locks of open transactions      *)
(* achieve together, including for rows that are staged and not committed.  *)
ReferencesLive ==
  /\ ReferencesLiveIn(db)
  /\ \A r \in Request : \A t \in Staged(r) \cup open[r].batches : AccountLive(db, t.account)

(* The fingerprint of a row that is no transfer leg is that of its date,    *)
(* amount and payee, whatever PATCHes raced on it: the import's duplicate   *)
(* warning (FindByDedupHashes) looks at nothing else.                       *)
HashCurrent == HashCurrentIn(db)

(* Both legs of a transfer are there, equal and opposite, on two accounts,  *)
(* uncategorized and in no import, and the group has no third row.          *)
PairedIn(d) ==
  \A t \in d.transactions :
    t.group # NULL =>
      /\ t.category = NULL /\ t.batch = NULL
      /\ \E peer \in d.transactions :
           /\ {x \in d.transactions : x.group = t.group} = {t, peer}
           /\ peer.amount = -t.amount
           /\ peer.account # t.account

TransfersPaired == PairedIn(db)

(* What a request that was answered 204 deleted stays deleted: no PATCH that *)
(* read the row earlier, and no open import, brings it back.                 *)
DeletesHold ==
  \A r \in Request :
    resp[r] = "no_content" =>
      CASE in[r].op = "deleteTransaction" ->
             \A t \in db.transactions : t.id # in[r].id
        [] in[r].op = "revertImport" ->
             /\ in[r].id \notin Ids(db.batches)
             /\ \A t \in db.transactions : t.batch # in[r].id
        [] in[r].op = "deleteCategory" ->
             /\ in[r].id \notin Ids(db.categories)
             /\ \A t \in db.transactions : t.category # in[r].id
        [] in[r].op = "deleteAccount" ->
             /\ ~AccountLive(db, in[r].id)
             /\ \A t \in db.transactions : t.account # in[r].id
        [] OTHER -> TRUE

-----------------------------------------------------------------------------
(***************************************************************************)
(* What a step may never do.                                               *)
(***************************************************************************)

(* The rows of d that are user u's. *)
RowsOf(d, u) ==
  [accounts     |-> {x \in d.accounts : x.owner = u},
   categories   |-> {x \in d.categories : x.owner = u},
   batches      |-> {x \in d.batches : x.owner = u},
   transactions |-> {x \in d.transactions : x.owner = u},
   snapshots    |-> {x \in d.snapshots : x.owner = u}]

(* The request whose handler the step runs. *)
Runs(r) == pc'[r] # pc[r]

(* A request changes rows of its own user only.  The cascades of a delete   *)
(* carry no user_id filter: that they reach nobody else's rows rests on     *)
(* OwnersAgree.                                                             *)
OthersUntouchedStep ==
  \A r \in Request : Runs(r) =>
    \A u \in User \ {in[r].user} : RowsOf(db', u) = RowsOf(db, u)

OthersUntouched == [][OthersUntouchedStep]_vars

(* A transaction never moves to another user, account, group or import, and *)
(* a transfer leg never changes at all: legs are replaced, not edited.      *)
ColumnsFixedStep ==
  \A t \in db.transactions : \A new \in db'.transactions :
    t.id = new.id =>
      /\ new.owner = t.owner /\ new.account = t.account
      /\ new.group = t.group /\ new.batch = t.batch
      /\ t.group # NULL => new = t

ColumnsFixed == [][ColumnsFixedStep]_vars

(* A transaction disappears only by a request that names it, its transfer,  *)
(* its import or its account: never by losing its category, by a failing    *)
(* handler or by another import's rollback.                                 *)
LossAsked(t) ==
  \E r \in Request :
    /\ Runs(r)
    /\ \/ in[r].op = "deleteTransaction" /\ in[r].id = t.id
       \/ /\ in[r].op = "deleteTransaction" /\ t.group # NULL
          /\ \E leg \in db.transactions : leg.id = in[r].id /\ leg.group = t.group
       \/ in[r].op = "revertImport" /\ in[r].id = t.batch
       \/ in[r].op = "deleteAccount" /\ in[r].id = t.account

OnlyAskedLossStep ==
  \A t \in db.transactions : t.id \in Ids(db'.transactions) \/ LossAsked(t)

OnlyAskedLoss == [][OnlyAskedLossStep]_vars

(* Imports.Commit: "either the whole import lands or none of it does".  The *)
(* batch and all its rows appear in one step, and no row joins it later.    *)
ImportsLandWholeStep ==
  /\ \A b \in db'.batches \ db.batches :
       Cardinality({t \in db'.transactions : t.batch = b.id}) = b.count
  /\ \A t \in db'.transactions :
       \/ t.id \in Ids(db.transactions)
       \/ t.batch = NULL
       \/ t.batch \in Ids(db'.batches) \ Ids(db.batches)

ImportsLandWhole == [][ImportsLandWholeStep]_vars

(* A handler that began answers, although account deletes and renames wait  *)
(* for open transactions.                                                   *)
Responds == \A r \in Request : pc[r] # "start" ~> pc[r] = "done"

-----------------------------------------------------------------------------
(***************************************************************************)
(* What comments and documents say, and the code does not keep.            *)
(***************************************************************************)

(* store/accounts.go:79: "delete is only allowed when empty".  The count    *)
(* and the delete are two statements.                                       *)
OnlyEmptyAccountsDeleted ==
  [][\A r \in Request :
       (in[r].op = "deleteAccount" /\ resp'[r] = "no_content" /\ Runs(r))
         => TransactionsIn(db, in[r].user, in[r].id) = {}]_vars

(* categories.go:137: with reassignTo "its transactions move to another     *)
(* category first; otherwise they go uncategorized".                        *)
MergeKeepsCategory ==
  [][\A r \in Request :
       (in[r].op = "deleteCategory" /\ in[r].category # NULL /\ Runs(r)) =>
         \A t \in db.transactions : \A new \in db'.transactions :
           t.id = new.id /\ t.category # NULL => new.category # NULL]_vars

(* transactions.go:221: a PATCH with no category leaves it as it is.        *)
PatchLeavesCategory ==
  [][\A r \in Request :
       (in[r].op = "updateTransaction" /\ "category" \notin in[r].fields /\ Runs(r)) =>
         \A t \in db.transactions : \A new \in db'.transactions :
           t.id = new.id => new.category = t.category]_vars
=============================================================================
