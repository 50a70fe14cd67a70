--------------------------- MODULE LedgerEntries ---------------------------
(***************************************************************************)
(* Ledger implements Books: for any number of users, requests and rows,    *)
(* every step of a handler is one entry of its user, or none.              *)
(***************************************************************************)
EXTENDS LedgerProofs, LedgerBooks, FiniteSetTheorems, FunctionTheorems

(* What a step may be, for user u. *)
Entry(u) ==
  \/ B!Record(u) \/ B!Correct(u) \/ B!Erase(u) \/ B!Move(u)
  \/ B!Land(u) \/ B!TakeBack(u)
  \/ B!CloseAccount(u) \/ B!Refile(u) \/ B!DropCategory(u)
  \/ B!Enter(u) \/ B!DropSnapshot(u)

(* The words of Schema mean the same in Books. *)
LEMMA SameWords ==
  /\ \A table : B!Ids(table) = Ids(table)
  /\ \A table, u, id : B!Find(table, u, id) = Find(table, u, id)
  /\ \A date, amount, payee : B!DedupHash(date, amount, payee) = DedupHash(date, amount, payee)
  /\ \A table, row_ : B!NameTaken(table, row_) = NameTaken(table, row_)
  /\ \A table, row_ : B!CategoryNameTaken(table, row_) = CategoryNameTaken(table, row_)
  /\ B!Database = Database
  BY DEF B!Ids, Ids, B!Find, Find, B!DedupHash, DedupHash, B!NameTaken, NameTaken,
         B!CategoryNameTaken, CategoryNameTaken, B!Database, Database,
         B!Account, B!Category, B!Batch, B!Transaction, B!Snapshot, B!Fingerprint, B!Id,
         Account, Category, Batch, Transaction, Snapshot, Fingerprint, Id

LEMMA SameCount == \A S : B!Cardinality(S) = Cardinality(S)
  BY DEF B!Cardinality, Cardinality

LEMMA OnlyTransactions ==
  ASSUME db \in Database, NEW rows, db' = [db EXCEPT !.transactions = rows]
  PROVE  /\ B!Only({"transactions"})
         /\ B!Came("transactions") = rows \ db.transactions
         /\ B!Gone("transactions") = db.transactions \ rows
  BY DEF Database, B!Only, B!Came, B!Gone, B!Table

-----------------------------------------------------------------------------
(* The strengthening.  An id that is in use was drawn before, by a request   *)
(* that is done: what a request draws is new when it is written.             *)

Used(id) == id[1] \in Request => pc[id[1]] = "done"

UsedOrNull(id) == id = NULL \/ Used(id)

IdsUsed ==
  /\ \A table \in DOMAIN db : \A x \in db[table] : Used(x.id)
  /\ \A t \in db.transactions : UsedOrNull(t.group) /\ UsedOrNull(t.batch)

GroupsOwned ==
  \A t \in db.transactions : t.group # NULL => OwnerOf(in, t.group) = t.owner

(* What a database transaction has staged so far, row by row. *)
Scripted(r) ==
  /\ pc[r] \in {"rows", "commit"} => in[r].op \in {"createTransfer", "commitImport"}
  /\ in[r].op = "createTransfer" /\ pc[r] \in {"rows", "commit"} =>
       /\ open[r].batches = {}
       /\ \A k \in DOMAIN open[r].transactions : open[r].transactions[k] = Leg(r, k)
       /\ pc[r] = "rows" => Len(open[r].transactions) < 2
       /\ pc[r] = "commit" => Len(open[r].transactions) = 2
  /\ in[r].op = "commitImport" /\ pc[r] \in {"rows", "commit"} =>
       /\ open[r].batches = {[id |-> <<r, 0>>, owner |-> in[r].user,
                              account |-> in[r].account, count |-> Len(in[r].rows)]}
       /\ \A k \in DOMAIN open[r].transactions : open[r].transactions[k] = Imported(r, k)
       /\ pc[r] = "commit" => Len(open[r].transactions) = Len(in[r].rows)

Updates == {"updateTransaction", "updateAccount", "updateCategory"}

(* The row a PATCH handler holds is the one it was asked for, and what no    *)
(* other handler changes of it is still as it was read.                      *)
Remembers(r) ==
  in[r].op \in Updates /\ pc[r] \in {"category", "write"} =>
    /\ row[r].id = in[r].id /\ row[r].owner = in[r].user
    /\ Used(row[r].id)
    /\ in[r].op = "updateTransaction" =>
         \A t \in db.transactions : t.id = row[r].id => t.group = NULL
    /\ in[r].op = "updateCategory" =>
         \A c \in db.categories : c.id = row[r].id => c.kind = row[r].kind

Keyed(d) == KeysIn(d) /\ LegsPlainIn(d)

KInv ==
  /\ LInv /\ in \in [Request -> Menu]
  /\ Keyed(db) /\ IdsUsed /\ GroupsOwned
  /\ \A r \in Request : Scripted(r) /\ Remembers(r)

LEMMA KeyedDB ==
  ASSUME KInv
  PROVE  /\ \A x, y \in db.accounts : x.id = y.id => x = y
         /\ \A x, y \in db.categories : x.id = y.id => x = y
         /\ \A x, y \in db.batches : x.id = y.id => x = y
         /\ \A x, y \in db.transactions : x.id = y.id => x = y
         /\ \A x, y \in db.snapshots : x.id = y.id => x = y
         /\ \A s, other \in db.snapshots :
              s.account = other.account /\ s.asOf = other.asOf => s = other
         /\ \A t \in db.transactions : t.group # NULL => t.category = NULL
  BY DEF KInv, LInv, IInv, TypeOK, Database, Keyed, KeysIn, LegsPlainIn

LEMMA UsedDB ==
  ASSUME KInv
  PROVE  /\ \A x \in db.accounts : Used(x.id)
         /\ \A x \in db.categories : Used(x.id)
         /\ \A x \in db.batches : Used(x.id)
         /\ \A x \in db.transactions : Used(x.id) /\ UsedOrNull(x.group) /\ UsedOrNull(x.batch)
         /\ \A x \in db.snapshots : Used(x.id)
  BY DEF KInv, LInv, IInv, TypeOK, Database, IdsUsed

(* What a request that is not done draws next is not in use. *)
LEMMA DrawnIsNew ==
  ASSUME NEW r \in Request, pc[r] # "done", NEW k \in Nat
  PROVE  ~Used(<<r, k>>) /\ <<r, k>> # NULL
  BY DrawnId, NullAssumption DEF Used

-----------------------------------------------------------------------------
(* Whose the rows are that a row refers to. *)

LEMMA AccountIsUsers ==
  ASSUME KInv, NEW id, AccountLive(db, id), OwnerOf(in, id) \in User
  PROVE  Find(db.accounts, OwnerOf(in, id), id) # {}
  BY GoodDB DEF KInv, LInv, Good, Owned, OwnedAccount, AccountLive, Ids, Find

LEMMA CategoryIsUsers ==
  ASSUME KInv, NEW id, CategoryLive(db, id), id # NULL
  PROVE  Find(db.categories, OwnerOf(in, id), id) # {}
  BY GoodDB DEF KInv, LInv, Good, Owned, OwnedAccount, CategoryLive, Ids, Find

(* A row of user u on a live account, in a live category, is filed. *)
LEMMA IsFiled ==
  ASSUME KInv, NEW u \in User, NEW t, t.owner = u, AccountLive(db, t.account),
         OwnerOf(in, t.account) = u, CategoryLive(db, t.category),
         t.category = NULL \/ OwnerOf(in, t.category) = u
  PROVE  B!Filed(u, t)
  BY AccountIsUsers, CategoryIsUsers, SameWords DEF B!Filed

-----------------------------------------------------------------------------
(* What is new was drawn by r, which is done. *)

Mark(r, id) == id[1] = r /\ pc'[r] = "done"

Drawing(r) ==
  /\ \A table \in DOMAIN db : \A x \in db'[table] : x.id \in Ids(db[table]) \/ Mark(r, x.id)
  /\ \A t \in db'.transactions :
       /\ t.group = NULL \/ Mark(r, t.group) \/ \E old \in db.transactions : old.group = t.group
       /\ t.batch = NULL \/ Mark(r, t.batch) \/ \E old \in db.transactions : old.batch = t.batch

(* A step of r is an entry of its user with what r has drawn, or none. *)
OneEntry(r) == db' = db \/ (db' \in Database /\ Entry(in[r].user) /\ Drawing(r))

LEMMA CreateTransactionEnters ==
  ASSUME KInv, IInv', NEW r \in Request, CreateTransaction(r)
  PROVE  OneEntry(r)
  <1>1. CASE Refuse(r, "error")
    BY <1>1 DEF Refuse, OneEntry
  <1>2. CASE /\ AccountLive(db, in[r].account) /\ CategoryLive(db, in[r].category)
             /\ Write(r, InsertTransaction(db, NewTransaction(r)), "created")
    <2> DEFINE t == NewTransaction(r)
               u == in[r].user
    <2>1. /\ t.id = <<r, 1>> /\ t.owner = u /\ t.account = in[r].account
          /\ t.category = in[r].category /\ t.group = NULL /\ t.batch = NULL
          /\ t.hash = DedupHash(t.date, t.amount, t.payee)
      BY DEF NewTransaction
    <2>2. in[r] \in Input /\ pc[r] = "write" /\ in[r].op = "createTransaction" /\ pc'[r] = "done"
      BY <1>2 DEF KInv, LInv, IInv, TypeOK, CreateTransaction, At, Write, Respond
    <2>3. Belongs(in, r, in[r].account) /\ BelongsOrNull(in, r, in[r].category)
      BY <2>2 DEF KInv, LInv, IInv, Checked, AccountChecked, CategoryChecked, NeedsAccount
    <2> HIDE DEF t
    <2>4. u \in User /\ B!Filed(u, t)
      BY <1>2, <2>1, <2>2, <2>3, IsFiled DEF Belongs, BelongsOrNull, Input
    <2>5. db \in Database /\ db' \in Database /\ db' = [db EXCEPT !.transactions = @ \cup {t}]
      BY <1>2 DEF Write, InsertTransaction, t, KInv, LInv, IInv, TypeOK
    <2>6. t.id \notin Ids(db.transactions)
      BY <2>1, <2>2, UsedDB, DrawnIsNew DEF Ids
    <2>7. B!Came("transactions") = {t} /\ B!Gone("transactions") = {} /\ B!Only({"transactions"})
      BY <2>5, <2>6, OnlyTransactions DEF Ids
    <2>8. B!Record(u)
      BY <2>1, <2>4, <2>6, <2>7, SameWords DEF B!Record, B!New, B!Current
    <2>9. Drawing(r)
      BY <2>1, <2>2, <2>5 DEF Drawing, Mark, Database, Ids
    <2> QED
      BY <2>5, <2>8, <2>9 DEF OneEntry, Entry
  <1> QED
    BY <1>1, <1>2 DEF CreateTransaction

LEMMA WriteTransactionEnters ==
  ASSUME KInv, IInv', NEW r \in Request, WriteTransaction(r)
  PROVE  OneEntry(r)
  <1>1. CASE Refuse(r, "error")
    BY <1>1 DEF Refuse, OneEntry
  <1>2. CASE /\ Mine(db.transactions, r) # {} /\ CategoryLive(db, row[r].category)
             /\ Write(r, UpdateTransaction(db, in[r].user, row[r]), "ok")
    <2> DEFINE u == in[r].user
               new == row[r]
               Set(t) == [t EXCEPT !.date = new.date, !.amount = new.amount,
                                   !.payee = new.payee, !.category = new.category,
                                   !.hash = DedupHash(new.date, new.amount, new.payee)]
               Rows == {IF t.id = new.id /\ t.owner = u THEN Set(t) ELSE t : t \in db.transactions}
    <2>1. in[r] \in Input /\ in[r].op = "updateTransaction" /\ pc[r] = "write"
      BY DEF WriteTransaction, At, KInv, LInv, IInv, TypeOK
    <2>2. /\ new \in Transaction /\ BelongsOrNull(in, r, new.category)
      BY <2>1 DEF KInv, LInv, IInv, Checked, RowLoaded
    <2>3. /\ new.id = in[r].id /\ u \in User
          /\ \A t \in db.transactions : t.id = new.id => t.group = NULL
      BY <2>1 DEF KInv, Remembers, Updates, Input
    <2>4. PICK old \in db.transactions : old.id = new.id /\ old.owner = u
      BY <1>2, <2>3 DEF Mine, Find
    <2> DEFINE now == Set(old)
    <2>5. db \in Database /\ db' \in Database /\ db' = [db EXCEPT !.transactions = Rows]
      BY <1>2 DEF Write, UpdateTransaction, KInv, LInv, IInv, TypeOK
    <2>6. old \in Transaction
      BY <2>5 DEF Database
    <2>7. /\ now.id = old.id /\ now.owner = old.owner /\ now.account = old.account
          /\ now.group = old.group /\ now.batch = old.batch /\ now.category = new.category
          /\ now.hash = DedupHash(now.date, now.amount, now.payee)
      BY <2>6 DEF Transaction
    <2>8. \A t \in db.transactions : t.id = old.id => t = old
      BY KeyedDB
    <2> HIDE DEF Set
    <2>9. Rows = (db.transactions \ {old}) \cup {now}
      BY <2>4, <2>8
    <2> HIDE DEF Rows, now
    <2>10. CASE now = old
      BY <2>5, <2>9, <2>10, <2>4 DEF OneEntry, Database
    <2>11. CASE now # old
      <3>1. /\ B!Came("transactions") = {now} /\ B!Gone("transactions") = {old}
            /\ B!Only({"transactions"})
        BY <2>4, <2>5, <2>7, <2>8, <2>9, <2>11, OnlyTransactions
      <3>2. AccountLive(db, old.account)
        BY DEF KInv, LInv, Fits, ReferencesLiveIn
      <3>3. OwnerOf(in, old.account) = u
        BY <2>4, GoodDB DEF KInv, LInv, Good, Owned, OwnedTransaction, OwnedOnAccount
      <3>4. B!Filed(u, now)
        BY <1>2, <2>2, <2>3, <2>4, <2>7, <3>2, <3>3, IsFiled DEF Belongs, BelongsOrNull
      <3>5. B!Correct(u)
        BY <2>3, <2>4, <2>7, <3>1, <3>4, SameWords DEF B!Correct, B!Current
      <3>6. Drawing(r)
        BY <2>4, <2>5, <2>7, <2>9 DEF Drawing, Database, Ids
      <3> QED
        BY <2>5, <3>5, <3>6 DEF OneEntry, Entry
    <2> QED
      BY <2>10, <2>11
  <1> QED
    BY <1>1, <1>2 DEF WriteTransaction

(* A statement that only deletes draws nothing. *)
LEMMA DeletingDraws ==
  ASSUME NEW r, db' \in Database, db \in Database,
         db'.accounts \subseteq db.accounts, db'.categories \subseteq db.categories,
         db'.batches \subseteq db.batches, db'.transactions \subseteq db.transactions,
         db'.snapshots \subseteq db.snapshots
  PROVE  Drawing(r)
  BY DEF Drawing, Database, Ids

LEMMA RemoveTransactionEnters ==
  ASSUME KInv, IInv', NEW r \in Request, RemoveTransaction(r)
  PROVE  OneEntry(r)
  <1> DEFINE u == in[r].user
             id == in[r].id
             groups == {t.group : t \in Find(db.transactions, u, id)} \ {NULL}
             Rows == {t \in db.transactions : ~(t.owner = u /\ (t.id = id \/ t.group \in groups))}
  <1>1. db \in Database /\ db' \in Database /\ db' = [db EXCEPT !.transactions = Rows]
    BY DEF RemoveTransaction, Write, DeleteTransaction, KInv, LInv, IInv, TypeOK
  <1>2. CASE Find(db.transactions, u, id) = {}
    <2>1. Rows = db.transactions
      BY <1>2 DEF Find
    <2> QED
      BY <1>1, <2>1 DEF OneEntry, Database
  <1>3. ASSUME NEW t \in db.transactions, t.id = id, t.owner = u PROVE OneEntry(r)
    <2>1. groups = {t.group} \ {NULL}
      BY <1>3, KeyedDB DEF Find
    <2>2. \A leg \in db.transactions : leg.group # NULL /\ leg.group = t.group => leg.owner = u
      BY <1>3 DEF KInv, GroupsOwned
    <2>3. Rows = db.transactions \
                   ({t} \cup {leg \in db.transactions : leg.group # NULL /\ leg.group = t.group})
      BY <1>3, <2>1, <2>2, KeyedDB
    <2> HIDE DEF Rows, groups
    <2>4. /\ B!Came("transactions") = {} /\ B!Only({"transactions"})
          /\ B!Gone("transactions") =
               {t} \cup {leg \in db.transactions : leg.group # NULL /\ leg.group = t.group}
      BY <1>1, <2>3, OnlyTransactions
    <2>5. B!Erase(u)
      BY <1>3, <2>4 DEF B!Erase
    <2>6. Drawing(r)
      BY <1>1, <2>3, DeletingDraws DEF Database
    <2> QED
      BY <1>1, <2>5, <2>6 DEF OneEntry, Entry
  <1> QED
    BY <1>2, <1>3 DEF Find

LEMMA RevertImportEnters ==
  ASSUME KInv, IInv', NEW r \in Request, RevertImport(r)
  PROVE  OneEntry(r)
  <1> DEFINE u == in[r].user
             id == in[r].id
             gone == Ids(Find(db.batches, u, id))
             Left == {b \in db.batches : ~(b.id = id /\ b.owner = u)}
             Rows == {t \in db.transactions : t.batch \notin gone}
  <1>1. db \in Database /\ db' \in Database
        /\ db' = [db EXCEPT !.batches = Left, !.transactions = Rows]
    BY SMTT(60) DEF RevertImport, Write, DeleteBatch, KInv, LInv, IInv, TypeOK
  <1>2. CASE Find(db.batches, u, id) = {}
    <2>1. Rows = db.transactions /\ Left = db.batches
      BY <1>2 DEF Find, Ids
    <2> QED
      BY <1>1, <2>1 DEF OneEntry, Database
  <1>3. ASSUME NEW b \in db.batches, b.id = id, b.owner = u PROVE OneEntry(r)
    <2>1. gone = {b.id}
      BY <1>3 DEF Find, Ids
    <2>2. Left = db.batches \ {b}
      BY <1>3, KeyedDB
    <2>3. Rows = db.transactions \ {t \in db.transactions : t.batch = b.id}
      BY <2>1
    <2> HIDE DEF Left, Rows, gone
    <2>4. /\ B!Only({"batches", "transactions"})
          /\ B!Came("batches") = {} /\ B!Gone("batches") = {b}
          /\ B!Came("transactions") = {}
          /\ B!Gone("transactions") = {t \in db.transactions : t.batch = b.id}
      BY <1>1, <1>3, <2>2, <2>3 DEF Database, B!Only, B!Came, B!Gone, B!Table
    <2>5. B!TakeBack(u)
      BY <1>3, <2>4 DEF B!TakeBack, B!Gone
    <2>6. Drawing(r)
      BY <1>1, <2>2, <2>3, DeletingDraws DEF Database
    <2> QED
      BY <1>1, <2>5, <2>6 DEF OneEntry, Entry
  <1> QED
    BY <1>2, <1>3 DEF Find

(* Filing all of a category's transactions elsewhere. *)
Refiled(rows, from, to) ==
  {IF t.category = from THEN [t EXCEPT !.category = to] ELSE t : t \in rows}

LEMMA RefiledFiles ==
  ASSUME KInv, NEW u, NEW from, NEW to,
         db'.transactions = Refiled(db.transactions, from, to),
         \A t \in db.transactions : t.category = from => t.owner = u
  PROVE  B!File(u, from, to)
  BY DEF B!File, Refiled

LEMMA RefiledDraws ==
  ASSUME NEW r, db \in Database, db' \in Database, NEW from, NEW to,
         db'.transactions = Refiled(db.transactions, from, to),
         db'.accounts = db.accounts, db'.categories \subseteq db.categories,
         db'.batches = db.batches, db'.snapshots = db.snapshots
  PROVE  Drawing(r)
  <1> DEFINE Moved(t) == [t EXCEPT !.category = to]
  <1>1. \A t \in Transaction : Moved(t).id = t.id /\ Moved(t).group = t.group /\ Moved(t).batch = t.batch
    BY DEF Transaction
  <1>2. db'.transactions = {IF t.category = from THEN Moved(t) ELSE t : t \in db.transactions}
    BY DEF Refiled
  <1> HIDE DEF Moved
  <1>3. \A t \in db'.transactions : \E old \in db.transactions :
          old.id = t.id /\ old.group = t.group /\ old.batch = t.batch
    BY <1>1, <1>2 DEF Database
  <1> QED
    BY <1>3 DEF Drawing, Database, Ids

(* A category's transactions belong to its owner. *)
LEMMA CategorysOwner ==
  ASSUME KInv, NEW t \in db.transactions, t.category # NULL
  PROVE  Find(db.categories, t.owner, t.category) # {} /\ OwnerOf(in, t.category) = t.owner
  <1>1. CategoryLive(db, t.category)
    BY DEF KInv, LInv, Fits, ReferencesLiveIn
  <1>2. OwnerOf(in, t.category) = t.owner
    BY GoodDB DEF KInv, LInv, Good, Owned, OwnedTransaction
  <1> QED
    BY <1>1, <1>2, CategoryIsUsers

LEMMA ReassignEnters ==
  ASSUME KInv, IInv', NEW r \in Request, Reassign(r)
  PROVE  OneEntry(r)
  <1> DEFINE u == in[r].user
             from == in[r].id
             to == in[r].category
             Rows == {IF t.owner = u /\ t.category = from /\ Find(db.categories, u, to) # {}
                        THEN [t EXCEPT !.category = to] ELSE t : t \in db.transactions}
  <1>1. db \in Database /\ db' \in Database /\ db' = [db EXCEPT !.transactions = Rows]
    BY DEF Reassign, ReassignCategory, KInv, LInv, IInv, TypeOK
  <1>2. in[r] \in Input /\ in[r].op = "deleteCategory" /\ pc[r] = "reassign"
    BY DEF Reassign, At, KInv, LInv, IInv, TypeOK
  <1>3. from # NULL
    BY <1>2, PathAssumption DEF KInv, NamesRow
  <1>4. CASE Find(db.categories, u, to) = {} \/ Find(db.categories, u, from) = {}
    <2>1. \A t \in db.transactions :
            ~(t.owner = u /\ t.category = from /\ Find(db.categories, u, to) # {})
      BY <1>3, <1>4, CategorysOwner
    <2>2. Rows = db.transactions
      BY <2>1
    <2> QED
      BY <1>1, <2>2 DEF OneEntry, Database
  <1>5. CASE Find(db.categories, u, to) # {} /\ Find(db.categories, u, from) # {}
    <2>1. OwnerOf(in, from) = u
      BY <1>5, GoodDB, FoundCategory DEF KInv, LInv
    <2>2. \A t \in db.transactions : t.category = from => t.owner = u
      BY <1>3, <2>1, CategorysOwner
    <2>3. Rows = Refiled(db.transactions, from, to)
      BY <1>5, <2>2 DEF Refiled
    <2> HIDE DEF Rows
    <2>4. /\ db'.transactions = Refiled(db.transactions, from, to)
          /\ db'.accounts = db.accounts /\ db'.categories = db.categories
          /\ db'.batches = db.batches /\ db'.snapshots = db.snapshots
      BY <1>1, <2>3 DEF Database
    <2>5. B!File(u, from, to) /\ Drawing(r)
      BY <1>1, <2>2, <2>4, RefiledFiles, RefiledDraws
    <2>6. B!Only({"transactions"})
      BY <1>1, OnlyTransactions
    <2>7. {from, to} \subseteq Ids({c \in db.categories : c.owner = u})
      BY <1>5 DEF Find, Ids
    <2>8. B!Refile(u)
      BY <2>5, <2>6, <2>7, SameWords DEF B!Refile
    <2> QED
      BY <1>1, <2>5, <2>8 DEF OneEntry, Entry
  <1> QED
    BY <1>4, <1>5

LEMMA RemoveCategoryEnters ==
  ASSUME KInv, IInv', NEW r \in Request, RemoveCategory(r)
  PROVE  OneEntry(r)
  <1> DEFINE u == in[r].user
             id == in[r].id
             gone == Ids(Find(db.categories, u, id))
             Left == {c \in db.categories : ~(c.id = id /\ c.owner = u)}
             Rows == {IF t.category \in gone THEN [t EXCEPT !.category = NULL] ELSE t :
                        t \in db.transactions}
  <1>1. db \in Database /\ db' \in Database
        /\ db' = [db EXCEPT !.categories = Left, !.transactions = Rows]
    BY DEF RemoveCategory, Write, DeleteCategory, KInv, LInv, IInv, TypeOK
  <1>2. CASE Find(db.categories, u, id) = {}
    <2>1. Rows = db.transactions /\ Left = db.categories
      BY <1>2 DEF Find, Ids
    <2> QED
      BY <1>1, <2>1 DEF OneEntry, Database
  <1>3. ASSUME NEW c \in db.categories, c.id = id, c.owner = u PROVE OneEntry(r)
    <2>1. gone = {id}
      BY <1>3 DEF Find, Ids
    <2>2. Left = db.categories \ {c}
      BY <1>3, KeyedDB
    <2>3. Rows = Refiled(db.transactions, id, NULL)
      BY <2>1 DEF Refiled
    <2>4. \A t \in db.transactions : t.category = id => t.owner = u
      <3>1. id # NULL
        BY <1>1, <1>3, NullAssumption DEF Database, Category
      <3>2. OwnerOf(in, id) = u
        BY <1>3, GoodDB DEF KInv, LInv, Good, Owned, OwnedAccount
      <3> QED
        BY <3>1, <3>2, CategorysOwner
    <2> HIDE DEF Left, Rows, gone
    <2>5. /\ db'.transactions = Refiled(db.transactions, id, NULL)
          /\ db'.categories = db.categories \ {c}
          /\ db'.accounts = db.accounts /\ db'.batches = db.batches /\ db'.snapshots = db.snapshots
      BY <1>1, <2>2, <2>3 DEF Database
    <2>6. B!File(u, id, NULL) /\ Drawing(r)
      BY <1>1, <2>4, <2>5, RefiledFiles, RefiledDraws
    <2>7. /\ B!Only({"categories", "transactions"})
          /\ B!Came("categories") = {} /\ B!Gone("categories") = {c}
      BY <1>1, <1>3, <2>5 DEF Database, B!Only, B!Came, B!Gone, B!Table
    <2>8. B!DropCategory(u)
      BY <1>3, <2>6, <2>7 DEF B!DropCategory
    <2> QED
      BY <1>1, <2>6, <2>8 DEF OneEntry, Entry
  <1> QED
    BY <1>2, <1>3 DEF Find

-----------------------------------------------------------------------------
(* The catalogue. *)

LEMMA CreateAccountEnters ==
  ASSUME KInv, IInv', NEW r \in Request, CreateAccount(r)
  PROVE  OneEntry(r)
  <1> DEFINE u == in[r].user
             new == [id |-> <<r, 1>>, owner |-> u, name |-> in[r].name,
                     type |-> in[r].type, opening |-> in[r].amount, archived |-> FALSE]
  <1>1. pc[r] = "start"
    BY DEF CreateAccount, At
  <1>2. new.id = <<r, 1>> /\ new.owner = u
    OBVIOUS
  <1> HIDE DEF new
  <1>3. CASE Refuse(r, "conflict")
    BY <1>3 DEF Refuse, OneEntry
  <1>4. CASE /\ ~NameTaken(db.accounts, new)
             /\ Write(r, [db EXCEPT !.accounts = @ \cup {new}], "created")
    <2>1. /\ db \in Database /\ db' \in Database /\ pc'[r] = "done"
          /\ db' = [db EXCEPT !.accounts = @ \cup {new}]
      BY <1>4 DEF Write, Respond, KInv, LInv, IInv, TypeOK
    <2>2. \A a \in db.accounts : a.id # new.id
      BY <1>1, <1>2, UsedDB, DrawnIsNew
    <2>3. /\ B!Only({"accounts"})
          /\ B!Came("accounts") = {new} /\ B!Gone("accounts") = {}
      BY <2>1, <2>2 DEF Database, B!Only, B!Came, B!Gone, B!Table
    <2>4. B!Enter(u)
      BY <1>2, <1>4, <2>2, <2>3, SameWords DEF B!Enter
    <2>5. Drawing(r)
      BY <1>2, <2>1 DEF Drawing, Mark, Database, Ids
    <2> QED
      BY <2>1, <2>4, <2>5 DEF OneEntry, Entry
  <1> QED
    BY <1>3, <1>4 DEF CreateAccount, new

LEMMA CreateCategoryEnters ==
  ASSUME KInv, IInv', NEW r \in Request, CreateCategory(r)
  PROVE  OneEntry(r)
  <1> DEFINE u == in[r].user
             new == [id |-> <<r, 1>>, owner |-> u, kind |-> in[r].kind,
                     name |-> in[r].name, archived |-> FALSE]
  <1>1. pc[r] = "start"
    BY DEF CreateCategory, At
  <1>2. new.id = <<r, 1>> /\ new.owner = u
    OBVIOUS
  <1> HIDE DEF new
  <1>3. CASE Refuse(r, "conflict")
    BY <1>3 DEF Refuse, OneEntry
  <1>4. CASE /\ ~CategoryNameTaken(db.categories, new)
             /\ Write(r, [db EXCEPT !.categories = @ \cup {new}], "created")
    <2>1. /\ db \in Database /\ db' \in Database /\ pc'[r] = "done"
          /\ db' = [db EXCEPT !.categories = @ \cup {new}]
      BY <1>4 DEF Write, Respond, KInv, LInv, IInv, TypeOK
    <2>2. \A c \in db.categories : c.id # new.id
      BY <1>1, <1>2, UsedDB, DrawnIsNew
    <2>3. /\ B!Only({"categories"})
          /\ B!Came("categories") = {new} /\ B!Gone("categories") = {}
      BY <2>1, <2>2 DEF Database, B!Only, B!Came, B!Gone, B!Table
    <2>4. B!Enter(u)
      BY <1>2, <1>4, <2>2, <2>3, SameWords DEF B!Enter
    <2>5. Drawing(r)
      BY <1>2, <2>1 DEF Drawing, Mark, Database, Ids
    <2> QED
      BY <2>1, <2>4, <2>5 DEF OneEntry, Entry
  <1> QED
    BY <1>3, <1>4 DEF CreateCategory, new

LEMMA WriteAccountEnters ==
  ASSUME KInv, IInv', NEW r \in Request, WriteAccount(r)
  PROVE  OneEntry(r)
  <1> DEFINE u == in[r].user
             new == row[r]
             Set(a) == [a EXCEPT !.name = new.name, !.type = new.type,
                                 !.opening = new.opening, !.archived = new.archived]
             Rows == {IF a.id = new.id /\ a.owner = u THEN Set(a) ELSE a : a \in db.accounts}
  <1>1. CASE Refuse(r, "error") \/ Refuse(r, "conflict")
    BY <1>1 DEF Refuse, OneEntry
  <1>2. CASE \E a \in Mine(db.accounts, r) :
               /\ ~NameTaken(db.accounts, new)
               /\ Write(r, UpdateAccount(db, u, new), "ok")
    <2>1. PICK old \in db.accounts : old.id = in[r].id /\ old.owner = u
      BY <1>2 DEF Mine, Find
    <2> DEFINE now == Set(old)
    <2>2. /\ db \in Database /\ db' \in Database /\ db' = [db EXCEPT !.accounts = Rows]
          /\ ~NameTaken(db.accounts, new)
      BY <1>2 DEF Write, UpdateAccount, KInv, LInv, IInv, TypeOK
    <2>3. new.id = in[r].id /\ new.owner = u
      BY DEF WriteAccount, At, KInv, Remembers, Updates
    <2>4. now.id = old.id /\ now.owner = old.owner /\ now.name = new.name
      BY <2>2 DEF Database, Account
    <2>5. \A a \in db.accounts : a.id = old.id => a = old
      BY KeyedDB
    <2> HIDE DEF Set
    <2>6. Rows = (db.accounts \ {old}) \cup {now}
      BY <2>1, <2>3, <2>5
    <2> HIDE DEF Rows, now
    <2>7. CASE now = old
      BY <2>1, <2>2, <2>6, <2>7 DEF OneEntry, Database
    <2>8. CASE now # old
      <3>1. /\ B!Only({"accounts"})
            /\ B!Came("accounts") = {now} /\ B!Gone("accounts") = {old}
        BY <2>1, <2>2, <2>4, <2>5, <2>6, <2>8 DEF Database, B!Only, B!Came, B!Gone, B!Table
      <3>2. ~NameTaken(db.accounts, now)
        BY <2>1, <2>2, <2>3, <2>4 DEF NameTaken
      <3>3. {old} = {a \in db.accounts : a.id = now.id}
        BY <2>1, <2>4, <2>5
      <3>4. B!Enter(u)
        BY <2>1, <2>4, <3>1, <3>2, <3>3, SameWords DEF B!Enter
      <3>5. Drawing(r)
        BY <2>1, <2>2, <2>4, <2>6 DEF Drawing, Database, Ids
      <3> QED
        BY <2>2, <3>4, <3>5 DEF OneEntry, Entry
    <2> QED
      BY <2>7, <2>8
  <1> QED
    BY <1>1, <1>2 DEF WriteAccount

LEMMA WriteCategoryEnters ==
  ASSUME KInv, IInv', NEW r \in Request, WriteCategory(r)
  PROVE  OneEntry(r)
  <1> DEFINE u == in[r].user
             new == row[r]
             Set(c) == [c EXCEPT !.name = new.name, !.archived = new.archived]
             Rows == {IF c.id = new.id /\ c.owner = u THEN Set(c) ELSE c : c \in db.categories}
  <1>1. CASE Refuse(r, "error") \/ Refuse(r, "conflict")
    BY <1>1 DEF Refuse, OneEntry
  <1>2. CASE /\ Mine(db.categories, r) # {} /\ ~CategoryNameTaken(db.categories, new)
             /\ Write(r, UpdateCategory(db, u, new), "ok")
    <2>1. PICK old \in db.categories : old.id = in[r].id /\ old.owner = u
      BY <1>2 DEF Mine, Find
    <2> DEFINE now == Set(old)
    <2>2. /\ db \in Database /\ db' \in Database /\ db' = [db EXCEPT !.categories = Rows]
          /\ ~CategoryNameTaken(db.categories, new)
      BY <1>2 DEF Write, UpdateCategory, KInv, LInv, IInv, TypeOK
    <2>3. /\ new.id = in[r].id /\ new.owner = u
          /\ \A c \in db.categories : c.id = new.id => c.kind = new.kind
      BY DEF WriteCategory, At, KInv, Remembers, Updates
    <2>4. now.id = old.id /\ now.owner = old.owner /\ now.name = new.name /\ now.kind = old.kind
      BY <2>2 DEF Database, Category
    <2>5. \A c \in db.categories : c.id = old.id => c = old
      BY KeyedDB
    <2> HIDE DEF Set
    <2>6. Rows = (db.categories \ {old}) \cup {now}
      BY <2>1, <2>3, <2>5
    <2> HIDE DEF Rows, now
    <2>7. CASE now = old
      BY <2>1, <2>2, <2>6, <2>7 DEF OneEntry, Database
    <2>8. CASE now # old
      <3>1. /\ B!Only({"categories"})
            /\ B!Came("categories") = {now} /\ B!Gone("categories") = {old}
        BY <2>1, <2>2, <2>4, <2>5, <2>6, <2>8 DEF Database, B!Only, B!Came, B!Gone, B!Table
      <3>2. ~CategoryNameTaken(db.categories, now)
        BY <2>1, <2>2, <2>3, <2>4 DEF CategoryNameTaken, NameTaken
      <3>3. {old} = {c \in db.categories : c.id = now.id}
        BY <2>1, <2>4, <2>5
      <3>4. B!Enter(u)
        BY <2>1, <2>4, <3>1, <3>2, <3>3, SameWords DEF B!Enter
      <3>5. Drawing(r)
        BY <2>1, <2>2, <2>4, <2>6 DEF Drawing, Database, Ids
      <3> QED
        BY <2>2, <3>4, <3>5 DEF OneEntry, Entry
    <2> QED
      BY <2>7, <2>8
  <1> QED
    BY <1>1, <1>2 DEF WriteCategory

LEMMA RemoveAccountEnters ==
  ASSUME KInv, IInv', NEW r \in Request, RemoveAccount(r)
  PROVE  OneEntry(r)
  <1> DEFINE u == in[r].user
             id == in[r].id
             gone == Ids(Find(db.accounts, u, id))
             lost == {b.id : b \in {x \in db.batches : x.account \in gone}}
             Rows == {t \in db.transactions : t.account \notin gone /\ t.batch \notin lost}
  <1>1. CASE Refuse(r, "not_found")
    BY <1>1 DEF Refuse, OneEntry
  <1>2. CASE /\ Mine(db.accounts, r) # {}
             /\ Write(r, DeleteAccount(db, u, id), "no_content")
    <2>1. PICK a \in db.accounts : a.id = id /\ a.owner = u
      BY SMTT(60), <1>2 DEF Mine, Find
    <2>2. /\ db \in Database /\ db' \in Database
          /\ db'.accounts = {x \in db.accounts : ~(x.id = id /\ x.owner = u)}
          /\ db'.categories = db.categories
          /\ db'.batches = {b \in db.batches : b.account \notin gone}
          /\ db'.transactions = Rows
          /\ db'.snapshots = {s \in db.snapshots : s.account \notin gone}
      BY ZenonT(60), <1>2 DEF Write, DeleteAccount, KInv, LInv, IInv, TypeOK, Database
    <2>3. gone = {id}
      BY <2>1 DEF Find, Ids
    <2>4. db'.accounts = db.accounts \ {a}
      BY <2>1, <2>2, KeyedDB
    <2>5. \A t \in db.transactions : t.batch \in lost => t.account = id
      BY <2>3, GoodDB DEF KInv, LInv, Good, Owned
    <2>6. db'.transactions = {t \in db.transactions : t.account # id}
      BY <2>2, <2>3, <2>5
    <2> HIDE DEF gone, lost, Rows
    <2>7. /\ \A table \in B!Table : B!Came(table) = {}
          /\ B!Only({"accounts", "batches", "transactions", "snapshots"})
          /\ B!Gone("accounts") = {a}
          /\ \A table \in {"batches", "transactions", "snapshots"} :
               B!Gone(table) = {x \in db[table] : x.account = a.id}
      BY <2>1, <2>2, <2>3, <2>4, <2>6 DEF Database, B!Only, B!Came, B!Gone, B!Table
    <2>8. B!CloseAccount(u)
      BY <2>1, <2>7 DEF B!CloseAccount
    <2>9. Drawing(r)
      BY <2>2, DeletingDraws DEF Rows
    <2> QED
      BY <2>2, <2>8, <2>9 DEF OneEntry, Entry
  <1> QED
    BY <1>1, <1>2 DEF RemoveAccount

LEMMA PutSnapshotEnters ==
  ASSUME KInv, IInv', NEW r \in Request, PutSnapshot(r)
  PROVE  OneEntry(r)
  <1> DEFINE u == in[r].user
             new == [id |-> <<r, 1>>, owner |-> u, account |-> in[r].account,
                     asOf |-> in[r].date, balance |-> in[r].amount]
             same == {s \in db.snapshots : s.account = new.account /\ s.asOf = new.asOf}
             Set(s) == [s EXCEPT !.balance = new.balance]
  <1>1. CASE Refuse(r, "error")
    BY <1>1 DEF Refuse, OneEntry
  <1>2. CASE Write(r, UpsertSnapshot(db, new), "ok")
    <2>1. /\ in[r].op = "upsertSnapshot" /\ pc[r] = "write" /\ pc'[r] = "done"
      BY <1>2 DEF PutSnapshot, At, Write, Respond, KInv, LInv, IInv, TypeOK
    <2>2. Belongs(in, r, new.account)
      BY <2>1 DEF KInv, LInv, IInv, Checked, AccountChecked, NeedsAccount
    <2>3. new.id = <<r, 1>> /\ new.owner = u
      OBVIOUS
    <2>4. /\ db \in Database /\ db' \in Database
          /\ db' = [db EXCEPT !.snapshots =
                      IF same = {} THEN @ \cup {new}
                      ELSE (@ \ same) \cup {Set(s) : s \in same}]
      BY <1>2 DEF Write, UpsertSnapshot, KInv, LInv, IInv, TypeOK
    <2> HIDE DEF new
    <2>5. CASE same = {}
      <3>1. db' = [db EXCEPT !.snapshots = @ \cup {new}]
        BY <2>4, <2>5
      <3>2. \A s \in db.snapshots : s.id # new.id
        BY <2>1, <2>3, UsedDB, DrawnIsNew
      <3>3. /\ B!Only({"snapshots"})
            /\ B!Came("snapshots") = {new} /\ B!Gone("snapshots") = {}
        BY <2>4, <3>1, <3>2 DEF Database, B!Only, B!Came, B!Gone, B!Table
      <3>4. B!Enter(u)
        BY <2>3, <2>5, <3>2, <3>3 DEF B!Enter
      <3>5. /\ db'.accounts = db.accounts /\ db'.categories = db.categories
            /\ db'.batches = db.batches /\ db'.transactions = db.transactions
            /\ db'.snapshots = db.snapshots \cup {new}
        BY <2>4, <3>1 DEF Database
      <3>6. Mark(r, new.id)
        BY <2>1, <2>3 DEF Mark
      <3>7. Drawing(r)
        BY <2>4, <3>5, <3>6 DEF Drawing, Database, Ids
      <3> QED
        BY <2>4, <3>4, <3>7 DEF OneEntry, Entry
    <2>6. ASSUME NEW old \in same PROVE OneEntry(r)
      <3> DEFINE now == Set(old)
      <3>1. same = {old}
        BY <2>6, KeyedDB
      <3>2. db' = [db EXCEPT !.snapshots = (@ \ {old}) \cup {now}]
        BY <2>4, <2>6, <3>1
      <3>3. /\ now.id = old.id /\ now.owner = old.owner
            /\ now.account = old.account /\ now.asOf = old.asOf
        BY <2>4, <2>6 DEF Database, Snapshot
      <3>4. old.owner = u
        BY <2>2, <2>6, GoodDB DEF KInv, LInv, Good, Owned, OwnedOnAccount, Belongs
      <3>5. \A s \in db.snapshots : s.id = old.id => s = old
        BY <2>6, KeyedDB
      <3> HIDE DEF now, Set
      <3>6. CASE now = old
        BY <2>4, <2>6, <3>2, <3>6 DEF OneEntry, Database
      <3>7. CASE now # old
        <4>1. /\ B!Only({"snapshots"})
              /\ B!Came("snapshots") = {now} /\ B!Gone("snapshots") = {old}
          BY <2>4, <2>6, <3>2, <3>3, <3>5, <3>7 DEF Database, B!Only, B!Came, B!Gone, B!Table
        <4>2. {old} = {s \in db.snapshots : s.id = now.id}
          BY <2>6, <3>3, <3>5
        <4>3. \A s \in db.snapshots : s.account = now.account /\ s.asOf = now.asOf => s.id = now.id
          BY <2>6, <3>3, KeyedDB
        <4>4. B!Enter(u)
          BY <3>3, <3>4, <4>1, <4>2, <4>3 DEF B!Enter
        <4>5. Drawing(r)
          BY <2>4, <2>6, <3>2, <3>3 DEF Drawing, Database, Ids
        <4> QED
          BY <2>4, <4>4, <4>5 DEF OneEntry, Entry
      <3> QED
        BY <3>6, <3>7
    <2> QED
      BY <2>5, <2>6
  <1> QED
    BY <1>1, <1>2 DEF PutSnapshot

LEMMA RemoveSnapshotEnters ==
  ASSUME KInv, IInv', NEW r \in Request, RemoveSnapshot(r)
  PROVE  OneEntry(r)
  <1> DEFINE u == in[r].user
             id == in[r].id
             Left == {s \in db.snapshots : ~(s.id = id /\ s.owner = u)}
  <1>1. db \in Database /\ db' \in Database /\ db' = [db EXCEPT !.snapshots = Left]
    BY DEF RemoveSnapshot, Write, DeleteSnapshot, KInv, LInv, IInv, TypeOK
  <1>2. CASE Left = db.snapshots
    BY <1>1, <1>2 DEF OneEntry, Database
  <1>3. ASSUME NEW s \in db.snapshots, s.id = id, s.owner = u PROVE OneEntry(r)
    <2>1. Left = db.snapshots \ {s}
      BY <1>3, KeyedDB
    <2> HIDE DEF Left
    <2>2. /\ B!Only({"snapshots"})
          /\ B!Came("snapshots") = {} /\ B!Gone("snapshots") = {s}
      BY <1>1, <1>3, <2>1 DEF Database, B!Only, B!Came, B!Gone, B!Table
    <2>3. B!DropSnapshot(u)
      BY <1>3, <2>2 DEF B!DropSnapshot
    <2>4. Drawing(r)
      BY <1>1, <2>1, DeletingDraws DEF Database
    <2> QED
      BY <1>1, <2>3, <2>4 DEF OneEntry, Entry
  <1> QED
    BY <1>2, <1>3

-----------------------------------------------------------------------------
(* The two commits. *)

LEMMA CommitDraws ==
  ASSUME KInv, IInv', NEW r \in Request, Commit(r)
  PROVE  /\ db \in Database /\ db' \in Database /\ Drawing(r)
         /\ db'.batches = db.batches \cup open[r].batches
         /\ db'.transactions = db.transactions \cup Staged(r)
         /\ db'.accounts = db.accounts /\ db'.categories = db.categories
         /\ db'.snapshots = db.snapshots
  <1>1. /\ db \in Database /\ db' \in Database /\ pc[r] = "commit" /\ pc'[r] = "done"
        /\ db' = [db EXCEPT !.batches = @ \cup open[r].batches,
                            !.transactions = @ \cup Staged(r)]
    BY DEF Commit, Respond, KInv, LInv, IInv, TypeOK
  <1>2. StagedOwned(in, r, open[r]) /\ Scripted(r)
    BY DEF KInv, LInv, IInv, Checked
  <1>3. ASSUME NEW t \in Staged(r)
        PROVE  /\ t.id[1] = r
               /\ t.group = NULL \/ t.group[1] = r
               /\ t.batch = NULL \/ t.batch[1] = r
    <2>1. PICK k \in DOMAIN open[r].transactions : t = open[r].transactions[k]
      BY DEF Staged
    <2>2. Drawn(r, t)
      BY <1>2, <2>1 DEF StagedOwned
    <2>3. t = Leg(r, k) \/ t = Imported(r, k)
      BY <1>1, <1>2, <2>1 DEF Scripted
    <2>4. t.group = NULL \/ t.group = <<r, 0>>
      BY <2>3 DEF Leg, Imported
    <2> QED
      BY <2>2, <2>4 DEF Drawn
  <1>4. \A b \in open[r].batches : b.id[1] = r
    BY <1>2 DEF StagedOwned
  <1>5. /\ db'.batches = db.batches \cup open[r].batches
        /\ db'.transactions = db.transactions \cup Staged(r)
        /\ db'.accounts = db.accounts /\ db'.categories = db.categories
        /\ db'.snapshots = db.snapshots
    BY <1>1 DEF Database
  <1>6. Drawing(r)
    BY <1>1, <1>3, <1>4, <1>5 DEF Drawing, Mark, Database, Ids
  <1> QED
    BY <1>1, <1>5, <1>6

(* What was staged is filed and is new. *)
LEMMA StagedIsFiled ==
  ASSUME KInv, NEW r \in Request, pc[r] = "commit", NEW t \in Staged(r), t.owner = in[r].user
  PROVE  /\ B!Filed(in[r].user, t) /\ t.id \notin Ids(db.transactions)
         /\ t.category = NULL
  <1>1. /\ AccountLive(db, t.account) /\ t.category = NULL
        /\ OwnerOf(in, t.account) = t.owner /\ t.id[1] = r /\ in[r].user \in User
    <2>1. PICK k \in DOMAIN open[r].transactions : t = open[r].transactions[k]
      BY DEF Staged
    <2>2. OnLive(db, open[r]) /\ Coherent(r, pc[r], open[r]) /\ StagedOwned(in, r, open[r])
      BY DEF KInv, LInv, IInv, Checked
    <2>3. AccountLive(db, t.account) /\ t.category = NULL
      BY <2>1, <2>2 DEF OnLive, Coherent
    <2>4. OwnedTransaction(in, t) /\ Drawn(r, t)
      BY <2>1, <2>2 DEF StagedOwned
    <2>5. in[r].user \in User
      BY DEF KInv, LInv, IInv, TypeOK, Input
    <2> QED
      BY <2>3, <2>4, <2>5 DEF OwnedTransaction, OwnedOnAccount, Drawn
  <1>2. B!Filed(in[r].user, t)
    BY <1>1, IsFiled DEF CategoryLive
  <1>3. t.id \notin Ids(db.transactions)
    BY <1>1, UsedDB DEF Used, Ids
  <1> QED
    BY <1>1, <1>2, <1>3

LEMMA TransferEnters ==
  ASSUME KInv, IInv', NEW r \in Request, Commit(r), in[r].op = "createTransfer"
  PROVE  OneEntry(r)
  <1> DEFINE u == in[r].user
             out == Leg(r, 1)
             into == Leg(r, 2)
  <1>1. pc[r] = "commit"
    BY DEF Commit
  <1>2. /\ open[r].batches = {} /\ Len(open[r].transactions) = 2
        /\ \A k \in DOMAIN open[r].transactions : open[r].transactions[k] = Leg(r, k)
        /\ open[r].transactions \in Seq(Transaction)
    BY <1>1 DEF KInv, Scripted, LInv, IInv, TypeOK
  <1>3. Staged(r) = {out, into}
    <2>1. DOMAIN open[r].transactions = {1, 2}
      BY <1>2
    <2> QED
      BY <1>2, <2>1 DEF Staged
  <1>4. ~Malformed(in[r]) /\ in[r] \in Input
    BY <1>1 DEF KInv, LInv, IInv, TypeOK, Checked, AccountChecked, NeedsAccount
  <1>5. /\ in[r].amount \in Int /\ in[r].amount > 0 /\ in[r].account # in[r].peer
    BY <1>4 DEF Malformed, Input
  <1>6. /\ out.id = <<r, 1>> /\ into.id = <<r, 2>> /\ out.owner = u /\ into.owner = u
        /\ out.account = in[r].account /\ into.account = in[r].peer
        /\ out.amount = -in[r].amount /\ into.amount = in[r].amount
        /\ out.date = in[r].date /\ into.date = in[r].date
        /\ out.group = <<r, 0>> /\ into.group = <<r, 0>>
        /\ out.category = NULL /\ into.category = NULL
        /\ out.batch = NULL /\ into.batch = NULL
    BY DEF Leg
  <1> HIDE DEF out, into
  <1>7. /\ B!Filed(u, out) /\ B!Filed(u, into)
        /\ out.id \notin Ids(db.transactions) /\ into.id \notin Ids(db.transactions)
    BY <1>1, <1>3, <1>6, StagedIsFiled
  <1>8. out.group # NULL /\ \A t \in db.transactions : t.group # out.group
    BY <1>1, <1>6, UsedDB, DrawnIsNew DEF UsedOrNull
  <1>9. /\ B!Only({"transactions"})
        /\ B!Came("transactions") = {out, into} /\ B!Gone("transactions") = {}
    BY <1>2, <1>3, <1>7, CommitDraws DEF B!Only, B!Came, B!Gone, B!Table, Ids
  <1>10. B!New(out) /\ B!New(into)
    BY <1>7, SameWords DEF B!New
  <1>11. out.amount < 0 /\ into.amount = -out.amount
    BY <1>5, <1>6
  <1>12. B!Move(u)
    BY <1>5, <1>6, <1>7, <1>8, <1>9, <1>10, <1>11 DEF B!Move
  <1> QED
    BY <1>12, CommitDraws DEF OneEntry, Entry

(* As many rows as positions, when no two positions have the same row. *)
LEMMA RowsCounted ==
  ASSUME NEW s, NEW n \in Nat, DOMAIN s = 1..n, NEW rows, rows = {s[k] : k \in 1..n},
         \A j, k \in 1..n : s[j] = s[k] => j = k
  PROVE  Cardinality(rows) = n
  <1> DEFINE f == [k \in 1..n |-> s[k]]
  <1>1. f \in [1..n -> rows]
    OBVIOUS
  <1>2. \A j, k \in 1..n : f[j] = f[k] => j = k
    OBVIOUS
  <1>3. \A x \in rows : \E k \in 1..n : f[k] = x
    OBVIOUS
  <1> HIDE DEF f
  <1>4. f \in Bijection(1..n, rows)
    BY <1>1, <1>2, <1>3, Fun_IsBij
  <1>5. ExistsBijection(1..n, rows)
    BY <1>4 DEF ExistsBijection
  <1> QED
    BY <1>5, FS_CountingElements

LEMMA ImportEnters ==
  ASSUME KInv, IInv', NEW r \in Request, Commit(r), in[r].op = "commitImport"
  PROVE  OneEntry(r)
  <1> DEFINE u == in[r].user
             n == Len(in[r].rows)
             b == [id |-> <<r, 0>>, owner |-> u, account |-> in[r].account, count |-> n]
             staged == open[r].transactions
  <1>1. pc[r] = "commit" /\ in[r] \in Input
    BY DEF Commit, KInv, LInv, IInv, TypeOK
  <1>2. /\ open[r].batches = {b} /\ staged \in Seq(Transaction) /\ Len(staged) = n
        /\ \A k \in DOMAIN staged : staged[k] = Imported(r, k)
    BY <1>1 DEF KInv, Scripted, LInv, IInv, TypeOK
  <1>3. n \in Nat
    BY <1>1 DEF Input
  <1>4. b.id = <<r, 0>> /\ b.owner = u /\ b.account = in[r].account /\ b.count = n
    OBVIOUS
  <1> HIDE DEF b, staged, n
  <1>5. ASSUME NEW k \in DOMAIN staged
        PROVE  /\ staged[k].id = <<r, k>> /\ staged[k].owner = u
               /\ staged[k].account = b.account /\ staged[k].batch = b.id
               /\ staged[k].group = NULL /\ staged[k].category = NULL
               /\ staged[k].hash = DedupHash(staged[k].date, staged[k].amount, staged[k].payee)
    BY <1>2, <1>4 DEF Imported
  <1>6. DOMAIN staged = 1..n /\ Staged(r) = {staged[k] : k \in 1..n}
    BY <1>2 DEF Staged, staged
  <1>7. Cardinality(Staged(r)) = n
    BY <1>3, <1>5, <1>6, RowsCounted
  <1>8. \A t, other \in Staged(r) : t.id = other.id => t = other
    BY <1>5, <1>6
  <1>9. ASSUME NEW t \in Staged(r)
        PROVE  /\ B!Filed(u, t) /\ B!New(t) /\ B!Current(t)
               /\ t.account = b.account /\ t.batch = b.id
               /\ t.category = NULL /\ t.group = NULL
               /\ t \notin db.transactions
    <2>1. PICK k \in DOMAIN staged : t = staged[k]
      BY <1>6
    <2>2. B!Filed(u, t) /\ t.id \notin Ids(db.transactions)
      BY <1>1, <1>5, <2>1, StagedIsFiled
    <2> QED
      BY <1>5, <2>1, <2>2, SameWords DEF B!New, B!Current, Ids
  <1>10. /\ b.id \notin Ids(db.batches) /\ b \notin db.batches
         /\ \A t \in db.transactions : t.batch # b.id
    BY <1>1, <1>4, UsedDB, DrawnIsNew DEF UsedOrNull, Ids
  <1>11. /\ B!Only({"batches", "transactions"})
         /\ B!Came("batches") = {b} /\ B!Gone("batches") = {}
         /\ B!Came("transactions") = Staged(r) /\ B!Gone("transactions") = {}
    BY <1>2, <1>9, <1>10, CommitDraws DEF B!Only, B!Came, B!Gone, B!Table
  <1>12. B!Land(u)
    BY <1>4, <1>7, <1>8, <1>9, <1>10, <1>11, SameWords, SameCount DEF B!Land
  <1> QED
    BY <1>12, CommitDraws DEF OneEntry, Entry

LEMMA CommitEnters ==
  ASSUME KInv, IInv', NEW r \in Request, Commit(r)
  PROVE  OneEntry(r)
  BY ZenonT(60), TransferEnters, ImportEnters DEF Commit, KInv, Scripted

-----------------------------------------------------------------------------
(* Every other step leaves the database alone. *)

Looks(r) ==
  \/ OwnAccount(r) \/ OwnPeer(r) \/ OwnCategory(r) \/ LoadTransaction(r)
  \/ CreateLeg(r) \/ CreateBatch(r) \/ ImportRow(r) \/ LoadAccount(r)
  \/ CountTransactions(r) \/ LoadCategory(r) \/ FindTarget(r) \/ Abort(r)

LEMMA LooksEnters ==
  ASSUME NEW r \in Request, Looks(r)
  PROVE  db' = db
  BY ZenonT(60)
     DEF Looks, OwnAccount, OwnPeer, OwnCategory, LoadTransaction, CreateLeg, CreateBatch,
         ImportRow, LoadAccount, CountTransactions, LoadCategory, FindTarget, Abort,
         Refuse, Goto, Stage

LEMMA StepEnters ==
  ASSUME KInv, IInv', NEW r \in Request, Handle(r) \/ Abort(r)
  PROVE  OneEntry(r)
  <1>1. CASE Looks(r)
    BY <1>1, LooksEnters DEF OneEntry
  <1>2. CASE ~Looks(r)
    BY <1>2, CreateTransactionEnters, WriteTransactionEnters, RemoveTransactionEnters,
       RevertImportEnters, CommitEnters, CreateAccountEnters, WriteAccountEnters,
       RemoveAccountEnters, PutSnapshotEnters, RemoveSnapshotEnters, CreateCategoryEnters,
       WriteCategoryEnters, ReassignEnters, RemoveCategoryEnters DEF Handle, Looks
  <1> QED
    BY <1>1, <1>2

-----------------------------------------------------------------------------
(* What an entry may make of the tables. *)

LEMMA TableAfter ==
  /\ db'.accounts = (db.accounts \ B!Gone("accounts")) \cup B!Came("accounts")
  /\ db'.categories = (db.categories \ B!Gone("categories")) \cup B!Came("categories")
  /\ db'.batches = (db.batches \ B!Gone("batches")) \cup B!Came("batches")
  /\ db'.transactions = (db.transactions \ B!Gone("transactions")) \cup B!Came("transactions")
  /\ db'.snapshots = (db.snapshots \ B!Gone("snapshots")) \cup B!Came("snapshots")
  BY DEF B!Came, B!Gone

LEMMA OnlySame ==
  ASSUME NEW tables, B!Only(tables)
  PROVE  /\ "accounts" \notin tables => db'.accounts = db.accounts
         /\ "categories" \notin tables => db'.categories = db.categories
         /\ "batches" \notin tables => db'.batches = db.batches
         /\ "transactions" \notin tables => db'.transactions = db.transactions
         /\ "snapshots" \notin tables => db'.snapshots = db.snapshots
  BY DEF B!Only, B!Table

(* The row is new, in a group, if any, that is new. *)
Fresh(t, u) ==
  /\ t.id \notin Ids(db.transactions) /\ t.owner = u
  /\ t.group # NULL => /\ t.category = NULL
                       /\ \A old \in db.transactions : old.group # t.group

(* The row was there, and only what may be edited differs. *)
Follows(t, old) ==
  /\ t.id = old.id /\ t.owner = old.owner /\ t.account = old.account
  /\ t.group = old.group /\ t.batch = old.batch
  /\ old.group # NULL => t = old

FollowsSome(t) == \E old \in db.transactions : Follows(t, old)

TransactionsAfter(u) ==
  /\ \A t \in db'.transactions : Fresh(t, u) \/ FollowsSome(t)
  /\ \A t, other \in db'.transactions : t.id = other.id => t = other

LEMMA FileAfter ==
  ASSUME KInv, NEW u, NEW from \in Id, NEW to, B!File(u, from, to)
  PROVE  TransactionsAfter(u)
  <1> DEFINE Moved(t) == [t EXCEPT !.category = to]
             filed == {t \in db.transactions : t.category = from}
  <1>1. db'.transactions = (db.transactions \ filed) \cup {Moved(t) : t \in filed}
    BY DEF B!File
  <1>2. \A t \in filed : /\ Moved(t).id = t.id /\ Moved(t).owner = t.owner
                         /\ Moved(t).account = t.account /\ Moved(t).group = t.group
                         /\ Moved(t).batch = t.batch
    BY DEF KInv, LInv, IInv, TypeOK, Database, Transaction
  <1>3. \A t \in filed : t.group = NULL
    BY KeyedDB, NullAssumption
  <1> HIDE DEF Moved
  <1>4. \A t \in filed : Follows(Moved(t), t)
    BY <1>2, <1>3 DEF Follows
  <1>5. \A t \in db.transactions : Follows(t, t)
    BY DEF Follows
  <1>6. \A t \in db'.transactions : FollowsSome(t)
    BY <1>1, <1>4, <1>5 DEF FollowsSome
  <1>7. ASSUME NEW t \in db'.transactions, NEW other \in db'.transactions, t.id = other.id
        PROVE  t = other
    BY <1>1, <1>2, <1>7, KeyedDB
  <1> QED
    BY <1>6, <1>7 DEF TransactionsAfter

LEMMA EntryTransactions ==
  ASSUME KInv, NEW u \in User, Entry(u)
  PROVE  TransactionsAfter(u)
  <1>0. \A t \in db.transactions : Follows(t, t)
    BY DEF Follows
  <1>a. db'.transactions = (db.transactions \ B!Gone("transactions")) \cup B!Came("transactions")
    BY TableAfter
  <1>b. ASSUME B!Came("transactions") = {} PROVE TransactionsAfter(u)
    BY <1>0, <1>a, <1>b, KeyedDB DEF TransactionsAfter, FollowsSome
  <1>c. ASSUME db'.transactions = db.transactions PROVE TransactionsAfter(u)
    BY <1>0, <1>c, KeyedDB DEF TransactionsAfter, FollowsSome
  <1>1. CASE B!Record(u)
    BY <1>0, <1>1, <1>a, SameWords, KeyedDB
       DEF B!Record, B!New, B!Filed, TransactionsAfter, FollowsSome, Fresh, Ids
  <1>2. CASE B!Correct(u)
    <2>1. PICK old, new :
            /\ old \in B!Gone("transactions") /\ B!Gone("transactions") = {old}
            /\ B!Came("transactions") = {new}
            /\ old.owner = u /\ old.group = NULL /\ new.owner = u
            /\ new.id = old.id /\ new.account = old.account
            /\ new.group = NULL /\ new.batch = old.batch
      BY <1>2 DEF B!Correct, B!Filed
    <2>2. old \in db.transactions
      BY <2>1 DEF B!Gone
    <2>3. Follows(new, old)
      BY <2>1 DEF Follows
    <2> QED
      BY <1>0, <1>a, <2>1, <2>2, <2>3, KeyedDB DEF TransactionsAfter, FollowsSome
  <1>3. CASE B!Move(u)
    <2>1. PICK out, into :
            /\ B!Came("transactions") = {out, into}
            /\ out.id # into.id /\ out.owner = u /\ into.owner = u
            /\ out.id \notin Ids(db.transactions) /\ into.id \notin Ids(db.transactions)
            /\ out.category = NULL /\ into.category = NULL
            /\ into.group = out.group /\ \A t \in db.transactions : t.group # out.group
      BY <1>3, SameWords DEF B!Move, B!New, B!Filed
    <2>2. Fresh(out, u) /\ Fresh(into, u)
      BY <2>1 DEF Fresh
    <2> QED
      BY <1>0, <1>a, <2>1, <2>2, KeyedDB DEF TransactionsAfter, FollowsSome, Ids
  <1>4. CASE B!Land(u)
    <2>1. /\ \A t, other \in B!Came("transactions") : t.id = other.id => t = other
          /\ \A t \in B!Came("transactions") :
               t.id \notin Ids(db.transactions) /\ t.owner = u /\ t.group = NULL
      BY <1>4, SameWords DEF B!Land, B!New, B!Filed
    <2>2. \A t \in B!Came("transactions") : Fresh(t, u)
      BY <2>1 DEF Fresh
    <2> QED
      BY <1>0, <1>a, <2>1, <2>2, KeyedDB DEF TransactionsAfter, FollowsSome, Ids
  <1>5. CASE B!Erase(u) \/ B!TakeBack(u)
    BY <1>5, <1>b DEF B!Erase, B!TakeBack
  <1>6. CASE B!CloseAccount(u)
    BY <1>6, <1>b DEF B!CloseAccount, B!Table
  <1>7. CASE B!Refile(u)
    <2>1. PICK from, to : B!File(u, from, to) /\ from \in Ids(db.categories)
      BY <1>7, SameWords DEF B!Refile, Ids
    <2> QED
      BY <2>1, FileAfter DEF KInv, LInv, IInv, TypeOK, Database, Category, Ids
  <1>8. CASE B!DropCategory(u)
    <2>1. PICK c \in db.categories : B!File(u, c.id, NULL)
      BY <1>8 DEF B!DropCategory, B!Gone
    <2> QED
      BY <2>1, FileAfter DEF KInv, LInv, IInv, TypeOK, Database, Category
  <1>9. CASE B!Enter(u) \/ B!DropSnapshot(u)
    BY <1>9, <1>c, OnlySame DEF B!Enter, B!DropSnapshot
  <1> QED
    BY <1>1, <1>2, <1>3, <1>4, <1>5, <1>6, <1>7, <1>8, <1>9 DEF Entry
=============================================================================
