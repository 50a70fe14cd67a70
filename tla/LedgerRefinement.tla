-------------------------- MODULE LedgerRefinement ---------------------------
(***************************************************************************)
(* Ledger implements Books, and what follows from it: transactions stay    *)
(* where they are, imports land whole, what was deleted stays deleted.     *)
(*                                                                         *)
(* LedgerEntries says what a step does under KInv; here KInv is shown to   *)
(* be an invariant.  An id a request draws is used by nobody before the    *)
(* step that answers it, so no row another handler remembers, and no row   *)
(* that was deleted, can come back under its id.                           *)
(***************************************************************************)
EXTENDS LedgerEntries

-----------------------------------------------------------------------------
(* A step of r is a step of nobody else. *)

Alone(r) ==
  /\ in' = in /\ pc[r] # "done"
  /\ \A s \in Request \ {r} : /\ pc'[s] = pc[s] /\ row'[s] = row[s]
                              /\ open'[s] = open[s] /\ resp'[s] = resp[s]

LEMMA MovesAlone ==
  ASSUME IInv, NEW r \in Request, Handle(r) \/ Abort(r)
  PROVE  Alone(r)
  <1> USE DEF Alone, IInv, TypeOK, At
  <1>1. CASE \/ OwnAccount(r) \/ OwnPeer(r) \/ OwnCategory(r)
             \/ LoadTransaction(r) \/ LoadAccount(r) \/ LoadCategory(r)
             \/ CountTransactions(r) \/ FindTarget(r) \/ Reassign(r)
    BY <1>1 DEF OwnAccount, OwnPeer, OwnCategory, LoadTransaction, LoadAccount,
                LoadCategory, CountTransactions, FindTarget, Reassign,
                Goto, Refuse, Respond
  <1>2. CASE \/ CreateTransaction(r) \/ WriteTransaction(r) \/ RemoveTransaction(r)
             \/ RevertImport(r) \/ CreateAccount(r) \/ WriteAccount(r)
             \/ RemoveAccount(r) \/ PutSnapshot(r) \/ RemoveSnapshot(r)
             \/ CreateCategory(r) \/ WriteCategory(r) \/ RemoveCategory(r)
    BY <1>2 DEF CreateTransaction, WriteTransaction, RemoveTransaction,
                RevertImport, CreateAccount, WriteAccount, RemoveAccount,
                PutSnapshot, RemoveSnapshot, CreateCategory, WriteCategory,
                RemoveCategory, Write, Refuse, Respond
  <1>3. CASE CreateLeg(r) \/ ImportRow(r) \/ CreateBatch(r)
    BY <1>3 DEF CreateLeg, ImportRow, CreateBatch, Stage, Goto, Refuse, Respond
  <1>4. CASE Commit(r) \/ Abort(r)
    BY <1>4 DEF Commit, Abort, Respond
  <1> QED
    BY <1>1, <1>2, <1>3, <1>4 DEF Handle

LEMMA UsedStays ==
  ASSUME NEW r \in Request, Alone(r), NEW id, Used(id)
  PROVE  Used(id)'
  BY DEF Used, Alone

(* What r draws nobody had, and nobody could ask for or remember. *)
LEMMA MarkIsNew ==
  ASSUME NEW r \in Request, Alone(r), NEW id, Mark(r, id)
  PROVE  ~Used(id) /\ Used(id)'
  BY DEF Used, Alone, Mark

-----------------------------------------------------------------------------
(* The other tables after an entry. *)

Distinct(table) == \A x, y \in table : x.id = y.id => x = y

CatalogueAfter ==
  /\ Distinct(db'.accounts) /\ Distinct(db'.categories)
  /\ Distinct(db'.batches) /\ Distinct(db'.snapshots)
  /\ \A s, other \in db'.snapshots :
       s.account = other.account /\ s.asOf = other.asOf => s = other
  /\ \A c \in db.categories, new \in db'.categories : c.id = new.id => c.kind = new.kind

(* Tables that only lose rows keep their keys. *)
LEMMA FewerKeys ==
  ASSUME KInv,
         db'.accounts \subseteq db.accounts, db'.categories \subseteq db.categories,
         db'.batches \subseteq db.batches, db'.snapshots \subseteq db.snapshots
  PROVE  CatalogueAfter
  BY KeyedDB DEF CatalogueAfter, Distinct

LEMMA EntryCatalogue ==
  ASSUME KInv, NEW u, Entry(u)
  PROVE  CatalogueAfter
  <1> USE OnlySame, TableAfter
  <1>1. CASE B!Record(u) \/ B!Correct(u) \/ B!Erase(u) \/ B!Move(u) \/ B!Refile(u)
    BY <1>1, FewerKeys DEF B!Record, B!Correct, B!Erase, B!Move, B!Refile
  <1>2. CASE B!TakeBack(u) \/ B!DropCategory(u) \/ B!DropSnapshot(u)
    BY <1>2, FewerKeys DEF B!TakeBack, B!DropCategory, B!DropSnapshot
  <1>3. CASE B!CloseAccount(u)
    <2>1. \A table \in B!Table : B!Came(table) = {}
      BY <1>3 DEF B!CloseAccount
    <2> QED
      BY <2>1, FewerKeys DEF B!Table
  <1>4. CASE B!Land(u)
    <2>1. PICK b : B!Came("batches") = {b} /\ b.id \notin Ids(db.batches)
      BY <1>4, SameWords DEF B!Land
    <2>2. /\ db'.accounts = db.accounts /\ db'.categories = db.categories
          /\ db'.snapshots = db.snapshots /\ B!Gone("batches") = {}
      BY <1>4 DEF B!Land
    <2>3. db'.batches = db.batches \cup {b}
      BY <2>1, <2>2
    <2>4. Distinct(db'.batches)
      BY <2>1, <2>3, KeyedDB DEF Distinct, Ids
    <2> QED
      BY <2>2, <2>4, KeyedDB DEF CatalogueAfter, Distinct
  <1>5. CASE B!Enter(u)
    <2>1. PICK table \in {"accounts", "categories", "snapshots"} :
            /\ B!Only({table})
            /\ \E new \in B!Came(table) :
                 /\ B!Came(table) = {new} /\ new.owner = u
                 /\ B!Gone(table) = {old \in db[table] : old.id = new.id}
                 /\ table = "categories" => \A old \in B!Gone(table) : old.kind = new.kind
                 /\ table = "snapshots" =>
                      \A s \in db.snapshots :
                        s.account = new.account /\ s.asOf = new.asOf => s.id = new.id
      BY <1>5 DEF B!Enter
    <2>2. PICK new \in B!Came(table) :
            /\ B!Came(table) = {new}
            /\ B!Gone(table) = {old \in db[table] : old.id = new.id}
            /\ table = "categories" => \A old \in B!Gone(table) : old.kind = new.kind
            /\ table = "snapshots" =>
                 \A s \in db.snapshots :
                   s.account = new.account /\ s.asOf = new.asOf => s.id = new.id
      BY <2>1
    <2>3. db'[table] = {old \in db[table] : old.id # new.id} \cup {new}
      BY <2>2 DEF B!Came, B!Gone
    <2>4. CASE table = "accounts"
      BY <2>1, <2>3, <2>4, KeyedDB DEF CatalogueAfter, Distinct
    <2>5. CASE table = "categories"
      BY <2>1, <2>2, <2>3, <2>5, KeyedDB DEF CatalogueAfter, Distinct
    <2>6. CASE table = "snapshots"
      BY <2>1, <2>2, <2>3, <2>6, KeyedDB DEF CatalogueAfter, Distinct
    <2> QED
      BY <2>4, <2>5, <2>6
  <1> QED
    BY <1>1, <1>2, <1>3, <1>4, <1>5 DEF Entry

-----------------------------------------------------------------------------
(* The database's part of the invariant. *)

Bookkept == Keyed(db) /\ IdsUsed /\ GroupsOwned

LEMMA EntryKeeps ==
  ASSUME KInv, NEW r \in Request, Alone(r), db' \in Database,
         Entry(in[r].user), Drawing(r)
  PROVE  Bookkept' /\ TransactionsAfter(in[r].user) /\ CatalogueAfter
  <1> DEFINE u == in[r].user
  <1>1. u \in User /\ in' = in
    BY DEF KInv, LInv, IInv, TypeOK, Input, Alone
  <1>2. TransactionsAfter(u) /\ CatalogueAfter
    BY <1>1, EntryTransactions, EntryCatalogue
  <1>3. KeysIn(db')
    BY <1>2 DEF TransactionsAfter, CatalogueAfter, Distinct, KeysIn, Database
  <1>4. LegsPlainIn(db')
    BY <1>2, KeyedDB DEF TransactionsAfter, Fresh, FollowsSome, Follows, LegsPlainIn
  <1>5. IdsUsed'
    <2>1. ASSUME NEW table \in DOMAIN db, NEW x \in db'[table] PROVE Used(x.id)'
      <3>1. CASE Mark(r, x.id)
        BY <3>1, MarkIsNew
      <3>2. CASE x.id \in Ids(db[table])
        BY <3>2, UsedStays DEF KInv, IdsUsed, Ids
      <3> QED
        BY <3>1, <3>2 DEF Drawing
    <2>2. DOMAIN db' = DOMAIN db
      BY DEF KInv, LInv, IInv, TypeOK, Database
    <2>3. ASSUME NEW t \in db'.transactions, t.group # NULL PROVE Used(t.group)'
      <3>1. CASE Mark(r, t.group)
        BY <3>1, MarkIsNew
      <3>2. CASE \E old \in db.transactions : old.group = t.group
        BY <2>3, <3>2, UsedDB, UsedStays DEF UsedOrNull
      <3> QED
        BY <2>3, <3>1, <3>2 DEF Drawing
    <2>4. ASSUME NEW t \in db'.transactions, t.batch # NULL PROVE Used(t.batch)'
      <3>1. CASE Mark(r, t.batch)
        BY <3>1, MarkIsNew
      <3>2. CASE \E old \in db.transactions : old.batch = t.batch
        BY <2>4, <3>2, UsedDB, UsedStays DEF UsedOrNull
      <3> QED
        BY <2>4, <3>1, <3>2 DEF Drawing
    <2> QED
      BY <2>1, <2>2, <2>3, <2>4 DEF IdsUsed, UsedOrNull
  <1>6. GroupsOwned'
    <2>1. ASSUME NEW t \in db'.transactions, t.group # NULL
          PROVE  OwnerOf(in, t.group) = t.owner
      <3>1. CASE FollowsSome(t)
        BY <2>1, <3>1 DEF KInv, GroupsOwned, FollowsSome, Follows
      <3>2. CASE Fresh(t, u)
        <4>1. Mark(r, t.group)
          BY <2>1, <3>2 DEF Fresh, Drawing
        <4> QED
          BY <3>2, <4>1, SchemaAssumption DEF Mark, OwnerOf, Fresh
      <3> QED
        BY <1>2, <3>1, <3>2 DEF TransactionsAfter
    <2> QED
      BY <1>1, <2>1 DEF GroupsOwned
  <1> QED
    BY <1>2, <1>3, <1>4, <1>5, <1>6 DEF Bookkept, Keyed

LEMMA StepKeepsBooked ==
  ASSUME KInv, IInv', NEW r \in Request, Handle(r) \/ Abort(r)
  PROVE  Bookkept'
  <1>1. Alone(r) /\ OneEntry(r)
    BY MovesAlone, StepEnters DEF KInv, LInv
  <1>2. CASE db' = db
    BY <1>1, <1>2, UsedStays DEF KInv, Bookkept, Keyed, IdsUsed, UsedOrNull, GroupsOwned, Alone
  <1>3. CASE db' # db
    BY <1>1, <1>3, EntryKeeps DEF OneEntry
  <1> QED
    BY <1>2, <1>3

-----------------------------------------------------------------------------
(* What the other handlers remember. *)

LEMMA OthersRemember ==
  ASSUME KInv, IInv', NEW r \in Request, Handle(r) \/ Abort(r), NEW s \in Request \ {r}
  PROVE  Remembers(s)'
  <1>1. Alone(r) /\ OneEntry(r)
    BY MovesAlone, StepEnters DEF KInv, LInv
  <1>2. pc'[s] = pc[s] /\ row'[s] = row[s] /\ in' = in
    BY <1>1 DEF Alone
  <1> SUFFICES ASSUME in[s].op \in Updates, pc[s] \in {"category", "write"}
               PROVE  /\ row[s].id = in[s].id /\ row[s].owner = in[s].user
                      /\ Used(row[s].id)'
                      /\ in[s].op = "updateTransaction" =>
                           \A t \in db'.transactions : t.id = row[s].id => t.group = NULL
                      /\ in[s].op = "updateCategory" =>
                           \A c \in db'.categories : c.id = row[s].id => c.kind = row[s].kind
    BY <1>2 DEF Remembers, Used
  <1>3. /\ row[s].id = in[s].id /\ row[s].owner = in[s].user /\ Used(row[s].id)
        /\ in[s].op = "updateTransaction" =>
             \A t \in db.transactions : t.id = row[s].id => t.group = NULL
        /\ in[s].op = "updateCategory" =>
             \A c \in db.categories : c.id = row[s].id => c.kind = row[s].kind
    BY DEF KInv, Remembers
  <1>4. Used(row[s].id)'
    BY <1>1, <1>2, <1>3, UsedStays DEF Used
  <1>5. CASE db' = db
    BY <1>3, <1>4, <1>5
  <1>6. CASE db' # db
    <2>1. /\ TransactionsAfter(in[r].user) /\ CatalogueAfter /\ Drawing(r)
          /\ db \in Database
      BY <1>1, <1>6, EntryKeeps DEF OneEntry, KInv, LInv, IInv, TypeOK
    <2>2. ~Mark(r, row[s].id)
      BY <1>1, <1>3, MarkIsNew
    <2>3. ASSUME NEW t \in db'.transactions, t.id = row[s].id
          PROVE  FollowsSome(t)
      BY <2>1, <2>2, <2>3 DEF TransactionsAfter, Drawing, Fresh, Database
    <2>4. ASSUME NEW c \in db'.categories, c.id = row[s].id
          PROVE  \E old \in db.categories : old.id = c.id /\ old.kind = c.kind
      BY <2>1, <2>2, <2>4 DEF CatalogueAfter, Drawing, Ids, Database
    <2> QED
      BY <1>3, <1>4, <2>3, <2>4 DEF FollowsSome, Follows
  <1> QED
    BY <1>5, <1>6

LEMMA OwnRemembers ==
  ASSUME KInv, IInv', NEW r \in Request, Handle(r) \/ Abort(r)
  PROVE  Remembers(r)'
  <1>1. Alone(r)
    BY MovesAlone DEF KInv, LInv
  <1> USE DEF At
  <1>2. CASE LoadTransaction(r) /\ pc'[r] # "done"
    <2>1. PICK t \in Mine(db.transactions, r) :
            /\ ~ReadOnly(t) /\ row' = [row EXCEPT ![r] = Patched(t, in[r])]
            /\ UNCHANGED <<db, open, in>>
      BY <1>2 DEF LoadTransaction, Refuse, Respond, Goto, KInv, LInv, IInv, TypeOK
    <2>2. t \in db.transactions /\ t.id = in[r].id /\ t.owner = in[r].user /\ t.group = NULL
      BY <2>1 DEF Mine, Find, ReadOnly
    <2>3. row'[r] = Patched(t, in[r])
      BY <2>1 DEF KInv, LInv, IInv, TypeOK
    <2>4. Patched(t, in[r]).id = t.id /\ Patched(t, in[r]).owner = t.owner
      BY <2>2 DEF Patched, KInv, LInv, IInv, TypeOK, Database, Transaction
    <2>5. Used(t.id)'
      BY <1>1, <2>2, UsedDB, UsedStays
    <2>6. \A x \in db.transactions : x.id = t.id => x.group = NULL
      BY <2>2, KeyedDB
    <2>7. in[r].op = "updateTransaction"
      BY <1>2 DEF LoadTransaction
    <2> QED
      BY <2>1, <2>2, <2>3, <2>4, <2>5, <2>6, <2>7 DEF Remembers, Used
  <1>3. CASE LoadAccount(r) /\ pc'[r] # "done"
    <2> DEFINE Loaded(x) == [x EXCEPT !.name = IF "name" \in in[r].fields THEN in[r].name ELSE @,
                                      !.type = IF "type" \in in[r].fields THEN in[r].type ELSE @,
                                      !.opening = IF "opening" \in in[r].fields THEN in[r].amount ELSE @,
                                      !.archived = IF "archived" \in in[r].fields THEN in[r].archived ELSE @]
    <2>a. PICK a \in Mine(db.accounts, r) :
            row' = [row EXCEPT ![r] = Loaded(a)] /\ UNCHANGED <<db, open, in>>
      BY <1>3 DEF LoadAccount, Refuse, Respond, Goto, KInv, LInv, IInv, TypeOK
    <2>b. a \in Account
      BY <2>a DEF Mine, Find, KInv, LInv, IInv, TypeOK, Database
    <2>c. Loaded(a).id = a.id /\ Loaded(a).owner = a.owner
      BY <2>b DEF Account
    <2> HIDE DEF Loaded
    <2>1. /\ row'[r].id = a.id /\ row'[r].owner = a.owner
          /\ UNCHANGED <<db, open, in>>
      BY <2>a, <2>c DEF KInv, LInv, IInv, TypeOK
    <2>2. a \in db.accounts /\ a.id = in[r].id /\ a.owner = in[r].user
      BY <2>a DEF Mine, Find
    <2>3. Used(a.id)'
      BY <1>1, <2>2, UsedDB, UsedStays
    <2>4. in[r].op = "updateAccount"
      BY <1>3 DEF LoadAccount
    <2> QED
      BY <2>1, <2>2, <2>3, <2>4 DEF Remembers, Used
  <1>4. CASE LoadCategory(r) /\ pc'[r] # "done"
    <2> DEFINE Loaded(x) == [x EXCEPT !.name = IF "name" \in in[r].fields THEN in[r].name ELSE @,
                                      !.archived = IF "archived" \in in[r].fields THEN in[r].archived ELSE @]
    <2>a. PICK c \in Mine(db.categories, r) :
            row' = [row EXCEPT ![r] = Loaded(c)] /\ UNCHANGED <<db, open, in>>
      BY <1>4 DEF LoadCategory, Refuse, Respond, Goto, KInv, LInv, IInv, TypeOK
    <2>b. c \in Category
      BY <2>a DEF Mine, Find, KInv, LInv, IInv, TypeOK, Database
    <2>c. Loaded(c).id = c.id /\ Loaded(c).owner = c.owner /\ Loaded(c).kind = c.kind
      BY <2>b DEF Category
    <2> HIDE DEF Loaded
    <2>1. /\ row'[r].id = c.id /\ row'[r].owner = c.owner /\ row'[r].kind = c.kind
          /\ UNCHANGED <<db, open, in>>
      BY <2>a, <2>c DEF KInv, LInv, IInv, TypeOK
    <2>2. c \in db.categories /\ c.id = in[r].id /\ c.owner = in[r].user
      BY <2>a DEF Mine, Find
    <2>3. Used(c.id)'
      BY <1>1, <2>2, UsedDB, UsedStays
    <2>4. in[r].op = "updateCategory" /\ \A x \in db.categories : x.id = c.id => x = c
      BY <1>4, <2>2, KeyedDB DEF LoadCategory
    <2> QED
      BY <2>1, <2>2, <2>3, <2>4 DEF Remembers, Used
  <1>5. CASE OwnCategory(r) /\ pc'[r] # "done"
    <2>1. /\ UNCHANGED <<db, row, in>> /\ pc[r] = "category"
      BY <1>5 DEF OwnCategory, Refuse, Respond, Goto, KInv, LInv, IInv, TypeOK
    <2>2. ASSUME Used(row[r].id) PROVE Used(row[r].id)'
      BY <1>1, <2>1, <2>2, UsedStays DEF Used
    <2> QED
      BY <2>1, <2>2 DEF KInv, Remembers, Used
  <1>6. CASE in[r].op \notin Updates \/ pc'[r] = "done"
    BY <1>1, <1>6 DEF Remembers, Alone
  <1>7. CASE /\ in[r].op \in Updates /\ pc'[r] # "done"
             /\ ~LoadTransaction(r) /\ ~LoadAccount(r) /\ ~LoadCategory(r) /\ ~OwnCategory(r)
    <2>1. pc \in [Request -> Label]
      BY DEF KInv, LInv, IInv, TypeOK
    <2>2. ~(WriteTransaction(r) \/ WriteAccount(r) \/ WriteCategory(r) \/ Abort(r) \/ Commit(r))
      BY <1>7, <2>1 DEF WriteTransaction, WriteAccount, WriteCategory, Abort, Commit,
                        Write, Refuse, Respond
    <2> QED
      BY <1>7, <2>2
         DEF Handle, Updates, OwnAccount, NeedsAccount, OwnPeer, CreateTransaction,
             RemoveTransaction, CreateLeg, CreateBatch, ImportRow, RevertImport,
             CreateAccount, CountTransactions, RemoveAccount, PutSnapshot, RemoveSnapshot,
             CreateCategory, FindTarget, Reassign, RemoveCategory
  <1> QED
    BY <1>2, <1>3, <1>4, <1>5, <1>6, <1>7

-----------------------------------------------------------------------------
(* What is staged follows the request, row by row. *)

LEMMA OthersScripted ==
  ASSUME NEW r \in Request, Alone(r), NEW s \in Request \ {r}, Scripted(s)
  PROVE  Scripted(s)'
  BY DEF Scripted, Alone, Leg, Imported

(* The next row is staged, or the database transaction is over. *)
LEMMA StagedScripted ==
  ASSUME KInv, NEW r \in Request, pc[r] = "rows", NEW t, NEW next \in {"rows", "commit"},
         Stage(r, t, next),
         in[r].op = "createTransfer" =>
           t = Leg(r, Len(open[r].transactions) + 1)
           /\ next = IF Len(open[r].transactions) + 1 = 2 THEN "commit" ELSE "rows",
         in[r].op = "commitImport" =>
           t = Imported(r, Len(open[r].transactions) + 1)
           /\ next = IF Len(open[r].transactions) + 1 = Len(in[r].rows) THEN "commit" ELSE "rows"
  PROVE  Scripted(r)'
  <1> DEFINE staged == open[r].transactions
             n == Len(staged)
  <1>1. /\ staged \in Seq(Transaction) /\ n \in Nat /\ DOMAIN staged = 1..n
        /\ pc \in [Request -> Label] /\ open[r] \in [batches: SUBSET Batch, transactions: Seq(Transaction)]
    BY DEF KInv, LInv, IInv, TypeOK
  <1>2. CASE pc'[r] = "done"
    BY <1>2 DEF Scripted
  <1>3. CASE pc'[r] # "done"
    <2>1. /\ open' = [open EXCEPT ![r].transactions = Append(staged, t)]
          /\ pc' = [pc EXCEPT ![r] = next] /\ in' = in
      BY <1>1, <1>3 DEF Stage, Goto, Respond
    <2>2. /\ open'[r].transactions = Append(staged, t) /\ open'[r].batches = open[r].batches
          /\ pc'[r] = next
      BY <1>1, <2>1 DEF KInv, LInv, IInv, TypeOK
    <2>3. /\ Len(Append(staged, t)) = n + 1 /\ DOMAIN Append(staged, t) = 1..(n + 1)
          /\ Append(staged, t)[n + 1] = t
          /\ \A k \in DOMAIN staged : Append(staged, t)[k] = staged[k]
      BY <1>1
    <2> HIDE DEF n, staged
    <2>4. Scripted(r)
      BY DEF KInv
    <2>5. CASE in[r].op = "createTransfer"
      <3>1. /\ open[r].batches = {} /\ \A k \in DOMAIN staged : staged[k] = Leg(r, k)
            /\ n < 2
        BY <2>4, <2>5 DEF Scripted, staged, n
      <3>2. \A k \in 1..(n + 1) : Append(staged, t)[k] = Leg(r, k)
        BY <1>1, <2>3, <2>5, <3>1 DEF n, staged
      <3>3. \A k : Leg(r, k)' = Leg(r, k)
        BY <2>1 DEF Leg
      <3>4. next = IF n + 1 = 2 THEN "commit" ELSE "rows"
        BY <2>5 DEF n, staged
      <3> QED
        BY <1>1, <2>1, <2>2, <2>3, <2>5, <3>1, <3>2, <3>3, <3>4 DEF Scripted
    <2>6. CASE in[r].op = "commitImport"
      <3>1. /\ open[r].batches = {[id |-> <<r, 0>>, owner |-> in[r].user,
                                   account |-> in[r].account, count |-> Len(in[r].rows)]}
            /\ \A k \in DOMAIN staged : staged[k] = Imported(r, k)
        BY <2>4, <2>6 DEF Scripted, staged, n
      <3>2. \A k \in 1..(n + 1) : Append(staged, t)[k] = Imported(r, k)
        BY <1>1, <2>3, <2>6, <3>1 DEF n, staged
      <3>3. \A k : Imported(r, k)' = Imported(r, k)
        BY <2>1 DEF Imported
      <3>4. next = IF n + 1 = Len(in[r].rows) THEN "commit" ELSE "rows"
        BY <2>6 DEF n, staged
      <3> QED
        BY <1>1, <2>1, <2>2, <2>3, <2>6, <3>1, <3>2, <3>3, <3>4 DEF Scripted
    <2> QED
      BY <2>4, <2>5, <2>6 DEF Scripted
  <1> QED
    BY <1>2, <1>3

LEMMA OwnScripted ==
  ASSUME KInv, IInv', NEW r \in Request, Handle(r) \/ Abort(r)
  PROVE  Scripted(r)'
  <1>0. /\ pc \in [Request -> Label] /\ in' = in
        /\ open \in [Request -> [batches: SUBSET Batch, transactions: Seq(Transaction)]]
        /\ pc[r] \notin {"rows", "commit"} => open[r] = NothingOpen
    BY MovesAlone DEF KInv, LInv, IInv, TypeOK, Checked, StagedInOrder, Alone
  <1> USE DEF At
  <1>1. CASE CreateLeg(r)
    <2> DEFINE k == Len(open[r].transactions) + 1
    <2>1. /\ Stage(r, Leg(r, k), IF k = 2 THEN "commit" ELSE "rows")
          /\ pc[r] = "rows" /\ in[r].op = "createTransfer"
      BY <1>1 DEF CreateLeg
    <2> QED
      BY <2>1, StagedScripted
  <1>2. CASE ImportRow(r)
    <2> DEFINE k == Len(open[r].transactions) + 1
    <2>1. /\ Stage(r, Imported(r, k), IF k = Len(in[r].rows) THEN "commit" ELSE "rows")
          /\ pc[r] = "rows" /\ in[r].op = "commitImport"
      BY <1>2 DEF ImportRow
    <2> QED
      BY <2>1, StagedScripted
  <1>3. CASE CreateBatch(r) /\ pc'[r] # "done"
    <2>1. /\ pc'[r] = "rows" /\ in[r].op = "commitImport"
          /\ open' = [open EXCEPT ![r].batches =
                        {[id |-> <<r, 0>>, owner |-> in[r].user,
                          account |-> in[r].account, count |-> Len(in[r].rows)]}]
      BY <1>0, <1>3 DEF CreateBatch, Goto, Refuse, Respond
    <2>2. pc[r] = "batch"
      BY <1>3 DEF CreateBatch
    <2>3. open[r].transactions = <<>>
      BY <1>0, <2>2 DEF NothingOpen
    <2>4. /\ open'[r].transactions = <<>>
          /\ open'[r].batches = {[id |-> <<r, 0>>, owner |-> in[r].user,
                                  account |-> in[r].account, count |-> Len(in[r].rows)]}
      BY <1>0, <2>1, <2>3
    <2> QED
      BY <1>0, <2>1, <2>4 DEF Scripted
  <1>4. CASE OwnPeer(r) /\ pc'[r] # "done"
    <2>1. /\ pc'[r] = "rows" /\ in[r].op = "createTransfer" /\ open' = open /\ pc[r] = "peer"
      BY <1>0, <1>4 DEF OwnPeer, Goto, Refuse, Respond
    <2>2. open'[r].batches = {} /\ open'[r].transactions = <<>>
      BY <1>0, <2>1 DEF NothingOpen
    <2> QED
      BY <1>0, <2>1, <2>2 DEF Scripted
  <1>5. CASE pc'[r] \notin {"rows", "commit"}
    BY <1>5 DEF Scripted
  <1>6. CASE ~CreateLeg(r) /\ ~ImportRow(r) /\ ~CreateBatch(r) /\ ~OwnPeer(r)
    <2>1. pc'[r] \notin {"rows", "commit"}
      <3>1. CASE \/ OwnAccount(r) \/ OwnCategory(r)
                 \/ LoadTransaction(r) \/ LoadAccount(r) \/ LoadCategory(r)
                 \/ CountTransactions(r) \/ FindTarget(r) \/ Reassign(r)
        BY <1>0, <3>1 DEF OwnAccount, OwnCategory, LoadTransaction, LoadAccount,
                    LoadCategory, CountTransactions, FindTarget, Reassign,
                    Goto, Refuse, Respond, AfterAccount
      <3>2. CASE \/ CreateTransaction(r) \/ WriteTransaction(r) \/ RemoveTransaction(r)
                 \/ RevertImport(r) \/ CreateAccount(r) \/ WriteAccount(r)
                 \/ RemoveAccount(r) \/ PutSnapshot(r) \/ RemoveSnapshot(r)
                 \/ CreateCategory(r) \/ WriteCategory(r) \/ RemoveCategory(r)
        BY <1>0, <3>2 DEF CreateTransaction, WriteTransaction, RemoveTransaction,
                    RevertImport, CreateAccount, WriteAccount, RemoveAccount,
                    PutSnapshot, RemoveSnapshot, CreateCategory, WriteCategory,
                    RemoveCategory, Write, Refuse, Respond
      <3>3. CASE Commit(r) \/ Abort(r)
        BY <1>0, <3>3 DEF Commit, Abort, Respond
      <3> QED
        BY SMTT(60), <1>6, <3>1, <3>2, <3>3 DEF Handle
    <2> QED
      BY <2>1 DEF Scripted
  <1> QED
    BY <1>1, <1>2, <1>3, <1>4, <1>5, <1>6

-----------------------------------------------------------------------------
(* The invariant. *)

LEMMA KInit == Init => KInv
  <1> SUFFICES ASSUME Init PROVE KInv
    OBVIOUS
  <1>1. LInv /\ in \in [Request -> Menu] /\ db \in Database /\ db = InitialDB
    BY LInit DEF LInv, IInv, TypeOK, Init
  <1>2. Keyed(db)
    BY <1>1, InitialKeysAssumption DEF Keyed
  <1>3. ASSUME NEW u \in User, NEW id, NamedFor(u, id)
        PROVE  UsedOrNull(id) /\ (id # NULL => OwnerOf(in, id) = u)
    BY <1>3, SchemaAssumption DEF NamedFor, UsedOrNull, Used, OwnerOf
  <1>4. /\ \A x \in db.accounts : UsedOrNull(x.id) /\ x.id # NULL
        /\ \A x \in db.categories : UsedOrNull(x.id) /\ x.id # NULL
    BY <1>1, <1>3, InitialDBAssumption, NullAssumption DEF Database, Account, Category
  <1>5. /\ \A x \in db.batches : UsedOrNull(x.id) /\ x.id # NULL
        /\ \A x \in db.snapshots : UsedOrNull(x.id) /\ x.id # NULL
    BY <1>1, <1>3, InitialDBAssumption, NullAssumption DEF Database, Batch, Snapshot
  <1>6. \A t \in db.transactions :
          /\ UsedOrNull(t.id) /\ t.id # NULL /\ UsedOrNull(t.group) /\ UsedOrNull(t.batch)
          /\ t.group # NULL => OwnerOf(in, t.group) = t.owner
    BY <1>1, <1>3, InitialDBAssumption, NullAssumption DEF Database, Transaction
  <1>7. IdsUsed /\ GroupsOwned
    BY <1>1, <1>4, <1>5, <1>6 DEF IdsUsed, GroupsOwned, UsedOrNull, Database
  <1>8. \A r \in Request : Scripted(r) /\ Remembers(r)
    BY DEF Init, Scripted, Remembers
  <1> QED
    BY <1>1, <1>2, <1>7, <1>8 DEF KInv

LEMMA KNext == KInv /\ [Next]_vars => KInv'
  <1> SUFFICES ASSUME KInv, [Next]_vars PROVE KInv'
    OBVIOUS
  <1>1. LInv' /\ IInv'
    BY LNext DEF KInv, LInv
  <1>2. CASE UNCHANGED vars
    <2>1. /\ db' = db /\ in' = in /\ pc' = pc /\ row' = row /\ open' = open
      BY <1>2 DEF vars
    <2>2. \A r \in Request : Scripted(r)'
      BY <2>1 DEF KInv, Scripted, Leg, Imported
    <2>3. \A r \in Request : Remembers(r)'
      BY <2>1 DEF KInv, Remembers, Used
    <2>4. IdsUsed' /\ GroupsOwned' /\ Keyed(db')
      BY <2>1 DEF KInv, IdsUsed, UsedOrNull, Used, GroupsOwned
    <2> QED
      BY <1>1, <2>1, <2>2, <2>3, <2>4 DEF KInv
  <1>3. ASSUME NEW r \in Request, Handle(r) \/ Abort(r) PROVE KInv'
    <2>1. Alone(r) /\ Bookkept'
      BY <1>1, <1>3, MovesAlone, StepKeepsBooked DEF KInv, LInv
    <2>2. ASSUME NEW s \in Request PROVE Scripted(s)' /\ Remembers(s)'
      <3>1. CASE s = r
        BY <1>1, <1>3, <3>1, OwnScripted, OwnRemembers
      <3>2. CASE s # r
        BY <1>1, <1>3, <2>1, <3>2, OthersScripted, OthersRemember DEF KInv
      <3> QED
        BY <3>1, <3>2
    <2> QED
      BY <1>1, <2>1, <2>2 DEF KInv, Bookkept, Alone
  <1> QED
    BY <1>2, <1>3 DEF Next, Idle

THEOREM KInvariance == Spec => []KInv
  BY KInit, KNext, PTL DEF Spec

-----------------------------------------------------------------------------
(***************************************************************************)
(* What follows.                                                           *)
(***************************************************************************)

(* Every step is no entry at all, or one of its user. *)
LEMMA StepIsEntry ==
  ASSUME KInv, [Next]_vars
  PROVE  \/ db' = db
         \/ \E r \in Request :
              /\ Handle(r) \/ Abort(r)
              /\ Alone(r)
              /\ in[r].user \in User /\ db' \in Database
              /\ Entry(in[r].user) /\ Drawing(r)
  <1>1. IInv'
    BY NextKeeps DEF KInv, LInv
  <1>2. ASSUME NEW r \in Request, Handle(r) \/ Abort(r)
        PROVE  Alone(r) /\ OneEntry(r) /\ in[r].user \in User
    BY <1>1, <1>2, MovesAlone, StepEnters DEF KInv, LInv, IInv, TypeOK, Input
  <1> QED
    BY <1>2 DEF Next, Idle, vars, OneEntry

(* The handlers of server/*.go, statement by statement, with their          *)
(* interleavings and failures, implement Books: for any number of users,    *)
(* requests and rows each commit is one entry of one user.  A request may   *)
(* make two of them (a merge), or correct a row to what it read before      *)
(* others changed it: Books says what is written at once, not why.          *)
THEOREM LedgerKeepsBooks == Spec => KeepsBooks
  <1>1. Init => B!Init
    BY InitialDBAssumption, SameWords DEF Init, B!Init
  <1>2. KInv /\ [Next]_vars => [B!Next]_db
    BY StepIsEntry DEF Entry, B!Next
  <1> QED
    BY <1>1, <1>2, KInvariance, PTL DEF Spec, KeepsBooks, B!Spec

(* A transaction never moves to another user, account, group or import, and *)
(* a leg never changes: what a PATCH writes back is the row it read, and    *)
(* nobody else gets its id.                                                 *)
THEOREM ColumnsStayFixed == Spec => ColumnsFixed
  <1>1. KInv /\ [Next]_vars => [ColumnsFixedStep]_vars
    <2> SUFFICES ASSUME KInv, [Next]_vars PROVE ColumnsFixedStep
      OBVIOUS
    <2>1. CASE db' = db
      BY <2>1, KeyedDB DEF ColumnsFixedStep
    <2>2. ASSUME NEW u \in User, Entry(u) PROVE ColumnsFixedStep
      BY <2>2, EntryTransactions, KeyedDB
         DEF TransactionsAfter, Fresh, FollowsSome, Follows, ColumnsFixedStep, Ids
    <2> QED
      BY <2>1, <2>2, StepIsEntry
  <1> QED
    BY <1>1, KInvariance, PTL DEF Spec, ColumnsFixed

(* "Either the whole import lands or none of it does" (store/imports.go):   *)
(* a batch appears with as many rows as it counts, and no row joins it      *)
(* later.                                                                   *)
THEOREM ImportsAlwaysLandWhole == Spec => ImportsLandWhole
  <1>1. KInv /\ [Next]_vars => [ImportsLandWholeStep]_vars
    <2> SUFFICES ASSUME KInv, [Next]_vars PROVE ImportsLandWholeStep
      OBVIOUS
    <2>1. ASSUME db'.batches \subseteq db.batches,
                 \A t \in db'.transactions : t.id \in Ids(db.transactions) \/ t.batch = NULL
          PROVE  ImportsLandWholeStep
      BY <2>1 DEF ImportsLandWholeStep
    <2>3. CASE db' = db
      BY <2>1, <2>3 DEF Ids
    <2>4. ASSUME NEW u \in User, Entry(u) PROVE ImportsLandWholeStep
      <3> USE TableAfter, OnlySame
      <3>1. CASE B!Land(u)
        <4>1. PICK b \in B!Came("batches") :
                /\ B!Came("batches") = {b}
                /\ Cardinality(B!Came("transactions")) = b.count
                /\ b.id \notin Ids(db.batches) /\ \A t \in db.transactions : t.batch # b.id
                /\ \A t \in B!Came("transactions") : t.batch = b.id
          BY <3>1, SameWords, SameCount DEF B!Land
        <4>2. B!Gone("transactions") = {}
          BY <3>1 DEF B!Land
        <4>3. {t \in db'.transactions : t.batch = b.id} = B!Came("transactions")
          BY <4>1, <4>2
        <4>4. db'.batches \ db.batches = {b} /\ b.id \in Ids(db'.batches)
          BY <4>1 DEF B!Came, Ids
        <4>5. \A t \in db'.transactions : t \in db.transactions \/ t.batch = b.id
          BY <4>1, <4>2
        <4> QED
          BY <4>1, <4>3, <4>4, <4>5 DEF ImportsLandWholeStep, Ids
      <3>2. CASE B!Record(u)
        BY <2>1, <3>2 DEF B!Record, Ids
      <3>3. CASE B!Move(u)
        <4>1. PICK out, into : /\ B!Came("transactions") = {out, into}
                               /\ out.batch = NULL /\ into.batch = NULL
          BY <3>3 DEF B!Move
        <4>2. db'.batches = db.batches
          BY <3>3 DEF B!Move
        <4> QED
          BY <2>1, <4>1, <4>2 DEF Ids
      <3>4. CASE B!Correct(u) \/ B!Refile(u) \/ B!Enter(u) \/ B!DropSnapshot(u) \/ B!Erase(u)
                 \/ B!TakeBack(u) \/ B!CloseAccount(u) \/ B!DropCategory(u)
        <4>1. db'.batches \subseteq db.batches
          BY <3>4 DEF B!Correct, B!Refile, B!Enter, B!DropSnapshot, B!Erase, B!TakeBack,
                      B!CloseAccount, B!DropCategory, B!Table
        <4>2. \A t \in db'.transactions : t.id \in Ids(db.transactions)
          <5>1. CASE B!Correct(u)
            BY <5>1 DEF B!Correct, B!Gone, Ids
          <5>2. CASE B!Enter(u) \/ B!DropSnapshot(u)
            BY <5>2 DEF B!Enter, B!DropSnapshot, Ids
          <5>3. CASE B!Erase(u) \/ B!TakeBack(u) \/ B!CloseAccount(u)
            BY <5>3 DEF B!Erase, B!TakeBack, B!CloseAccount, B!Table, Ids
          <5>4. ASSUME NEW from, NEW to, B!File(u, from, to),
                       NEW t \in db'.transactions
                PROVE  t.id \in Ids(db.transactions)
            <6>1. \A old \in db.transactions : [old EXCEPT !.category = to].id = old.id
              BY DEF KInv, LInv, IInv, TypeOK, Database, Transaction
            <6> QED
              BY <5>4, <6>1 DEF B!File, Ids
          <5> QED
            BY <3>4, <5>1, <5>2, <5>3, <5>4 DEF B!Refile, B!DropCategory
        <4> QED
          BY <2>1, <4>1, <4>2
      <3> QED
        BY <2>4, <3>1, <3>2, <3>3, <3>4 DEF Entry
    <2> QED
      BY <2>3, <2>4, StepIsEntry
  <1> QED
    BY <1>1, KInvariance, PTL DEF Spec, ImportsLandWhole

-----------------------------------------------------------------------------
(* Losing transactions. *)

Loses == \E t \in db.transactions : t.id \notin Ids(db'.transactions)

LEMMA RewritesLose ==
  ASSUME KInv, NEW r \in Request,
         \/ WriteTransaction(r) \/ Reassign(r) \/ RemoveCategory(r)
  PROVE  ~Loses
  <1> DEFINE u == in[r].user
             gone == Ids(Find(db.categories, u, in[r].id))
             Set(t) == [t EXCEPT !.date = row[r].date, !.amount = row[r].amount,
                                 !.payee = row[r].payee, !.category = row[r].category,
                                 !.hash = DedupHash(row[r].date, row[r].amount, row[r].payee)]
             File(t, c) == [t EXCEPT !.category = c]
  <1>1. db \in Database
    BY DEF KInv, LInv, IInv, TypeOK
  <1>2. \A t \in db.transactions : Set(t).id = t.id /\ \A c : File(t, c).id = t.id
    BY <1>1 DEF Database, Transaction
  <1>3. CASE db' = db
    BY <1>3 DEF Loses, Ids
  <1>4. CASE WriteTransaction(r) /\ db' # db
    <2>1. db'.transactions = {IF t.id = row[r].id /\ t.owner = u THEN Set(t) ELSE t : t \in db.transactions}
      BY <1>1, <1>4 DEF WriteTransaction, Write, Refuse, UpdateTransaction, Database
    <2> HIDE DEF Set
    <2> QED
      BY <1>2, <2>1 DEF Loses, Ids
  <1>5. CASE Reassign(r)
    <2>1. db'.transactions =
            {IF t.owner = u /\ t.category = in[r].id /\ Find(db.categories, u, in[r].category) # {}
               THEN File(t, in[r].category) ELSE t : t \in db.transactions}
      BY <1>1, <1>5 DEF Reassign, ReassignCategory, Database
    <2> HIDE DEF File
    <2> QED
      BY <1>2, <2>1 DEF Loses, Ids
  <1>6. CASE RemoveCategory(r)
    <2>1. db'.transactions = {IF t.category \in gone THEN File(t, NULL) ELSE t : t \in db.transactions}
      BY <1>1, <1>6 DEF RemoveCategory, Write, DeleteCategory, Database
    <2> HIDE DEF File, gone
    <2> QED
      BY <1>2, <2>1 DEF Loses, Ids
  <1> QED
    BY <1>3, <1>4, <1>5, <1>6

LEMMA OthersLose ==
  ASSUME KInv, NEW r \in Request,
         \/ Looks(r) \/ CreateTransaction(r) \/ Commit(r) \/ CreateAccount(r)
         \/ WriteAccount(r) \/ PutSnapshot(r) \/ RemoveSnapshot(r)
         \/ CreateCategory(r) \/ WriteCategory(r)
  PROVE  ~Loses
  <1>1. db \in Database
    BY SMTT(60) DEF KInv, LInv, IInv, TypeOK
  <1>2. db.transactions \subseteq db'.transactions
    BY <1>1, LooksEnters
       DEF CreateTransaction, InsertTransaction, Commit, CreateAccount,
           WriteAccount, UpdateAccount, PutSnapshot, UpsertSnapshot,
           RemoveSnapshot, DeleteSnapshot, CreateCategory, WriteCategory, UpdateCategory,
           Write, Refuse, Database
  <1> QED
    BY <1>2 DEF Loses, Ids

(* A transaction disappears only by a request that names it, its transfer,  *)
(* its import or its account.  A batch is on its rows' account, so the two  *)
(* cascades of an account's delete reach the same rows.                     *)
THEOREM LossesAreAsked == Spec => OnlyAskedLoss
  <1>1. KInv /\ [Next]_vars => [OnlyAskedLossStep]_vars
    <2> SUFFICES ASSUME KInv, [Next]_vars, NEW t \in db.transactions,
                        t.id \notin Ids(db'.transactions)
                 PROVE  LossAsked(t)
      BY DEF OnlyAskedLossStep
    <2>0. db \in Database /\ pc \in [Request -> Label]
      BY DEF KInv, LInv, IInv, TypeOK
    <2>1. PICK r \in Request : Handle(r) \/ Abort(r)
      BY DEF Next, Idle, vars, Ids
    <2>2. RemoveTransaction(r) \/ RevertImport(r) \/ RemoveAccount(r)
      BY <2>1, RewritesLose, OthersLose DEF Loses, Looks, Handle
    <2>3. Runs(r)
      BY <2>0, <2>2 DEF Runs, RemoveTransaction, RevertImport, RemoveAccount, At, Write, Refuse, Respond
    <2>4. t \notin db'.transactions
      BY DEF Ids
    <2>5. CASE RemoveTransaction(r)
      <3> DEFINE groups == {x.group : x \in Find(db.transactions, in[r].user, in[r].id)} \ {NULL}
      <3>1. t.id = in[r].id \/ t.group \in groups
        BY <2>0, <2>4, <2>5 DEF RemoveTransaction, Write, DeleteTransaction, Database
      <3>2. in[r].op = "deleteTransaction"
        BY <2>5 DEF RemoveTransaction, At
      <3> QED
        BY <2>3, <3>1, <3>2 DEF LossAsked, Find
    <2>6. CASE RevertImport(r)
      <3>1. t.batch \in Ids(Find(db.batches, in[r].user, in[r].id))
        BY <2>0, <2>4, <2>6 DEF RevertImport, Write, DeleteBatch, Database
      <3>2. in[r].op = "revertImport"
        BY <2>6 DEF RevertImport, At
      <3> QED
        BY <2>3, <3>1, <3>2 DEF LossAsked, Find, Ids
    <2>7. CASE RemoveAccount(r)
      <3> DEFINE gone == Ids(Find(db.accounts, in[r].user, in[r].id))
                 lost == {b.id : b \in {x \in db.batches : x.account \in gone}}
      <3>1. t.account \in gone \/ t.batch \in lost
        BY <2>0, <2>4, <2>7 DEF RemoveAccount, Write, Refuse, DeleteAccount, Database
      <3>2. in[r].op = "deleteAccount"
        BY <2>7 DEF RemoveAccount, At
      <3>3. \A a \in gone : a = in[r].id
        BY DEF Find, Ids
      <3> HIDE DEF gone
      <3>4. t.account = in[r].id
        BY <3>1, <3>3 DEF KInv, LInv, IInv, Owned
      <3> QED
        BY <2>3, <3>2, <3>4 DEF LossAsked
    <2> QED
      BY <2>2, <2>5, <2>6, <2>7
  <1> QED
    BY <1>1, KInvariance, PTL DEF Spec, OnlyAskedLoss

-----------------------------------------------------------------------------
(* Deletes that were answered. *)

Absent(r) ==
  /\ in[r].op = "deleteTransaction" => in[r].id \notin Ids(db.transactions)
  /\ in[r].op = "revertImport" => in[r].id \notin Ids(db.batches)
  /\ in[r].op = "deleteCategory" => in[r].id \notin Ids(db.categories)
  /\ in[r].op = "deleteAccount" => in[r].id \notin Ids(db.accounts)

(* The id that was deleted was in use, so nobody will draw it again. *)
Deleted(r) == resp[r] = "no_content" => pc[r] = "done" /\ Used(in[r].id) /\ Absent(r)

DInv == KInv /\ \A r \in Request : Deleted(r)

LEMMA OthersStayDeleted ==
  ASSUME DInv, IInv', NEW r \in Request, Handle(r) \/ Abort(r), NEW s \in Request \ {r}
  PROVE  Deleted(s)'
  <1>1. Alone(r) /\ OneEntry(r) /\ db \in Database
    BY MovesAlone, StepEnters DEF DInv, KInv, LInv, IInv, TypeOK
  <1>2. resp'[s] = resp[s] /\ pc'[s] = pc[s] /\ in' = in
    BY <1>1 DEF Alone
  <1> SUFFICES ASSUME resp[s] = "no_content"
               PROVE  pc[s] = "done" /\ Used(in[s].id)' /\ Absent(s)'
    BY <1>2 DEF Deleted, Used
  <1>3. pc[s] = "done" /\ Used(in[s].id) /\ Absent(s)
    BY DEF DInv, Deleted
  <1>4. Used(in[s].id)'
    BY <1>1, <1>2, <1>3, UsedStays DEF Used
  <1>5. CASE db' = db
    BY <1>2, <1>3, <1>4, <1>5 DEF Absent
  <1>6. CASE db' # db
    <2>1. ~Mark(r, in[s].id)
      BY <1>1, <1>3, MarkIsNew
    <2>2. \A table \in DOMAIN db : in[s].id \notin Ids(db[table]) => in[s].id \notin Ids(db'[table])
      BY <1>1, <1>6, <2>1 DEF OneEntry, Drawing, Ids
    <2> QED
      BY <1>1, <1>2, <1>3, <1>4, <2>2 DEF Absent, Database
  <1> QED
    BY <1>5, <1>6

(* The statement that answers 204 leaves no row with the id. *)
LEMMA OwnDeleted ==
  ASSUME DInv, IInv', NEW r \in Request, Handle(r) \/ Abort(r)
  PROVE  Deleted(r)'
  <1>0. /\ Alone(r) /\ db \in Database /\ pc \in [Request -> Label]
        /\ resp \in [Request -> Answer] /\ resp[r] # "no_content"
    BY MovesAlone DEF DInv, KInv, LInv, IInv, TypeOK, Deleted, Alone
  <1> SUFFICES ASSUME resp'[r] = "no_content"
               PROVE  pc'[r] = "done" /\ Used(in[r].id)' /\ Absent(r)'
    BY <1>0 DEF Deleted, Used, Alone
  <1>1. \/ RemoveTransaction(r) \/ RevertImport(r) \/ RemoveCategory(r)
        \/ RemoveAccount(r) \/ RemoveSnapshot(r)
    <2>1. CASE \/ OwnAccount(r) \/ OwnPeer(r) \/ OwnCategory(r)
               \/ LoadTransaction(r) \/ LoadAccount(r) \/ LoadCategory(r)
               \/ CountTransactions(r) \/ FindTarget(r) \/ Reassign(r)
      BY <1>0, <2>1 DEF OwnAccount, OwnPeer, OwnCategory, LoadTransaction, LoadAccount,
                  LoadCategory, CountTransactions, FindTarget, Reassign,
                  Goto, Refuse, Respond
    <2>2. CASE \/ CreateTransaction(r) \/ WriteTransaction(r) \/ CreateAccount(r)
               \/ WriteAccount(r) \/ PutSnapshot(r) \/ CreateCategory(r) \/ WriteCategory(r)
      BY <1>0, <2>2 DEF CreateTransaction, WriteTransaction, CreateAccount, WriteAccount,
                  PutSnapshot, CreateCategory, WriteCategory, Write, Refuse, Respond
    <2>3. CASE CreateLeg(r) \/ ImportRow(r) \/ CreateBatch(r) \/ Commit(r) \/ Abort(r)
      BY <1>0, <2>3 DEF CreateLeg, ImportRow, CreateBatch, Stage, Goto, Refuse, Respond,
                        Commit, Abort
    <2> QED
      BY SMTT(60), <2>1, <2>2, <2>3 DEF Handle
  <1>2. ASSUME NEW table, table \in DOMAIN db, Mine(db[table], r) # {} PROVE Used(in[r].id)'
    <2>1. PICK x \in db[table] : x.id = in[r].id
      BY <1>2 DEF Mine, Find
    <2>2. Used(in[r].id)
      BY <1>2, <2>1 DEF DInv, KInv, IdsUsed
    <2> DEFINE id == in[r].id
    <2> HIDE DEF id
    <2>3. Used(id)' /\ in' = in
      BY <1>0, <2>2, UsedStays DEF Used, Alone, id
    <2> QED
      BY <2>3 DEF id, Used
  <1> USE KeyedDB DEF DInv
  <1>3. CASE RemoveTransaction(r)
    <2>1. /\ Mine(db.transactions, r) # {} /\ pc'[r] = "done"
          /\ db' = DeleteTransaction(db, in[r].user, in[r].id)
      BY <1>0, <1>3 DEF RemoveTransaction, Write, Respond
    <2>2. in[r].id \notin Ids(db'.transactions)
      BY <1>0, <2>1 DEF DeleteTransaction, Mine, Find, Ids, Database
    <2> QED
      BY <1>0, <1>2, <1>3, <2>1, <2>2 DEF Absent, RemoveTransaction, At, Alone, Database
  <1>4. CASE RevertImport(r)
    <2>1. /\ Mine(db.batches, r) # {} /\ pc'[r] = "done"
          /\ db' = DeleteBatch(db, in[r].user, in[r].id)
      BY <1>0, <1>4 DEF RevertImport, Write, Respond
    <2>2. in[r].id \notin Ids(db'.batches)
      BY <1>0, <2>1 DEF DeleteBatch, Mine, Find, Ids, Database
    <2> QED
      BY <1>0, <1>2, <1>4, <2>1, <2>2 DEF Absent, RevertImport, At, Alone, Database
  <1>5. CASE RemoveCategory(r)
    <2>1. /\ Mine(db.categories, r) # {} /\ pc'[r] = "done"
          /\ db' = DeleteCategory(db, in[r].user, in[r].id)
      BY <1>0, <1>5 DEF RemoveCategory, Write, Respond
    <2>2. in[r].id \notin Ids(db'.categories)
      BY <1>0, <2>1 DEF DeleteCategory, Mine, Find, Ids, Database
    <2> QED
      BY <1>0, <1>2, <1>5, <2>1, <2>2 DEF Absent, RemoveCategory, At, Alone, Database
  <1>6. CASE RemoveAccount(r)
    <2>1. /\ Mine(db.accounts, r) # {} /\ pc'[r] = "done"
          /\ db' = DeleteAccount(db, in[r].user, in[r].id)
      BY <1>0, <1>6 DEF RemoveAccount, Write, Refuse, Respond
    <2>2. in[r].id \notin Ids(db'.accounts)
      BY <1>0, <2>1 DEF DeleteAccount, Mine, Find, Ids, Database
    <2> QED
      BY <1>0, <1>2, <1>6, <2>1, <2>2 DEF Absent, RemoveAccount, At, Alone, Database
  <1>7. CASE RemoveSnapshot(r)
    <2>1. Mine(db.snapshots, r) # {} /\ pc'[r] = "done"
      BY <1>0, <1>7 DEF RemoveSnapshot, Write, Respond
    <2> QED
      BY <1>0, <1>2, <1>7, <2>1 DEF Absent, RemoveSnapshot, At, Alone, Database
  <1> QED
    BY <1>1, <1>3, <1>4, <1>5, <1>6, <1>7

LEMMA DNext == DInv /\ [Next]_vars => DInv'
  <1> SUFFICES ASSUME DInv, [Next]_vars PROVE DInv'
    OBVIOUS
  <1>1. KInv' /\ IInv'
    BY KNext, NextKeeps DEF DInv, KInv, LInv
  <1>2. CASE UNCHANGED vars
    <2>1. \A r \in Request : Deleted(r)'
      BY <1>2 DEF vars, DInv, Deleted, Used, Absent
    <2> QED
      BY <1>1, <2>1 DEF DInv
  <1>3. ASSUME NEW r \in Request, Handle(r) \/ Abort(r) PROVE DInv'
    BY <1>1, <1>3, OwnDeleted, OthersStayDeleted DEF DInv
  <1> QED
    BY <1>2, <1>3 DEF Next, Idle

(* What a request that was answered 204 deleted stays deleted, with         *)
(* everything that referred to it: no PATCH that read the row earlier, and  *)
(* no import that is still open, brings it back.                            *)
THEOREM DeletesStay == Spec => []DeletesHold
  <1>1. Init => DInv
    BY KInit DEF DInv, Deleted, Init
  <1>2. DInv => DeletesHold
    <2> SUFFICES ASSUME DInv, NEW r \in Request, resp[r] = "no_content"
                 PROVE  CASE in[r].op = "deleteTransaction" ->
                               \A t \in db.transactions : t.id # in[r].id
                          [] in[r].op = "revertImport" ->
                               /\ in[r].id \notin Ids(db.batches)
                               /\ \A t \in db.transactions : t.batch # in[r].id
                          [] in[r].op = "deleteCategory" ->
                               /\ in[r].id \notin Ids(db.categories)
                               /\ \A t \in db.transactions : t.category # in[r].id
                          [] in[r].op = "deleteAccount" ->
                               /\ ~AccountLive(db, in[r].id)
                               /\ \A t \in db.transactions : t.account # in[r].id
                          [] OTHER -> TRUE
      BY DEF DeletesHold
    <2>1. Absent(r) /\ ReferencesLiveIn(db)
      BY DEF DInv, Deleted, KInv, LInv, Fits
    <2>2. in[r].op \in {"revertImport", "deleteCategory"} => in[r].id # NULL
      BY PathAssumption DEF DInv, KInv, NamesRow
    <2> QED
      BY <2>1, <2>2 DEF Absent, ReferencesLiveIn, AccountLive, CategoryLive, Ids
  <1> QED
    BY <1>1, <1>2, DNext, PTL DEF Spec

-----------------------------------------------------------------------------
(* Transfers, where no account is deleted. *)

LegsOf(d) == {t \in d.transactions : t.group # NULL}

LEMMA SameLegsPaired ==
  ASSUME NEW d, NEW new, LegsOf(new) = LegsOf(d), PairedIn(d)
  PROVE  PairedIn(new)
  <1> SUFFICES ASSUME NEW t \in new.transactions, t.group # NULL
               PROVE  /\ t.category = NULL /\ t.batch = NULL
                      /\ \E peer \in new.transactions :
                           /\ {x \in new.transactions : x.group = t.group} = {t, peer}
                           /\ peer.amount = -t.amount
                           /\ peer.account # t.account
    BY DEF PairedIn
  <1>1. t \in d.transactions
    BY DEF LegsOf
  <1>2. {x \in new.transactions : x.group = t.group} = {x \in d.transactions : x.group = t.group}
    BY DEF LegsOf
  <1> QED
    BY <1>1, <1>2 DEF PairedIn

LEMMA AccountsStay ==
  ASSUME KInv, NEW r \in Request, Handle(r) \/ Abort(r), ~RemoveAccount(r)
  PROVE  Ids(db.accounts) \subseteq Ids(db'.accounts)
  <1>1. db \in Database
    BY DEF KInv, LInv, IInv, TypeOK
  <1>2. CASE WriteAccount(r) /\ db' # db
    <2> DEFINE Set(a) == [a EXCEPT !.name = row[r].name, !.type = row[r].type,
                                   !.opening = row[r].opening, !.archived = row[r].archived]
    <2>1. db'.accounts = {IF a.id = row[r].id /\ a.owner = in[r].user THEN Set(a) ELSE a : a \in db.accounts}
      BY <1>1, <1>2 DEF WriteAccount, Write, Refuse, UpdateAccount, Database
    <2>2. \A a \in db.accounts : Set(a).id = a.id
      BY <1>1 DEF Database, Account
    <2> HIDE DEF Set
    <2> QED
      BY <2>1, <2>2 DEF Ids
  <1>3. CASE \/ Looks(r) \/ CreateTransaction(r) \/ Commit(r) \/ CreateAccount(r)
             \/ WriteTransaction(r) \/ RemoveTransaction(r) \/ RevertImport(r)
    <2>1. db.accounts \subseteq db'.accounts
      BY <1>1, <1>3, LooksEnters
         DEF CreateTransaction, InsertTransaction, Commit, CreateAccount, WriteTransaction,
             UpdateTransaction, RemoveTransaction, DeleteTransaction, RevertImport,
             DeleteBatch, Write, Refuse, Database
    <2> QED
      BY <2>1 DEF Ids
  <1>4. CASE \/ PutSnapshot(r) \/ RemoveSnapshot(r) \/ CreateCategory(r) \/ WriteCategory(r)
             \/ Reassign(r) \/ RemoveCategory(r)
    <2>1. db'.accounts = db.accounts
      BY <1>1, <1>4
         DEF PutSnapshot, UpsertSnapshot, RemoveSnapshot, DeleteSnapshot, CreateCategory,
             WriteCategory, UpdateCategory, Reassign, ReassignCategory, RemoveCategory,
             DeleteCategory, Write, Refuse, Database
    <2> QED
      BY <2>1
  <1>5. CASE db' = db
    BY <1>5
  <1> QED
    BY <1>2, <1>3, <1>4, <1>5 DEF Handle, Looks

LEMMA EntryPairs ==
  ASSUME KInv, NEW u \in User, Entry(u), PairedIn(db), db' \in Database,
         Ids(db.accounts) \subseteq Ids(db'.accounts)
  PROVE  PairedIn(db')
  <1> USE TableAfter, OnlySame
  <1>1. CASE B!Enter(u) \/ B!DropSnapshot(u)
    <2>1. db'.transactions = db.transactions
      BY <1>1 DEF B!Enter, B!DropSnapshot
    <2> QED
      BY <2>1, SameLegsPaired DEF LegsOf
  <1>2. CASE B!Record(u) \/ B!Correct(u)
    <2>1. LegsOf(db') = LegsOf(db)
      BY <1>2 DEF B!Record, B!Correct, LegsOf
    <2> QED
      BY <2>1, SameLegsPaired
  <1>3. CASE B!Land(u)
    <2>1. LegsOf(db') = LegsOf(db)
      BY <1>3 DEF B!Land, LegsOf
    <2> QED
      BY <2>1, SameLegsPaired
  <1>4. CASE B!TakeBack(u)
    <2>1. PICK b \in db.batches :
            B!Gone("transactions") = {t \in db.transactions : t.batch = b.id}
      BY <1>4 DEF B!TakeBack, B!Gone
    <2>2. b.id # NULL
      BY NullAssumption DEF KInv, LInv, IInv, TypeOK, Database, Batch
    <2>3. B!Came("transactions") = {}
      BY <1>4 DEF B!TakeBack
    <2>4. \A t \in LegsOf(db) : t \notin B!Gone("transactions")
      BY <2>1, <2>2 DEF LegsOf, PairedIn
    <2>5. LegsOf(db') = LegsOf(db)
      BY <2>3, <2>4 DEF LegsOf
    <2> QED
      BY <2>5, SameLegsPaired
  <1>5. CASE B!CloseAccount(u)
    <2>1. PICK a \in db.accounts : a \notin db'.accounts
      BY <1>5 DEF B!CloseAccount, B!Gone
    <2>2. db'.accounts \subseteq db.accounts
      BY <1>5 DEF B!CloseAccount, B!Table
    <2> QED
      BY <2>1, <2>2, KeyedDB DEF Ids
  <1>6. ASSUME NEW from \in Id, NEW to, B!File(u, from, to) PROVE PairedIn(db')
    <2> DEFINE Moved(t) == [t EXCEPT !.category = to]
               filed == {t \in db.transactions : t.category = from}
    <2>1. db'.transactions = (db.transactions \ filed) \cup {Moved(t) : t \in filed}
      BY <1>6 DEF B!File
    <2>2. \A t \in filed : t.group = NULL
      BY KeyedDB, NullAssumption
    <2>3. \A t \in filed : Moved(t).group = t.group
      BY DEF KInv, LInv, IInv, TypeOK, Database, Transaction
    <2> HIDE DEF Moved, filed
    <2>4. LegsOf(db') = LegsOf(db)
      BY <2>1, <2>2, <2>3 DEF LegsOf
    <2> QED
      BY <2>4, SameLegsPaired
  <1>7. CASE B!Refile(u)
    <2>1. PICK from, to : B!File(u, from, to) /\ from \in Ids(db.categories)
      BY <1>7, SameWords DEF B!Refile, Ids
    <2> QED
      BY <2>1, <1>6 DEF KInv, LInv, IInv, TypeOK, Database, Category, Ids
  <1>8. CASE B!DropCategory(u)
    <2>1. PICK c \in db.categories : B!File(u, c.id, NULL)
      BY <1>8 DEF B!DropCategory, B!Gone
    <2> QED
      BY <2>1, <1>6 DEF KInv, LInv, IInv, TypeOK, Database, Category
  <1>9. CASE B!Erase(u)
    <2>1. PICK t \in db.transactions :
            db'.transactions = db.transactions \ ({t} \cup {leg \in db.transactions :
                                                     leg.group # NULL /\ leg.group = t.group})
      BY <1>9 DEF B!Erase, B!Gone
    <2>2. ASSUME NEW x \in db'.transactions, x.group # NULL
          PROVE  /\ x \in db.transactions
                 /\ {y \in db'.transactions : y.group = x.group} = {y \in db.transactions : y.group = x.group}
      BY <2>1, <2>2
    <2> QED
      BY <2>2 DEF PairedIn
  <1>10. CASE B!Move(u)
    <2>1. PICK out, into :
            /\ B!Came("transactions") = {out, into}
            /\ out.account # into.account /\ into.amount = -out.amount
            /\ out.group # NULL /\ into.group = out.group
            /\ \A t \in db.transactions : t.group # out.group
            /\ out.category = NULL /\ into.category = NULL
            /\ out.batch = NULL /\ into.batch = NULL
      BY <1>10 DEF B!Move
    <2>2. db'.transactions = db.transactions \cup {out, into}
      BY <1>10, <2>1 DEF B!Move
    <2>3. out.amount \in Int /\ into.amount \in Int /\ -into.amount = out.amount
      <3>1. db' \in Database
        OBVIOUS
      <3> QED
        BY <2>1, <2>2, <3>1 DEF Database, Transaction
    <2>4. {x \in db'.transactions : x.group = out.group} = {out, into}
      BY <2>1, <2>2
    <2>5. ASSUME NEW t \in db.transactions
          PROVE  {x \in db'.transactions : x.group = t.group} = {x \in db.transactions : x.group = t.group}
      BY <2>1, <2>2, <2>5
    <2> QED
      BY <2>1, <2>2, <2>3, <2>4, <2>5 DEF PairedIn
  <1> QED
    BY <1>1, <1>2, <1>3, <1>4, <1>5, <1>7, <1>8, <1>9, <1>10 DEF Entry

(* Both legs of a transfer are there, equal and opposite, on two accounts,  *)
(* as long as nobody deletes an account: whatever is created, patched,      *)
(* merged, imported, reverted or fails.                                     *)
THEOREM TransfersStayPaired ==
  ASSUME \A q \in Menu : q.op # "deleteAccount", PairedIn(InitialDB)
  PROVE  Spec => []TransfersPaired
  <1>1. Init => KInv /\ PairedIn(db)
    BY KInit DEF Init
  <1>2. KInv /\ PairedIn(db) /\ [Next]_vars => PairedIn(db)'
    <2> SUFFICES ASSUME KInv, PairedIn(db), [Next]_vars PROVE PairedIn(db)'
      OBVIOUS
    <2>1. CASE db' = db
      BY <2>1
    <2>2. ASSUME NEW r \in Request, Handle(r) \/ Abort(r), in[r].user \in User,
                 db' \in Database, Entry(in[r].user)
          PROVE  PairedIn(db')
      <3>1. ~RemoveAccount(r)
        BY DEF RemoveAccount, At, KInv
      <3> QED
        BY <2>2, <3>1, AccountsStay, EntryPairs
    <2> QED
      BY <2>1, <2>2, StepIsEntry
  <1> QED
    BY <1>1, <1>2, KNext, PTL DEF Spec, TransfersPaired

-----------------------------------------------------------------------------
(***************************************************************************)
(* What the reports are given.  Readers starts from any database that is   *)
(* Consistent; here the handlers are shown to keep every database so.      *)
(***************************************************************************)

LEMMA SameLegsOpposed ==
  ASSUME NEW d, NEW new, LegsOf(new) \subseteq LegsOf(d), OpposedIn(d)
  PROVE  OpposedIn(new)
  BY DEF LegsOf, OpposedIn

LEMMA EntryOpposes ==
  ASSUME KInv, NEW u \in User, Entry(u), OpposedIn(db), db' \in Database
  PROVE  OpposedIn(db')
  <1> USE TableAfter, OnlySame
  <1>1. CASE B!Enter(u) \/ B!DropSnapshot(u)
    <2>1. db'.transactions = db.transactions
      BY <1>1 DEF B!Enter, B!DropSnapshot
    <2> QED
      BY <2>1, SameLegsOpposed DEF LegsOf
  <1>2. CASE B!Record(u) \/ B!Correct(u) \/ B!Land(u)
    <2>1. LegsOf(db') \subseteq LegsOf(db)
      BY <1>2 DEF B!Record, B!Correct, B!Land, LegsOf
    <2> QED
      BY <2>1, SameLegsOpposed
  <1>3. CASE B!Erase(u) \/ B!TakeBack(u) \/ B!CloseAccount(u)
    <2>1. B!Came("transactions") = {}
      BY <1>3 DEF B!Erase, B!TakeBack, B!CloseAccount, B!Table
    <2>2. LegsOf(db') \subseteq LegsOf(db)
      BY <2>1 DEF LegsOf
    <2> QED
      BY <2>2, SameLegsOpposed
  <1>4. ASSUME NEW from \in Id, NEW to, B!File(u, from, to) PROVE OpposedIn(db')
    <2> DEFINE Moved(t) == [t EXCEPT !.category = to]
               filed == {t \in db.transactions : t.category = from}
    <2>1. db'.transactions = (db.transactions \ filed) \cup {Moved(t) : t \in filed}
      BY <1>4 DEF B!File
    <2>2. \A t \in filed : t.group = NULL
      BY KeyedDB, NullAssumption
    <2>3. \A t \in filed : Moved(t).group = t.group
      BY DEF KInv, LInv, IInv, TypeOK, Database, Transaction
    <2> HIDE DEF Moved, filed
    <2>4. LegsOf(db') \subseteq LegsOf(db)
      BY <2>1, <2>2, <2>3 DEF LegsOf
    <2> QED
      BY <2>4, SameLegsOpposed
  <1>5. CASE B!Refile(u)
    <2>1. PICK from, to : B!File(u, from, to) /\ from \in Ids(db.categories)
      BY <1>5, SameWords DEF B!Refile, Ids
    <2> QED
      BY <2>1, <1>4 DEF KInv, LInv, IInv, TypeOK, Database, Category, Ids
  <1>6. CASE B!DropCategory(u)
    <2>1. PICK c \in db.categories : B!File(u, c.id, NULL)
      BY <1>6 DEF B!DropCategory, B!Gone
    <2> QED
      BY <2>1, <1>4 DEF KInv, LInv, IInv, TypeOK, Database, Category
  <1>7. CASE B!Move(u)
    <2>1. PICK out, into :
            /\ B!Came("transactions") = {out, into}
            /\ out.owner = u /\ into.owner = u
            /\ into.amount = -out.amount
            /\ out.group # NULL /\ into.group = out.group
            /\ \A t \in db.transactions : t.group # out.group
      BY <1>7 DEF B!Move, B!Filed
    <2>2. db'.transactions = db.transactions \cup {out, into}
      BY <1>7, <2>1 DEF B!Move
    <2>3. out.amount \in Int /\ into.amount \in Int
      <3>1. db' \in Database
        OBVIOUS
      <3> QED
        BY <2>1, <2>2, <3>1 DEF Database, Transaction
    <2>4. out.amount = -into.amount
      BY <2>1, <2>3
    <2>5. ASSUME NEW t \in db'.transactions, NEW leg \in db'.transactions,
                 t.group # NULL, leg.group = t.group, leg # t
          PROVE  /\ leg.owner = t.owner /\ leg.amount = -t.amount
                 /\ \A x \in db'.transactions : x.group = t.group => x \in {t, leg}
      <3>1. CASE t \in {out, into}
        <4>1. {t, leg} = {out, into}
          BY <2>1, <2>2, <2>5, <3>1
        <4> QED
          BY <2>1, <2>2, <2>4, <2>5, <3>1, <4>1
      <3>2. CASE t \in db.transactions /\ leg \in db.transactions
        BY <2>1, <2>2, <2>5, <3>2 DEF OpposedIn
      <3> QED
        BY <2>1, <2>2, <2>5, <3>1, <3>2
    <2> QED
      BY <2>5 DEF OpposedIn
  <1> QED
    BY <1>1, <1>2, <1>3, <1>5, <1>6, <1>7 DEF Entry

FiniteTables(d) == \A table \in DOMAIN d : IsFiniteSet(d[table])

(* An import lands by Commit only. *)
LEMMA OnlyCommitLands ==
  ASSUME KInv, NEW r \in Request, Handle(r) \/ Abort(r), ~Commit(r)
  PROVE  db'.batches \subseteq db.batches
  <1>1. db \in Database
    BY DEF KInv, LInv, IInv, TypeOK
  <1>2. CASE \/ Looks(r) \/ CreateTransaction(r) \/ CreateAccount(r) \/ WriteAccount(r)
             \/ WriteTransaction(r) \/ RemoveTransaction(r) \/ RevertImport(r)
    BY <1>1, <1>2, LooksEnters
       DEF CreateTransaction, InsertTransaction, CreateAccount, WriteAccount, UpdateAccount,
           WriteTransaction, UpdateTransaction, RemoveTransaction, DeleteTransaction,
           RevertImport, DeleteBatch, Write, Refuse, Database
  <1>3. CASE \/ PutSnapshot(r) \/ RemoveSnapshot(r) \/ CreateCategory(r) \/ WriteCategory(r)
             \/ Reassign(r) \/ RemoveCategory(r)
    BY <1>1, <1>3
       DEF PutSnapshot, UpsertSnapshot, RemoveSnapshot, DeleteSnapshot, CreateCategory,
           WriteCategory, UpdateCategory, Reassign, ReassignCategory, RemoveCategory,
           DeleteCategory, Write, Refuse, Database
  <1>4. CASE RemoveAccount(r)
    BY <1>1, <1>4 DEF RemoveAccount, DeleteAccount, Write, Refuse, Database
  <1>5. CASE db' = db
    BY <1>5
  <1> QED
    BY <1>2, <1>3, <1>4, <1>5 DEF Handle, Looks

LEMMA FewMore ==
  ASSUME NEW S, IsFiniteSet(S), NEW x, NEW y, NEW T \in SUBSET (S \cup {x, y})
  PROVE  IsFiniteSet(T)
  <1>1. IsFiniteSet(S \cup {x})
    BY FS_AddElement
  <1>2. IsFiniteSet((S \cup {x}) \cup {y})
    BY <1>1, FS_AddElement
  <1>3. T \in SUBSET ((S \cup {x}) \cup {y})
    OBVIOUS
  <1> HIDE DEF IsFiniteSet
  <1> QED
    BY <1>2, <1>3, FS_Subset

(* Every entry but an import adds two rows at most, or edits those there are. *)
LEMMA EntryFinite ==
  ASSUME KInv, NEW u, Entry(u), ~B!Land(u), FiniteTables(db), db' \in Database
  PROVE  FiniteTables(db')
  <1>0. db \in Database
    BY DEF KInv, LInv, IInv, TypeOK
  <1> DEFINE Few(table) == \E x, y : B!Came(table) \subseteq {x, y}
  <1>1. ASSUME NEW table \in B!Table, Few(table) PROVE IsFiniteSet(db'[table])
    <2>1. PICK x, y : B!Came(table) \subseteq {x, y}
      BY <1>1
    <2>2. db'[table] \in SUBSET (db[table] \cup {x, y})
      BY <2>1 DEF B!Came
    <2>3. IsFiniteSet(db[table])
      BY <1>0 DEF FiniteTables, B!Table, Database
    <2> QED
      BY <2>2, <2>3, FewMore
  <1>2. ASSUME NEW table \in B!Table, db'[table] \subseteq db[table] PROVE Few(table)
    BY <1>2 DEF B!Came
  <1>3. CASE B!Record(u) \/ B!Correct(u) \/ B!Erase(u) \/ B!Move(u)
    <2>1. Few("transactions") /\ B!Only({"transactions"})
      BY <1>3 DEF B!Record, B!Correct, B!Erase, B!Move
    <2>2. \A table \in B!Table : Few(table)
      BY <2>1, <1>2 DEF B!Only
    <2> QED
      BY <2>2, <1>1 DEF FiniteTables, Database, B!Table
  <1>4. CASE B!TakeBack(u) \/ B!CloseAccount(u) \/ B!DropSnapshot(u)
    <2>1. \A table \in B!Table : B!Came(table) = {} \/ db'[table] = db[table]
      BY <1>4 DEF B!TakeBack, B!CloseAccount, B!DropSnapshot, B!Only, B!Table
    <2>2. \A table \in B!Table : Few(table)
      BY <2>1, <1>2
    <2> QED
      BY <2>2, <1>1 DEF FiniteTables, Database, B!Table
  <1>5. CASE B!Enter(u)
    <2>1. \A table \in B!Table : Few(table)
      <3>1. PICK one \in B!Table : B!Only({one}) /\ \E new : B!Came(one) = {new}
        BY <1>5 DEF B!Enter, B!Table
      <3>2. Few(one)
        BY <3>1
      <3> QED
        BY <3>1, <3>2, <1>2 DEF B!Only
    <2> QED
      BY <2>1, <1>1 DEF FiniteTables, Database, B!Table
  <1>6. ASSUME NEW from, NEW to, B!File(u, from, to) PROVE IsFiniteSet(db'.transactions)
    <2> DEFINE filed == {t \in db.transactions : t.category = from}
               moved == {[t EXCEPT !.category = to] : t \in filed}
               f == [t \in filed |-> [t EXCEPT !.category = to]]
    <2>1. IsFiniteSet(db.transactions)
      BY <1>0 DEF FiniteTables, Database
    <2>2. IsFiniteSet(filed) /\ IsFiniteSet(db.transactions \ filed)
      BY <2>1, FS_Subset
    <2>3. f \in Surjection(filed, moved)
      BY DEF Surjection
    <2>4. db'.transactions = (db.transactions \ filed) \cup moved
      BY <1>6 DEF B!File
    <2> HIDE DEF filed, moved, f
    <2>5. IsFiniteSet(moved)
      BY <2>2, <2>3, FS_Surjection
    <2> QED
      BY <2>2, <2>4, <2>5, FS_Union
  <1>7. CASE B!Refile(u) \/ B!DropCategory(u)
    <2>1. IsFiniteSet(db'.transactions)
      BY <1>6, <1>7 DEF B!Refile, B!DropCategory
    <2>2. \A table \in B!Table \ {"transactions"} : Few(table)
      <3>1. \A table \in B!Table \ {"transactions"} :
              db'[table] = db[table] \/ B!Came(table) = {}
        BY <1>7 DEF B!Refile, B!DropCategory, B!Only, B!Table
      <3> QED
        BY <3>1, <1>2
    <2> QED
      BY <2>1, <2>2, <1>1 DEF FiniteTables, Database, B!Table
  <1> QED
    BY <1>3, <1>4, <1>5, <1>7 DEF Entry

LEMMA CommitFinite ==
  ASSUME KInv, NEW r \in Request, Commit(r), FiniteTables(db)
  PROVE  FiniteTables(db')
  <1> DEFINE staged == open[r].transactions
             f == [k \in DOMAIN staged |-> staged[k]]
  <1>0. db \in Database /\ in[r] \in Input /\ staged \in Seq(Transaction)
    BY DEF KInv, LInv, IInv, TypeOK
  <1>1. db' = [db EXCEPT !.batches = @ \cup open[r].batches,
                         !.transactions = @ \cup Staged(r)]
    BY DEF Commit
  <1>2. IsFiniteSet(open[r].batches)
    <2>1. open[r].batches = {} \/ \E b : open[r].batches = {b}
      BY DEF KInv, Scripted, Commit
    <2> QED
      BY <2>1, FS_EmptySet, FS_Singleton
  <1>3. IsFiniteSet(Staged(r))
    <2>1. f \in Surjection(DOMAIN staged, Staged(r))
      BY DEF Surjection, Staged
    <2>2. DOMAIN staged = 1..Len(staged) /\ Len(staged) \in Nat
      BY <1>0
    <2>3. IsFiniteSet(DOMAIN staged)
      BY <2>2, FS_Interval
    <2> HIDE DEF f, staged
    <2> QED
      BY <2>1, <2>3, FS_Surjection
  <1>4. IsFiniteSet(db.batches \cup open[r].batches) /\ IsFiniteSet(db.transactions \cup Staged(r))
    BY <1>0, <1>2, <1>3, FS_Union DEF FiniteTables, Database
  <1> QED
    BY <1>0, <1>1, <1>4 DEF FiniteTables, Database

(* From a consistent database the handlers leave a consistent one, at every *)
(* moment: what every report of Reports and Readers is proved from, for any *)
(* number of users, requests and rows, with every interleaving and failure. *)
THEOREM BooksStayConsistent ==
  ASSUME Consistent(InitialDB)
  PROVE  Spec => []Consistent(db)
  <1> DEFINE CInv == KInv /\ OpposedIn(db) /\ FiniteTables(db)
  <1>1. Init => CInv
    BY KInit DEF Init, Consistent, FiniteTables
  <1>2. CInv /\ [Next]_vars => CInv'
    <2> SUFFICES ASSUME CInv, [Next]_vars PROVE OpposedIn(db') /\ FiniteTables(db')
      BY KNext
    <2>1. CASE db' = db
      BY <2>1
    <2>2. ASSUME NEW r \in Request, Handle(r) \/ Abort(r), in[r].user \in User,
                 db' \in Database, Entry(in[r].user)
          PROVE  OpposedIn(db') /\ FiniteTables(db')
      <3>1. OpposedIn(db')
        BY <2>2, EntryOpposes
      <3>2. CASE Commit(r)
        BY <3>1, <3>2, CommitFinite
      <3>3. CASE ~Commit(r)
        <4>1. db'.batches \subseteq db.batches
          BY <2>2, <3>3, OnlyCommitLands
        <4>2. ~B!Land(in[r].user)
          BY <4>1 DEF B!Land, B!Came
        <4> QED
          BY <2>2, <3>1, <4>2, EntryFinite
      <3> QED
        BY <3>2, <3>3
    <2> QED
      BY <2>1, <2>2, StepIsEntry
  <1>3. CInv => Consistent(db)
    BY OwnersHold
       DEF KInv, LInv, IInv, TypeOK, Keyed, Fits, OwnersAgree, Consistent, FiniteTables
  <1> QED
    BY <1>1, <1>2, <1>3, PTL DEF Spec
=============================================================================
