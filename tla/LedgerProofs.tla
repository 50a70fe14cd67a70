---------------------------- MODULE LedgerProofs ----------------------------
(***************************************************************************)
(* Every row belongs to the user of the rows it refers to, and those are   *)
(* still there, for any number of users, requests and rows.                *)
(*                                                                         *)
(* The argument: an id names the one that drew it and so, given what the   *)
(* requests ask (`in` never changes), its owner.  A check a handler made   *)
(* is then a fact about the id, and stays true while other handlers write  *)
(* and delete between the check and the row that relies on it.             *)
(***************************************************************************)
EXTENDS Ledger, TLAPS

(* The user on whose behalf the id was drawn, given the requests i. *)
OwnerOf(i, id) == IF id[1] \in User THEN id[1] ELSE i[id[1]].user

OwnedAccount(i, a) == OwnerOf(i, a.id) = a.owner

OwnedOnAccount(i, x) ==
  OwnerOf(i, x.id) = x.owner /\ OwnerOf(i, x.account) = x.owner

(* What the request that drew a batch's id imports goes to one account. *)
OnHome(i, batch, account) == batch[1] \in Request => account = i[batch[1]].account

OwnedBatch(i, b) == OwnedOnAccount(i, b) /\ OnHome(i, b.id, b.account)

OwnedTransaction(i, t) ==
  /\ OwnedOnAccount(i, t)
  /\ t.category = NULL \/ OwnerOf(i, t.category) = t.owner
  /\ t.batch # NULL => OwnerOf(i, t.batch) = t.owner /\ OnHome(i, t.batch, t.account)

Owned(i, d) ==
  /\ \A a \in d.accounts : OwnedAccount(i, a)
  /\ \A c \in d.categories : OwnedAccount(i, c)
  /\ \A b \in d.batches : OwnedBatch(i, b)
  /\ \A s \in d.snapshots : OwnedOnAccount(i, s)
  /\ \A t \in d.transactions : OwnedTransaction(i, t)
  /\ \A t \in d.transactions : \A b \in d.batches : b.id = t.batch => b.account = t.account

Good(i, d) == d \in Database /\ Owned(i, d)

-----------------------------------------------------------------------------
(* What each statement preserves. *)

LEMMA UpdateAccountGood ==
  ASSUME NEW i, NEW d, Good(i, d), NEW u, NEW new \in Account
  PROVE  Good(i, UpdateAccount(d, u, new))
  <1> DEFINE Set(a) == [a EXCEPT !.name = new.name, !.type = new.type,
                                 !.opening = new.opening, !.archived = new.archived]
             Rows == {IF a.id = new.id /\ a.owner = u THEN Set(a) ELSE a : a \in d.accounts}
  <1>1. \A a \in Account : Set(a) \in Account /\ Set(a).id = a.id /\ Set(a).owner = a.owner
    BY DEF Account
  <1> HIDE DEF Set
  <1>2. Rows \subseteq Account /\ \A a \in Rows : OwnedAccount(i, a)
    BY <1>1 DEF Good, Owned, OwnedAccount, Database
  <1>3. UpdateAccount(d, u, new) = [d EXCEPT !.accounts = Rows]
    BY DEF UpdateAccount, Set
  <1> HIDE DEF Rows
  <1> QED
    BY <1>2, <1>3 DEF Good, Owned, Database

LEMMA DeleteAccountGood ==
  ASSUME NEW i, NEW d, Good(i, d), NEW u, NEW id
  PROVE  Good(i, DeleteAccount(d, u, id))
  BY DEF Good, Owned, DeleteAccount, Database

LEMMA UpdateCategoryGood ==
  ASSUME NEW i, NEW d, Good(i, d), NEW u, NEW new \in Category
  PROVE  Good(i, UpdateCategory(d, u, new))
  <1> DEFINE Set(c) == [c EXCEPT !.name = new.name, !.archived = new.archived]
             Rows == {IF c.id = new.id /\ c.owner = u THEN Set(c) ELSE c : c \in d.categories}
  <1>1. \A c \in Category : Set(c) \in Category /\ Set(c).id = c.id /\ Set(c).owner = c.owner
    BY DEF Category
  <1> HIDE DEF Set
  <1>2. Rows \subseteq Category /\ \A c \in Rows : OwnedAccount(i, c)
    BY <1>1 DEF Good, Owned, OwnedAccount, Database
  <1>3. UpdateCategory(d, u, new) = [d EXCEPT !.categories = Rows]
    BY DEF UpdateCategory, Set
  <1> HIDE DEF Rows
  <1> QED
    BY <1>2, <1>3 DEF Good, Owned, Database

LEMMA DeleteCategoryGood ==
  ASSUME NEW i, NEW d, Good(i, d), NEW u, NEW id
  PROVE  Good(i, DeleteCategory(d, u, id))
  <1> DEFINE gone == Ids(Find(d.categories, u, id))
             Clear(t) == [t EXCEPT !.category = NULL]
             Rows == {IF t.category \in gone THEN Clear(t) ELSE t : t \in d.transactions}
             Left == {c \in d.categories : ~(c.id = id /\ c.owner = u)}
  <1>1. \A t \in Transaction :
          /\ Clear(t) \in Transaction
          /\ Clear(t).batch = t.batch /\ Clear(t).account = t.account
          /\ OwnedTransaction(i, t) => OwnedTransaction(i, Clear(t))
    BY DEF Transaction, OwnedTransaction, OwnedOnAccount
  <1> HIDE DEF Clear, gone
  <1>2. /\ Rows \subseteq Transaction /\ \A t \in Rows : OwnedTransaction(i, t)
        /\ \A t \in Rows : \A b \in d.batches : b.id = t.batch => b.account = t.account
    BY <1>1 DEF Good, Owned, Database
  <1>3. DeleteCategory(d, u, id) = [d EXCEPT !.categories = Left, !.transactions = Rows]
    BY DEF DeleteCategory, Clear, gone
  <1> HIDE DEF Rows
  <1> QED
    BY <1>2, <1>3 DEF Good, Owned, Database

LEMMA ReassignCategoryGood ==
  ASSUME NEW i, NEW d, Good(i, d), NEW u, NEW from, NEW to \in Id,
         OwnerOf(i, to) = u
  PROVE  Good(i, ReassignCategory(d, u, from, to))
  BY DEF Good, Owned, OwnedTransaction, OwnedOnAccount, ReassignCategory,
         Database, Transaction

LEMMA InsertTransactionGood ==
  ASSUME NEW i, NEW d, Good(i, d), NEW t \in Transaction, OwnedTransaction(i, t),
         t.batch = NULL
  PROVE  Good(i, InsertTransaction(d, t))
  BY NullAssumption DEF Batch, Good, Owned, InsertTransaction, Database

LEMMA DeleteTransactionGood ==
  ASSUME NEW i, NEW d, Good(i, d), NEW u, NEW id
  PROVE  Good(i, DeleteTransaction(d, u, id))
  BY DEF Good, Owned, DeleteTransaction, Database

LEMMA DeleteBatchGood ==
  ASSUME NEW i, NEW d, Good(i, d), NEW u, NEW id
  PROVE  Good(i, DeleteBatch(d, u, id))
  BY DEF Good, Owned, DeleteBatch, Database

LEMMA DeleteSnapshotGood ==
  ASSUME NEW i, NEW d, Good(i, d), NEW u, NEW id
  PROVE  Good(i, DeleteSnapshot(d, u, id))
  BY DEF Good, Owned, DeleteSnapshot, Database

LEMMA HashTyped ==
  ASSUME NEW date \in Date, NEW amount \in Int, NEW payee \in Payee
  PROVE  DedupHash(date, amount, payee) \in Fingerprint
  BY SchemaAssumption DEF DedupHash, Fingerprint

LEMMA UpdateTransactionGood ==
  ASSUME NEW i, NEW d, Good(i, d), NEW u, NEW new \in Transaction,
         new.category = NULL \/ OwnerOf(i, new.category) = u
  PROVE  Good(i, UpdateTransaction(d, u, new))
  <1> DEFINE hash == DedupHash(new.date, new.amount, new.payee)
             Set(t) == [t EXCEPT !.date = new.date, !.amount = new.amount,
                                 !.payee = new.payee, !.category = new.category,
                                 !.hash = hash]
             Rows == {IF t.id = new.id /\ t.owner = u THEN Set(t) ELSE t :
                        t \in d.transactions}
  <1>1. hash \in Fingerprint
    BY HashTyped DEF Transaction
  <1> HIDE DEF hash
  <1>2. \A t \in Transaction :
          /\ Set(t) \in Transaction
          /\ Set(t).batch = t.batch /\ Set(t).account = t.account
          /\ OwnedTransaction(i, t) /\ t.owner = u => OwnedTransaction(i, Set(t))
    BY <1>1 DEF Transaction, OwnedTransaction, OwnedOnAccount
  <1> HIDE DEF Set
  <1>3. /\ Rows \subseteq Transaction /\ \A t \in Rows : OwnedTransaction(i, t)
        /\ \A t \in Rows : \A b \in d.batches : b.id = t.batch => b.account = t.account
    BY <1>2 DEF Good, Owned, Database
  <1>4. UpdateTransaction(d, u, new) = [d EXCEPT !.transactions = Rows]
    BY DEF UpdateTransaction, Set, hash
  <1> HIDE DEF Rows
  <1> QED
    BY <1>3, <1>4 DEF Good, Owned, Database

LEMMA UpsertSnapshotGood ==
  ASSUME NEW i, NEW d, Good(i, d), NEW new \in Snapshot, OwnedOnAccount(i, new)
  PROVE  Good(i, UpsertSnapshot(d, new))
  BY DEF Good, Owned, OwnedOnAccount, UpsertSnapshot, Database, Snapshot

-----------------------------------------------------------------------------
(* What a handler has checked when it reaches label l, having loaded w and  *)
(* staged o: the strengthening that makes ownership inductive.              *)

Belongs(i, r, id) == id \in Id /\ OwnerOf(i, id) = i[r].user

BelongsOrNull(i, r, id) == id = NULL \/ Belongs(i, r, id)

AccountChecked(i, r, l) ==
  i[r].op \in NeedsAccount /\ l \notin {"start", "done"} =>
    Belongs(i, r, i[r].account) /\ ~Malformed(i[r])

PeerChecked(i, r, l) ==
  i[r].op = "createTransfer" /\ l \in {"rows", "commit"} => Belongs(i, r, i[r].peer)

CategoryChecked(i, r, l) ==
  /\ i[r].op = "createTransaction" /\ l = "write" => BelongsOrNull(i, r, i[r].category)
  /\ i[r].op = "deleteCategory" /\ l = "reassign" => Belongs(i, r, i[r].category)

RowLoaded(i, r, l, w) ==
  /\ i[r].op = "updateTransaction" /\ l \in {"category", "write"} => w \in Transaction
  /\ i[r].op = "updateTransaction" /\ l = "category" => w.category = i[r].category
  /\ i[r].op = "updateTransaction" /\ l = "write" => BelongsOrNull(i, r, w.category)
  /\ i[r].op = "updateAccount" /\ l = "write" => w \in Account
  /\ i[r].op = "updateCategory" /\ l = "write" => w \in Category

(* Drawn by request r itself, the import the row is part of included. *)
Drawn(r, t) == t.id[1] = r /\ (t.batch = NULL \/ t.batch[1] = r)

StagedOwned(i, r, o) ==
  /\ \A b \in o.batches : OwnedBatch(i, b) /\ b.id[1] = r
  /\ \A k \in DOMAIN o.transactions :
       /\ OwnedTransaction(i, o.transactions[k])
       /\ Drawn(r, o.transactions[k])

StagedInOrder(i, r, l, o) ==
  /\ l \notin {"rows", "commit"} => o = NothingOpen
  /\ i[r].op = "commitImport" /\ l = "batch" => i[r].rows # <<>>
  /\ i[r].op = "commitImport" /\ l = "rows" => Len(o.transactions) < Len(i[r].rows)

Checked(i, r, l, w, o) ==
  /\ AccountChecked(i, r, l)
  /\ PeerChecked(i, r, l)
  /\ CategoryChecked(i, r, l)
  /\ RowLoaded(i, r, l, w)
  /\ StagedOwned(i, r, o)
  /\ StagedInOrder(i, r, l, o)

IInv ==
  /\ TypeOK
  /\ Owned(in, db)
  /\ \A r \in Request : Checked(in, r, pc[r], row[r], open[r])

LEMMA GoodDB ==
  ASSUME IInv
  PROVE  Good(in, db)
  BY DEF IInv, TypeOK, Good

(* A step of r leaves what the other handlers checked alone. *)
LEMMA StepKeeps ==
  ASSUME IInv, NEW r \in Request, TypeOK', in' = in, Owned(in, db'),
         \A s \in Request \ {r} : pc'[s] = pc[s] /\ row'[s] = row[s] /\ open'[s] = open[s],
         Checked(in, r, pc'[r], row'[r], open'[r])
  PROVE  IInv'
  BY DEF IInv

LEMMA NothingOpenTyped ==
  NothingOpen \in [batches: SUBSET Batch, transactions: Seq(Transaction)]
  BY DEF NothingOpen

(* An answered handler has nothing left to check. *)
LEMMA AnsweredIsChecked ==
  ASSUME NEW i, NEW r, NEW w
  PROVE  Checked(i, r, "done", w, NothingOpen)
  BY DEF Checked, AccountChecked, PeerChecked, CategoryChecked, RowLoaded,
         StagedOwned, StagedInOrder, NothingOpen

(* A handler with no open transaction writes once and answers. *)
LEMMA WriteKeeps ==
  ASSUME IInv, NEW r \in Request, pc[r] \notin {"rows", "commit"},
         NEW new, Good(in, new), NEW a \in Answer, Write(r, new, a)
  PROVE  IInv'
  <1>1. open[r] = NothingOpen
    BY DEF IInv, Checked, StagedInOrder
  <1>2. TypeOK'
    BY DEF IInv, TypeOK, Write, Respond, Good, Label
  <1>3. Checked(in, r, "done", row[r], open[r])
    BY <1>1, AnsweredIsChecked
  <1> QED
    BY <1>2, <1>3, StepKeeps DEF IInv, TypeOK, Write, Respond, Good

LEMMA RefuseKeeps ==
  ASSUME IInv, NEW r \in Request, pc[r] \notin {"rows", "commit"},
         NEW a \in Answer, Refuse(r, a)
  PROVE  IInv'
  <1>1. Write(r, db, a)
    BY DEF Write, Refuse, Respond
  <1>2. Good(in, db)
    BY DEF IInv, TypeOK, Good
  <1> QED
    BY <1>1, <1>2, WriteKeeps

(* A handler moves to another label without writing. *)
LEMMA GotoKeeps ==
  ASSUME IInv, NEW r \in Request, NEW l \in Label, Goto(r, l), UNCHANGED <<db, row, open>>,
         Checked(in, r, l, row[r], open[r])
  PROVE  IInv'
  <1>1. TypeOK'
    BY DEF IInv, TypeOK, Goto
  <1> QED
    BY <1>1, StepKeeps DEF IInv, TypeOK, Goto

-----------------------------------------------------------------------------
(* What a lookup under the user's id tells. *)

LEMMA FoundAccount ==
  ASSUME NEW i, NEW d, Good(i, d), NEW u, NEW id, Find(d.accounts, u, id) # {}
  PROVE  id \in Id /\ OwnerOf(i, id) = u
  BY DEF Good, Owned, OwnedAccount, Find, Database, Account

LEMMA FoundCategory ==
  ASSUME NEW i, NEW d, Good(i, d), NEW u, NEW id, Find(d.categories, u, id) # {}
  PROVE  id \in Id /\ OwnerOf(i, id) = u
  BY DEF Good, Owned, OwnedAccount, Find, Database, Category

(* The ids a request draws are its user's. *)
LEMMA DrawnId ==
  ASSUME NEW i, NEW r \in Request, NEW k \in Nat
  PROVE  <<r, k>> \in Id /\ OwnerOf(i, <<r, k>>) = i[r].user
  BY SchemaAssumption DEF Id, OwnerOf

-----------------------------------------------------------------------------
(* One lemma per action. *)

LEMMA OwnAccountKeeps ==
  ASSUME IInv, NEW r \in Request, OwnAccount(r)
  PROVE  IInv'
  <1>1. pc[r] = "start" /\ in[r].op \in NeedsAccount
    BY DEF OwnAccount
  <1>2. ASSUME NEW a \in Answer, Refuse(r, a) PROVE IInv'
    BY <1>1, <1>2, RefuseKeeps
  <1>3. "bad_request" \in Answer /\ "not_found" \in Answer
    BY DEF Answer
  <1>4. CASE /\ ~Malformed(in[r])
             /\ AccountFound(in[r].user, in[r].account)
             /\ ~(in[r].op = "commitImport" /\ in[r].rows = <<>>)
             /\ Goto(r, AfterAccount(in[r])) /\ UNCHANGED <<db, row, open>>
    <2> DEFINE l == AfterAccount(in[r])
    <2>1. Belongs(in, r, in[r].account)
      BY ZenonT(60), <1>4, GoodDB, FoundAccount DEF AccountFound, Belongs
    <2>2. open[r] = NothingOpen
      BY <1>1 DEF IInv, Checked, StagedInOrder
    <2>3. l \in {"write", "category", "peer", "batch"}
      BY DEF AfterAccount
    <2>4. l = "write" /\ in[r].op = "createTransaction" => in[r].category = NULL
      BY DEF AfterAccount
    <2>5. l = "batch" => in[r].op = "commitImport"
      BY DEF AfterAccount
    <2> HIDE DEF l
    <2>6. AccountChecked(in, r, l)
      BY <1>4, <2>1 DEF AccountChecked
    <2>7. PeerChecked(in, r, l) /\ CategoryChecked(in, r, l) /\ RowLoaded(in, r, l, row[r])
      BY <1>1, <2>3, <2>4 DEF PeerChecked, CategoryChecked, RowLoaded, BelongsOrNull,
                             NeedsAccount
    <2>8. StagedOwned(in, r, open[r]) /\ StagedInOrder(in, r, l, open[r])
      BY <1>4, <2>2, <2>3, <2>5 DEF StagedOwned, StagedInOrder, NothingOpen
    <2>9. l \in Label
      BY <2>3 DEF Label
    <2>10. Goto(r, l) /\ UNCHANGED <<db, row, open>>
      BY <1>4 DEF l
    <2> QED
      BY <2>6, <2>7, <2>8, <2>9, <2>10, GotoKeeps DEF Checked
  <1> QED
    BY <1>2, <1>3, <1>4 DEF OwnAccount

LEMMA OwnPeerKeeps ==
  ASSUME IInv, NEW r \in Request, OwnPeer(r)
  PROVE  IInv'
  <1>1. in[r].op = "createTransfer" /\ pc[r] = "peer"
    BY DEF OwnPeer, At
  <1>2. CASE Refuse(r, "not_found")
    BY <1>1, <1>2, RefuseKeeps DEF Answer
  <1>3. CASE /\ AccountFound(in[r].user, in[r].peer)
             /\ Goto(r, "rows") /\ UNCHANGED <<db, row, open>>
    <2>1. Belongs(in, r, in[r].peer)
      BY ZenonT(60), <1>3, GoodDB, FoundAccount DEF AccountFound, Belongs
    <2>2. Checked(in, r, pc[r], row[r], open[r])
      BY DEF IInv
    <2>3. Checked(in, r, "rows", row[r], open[r])
      BY <1>1, <2>1, <2>2 DEF Checked, AccountChecked, PeerChecked, CategoryChecked,
                              RowLoaded, StagedInOrder
    <2> QED
      BY <1>3, <2>3, GotoKeeps DEF Label
  <1> QED
    BY <1>2, <1>3 DEF OwnPeer

LEMMA OwnCategoryKeeps ==
  ASSUME IInv, NEW r \in Request, OwnCategory(r)
  PROVE  IInv'
  <1>1. pc[r] = "category" /\ in[r].op \in {"createTransaction", "updateTransaction"}
    BY DEF OwnCategory
  <1>2. CASE Refuse(r, "bad_request")
    BY <1>1, <1>2, RefuseKeeps DEF Answer
  <1>3. CASE /\ CategoryFound(in[r].user, in[r].category)
             /\ Goto(r, "write") /\ UNCHANGED <<db, row, open>>
    <2>1. BelongsOrNull(in, r, in[r].category)
      BY <1>3, GoodDB, FoundCategory DEF CategoryFound, Belongs, BelongsOrNull
    <2>2. Checked(in, r, pc[r], row[r], open[r])
      BY DEF IInv
    <2>3. Checked(in, r, "write", row[r], open[r])
      BY <1>1, <2>1, <2>2 DEF Checked, AccountChecked, PeerChecked, CategoryChecked,
                              RowLoaded, StagedInOrder
    <2> QED
      BY <1>3, <2>3, GotoKeeps DEF Label
  <1> QED
    BY <1>2, <1>3 DEF OwnCategory

LEMMA CreateTransactionKeeps ==
  ASSUME IInv, NEW r \in Request, CreateTransaction(r)
  PROVE  IInv'
  <1>1. in[r].op = "createTransaction" /\ pc[r] = "write"
    BY DEF CreateTransaction, At
  <1>2. CASE Refuse(r, "error")
    BY <1>1, <1>2, RefuseKeeps DEF Answer
  <1>3. CASE Write(r, InsertTransaction(db, NewTransaction(r)), "created")
    <2> DEFINE t == NewTransaction(r)
    <2>1. in[r] \in Input
      BY DEF IInv, TypeOK
    <2>2. /\ Belongs(in, r, in[r].account)
          /\ in[r].amount # 0
          /\ BelongsOrNull(in, r, in[r].category)
      BY <1>1 DEF IInv, Checked, AccountChecked, CategoryChecked, Malformed, NeedsAccount
    <2>3. DedupHash(in[r].date, in[r].amount, in[r].payee) \in Fingerprint
      BY <2>1, HashTyped DEF Input
    <2>4. <<r, 1>> \in Id /\ OwnerOf(in, <<r, 1>>) = in[r].user
      BY DrawnId
    <2>5. t \in Transaction
      BY <2>1, <2>2, <2>3, <2>4 DEF NewTransaction, Transaction, Input, Belongs, BelongsOrNull
    <2>6. OwnedTransaction(in, t) /\ t.batch = NULL
      <3>1. /\ t.id = <<r, 1>> /\ t.owner = in[r].user /\ t.batch = NULL
            /\ t.account = in[r].account /\ t.category = in[r].category
        BY DEF NewTransaction
      <3> HIDE DEF t
      <3> QED
        BY <2>2, <2>4, <3>1 DEF OwnedTransaction, OwnedOnAccount, Belongs, BelongsOrNull
    <2> HIDE DEF t
    <2>7. Good(in, InsertTransaction(db, t))
      BY <2>5, <2>6, GoodDB, InsertTransactionGood
    <2> QED
      BY <1>1, <1>3, <2>7, WriteKeeps DEF Answer, t
  <1> QED
    BY <1>2, <1>3 DEF CreateTransaction

LEMMA LoadTransactionKeeps ==
  ASSUME IInv, NEW r \in Request, LoadTransaction(r)
  PROVE  IInv'
  <1>1. in[r].op = "updateTransaction" /\ pc[r] = "start"
    BY DEF LoadTransaction, At
  <1>2. ASSUME NEW a \in Answer, Refuse(r, a) PROVE IInv'
    BY <1>1, <1>2, RefuseKeeps
  <1>3. "not_found" \in Answer /\ "conflict" \in Answer /\ "bad_request" \in Answer
    BY DEF Answer
  <1>4. ASSUME NEW t \in Mine(db.transactions, r),
               ~("amount" \in in[r].fields /\ in[r].amount = 0),
               row' = [row EXCEPT ![r] = Patched(t, in[r])],
               Goto(r, IF "category" \in in[r].fields THEN "category" ELSE "write"),
               UNCHANGED <<db, open>>
        PROVE  IInv'
    <2> DEFINE l == IF "category" \in in[r].fields THEN "category" ELSE "write"
               w == Patched(t, in[r])
    <2>1. t \in Transaction /\ t.owner = in[r].user /\ OwnedTransaction(in, t)
      BY <1>4, GoodDB DEF Mine, Find, Good, Database, Owned
    <2>2. in[r] \in Input
      BY DEF IInv, TypeOK
    <2>3. w \in Transaction
      BY ZenonT(60), <1>4, <2>1, <2>2 DEF Patched, Transaction, Input
    <2>4. l = "category" => w.category = in[r].category
      BY <2>1 DEF Patched, Transaction
    <2>5. l = "write" => w.category = t.category
      BY <2>1 DEF Patched, Transaction
    <2>6. BelongsOrNull(in, r, t.category)
      BY <2>1 DEF OwnedTransaction, BelongsOrNull, Belongs, Transaction
    <2>7. l \in {"category", "write"}
      OBVIOUS
    <2>8. Goto(r, l) /\ row' = [row EXCEPT ![r] = w]
      BY <1>4
    <2> HIDE DEF l, w
    <2>9. open[r] = NothingOpen
      BY <1>1 DEF IInv, Checked, StagedInOrder
    <2>10. Checked(in, r, l, w, open[r])
      BY <1>1, <2>3, <2>4, <2>5, <2>6, <2>7, <2>9
         DEF Checked, AccountChecked, PeerChecked, CategoryChecked, RowLoaded,
             StagedOwned, StagedInOrder, NothingOpen, NeedsAccount
    <2>11. TypeOK'
      BY <1>4, <2>3, <2>7, <2>8 DEF IInv, TypeOK, Goto, Label
    <2>12. pc'[r] = l /\ row'[r] = w
      BY <2>8 DEF IInv, TypeOK, Goto
    <2> QED
      BY <1>4, <2>8, <2>10, <2>11, <2>12, StepKeeps DEF IInv, TypeOK, Goto
  <1> QED
    BY <1>2, <1>3, <1>4 DEF LoadTransaction

LEMMA WriteTransactionKeeps ==
  ASSUME IInv, NEW r \in Request, WriteTransaction(r)
  PROVE  IInv'
  <1>1. in[r].op = "updateTransaction" /\ pc[r] = "write"
    BY DEF WriteTransaction, At
  <1>2. CASE Refuse(r, "error")
    BY <1>1, <1>2, RefuseKeeps DEF Answer
  <1>3. CASE Write(r, UpdateTransaction(db, in[r].user, row[r]), "ok")
    <2>1. row[r] \in Transaction /\ BelongsOrNull(in, r, row[r].category)
      BY <1>1 DEF IInv, Checked, RowLoaded
    <2>2. Good(in, UpdateTransaction(db, in[r].user, row[r]))
      BY <2>1, GoodDB, UpdateTransactionGood DEF BelongsOrNull, Belongs
    <2> QED
      BY <1>1, <1>3, <2>2, WriteKeeps DEF Answer
  <1> QED
    BY <1>2, <1>3 DEF WriteTransaction

LEMMA RemoveTransactionKeeps ==
  ASSUME IInv, NEW r \in Request, RemoveTransaction(r)
  PROVE  IInv'
  <1> DEFINE a == IF Mine(db.transactions, r) = {} THEN "not_found" ELSE "no_content"
             new == DeleteTransaction(db, in[r].user, in[r].id)
  <1>1. pc[r] = "start" /\ Write(r, new, a)
    BY DEF RemoveTransaction, At
  <1>2. Good(in, new)
    BY GoodDB, DeleteTransactionGood
  <1>3. a \in Answer
    BY DEF Answer
  <1> HIDE DEF a, new
  <1> QED
    BY <1>1, <1>2, <1>3, WriteKeeps

(* Staging one more row of the request's own. *)
LEMMA StageKeeps ==
  ASSUME IInv, NEW r \in Request, pc[r] = "rows",
         NEW t \in Transaction, OwnedTransaction(in, t), Drawn(r, t),
         NEW l \in {"rows", "commit"}, Stage(r, t, l),
         in[r].op = "commitImport" /\ l = "rows" =>
           Len(open[r].transactions) + 1 < Len(in[r].rows)
  PROVE  IInv'
  <1>1. Checked(in, r, pc[r], row[r], open[r])
    BY DEF IInv
  <1>2. TypeOK
    BY DEF IInv
  <1>3. CASE /\ open' = [open EXCEPT ![r].transactions = Append(@, t)]
             /\ Goto(r, l) /\ UNCHANGED <<db, row>>
    <2> DEFINE o == [open[r] EXCEPT !.transactions = Append(@, t)]
    <2>1. open[r] \in [batches: SUBSET Batch, transactions: Seq(Transaction)]
      BY <1>2 DEF TypeOK
    <2>2. /\ o \in [batches: SUBSET Batch, transactions: Seq(Transaction)]
          /\ o.batches = open[r].batches
          /\ o.transactions = Append(open[r].transactions, t)
      BY SMTT(60), <2>1
    <2>3. open' = [open EXCEPT ![r] = o]
      BY <1>3
    <2> HIDE DEF o
    <2>4. TypeOK'
      BY <1>2, <1>3, <2>2, <2>3 DEF TypeOK, Goto, Label
    <2>5. StagedOwned(in, r, o)
      BY <1>1, <2>1, <2>2 DEF Checked, StagedOwned
    <2>6. StagedInOrder(in, r, l, o)
      BY <2>1, <2>2 DEF StagedInOrder
    <2>7. Checked(in, r, l, row[r], o)
      BY <1>1, <2>5, <2>6 DEF Checked, AccountChecked, PeerChecked, CategoryChecked, RowLoaded
    <2>8. pc'[r] = l /\ open'[r] = o
      BY <1>2, <1>3, <2>3 DEF TypeOK, Goto
    <2> QED
      BY <1>3, <2>3, <2>4, <2>7, <2>8, StepKeeps DEF IInv, TypeOK, Goto
  <1>4. CASE /\ open' = [open EXCEPT ![r] = NothingOpen]
             /\ Respond(r, "error") /\ UNCHANGED <<db, row>>
    <2>1. TypeOK'
      BY <1>2, <1>4, NothingOpenTyped DEF TypeOK, Respond, Label, Answer
    <2>2. pc'[r] = "done" /\ open'[r] = NothingOpen
      BY <1>2, <1>4 DEF TypeOK, Respond
    <2> QED
      BY <1>4, <2>1, <2>2, AnsweredIsChecked, StepKeeps DEF IInv, TypeOK, Respond
  <1> QED
    BY <1>3, <1>4 DEF Stage

LEMMA CreateLegKeeps ==
  ASSUME IInv, NEW r \in Request, CreateLeg(r)
  PROVE  IInv'
  <1> DEFINE k == Len(open[r].transactions) + 1
             cents == IF k = 1 THEN -in[r].amount ELSE in[r].amount
             t == Leg(r, k)
  <1>1. in[r].op = "createTransfer" /\ pc[r] = "rows" /\ Stage(r, t, IF k = 2 THEN "commit" ELSE "rows")
    BY DEF CreateLeg, At
  <1>2. in[r] \in Input /\ k \in Nat
    BY DEF IInv, TypeOK
  <1>3. /\ Belongs(in, r, in[r].account) /\ Belongs(in, r, in[r].peer)
        /\ ~(in[r].amount <= 0)
    BY <1>1 DEF IInv, Checked, AccountChecked, PeerChecked, Malformed, NeedsAccount
  <1>4. cents \in Int \ {0}
    BY <1>2, <1>3 DEF Input
  <1>5. DedupHash(in[r].date, cents, TransferWord) \in Fingerprint
    BY <1>2, <1>4, SchemaAssumption, HashTyped DEF Input
  <1>6. \A n \in Nat : <<r, n>> \in Id /\ OwnerOf(in, <<r, n>>) = in[r].user
    BY DrawnId
  <1> HIDE DEF k
  <1>7. t \in Transaction
    BY <1>2, <1>3, <1>4, <1>5, <1>6, SchemaAssumption DEF Leg, Transaction, Input, Belongs
  <1>8. OwnedTransaction(in, t) /\ Drawn(r, t)
    <2>1. /\ t.id = <<r, k>> /\ t.owner = in[r].user
          /\ t.batch = NULL /\ t.category = NULL
          /\ t.account \in {in[r].account, in[r].peer}
      BY DEF Leg
    <2> HIDE DEF t
    <2> QED
      BY <1>2, <1>3, <1>6, <2>1
         DEF Drawn, OwnedTransaction, OwnedOnAccount, Belongs
  <1> HIDE DEF t
  <1> QED
    BY <1>1, <1>7, <1>8, StageKeeps

LEMMA CreateBatchKeeps ==
  ASSUME IInv, NEW r \in Request, CreateBatch(r)
  PROVE  IInv'
  <1>1. in[r].op = "commitImport" /\ pc[r] = "batch"
    BY DEF CreateBatch, At
  <1>2. CASE Refuse(r, "error")
    BY <1>1, <1>2, RefuseKeeps DEF Answer
  <1>3. CASE /\ open' = [open EXCEPT ![r].batches =
                           {[id |-> <<r, 0>>, owner |-> in[r].user,
                             account |-> in[r].account, count |-> Len(in[r].rows)]}]
             /\ Goto(r, "rows") /\ UNCHANGED <<db, row>>
    <2> DEFINE b == [id |-> <<r, 0>>, owner |-> in[r].user,
                     account |-> in[r].account, count |-> Len(in[r].rows)]
               o == [open[r] EXCEPT !.batches = {b}]
    <2>1. in[r] \in Input
      BY DEF IInv, TypeOK
    <2>2. Belongs(in, r, in[r].account) /\ open[r] = NothingOpen /\ in[r].rows # <<>>
      BY <1>1 DEF IInv, Checked, AccountChecked, StagedInOrder, NeedsAccount
    <2>3. <<r, 0>> \in Id /\ OwnerOf(in, <<r, 0>>) = in[r].user
      BY DrawnId
    <2>4. b \in Batch /\ OwnedBatch(in, b) /\ b.id[1] = r
      BY <2>1, <2>2, <2>3 DEF Batch, OwnedBatch, OnHome, Input, Belongs, OwnedOnAccount
    <2> HIDE DEF b
    <2>5. open[r] \in [batches: SUBSET Batch, transactions: Seq(Transaction)]
      BY DEF IInv, TypeOK
    <2>6. open' = [open EXCEPT ![r] = o]
      BY <1>3 DEF b
    <2>7. /\ o \in [batches: SUBSET Batch, transactions: Seq(Transaction)]
          /\ o.batches = {b} /\ o.transactions = open[r].transactions
      BY <2>4, <2>5
    <2>8. open[r].transactions = <<>>
      BY <2>2 DEF NothingOpen
    <2> HIDE DEF o
    <2>0. Goto(r, "rows") /\ UNCHANGED <<db, row>>
      BY <1>3
    <2>9. TypeOK'
      BY <2>0, <2>6, <2>7 DEF IInv, TypeOK, Goto, Label
    <2>10. Len(in[r].rows) > 0
      BY <2>1, <2>2 DEF Input
    <2>11. StagedOwned(in, r, o) /\ StagedInOrder(in, r, "rows", o)
      BY <2>4, <2>7, <2>8, <2>10 DEF StagedOwned, StagedInOrder
    <2>12. Checked(in, r, pc[r], row[r], open[r])
      BY DEF IInv
    <2>13. Checked(in, r, "rows", row[r], o)
      BY <1>1, <2>11, <2>12 DEF Checked, AccountChecked, PeerChecked, CategoryChecked, RowLoaded
    <2>14. pc'[r] = "rows" /\ open'[r] = o
      BY <2>0, <2>6 DEF IInv, TypeOK, Goto
    <2> QED
      BY <2>0, <2>6, <2>9, <2>13, <2>14, StepKeeps DEF IInv, TypeOK, Goto
  <1> QED
    BY <1>2, <1>3 DEF CreateBatch

LEMMA ImportRowKeeps ==
  ASSUME IInv, NEW r \in Request, ImportRow(r)
  PROVE  IInv'
  <1> DEFINE k == Len(open[r].transactions) + 1
             line == in[r].rows[k]
             t == Imported(r, k)
             l == IF k = Len(in[r].rows) THEN "commit" ELSE "rows"
  <1>1. in[r].op = "commitImport" /\ pc[r] = "rows" /\ Stage(r, t, l)
    BY DEF ImportRow, At
  <1>2. in[r] \in Input /\ open[r].transactions \in Seq(Transaction)
    BY DEF IInv, TypeOK
  <1>3. Belongs(in, r, in[r].account) /\ Len(open[r].transactions) < Len(in[r].rows)
    BY <1>1 DEF IInv, Checked, AccountChecked, StagedInOrder, NeedsAccount
  <1>4. k \in 1..Len(in[r].rows) /\ (l = "rows" => k < Len(in[r].rows))
    BY <1>2, <1>3 DEF Input
  <1>5. line \in CsvRow
    BY <1>2, <1>4 DEF Input
  <1>6. DedupHash(line.date, line.amount, line.payee) \in Fingerprint
    BY <1>5, HashTyped DEF CsvRow
  <1>7. \A n \in Nat : <<r, n>> \in Id /\ OwnerOf(in, <<r, n>>) = in[r].user
    BY DrawnId
  <1>8. k \in Nat
    BY <1>4
  <1>9. t \in Transaction
    BY <1>2, <1>3, <1>5, <1>6, <1>7, <1>8 DEF Imported, Transaction, Input, Belongs, CsvRow
  <1>10. OwnedTransaction(in, t) /\ Drawn(r, t)
    BY <1>3, <1>7, <1>8 DEF Imported, Drawn, OnHome, OwnedTransaction, OwnedOnAccount, Belongs
  <1>11. l \in {"rows", "commit"}
    OBVIOUS
  <1> HIDE DEF t, l
  <1> QED
    BY <1>1, <1>4, <1>9, <1>10, <1>11, StageKeeps

LEMMA CommitKeeps ==
  ASSUME IInv, NEW r \in Request, Commit(r)
  PROVE  IInv'
  <1> DEFINE new == [db EXCEPT !.batches = @ \cup open[r].batches,
                               !.transactions = @ \cup Staged(r)]
  <1>1. open[r] \in [batches: SUBSET Batch, transactions: Seq(Transaction)]
    BY DEF IInv, TypeOK
  <1>2. StagedOwned(in, r, open[r])
    BY DEF IInv, Checked
  <1>3. /\ Staged(r) \subseteq Transaction
        /\ \A t \in Staged(r) : OwnedTransaction(in, t) /\ Drawn(r, t)
        /\ open[r].batches \subseteq Batch
        /\ \A b \in open[r].batches : OwnedBatch(in, b) /\ b.id[1] = r
    BY <1>1, <1>2 DEF Staged, StagedOwned
  <1>4. new \in Database
    BY <1>3, GoodDB DEF Good, Database
  <1>5. /\ new.batches = db.batches \cup open[r].batches
        /\ new.transactions = db.transactions \cup Staged(r)
        /\ new.accounts = db.accounts /\ new.categories = db.categories
        /\ new.snapshots = db.snapshots
    BY GoodDB DEF Good, Database
  <1>6. db' = new
    BY DEF Commit
  <1> HIDE DEF new
  <1>7. ASSUME NEW t \in new.transactions, NEW b \in new.batches, b.id = t.batch
        PROVE  b.account = t.account
    <2>1. CASE t \in db.transactions /\ b \in db.batches
      BY <1>7, <2>1, GoodDB DEF Good, Owned
    <2>2. CASE t \in Staged(r) \/ b \in open[r].batches
      <3>1. b \in Batch /\ OwnedTransaction(in, t) /\ OwnedBatch(in, b)
        BY <1>3, <1>5, GoodDB DEF Good, Owned, Database
      <3>2. t.batch # NULL
        BY <1>7, <3>1, NullAssumption DEF Batch
      <3>3. b.id[1] = r
        BY <1>3, <1>7, <2>2, <3>2 DEF Drawn
      <3> QED
        BY <1>7, <3>1, <3>2, <3>3 DEF OwnedTransaction, OwnedBatch, OnHome
    <2> QED
      BY <1>5, <2>1, <2>2
  <1>8. Good(in, new)
    BY <1>3, <1>4, <1>5, <1>7, GoodDB DEF Good, Owned
  <1>9. TypeOK'
    BY <1>4, <1>6, NothingOpenTyped DEF Commit, IInv, TypeOK, Respond, Label, Answer
  <1>10. pc'[r] = "done" /\ open'[r] = NothingOpen
    BY DEF Commit, IInv, TypeOK, Respond
  <1> QED
    BY <1>6, <1>8, <1>9, <1>10, AnsweredIsChecked, StepKeeps
       DEF Commit, IInv, TypeOK, Respond, Good

LEMMA AbortKeeps ==
  ASSUME IInv, NEW r \in Request, Abort(r)
  PROVE  IInv'
  <1>1. TypeOK'
    BY NothingOpenTyped DEF Abort, IInv, TypeOK, Respond, Label, Answer
  <1>2. pc'[r] = "done" /\ open'[r] = NothingOpen
    BY DEF Abort, IInv, TypeOK, Respond
  <1> QED
    BY <1>1, <1>2, AnsweredIsChecked, StepKeeps DEF Abort, IInv, TypeOK, Respond

LEMMA RevertImportKeeps ==
  ASSUME IInv, NEW r \in Request, RevertImport(r)
  PROVE  IInv'
  <1> DEFINE a == IF Mine(db.batches, r) = {} THEN "not_found" ELSE "no_content"
             new == DeleteBatch(db, in[r].user, in[r].id)
  <1>1. pc[r] = "start" /\ Write(r, new, a)
    BY DEF RevertImport, At
  <1>2. Good(in, new)
    BY GoodDB, DeleteBatchGood
  <1>3. a \in Answer
    BY DEF Answer
  <1> HIDE DEF a, new
  <1> QED
    BY <1>1, <1>2, <1>3, WriteKeeps

LEMMA CreateAccountKeeps ==
  ASSUME IInv, NEW r \in Request, CreateAccount(r)
  PROVE  IInv'
  <1> DEFINE a == [id |-> <<r, 1>>, owner |-> in[r].user, name |-> in[r].name,
                   type |-> in[r].type, opening |-> in[r].amount, archived |-> FALSE]
             new == [db EXCEPT !.accounts = @ \cup {a}]
  <1>1. pc[r] = "start"
    BY DEF CreateAccount, At
  <1>2. CASE Refuse(r, "conflict")
    BY <1>1, <1>2, RefuseKeeps DEF Answer
  <1>3. CASE Write(r, new, "created")
    <2>1. in[r] \in Input
      BY DEF IInv, TypeOK
    <2>2. <<r, 1>> \in Id /\ OwnerOf(in, <<r, 1>>) = in[r].user
      BY DrawnId
    <2>3. a \in Account /\ OwnedAccount(in, a)
      BY <2>1, <2>2 DEF Account, Input, OwnedAccount
    <2> HIDE DEF a
    <2>4. Good(in, new)
      BY <2>3, GoodDB DEF Good, Owned, Database
    <2> HIDE DEF new
    <2> QED
      BY <1>1, <1>3, <2>4, WriteKeeps DEF Answer
  <1> QED
    BY <1>2, <1>3 DEF CreateAccount

LEMMA CreateCategoryKeeps ==
  ASSUME IInv, NEW r \in Request, CreateCategory(r)
  PROVE  IInv'
  <1> DEFINE c == [id |-> <<r, 1>>, owner |-> in[r].user, kind |-> in[r].kind,
                   name |-> in[r].name, archived |-> FALSE]
             new == [db EXCEPT !.categories = @ \cup {c}]
  <1>1. pc[r] = "start"
    BY DEF CreateCategory, At
  <1>2. CASE Refuse(r, "conflict")
    BY <1>1, <1>2, RefuseKeeps DEF Answer
  <1>3. CASE Write(r, new, "created")
    <2>1. in[r] \in Input
      BY DEF IInv, TypeOK
    <2>2. <<r, 1>> \in Id /\ OwnerOf(in, <<r, 1>>) = in[r].user
      BY DrawnId
    <2>3. c \in Category /\ OwnedAccount(in, c)
      BY <2>1, <2>2 DEF Category, Input, OwnedAccount
    <2> HIDE DEF c
    <2>4. Good(in, new)
      BY <2>3, GoodDB DEF Good, Owned, Database
    <2> HIDE DEF new
    <2> QED
      BY <1>1, <1>3, <2>4, WriteKeeps DEF Answer
  <1> QED
    BY <1>2, <1>3 DEF CreateCategory

(* Loading a row and patching it: the label after "start" is "write". *)
LEMMA LoadKeeps ==
  ASSUME IInv, NEW r \in Request, pc[r] = "start",
         in[r].op \in {"updateAccount", "updateCategory"},
         NEW w, in[r].op = "updateAccount" => w \in Account,
         in[r].op = "updateCategory" => w \in Category,
         row' = [row EXCEPT ![r] = w], Goto(r, "write"), UNCHANGED <<db, open>>
  PROVE  IInv'
  <1>1. TypeOK'
    BY DEF IInv, TypeOK, Goto, Label
  <1>2. open[r] = NothingOpen
    BY DEF IInv, Checked, StagedInOrder
  <1>3. Checked(in, r, "write", w, open[r])
    BY <1>2 DEF Checked, AccountChecked, PeerChecked, CategoryChecked, RowLoaded,
                StagedOwned, StagedInOrder, NothingOpen, NeedsAccount
  <1>4. pc'[r] = "write" /\ row'[r] = w
    BY DEF IInv, TypeOK, Goto
  <1> QED
    BY <1>1, <1>3, <1>4, StepKeeps DEF IInv, TypeOK, Goto

LEMMA LoadAccountKeeps ==
  ASSUME IInv, NEW r \in Request, LoadAccount(r)
  PROVE  IInv'
  <1> DEFINE w(a) == [a EXCEPT
               !.name = IF "name" \in in[r].fields THEN in[r].name ELSE @,
               !.type = IF "type" \in in[r].fields THEN in[r].type ELSE @,
               !.opening = IF "opening" \in in[r].fields THEN in[r].amount ELSE @,
               !.archived = IF "archived" \in in[r].fields THEN in[r].archived ELSE @]
  <1>1. in[r].op = "updateAccount" /\ pc[r] = "start"
    BY DEF LoadAccount, At
  <1>2. CASE Refuse(r, "not_found")
    BY <1>1, <1>2, RefuseKeeps DEF Answer
  <1>3. ASSUME NEW a \in Mine(db.accounts, r), row' = [row EXCEPT ![r] = w(a)],
               Goto(r, "write"), UNCHANGED <<db, open>>
        PROVE  IInv'
    <2>1. a \in Account /\ in[r] \in Input
      BY GoodDB DEF Mine, Find, Good, Database, IInv, TypeOK
    <2>2. w(a) \in Account
      BY <2>1 DEF Account, Input
    <2> HIDE DEF w
    <2> QED
      BY <1>1, <1>3, <2>2, LoadKeeps
  <1> QED
    BY <1>2, <1>3 DEF LoadAccount

LEMMA LoadCategoryKeeps ==
  ASSUME IInv, NEW r \in Request, LoadCategory(r)
  PROVE  IInv'
  <1> DEFINE w(c) == [c EXCEPT
               !.name = IF "name" \in in[r].fields THEN in[r].name ELSE @,
               !.archived = IF "archived" \in in[r].fields THEN in[r].archived ELSE @]
  <1>1. in[r].op = "updateCategory" /\ pc[r] = "start"
    BY DEF LoadCategory, At
  <1>2. CASE Refuse(r, "not_found")
    BY <1>1, <1>2, RefuseKeeps DEF Answer
  <1>3. ASSUME NEW c \in Mine(db.categories, r), row' = [row EXCEPT ![r] = w(c)],
               Goto(r, "write"), UNCHANGED <<db, open>>
        PROVE  IInv'
    <2>1. c \in Category /\ in[r] \in Input
      BY GoodDB DEF Mine, Find, Good, Database, IInv, TypeOK
    <2>2. w(c) \in Category
      BY <2>1 DEF Category, Input
    <2> HIDE DEF w
    <2> QED
      BY <1>1, <1>3, <2>2, LoadKeeps
  <1> QED
    BY <1>2, <1>3 DEF LoadCategory

LEMMA WriteAccountKeeps ==
  ASSUME IInv, NEW r \in Request, WriteAccount(r)
  PROVE  IInv'
  <1>1. in[r].op = "updateAccount" /\ pc[r] = "write"
    BY DEF WriteAccount, At
  <1>2. ASSUME NEW a \in Answer, Refuse(r, a) PROVE IInv'
    BY <1>1, <1>2, RefuseKeeps
  <1>3. CASE Write(r, UpdateAccount(db, in[r].user, row[r]), "ok")
    <2>1. row[r] \in Account
      BY <1>1 DEF IInv, Checked, RowLoaded
    <2>2. Good(in, UpdateAccount(db, in[r].user, row[r]))
      BY <2>1, GoodDB, UpdateAccountGood
    <2> QED
      BY <1>1, <1>3, <2>2, WriteKeeps DEF Answer
  <1> QED
    BY <1>2, <1>3 DEF WriteAccount, Answer

LEMMA WriteCategoryKeeps ==
  ASSUME IInv, NEW r \in Request, WriteCategory(r)
  PROVE  IInv'
  <1>1. in[r].op = "updateCategory" /\ pc[r] = "write"
    BY DEF WriteCategory, At
  <1>2. ASSUME NEW a \in Answer, Refuse(r, a) PROVE IInv'
    BY <1>1, <1>2, RefuseKeeps
  <1>3. CASE Write(r, UpdateCategory(db, in[r].user, row[r]), "ok")
    <2>1. row[r] \in Category
      BY <1>1 DEF IInv, Checked, RowLoaded
    <2>2. Good(in, UpdateCategory(db, in[r].user, row[r]))
      BY <2>1, GoodDB, UpdateCategoryGood
    <2> QED
      BY <1>1, <1>3, <2>2, WriteKeeps DEF Answer
  <1> QED
    BY <1>2, <1>3 DEF WriteCategory, Answer

LEMMA CountTransactionsKeeps ==
  ASSUME IInv, NEW r \in Request, CountTransactions(r)
  PROVE  IInv'
  <1>1. in[r].op = "deleteAccount" /\ pc[r] = "start"
    BY DEF CountTransactions, At
  <1>2. CASE Refuse(r, "conflict")
    BY <1>1, <1>2, RefuseKeeps DEF Answer
  <1>3. CASE Goto(r, "write") /\ UNCHANGED <<db, row, open>>
    <2>1. open[r] = NothingOpen
      BY <1>1 DEF IInv, Checked, StagedInOrder
    <2>2. Checked(in, r, "write", row[r], open[r])
      BY <1>1, <2>1 DEF Checked, AccountChecked, PeerChecked, CategoryChecked,
              RowLoaded, StagedOwned, StagedInOrder, NothingOpen, NeedsAccount
    <2> QED
      BY <1>3, <2>2, GotoKeeps DEF Label
  <1> QED
    BY <1>2, <1>3 DEF CountTransactions

LEMMA RemoveAccountKeeps ==
  ASSUME IInv, NEW r \in Request, RemoveAccount(r)
  PROVE  IInv'
  <1>1. pc[r] = "write"
    BY DEF RemoveAccount, At
  <1>2. CASE Refuse(r, "not_found")
    BY <1>1, <1>2, RefuseKeeps DEF Answer
  <1>3. CASE Write(r, DeleteAccount(db, in[r].user, in[r].id), "no_content")
    BY <1>1, <1>3, GoodDB, DeleteAccountGood, WriteKeeps DEF Answer
  <1> QED
    BY <1>2, <1>3 DEF RemoveAccount

LEMMA PutSnapshotKeeps ==
  ASSUME IInv, NEW r \in Request, PutSnapshot(r)
  PROVE  IInv'
  <1> DEFINE s == [id |-> <<r, 1>>, owner |-> in[r].user, account |-> in[r].account,
                   asOf |-> in[r].date, balance |-> in[r].amount]
  <1>1. in[r].op = "upsertSnapshot" /\ pc[r] = "write"
    BY DEF PutSnapshot, At
  <1>2. CASE Refuse(r, "error")
    BY <1>1, <1>2, RefuseKeeps DEF Answer
  <1>3. CASE Write(r, UpsertSnapshot(db, s), "ok")
    <2>1. in[r] \in Input
      BY DEF IInv, TypeOK
    <2>2. Belongs(in, r, in[r].account)
      BY <1>1 DEF IInv, Checked, AccountChecked, NeedsAccount
    <2>3. <<r, 1>> \in Id /\ OwnerOf(in, <<r, 1>>) = in[r].user
      BY DrawnId
    <2>4. s \in Snapshot /\ OwnedOnAccount(in, s)
      BY <2>1, <2>2, <2>3 DEF Snapshot, Input, OwnedOnAccount, Belongs
    <2> HIDE DEF s
    <2>5. Good(in, UpsertSnapshot(db, s))
      BY <2>4, GoodDB, UpsertSnapshotGood
    <2> QED
      BY <1>1, <1>3, <2>5, WriteKeeps DEF Answer
  <1> QED
    BY <1>2, <1>3 DEF PutSnapshot

LEMMA RemoveSnapshotKeeps ==
  ASSUME IInv, NEW r \in Request, RemoveSnapshot(r)
  PROVE  IInv'
  <1> DEFINE a == IF Mine(db.snapshots, r) = {} THEN "not_found" ELSE "no_content"
             new == DeleteSnapshot(db, in[r].user, in[r].id)
  <1>1. pc[r] = "start" /\ Write(r, new, a)
    BY DEF RemoveSnapshot, At
  <1>2. Good(in, new)
    BY GoodDB, DeleteSnapshotGood
  <1>3. a \in Answer
    BY DEF Answer
  <1> HIDE DEF a, new
  <1> QED
    BY <1>1, <1>2, <1>3, WriteKeeps

LEMMA FindTargetKeeps ==
  ASSUME IInv, NEW r \in Request, FindTarget(r)
  PROVE  IInv'
  <1>1. in[r].op = "deleteCategory" /\ pc[r] = "start" /\ in[r].category # NULL
    BY DEF FindTarget, At
  <1>2. CASE Refuse(r, "bad_request")
    BY <1>1, <1>2, RefuseKeeps DEF Answer
  <1>3. CASE /\ CategoryFound(in[r].user, in[r].category)
             /\ Goto(r, "reassign") /\ UNCHANGED <<db, row, open>>
    <2>1. Belongs(in, r, in[r].category)
      BY <1>1, <1>3, GoodDB, FoundCategory DEF CategoryFound, Belongs
    <2>2. open[r] = NothingOpen
      BY <1>1 DEF IInv, Checked, StagedInOrder
    <2>3. Checked(in, r, "reassign", row[r], open[r])
      BY <1>1, <2>1, <2>2 DEF Checked, AccountChecked, PeerChecked, CategoryChecked,
              RowLoaded, StagedOwned, StagedInOrder, NothingOpen, NeedsAccount
    <2> QED
      BY <1>3, <2>3, GotoKeeps DEF Label
  <1> QED
    BY <1>2, <1>3 DEF FindTarget

LEMMA ReassignKeeps ==
  ASSUME IInv, NEW r \in Request, Reassign(r)
  PROVE  IInv'
  <1> DEFINE new == ReassignCategory(db, in[r].user, in[r].id, in[r].category)
  <1>1. /\ in[r].op = "deleteCategory" /\ pc[r] = "reassign" /\ db' = new
        /\ Goto(r, "write") /\ UNCHANGED <<row, open>>
    BY DEF Reassign, At
  <1>2. Belongs(in, r, in[r].category) /\ open[r] = NothingOpen
    BY <1>1 DEF IInv, Checked, CategoryChecked, StagedInOrder
  <1>3. Good(in, new)
    BY <1>2, GoodDB, ReassignCategoryGood DEF Belongs
  <1> HIDE DEF new
  <1>4. Checked(in, r, "write", row[r], open[r])
    BY <1>1, <1>2 DEF Checked, AccountChecked, PeerChecked, CategoryChecked,
            RowLoaded, StagedOwned, StagedInOrder, NothingOpen, NeedsAccount
  <1>5. TypeOK'
    BY <1>1, <1>3 DEF IInv, TypeOK, Goto, Label, Good
  <1> QED
    BY <1>1, <1>3, <1>4, <1>5, StepKeeps DEF IInv, TypeOK, Goto, Good

LEMMA RemoveCategoryKeeps ==
  ASSUME IInv, NEW r \in Request, RemoveCategory(r)
  PROVE  IInv'
  <1> DEFINE a == IF Mine(db.categories, r) = {} THEN "not_found" ELSE "no_content"
             new == DeleteCategory(db, in[r].user, in[r].id)
  <1>1. pc[r] \in {"start", "write"} /\ Write(r, new, a)
    BY DEF RemoveCategory, At
  <1>2. Good(in, new)
    BY GoodDB, DeleteCategoryGood
  <1>3. a \in Answer
    BY DEF Answer
  <1> HIDE DEF a, new
  <1> QED
    BY <1>1, <1>2, <1>3, WriteKeeps

-----------------------------------------------------------------------------
(* The invariant. *)

LEMMA InitHolds == Init => IInv
  <1> SUFFICES ASSUME Init PROVE IInv
    OBVIOUS
  <1>1. TypeOK
    BY MenuAssumption, InitialDBAssumption, NothingOpenTyped DEF Init, TypeOK, Label, Answer
  <1>2. Owned(in, db)
    <2>1. db = InitialDB
      BY DEF Init
    <2>2. ASSUME NEW u \in User, NEW id \in Id, NamedFor(u, id)
          PROVE  OwnerOf(in, id) = u
      BY <2>2, NullAssumption DEF NamedFor, OwnerOf
    <2>3. \A a \in db.accounts \cup db.categories : OwnedAccount(in, a)
      BY <2>1, <2>2, InitialDBAssumption DEF OwnedAccount, Database, Account, Category
    <2>4. \A b \in db.batches \cup db.snapshots : OwnedOnAccount(in, b)
      BY <2>1, <2>2, InitialDBAssumption DEF OwnedOnAccount, Database, Batch, Snapshot
    <2>5. ASSUME NEW u \in User, NEW id \in Id, NamedFor(u, id), NEW account
          PROVE  OnHome(in, id, account)
      BY <2>5, SchemaAssumption, NullAssumption DEF NamedFor, OnHome
    <2>6. \A b \in db.batches : OwnedBatch(in, b)
      BY <2>1, <2>4, <2>5, InitialDBAssumption DEF OwnedBatch, Database, Batch
    <2>7. ASSUME NEW t \in db.transactions PROVE OwnedTransaction(in, t)
      <3>1. t \in Transaction
        BY <2>1, InitialDBAssumption DEF Database
      <3>2. /\ NamedFor(t.owner, t.id) /\ NamedFor(t.owner, t.account)
            /\ NamedFor(t.owner, t.category) /\ NamedFor(t.owner, t.batch)
        BY <2>1, InitialDBAssumption
      <3>3. OwnerOf(in, t.id) = t.owner /\ OwnerOf(in, t.account) = t.owner
        BY <2>2, <3>1, <3>2 DEF Transaction
      <3>4. t.category = NULL \/ OwnerOf(in, t.category) = t.owner
        BY <2>2, <3>1, <3>2 DEF Transaction
      <3>5. t.batch # NULL =>
              OwnerOf(in, t.batch) = t.owner /\ OnHome(in, t.batch, t.account)
        BY <2>2, <2>5, <3>1, <3>2 DEF Transaction
      <3> QED
        BY <3>3, <3>4, <3>5 DEF OwnedTransaction, OwnedOnAccount
    <2>8. \A t \in db.transactions : \A b \in db.batches :
            b.id = t.batch => b.account = t.account
      BY <2>1, InitialDBAssumption DEF OwnersAgreeIn
    <2> QED
      BY <2>3, <2>4, <2>6, <2>7, <2>8 DEF Owned
  <1>3. ASSUME NEW r \in Request PROVE Checked(in, r, pc[r], row[r], open[r])
    BY DEF Init, Checked, AccountChecked, PeerChecked, CategoryChecked, RowLoaded,
           StagedOwned, StagedInOrder, NothingOpen
  <1> QED
    BY <1>1, <1>2, <1>3 DEF IInv

LEMMA NextKeeps == IInv /\ [Next]_vars => IInv'
  <1> SUFFICES ASSUME IInv, [Next]_vars PROVE IInv'
    OBVIOUS
  <1>1. CASE UNCHANGED vars
    BY <1>1 DEF vars, IInv, TypeOK
  <1>2. ASSUME NEW r \in Request, Handle(r) PROVE IInv'
    BY <1>2, OwnAccountKeeps, OwnPeerKeeps, OwnCategoryKeeps, CreateTransactionKeeps,
       LoadTransactionKeeps, WriteTransactionKeeps, RemoveTransactionKeeps,
       CreateLegKeeps, CreateBatchKeeps, ImportRowKeeps, RevertImportKeeps,
       CommitKeeps, CreateAccountKeeps, LoadAccountKeeps, WriteAccountKeeps,
       CountTransactionsKeeps, RemoveAccountKeeps, PutSnapshotKeeps,
       RemoveSnapshotKeeps, CreateCategoryKeeps, LoadCategoryKeeps,
       WriteCategoryKeeps, FindTargetKeeps, ReassignKeeps, RemoveCategoryKeeps
       DEF Handle
  <1>3. ASSUME NEW r \in Request, Abort(r) PROVE IInv'
    BY <1>3, AbortKeeps
  <1> QED
    BY <1>1, <1>2, <1>3 DEF Next, Idle

THEOREM Invariance == Spec => []IInv
  BY InitHolds, NextKeeps, PTL DEF Spec

(* Every variable keeps its type, no stored amount is ever zero. *)
THEOREM TypeCorrect == Spec => []TypeOK
  <1>1. IInv => TypeOK
    BY DEF IInv
  <1> QED
    BY <1>1, Invariance, PTL

LEMMA OwnersHold ==
  ASSUME IInv
  PROVE  OwnersAgree
  <1>1. Good(in, db)
    BY GoodDB
  <1>2. ASSUME NEW t \in db.transactions, NEW c \in db.categories, c.id = t.category
        PROVE  c.owner = t.owner
    BY <1>1, <1>2, NullAssumption
       DEF Good, Owned, OwnedTransaction, OwnedAccount, Database, Category
  <1>3. ASSUME NEW t \in db.transactions, NEW b \in db.batches, b.id = t.batch
        PROVE  b.owner = t.owner /\ b.account = t.account
    BY <1>1, <1>3, NullAssumption
       DEF Good, Owned, OwnedTransaction, OwnedBatch, OwnedOnAccount, Database, Batch
  <1>4. ASSUME NEW x \in db.transactions \cup db.batches \cup db.snapshots,
               NEW a \in db.accounts, a.id = x.account
        PROVE  a.owner = x.owner
    BY <1>1, <1>4 DEF Good, Owned, OwnedTransaction, OwnedBatch, OwnedOnAccount, OwnedAccount
  <1> QED
    BY <1>2, <1>3, <1>4 DEF OwnersAgree, OwnersAgreeIn

(* A row and the rows it refers to belong to one user, at every moment and  *)
(* for every interleaving of the handlers.                                  *)
THEOREM OwnersAlwaysAgree == Spec => []OwnersAgree
  BY OwnersHold, Invariance, PTL

-----------------------------------------------------------------------------
(***************************************************************************)
(* A request changes rows of its own user only.                            *)
(*                                                                         *)
(* The statements filter by user; their cascades do not.  That a cascade   *)
(* stays within the user's rows follows from Owned, and that a commit      *)
(* does from Drawn: what r staged, r drew.                                 *)
(***************************************************************************)

Isolated(d, new, u) == \A v \in User \ {u} : RowsOf(new, v) = RowsOf(d, v)

(* Enough for isolation: table by table, the rows of others are the same. *)
SameFor(table, new, u) ==
  \A x : x \in table \/ x \in new => x.owner = u \/ (x \in table /\ x \in new)

LEMMA TableByTable ==
  ASSUME NEW d, NEW new, NEW u,
         SameFor(d.accounts, new.accounts, u),
         SameFor(d.categories, new.categories, u),
         SameFor(d.batches, new.batches, u),
         SameFor(d.transactions, new.transactions, u),
         SameFor(d.snapshots, new.snapshots, u)
  PROVE  Isolated(d, new, u)
  <1> SUFFICES ASSUME NEW v \in User \ {u}
               PROVE  RowsOf(new, v) = RowsOf(d, v)
    BY DEF Isolated
  <1>1. {x \in new.accounts : x.owner = v} = {x \in d.accounts : x.owner = v}
    BY DEF SameFor
  <1>2. {x \in new.categories : x.owner = v} = {x \in d.categories : x.owner = v}
    BY DEF SameFor
  <1>3. {x \in new.batches : x.owner = v} = {x \in d.batches : x.owner = v}
    BY DEF SameFor
  <1>4. {x \in new.transactions : x.owner = v} = {x \in d.transactions : x.owner = v}
    BY DEF SameFor
  <1>5. {x \in new.snapshots : x.owner = v} = {x \in d.snapshots : x.owner = v}
    BY DEF SameFor
  <1> QED
    BY <1>1, <1>2, <1>3, <1>4, <1>5 DEF RowsOf

LEMMA SameTable == ASSUME NEW table, NEW u PROVE SameFor(table, table, u)
  BY DEF SameFor

-----------------------------------------------------------------------------
(* The statements. *)

LEMMA UpdateAccountIsolated ==
  ASSUME NEW i, NEW d, Good(i, d), NEW u, NEW new \in Account
  PROVE  Isolated(d, UpdateAccount(d, u, new), u)
  <1> DEFINE Set(a) == [a EXCEPT !.name = new.name, !.type = new.type,
                                 !.opening = new.opening, !.archived = new.archived]
             Rows == {IF a.id = new.id /\ a.owner = u THEN Set(a) ELSE a : a \in d.accounts}
             d2 == [d EXCEPT !.accounts = Rows]
  <1>1. \A a \in Account : Set(a).owner = a.owner
    BY DEF Account
  <1>2. UpdateAccount(d, u, new) = d2
    BY DEF UpdateAccount
  <1> HIDE DEF Set
  <1>3. SameFor(d.accounts, Rows, u)
    BY <1>1 DEF Good, Database, SameFor
  <1> HIDE DEF Rows
  <1>4. /\ d2.accounts = Rows /\ d2.categories = d.categories /\ d2.batches = d.batches
        /\ d2.transactions = d.transactions /\ d2.snapshots = d.snapshots
    BY DEF Good, Database
  <1> QED
    BY <1>2, <1>3, <1>4, SameTable, TableByTable

LEMMA DeleteAccountIsolated ==
  ASSUME NEW i, NEW d, Good(i, d), NEW u, NEW id
  PROVE  Isolated(d, DeleteAccount(d, u, id), u)
  <1> DEFINE gone == Ids(Find(d.accounts, u, id))
             lost == {b.id : b \in {x \in d.batches : x.account \in gone}}
             d2 == DeleteAccount(d, u, id)
  <1>1. /\ d2.accounts = {a \in d.accounts : ~(a.id = id /\ a.owner = u)}
        /\ d2.categories = d.categories
        /\ d2.batches = {b \in d.batches : b.account \notin gone}
        /\ d2.transactions = {t \in d.transactions : t.account \notin gone /\ t.batch \notin lost}
        /\ d2.snapshots = {s \in d.snapshots : s.account \notin gone}
    BY DEF Good, Database, DeleteAccount
  <1>2. \A a \in gone : OwnerOf(i, a) = u
    BY DEF Good, Owned, OwnedAccount, Ids, Find
  <1>3. \A b \in lost : b \in Id /\ OwnerOf(i, b) = u
    BY <1>2 DEF Good, Owned, OwnedBatch, OwnedOnAccount, Database, Batch
  <1> HIDE DEF gone, lost, d2
  <1>4. SameFor(d.accounts, d2.accounts, u) /\ SameFor(d.categories, d2.categories, u)
    BY <1>1 DEF SameFor
  <1>5. SameFor(d.batches, d2.batches, u) /\ SameFor(d.snapshots, d2.snapshots, u)
    BY <1>1, <1>2 DEF SameFor, Good, Owned, OwnedBatch, OwnedOnAccount
  <1>6. SameFor(d.transactions, d2.transactions, u)
    BY <1>1, <1>2, <1>3, NullAssumption DEF SameFor, Good, Owned, OwnedTransaction, OwnedOnAccount
  <1> QED
    BY <1>4, <1>5, <1>6, TableByTable DEF d2

LEMMA UpdateCategoryIsolated ==
  ASSUME NEW i, NEW d, Good(i, d), NEW u, NEW new \in Category
  PROVE  Isolated(d, UpdateCategory(d, u, new), u)
  <1> DEFINE Set(c) == [c EXCEPT !.name = new.name, !.archived = new.archived]
             Rows == {IF c.id = new.id /\ c.owner = u THEN Set(c) ELSE c : c \in d.categories}
             d2 == [d EXCEPT !.categories = Rows]
  <1>1. \A c \in Category : Set(c).owner = c.owner
    BY DEF Category
  <1>2. UpdateCategory(d, u, new) = d2
    BY DEF UpdateCategory
  <1> HIDE DEF Set
  <1>3. SameFor(d.categories, Rows, u)
    BY <1>1 DEF Good, Database, SameFor
  <1> HIDE DEF Rows
  <1>4. /\ d2.categories = Rows /\ d2.accounts = d.accounts /\ d2.batches = d.batches
        /\ d2.transactions = d.transactions /\ d2.snapshots = d.snapshots
    BY DEF Good, Database
  <1> QED
    BY <1>2, <1>3, <1>4, SameTable, TableByTable

(* What rewriting some of u's transactions in place does. *)
LEMMA RewriteIsolated ==
  ASSUME NEW i, NEW d, Good(i, d), NEW u, NEW Rows,
         SameFor(d.transactions, Rows, u)
  PROVE  Isolated(d, [d EXCEPT !.transactions = Rows], u)
  <1> DEFINE d2 == [d EXCEPT !.transactions = Rows]
  <1>1. /\ d2.categories = d.categories /\ d2.accounts = d.accounts /\ d2.batches = d.batches
        /\ d2.transactions = Rows /\ d2.snapshots = d.snapshots
    BY DEF Good, Database
  <1> QED
    BY <1>1, SameTable, TableByTable

LEMMA DeleteCategoryIsolated ==
  ASSUME NEW i, NEW d, Good(i, d), NEW u, NEW id
  PROVE  Isolated(d, DeleteCategory(d, u, id), u)
  <1> DEFINE gone == Ids(Find(d.categories, u, id))
             Clear(t) == [t EXCEPT !.category = NULL]
             Rows == {IF t.category \in gone THEN Clear(t) ELSE t : t \in d.transactions}
             Left == {c \in d.categories : ~(c.id = id /\ c.owner = u)}
             d2 == [d EXCEPT !.categories = Left, !.transactions = Rows]
  <1>1. DeleteCategory(d, u, id) = d2
    BY DEF DeleteCategory
  <1>2. \A c \in gone : c \in Id /\ OwnerOf(i, c) = u
    BY DEF Good, Owned, OwnedAccount, Ids, Find, Database, Category
  <1>3. \A t \in Transaction : Clear(t).owner = t.owner
    BY DEF Transaction
  <1> HIDE DEF Clear, gone
  <1>4. SameFor(d.transactions, Rows, u)
    BY <1>2, <1>3, NullAssumption DEF SameFor, Good, Owned, OwnedTransaction, Database
  <1>5. SameFor(d.categories, Left, u)
    BY DEF SameFor
  <1> HIDE DEF Rows, Left
  <1>6. /\ d2.categories = Left /\ d2.accounts = d.accounts /\ d2.batches = d.batches
        /\ d2.transactions = Rows /\ d2.snapshots = d.snapshots
    BY DEF Good, Database
  <1> QED
    BY <1>1, <1>4, <1>5, <1>6, SameTable, TableByTable

LEMMA ReassignCategoryIsolated ==
  ASSUME NEW i, NEW d, Good(i, d), NEW u, NEW from, NEW to
  PROVE  Isolated(d, ReassignCategory(d, u, from, to), u)
  <1> DEFINE Move(t) == [t EXCEPT !.category = to]
             Rows == {IF t.owner = u /\ t.category = from /\ Find(d.categories, u, to) # {}
                        THEN Move(t) ELSE t : t \in d.transactions}
  <1>1. \A t \in Transaction : Move(t).owner = t.owner
    BY DEF Transaction
  <1> HIDE DEF Move
  <1>2. SameFor(d.transactions, Rows, u)
    BY <1>1 DEF SameFor, Good, Database
  <1>3. ReassignCategory(d, u, from, to) = [d EXCEPT !.transactions = Rows]
    BY DEF ReassignCategory, Move
  <1> HIDE DEF Rows
  <1> QED
    BY <1>2, <1>3, RewriteIsolated

LEMMA UpdateTransactionIsolated ==
  ASSUME NEW i, NEW d, Good(i, d), NEW u, NEW new
  PROVE  Isolated(d, UpdateTransaction(d, u, new), u)
  <1> DEFINE Set(t) == [t EXCEPT !.date = new.date, !.amount = new.amount,
                                 !.payee = new.payee, !.category = new.category,
                                 !.hash = DedupHash(new.date, new.amount, new.payee)]
             Rows == {IF t.id = new.id /\ t.owner = u THEN Set(t) ELSE t :
                        t \in d.transactions}
  <1>1. \A t \in Transaction : Set(t).owner = t.owner
    BY DEF Transaction
  <1>2. UpdateTransaction(d, u, new) = [d EXCEPT !.transactions = Rows]
    BY DEF UpdateTransaction
  <1> HIDE DEF Set
  <1>3. SameFor(d.transactions, Rows, u)
    BY <1>1 DEF SameFor, Good, Database
  <1> HIDE DEF Rows
  <1> QED
    BY <1>2, <1>3, RewriteIsolated

LEMMA InsertTransactionIsolated ==
  ASSUME NEW i, NEW d, Good(i, d), NEW t
  PROVE  Isolated(d, InsertTransaction(d, t), t.owner)
  <1>1. SameFor(d.transactions, d.transactions \cup {t}, t.owner)
    BY DEF SameFor
  <1> QED
    BY <1>1, RewriteIsolated DEF InsertTransaction

LEMMA DeleteTransactionIsolated ==
  ASSUME NEW i, NEW d, Good(i, d), NEW u, NEW id
  PROVE  Isolated(d, DeleteTransaction(d, u, id), u)
  <1> DEFINE groups == {t.group : t \in Find(d.transactions, u, id)} \ {NULL}
             Rows == {t \in d.transactions : ~(t.owner = u /\ (t.id = id \/ t.group \in groups))}
  <1>1. SameFor(d.transactions, Rows, u)
    BY DEF SameFor
  <1>2. DeleteTransaction(d, u, id) = [d EXCEPT !.transactions = Rows]
    BY DEF DeleteTransaction
  <1> HIDE DEF Rows
  <1> QED
    BY <1>1, <1>2, RewriteIsolated

LEMMA DeleteBatchIsolated ==
  ASSUME NEW i, NEW d, Good(i, d), NEW u, NEW id
  PROVE  Isolated(d, DeleteBatch(d, u, id), u)
  <1> DEFINE gone == Ids(Find(d.batches, u, id))
             d2 == DeleteBatch(d, u, id)
  <1>1. /\ d2.batches = {b \in d.batches : ~(b.id = id /\ b.owner = u)}
        /\ d2.transactions = {t \in d.transactions : t.batch \notin gone}
        /\ d2.accounts = d.accounts /\ d2.categories = d.categories
        /\ d2.snapshots = d.snapshots
    BY DEF Good, Database, DeleteBatch
  <1>2. \A b \in gone : b \in Id /\ OwnerOf(i, b) = u
    BY DEF Good, Owned, OwnedBatch, OwnedOnAccount, Ids, Find, Database, Batch
  <1> HIDE DEF gone, d2
  <1>3. SameFor(d.batches, d2.batches, u)
    BY <1>1 DEF SameFor
  <1>4. SameFor(d.transactions, d2.transactions, u)
    BY <1>1, <1>2, NullAssumption DEF SameFor, Good, Owned, OwnedTransaction
  <1> QED
    BY <1>1, <1>3, <1>4, SameTable, TableByTable DEF d2

(* What rewriting snapshots does. *)
LEMMA SnapshotsIsolated ==
  ASSUME NEW i, NEW d, Good(i, d), NEW u, NEW Rows,
         SameFor(d.snapshots, Rows, u)
  PROVE  Isolated(d, [d EXCEPT !.snapshots = Rows], u)
  <1> DEFINE d2 == [d EXCEPT !.snapshots = Rows]
  <1>1. /\ d2.accounts = d.accounts /\ d2.categories = d.categories
        /\ d2.batches = d.batches /\ d2.transactions = d.transactions
        /\ d2.snapshots = Rows
    BY DEF Good, Database
  <1> QED
    BY <1>1, SameTable, TableByTable

(* What adding an account does. *)
LEMMA AccountsIsolated ==
  ASSUME NEW i, NEW d, Good(i, d), NEW u, NEW Rows,
         SameFor(d.accounts, Rows, u)
  PROVE  Isolated(d, [d EXCEPT !.accounts = Rows], u)
  <1> DEFINE d2 == [d EXCEPT !.accounts = Rows]
  <1>1. /\ d2.categories = d.categories /\ d2.batches = d.batches
        /\ d2.transactions = d.transactions /\ d2.snapshots = d.snapshots
        /\ d2.accounts = Rows
    BY DEF Good, Database
  <1> QED
    BY <1>1, SameTable, TableByTable

(* What adding a category does. *)
LEMMA CategoriesIsolated ==
  ASSUME NEW i, NEW d, Good(i, d), NEW u, NEW Rows,
         SameFor(d.categories, Rows, u)
  PROVE  Isolated(d, [d EXCEPT !.categories = Rows], u)
  <1> DEFINE d2 == [d EXCEPT !.categories = Rows]
  <1>1. /\ d2.accounts = d.accounts /\ d2.batches = d.batches
        /\ d2.transactions = d.transactions /\ d2.snapshots = d.snapshots
        /\ d2.categories = Rows
    BY DEF Good, Database
  <1> QED
    BY <1>1, SameTable, TableByTable

LEMMA UpsertSnapshotIsolated ==
  ASSUME NEW i, NEW d, Good(i, d), NEW new, OwnedOnAccount(i, new)
  PROVE  Isolated(d, UpsertSnapshot(d, new), new.owner)
  <1> DEFINE same == {s \in d.snapshots : s.account = new.account /\ s.asOf = new.asOf}
             Set(s) == [s EXCEPT !.balance = new.balance]
             Rows == IF same = {} THEN d.snapshots \cup {new}
                     ELSE (d.snapshots \ same) \cup {Set(s) : s \in same}
  <1>1. \A s \in same : s.owner = new.owner
    BY DEF Good, Owned, OwnedOnAccount
  <1>2. \A s \in same : Set(s).owner = s.owner
    BY DEF Good, Database, Snapshot
  <1>3. UpsertSnapshot(d, new) = [d EXCEPT !.snapshots = Rows]
    BY DEF UpsertSnapshot, Good, Database
  <1> HIDE DEF same, Set
  <1>4. SameFor(d.snapshots, Rows, new.owner)
    BY <1>1, <1>2 DEF SameFor
  <1> HIDE DEF Rows
  <1> QED
    BY <1>3, <1>4, SnapshotsIsolated

LEMMA DeleteSnapshotIsolated ==
  ASSUME NEW i, NEW d, Good(i, d), NEW u, NEW id
  PROVE  Isolated(d, DeleteSnapshot(d, u, id), u)
  <1> DEFINE Rows == {s \in d.snapshots : ~(s.id = id /\ s.owner = u)}
  <1>1. SameFor(d.snapshots, Rows, u)
    BY DEF SameFor
  <1>2. DeleteSnapshot(d, u, id) = [d EXCEPT !.snapshots = Rows]
    BY DEF DeleteSnapshot
  <1> HIDE DEF Rows
  <1> QED
    BY <1>1, <1>2, SnapshotsIsolated

-----------------------------------------------------------------------------
(* The actions. *)

LEMMA SameDatabase == ASSUME NEW d, NEW u PROVE Isolated(d, d, u)
  BY DEF Isolated

LEMMA CommitIsolated ==
  ASSUME IInv, NEW r \in Request, Commit(r)
  PROVE  Isolated(db, db', in[r].user)
  <1>1. open[r] \in [batches: SUBSET Batch, transactions: Seq(Transaction)]
    BY DEF IInv, TypeOK
  <1>2. StagedOwned(in, r, open[r])
    BY DEF IInv, Checked
  <1>3. r \notin User
    BY SchemaAssumption
  <1>4. ASSUME NEW t \in Staged(r) PROVE t.owner = in[r].user
    <2>1. OwnedTransaction(in, t) /\ Drawn(r, t)
      BY <1>1, <1>2 DEF Staged, StagedOwned
    <2> QED
      BY <1>3, <2>1 DEF OwnedTransaction, OwnedOnAccount, Drawn, OwnerOf
  <1>5. ASSUME NEW b \in open[r].batches PROVE b.owner = in[r].user
    BY <1>2, <1>3 DEF StagedOwned, OwnedBatch, OwnedOnAccount, OwnerOf
  <1>6. /\ db'.batches = db.batches \cup open[r].batches
        /\ db'.transactions = db.transactions \cup Staged(r)
        /\ db'.accounts = db.accounts /\ db'.categories = db.categories
        /\ db'.snapshots = db.snapshots
    BY GoodDB DEF Good, Database, Commit
  <1>7. SameFor(db.batches, db'.batches, in[r].user)
    BY <1>5, <1>6 DEF SameFor
  <1>8. SameFor(db.transactions, db'.transactions, in[r].user)
    BY <1>4, <1>6 DEF SameFor
  <1> QED
    BY <1>6, <1>7, <1>8, SameTable, TableByTable

(* Handlers of transactions and imports. *)
LEMMA MoneyIsolated ==
  ASSUME IInv, NEW r \in Request,
         \/ CreateTransaction(r) \/ WriteTransaction(r)
         \/ RemoveTransaction(r) \/ RevertImport(r)
  PROVE  Isolated(db, db', in[r].user)
  <1> USE GoodDB
  <1>1. CASE CreateTransaction(r)
    <2>1. NewTransaction(r).owner = in[r].user
      BY DEF NewTransaction
    <2>2. CASE db' = InsertTransaction(db, NewTransaction(r))
      BY <2>1, <2>2, InsertTransactionIsolated
    <2> QED
      BY <1>1, <2>2, SameDatabase DEF CreateTransaction, Write, Refuse
  <1>2. CASE WriteTransaction(r)
    BY <1>2, UpdateTransactionIsolated, SameDatabase DEF WriteTransaction, Write, Refuse
  <1>3. CASE RemoveTransaction(r)
    BY <1>3, DeleteTransactionIsolated DEF RemoveTransaction, Write
  <1>4. CASE RevertImport(r)
    BY <1>4, DeleteBatchIsolated DEF RevertImport, Write
  <1> QED
    BY <1>1, <1>2, <1>3, <1>4

(* Handlers of accounts and snapshots. *)
LEMMA AccountIsolated ==
  ASSUME IInv, NEW r \in Request,
         \/ CreateAccount(r) \/ WriteAccount(r) \/ RemoveAccount(r)
         \/ PutSnapshot(r) \/ RemoveSnapshot(r)
  PROVE  Isolated(db, db', in[r].user)
  <1> USE GoodDB
  <1>1. CASE CreateAccount(r)
    <2> DEFINE new == [id |-> <<r, 1>>, owner |-> in[r].user, name |-> in[r].name,
                       type |-> in[r].type, opening |-> in[r].amount, archived |-> FALSE]
    <2>1. SameFor(db.accounts, db.accounts \cup {new}, in[r].user)
      BY DEF SameFor
    <2>2. db' = [db EXCEPT !.accounts = @ \cup {new}] \/ db' = db
      BY <1>1 DEF CreateAccount, Write, Refuse
    <2> HIDE DEF new
    <2> QED
      BY <2>1, <2>2, AccountsIsolated, SameDatabase
  <1>2. CASE WriteAccount(r)
    <2>1. row[r] \in Account
      BY <1>2 DEF WriteAccount, At, IInv, Checked, RowLoaded
    <2>2. db' = UpdateAccount(db, in[r].user, row[r]) \/ db' = db
      BY <1>2 DEF WriteAccount, Write, Refuse
    <2> QED
      BY <2>1, <2>2, UpdateAccountIsolated, SameDatabase
  <1>3. CASE RemoveAccount(r)
    BY <1>3, DeleteAccountIsolated, SameDatabase DEF RemoveAccount, Write, Refuse
  <1>4. CASE PutSnapshot(r)
    <2> DEFINE new == [id |-> <<r, 1>>, owner |-> in[r].user,
                       account |-> in[r].account, asOf |-> in[r].date,
                       balance |-> in[r].amount]
    <2>1. Belongs(in, r, in[r].account)
      BY <1>4 DEF PutSnapshot, At, IInv, Checked, AccountChecked, NeedsAccount
    <2>2. OwnedOnAccount(in, new)
      BY <2>1, DrawnId DEF OwnedOnAccount, Belongs
    <2>3. db' = UpsertSnapshot(db, new) \/ db' = db
      BY <1>4 DEF PutSnapshot, Write, Refuse
    <2>4. new.owner = in[r].user
      OBVIOUS
    <2> HIDE DEF new
    <2> QED
      BY <2>2, <2>3, <2>4, UpsertSnapshotIsolated, SameDatabase
  <1>5. CASE RemoveSnapshot(r)
    BY <1>5, DeleteSnapshotIsolated DEF RemoveSnapshot, Write
  <1> QED
    BY <1>1, <1>2, <1>3, <1>4, <1>5

(* Handlers of categories. *)
LEMMA CategoryIsolated ==
  ASSUME IInv, NEW r \in Request,
         CreateCategory(r) \/ WriteCategory(r) \/ Reassign(r) \/ RemoveCategory(r)
  PROVE  Isolated(db, db', in[r].user)
  <1> USE GoodDB
  <1>1. CASE CreateCategory(r)
    <2> DEFINE new == [id |-> <<r, 1>>, owner |-> in[r].user, kind |-> in[r].kind,
                       name |-> in[r].name, archived |-> FALSE]
    <2>1. SameFor(db.categories, db.categories \cup {new}, in[r].user)
      BY DEF SameFor
    <2>2. IF CategoryNameTaken(db.categories, new)
            THEN Refuse(r, "conflict")
            ELSE Write(r, [db EXCEPT !.categories = @ \cup {new}], "created")
      BY ONLY <1>1 DEF CreateCategory
    <2> HIDE DEF new
    <2>3. db' = [db EXCEPT !.categories = @ \cup {new}] \/ db' = db
      BY ONLY <2>2 DEF Write, Refuse
    <2> QED
      BY SMTT(60), <2>1, <2>3, CategoriesIsolated, SameDatabase
  <1>2. CASE WriteCategory(r)
    <2>1. row[r] \in Category
      BY <1>2 DEF WriteCategory, At, IInv, Checked, RowLoaded
    <2>2. db' = UpdateCategory(db, in[r].user, row[r]) \/ db' = db
      BY <1>2 DEF WriteCategory, Write, Refuse
    <2> QED
      BY <2>1, <2>2, UpdateCategoryIsolated, SameDatabase
  <1>3. CASE Reassign(r)
    BY <1>3, ReassignCategoryIsolated DEF Reassign
  <1>4. CASE RemoveCategory(r)
    BY <1>4, DeleteCategoryIsolated DEF RemoveCategory, Write
  <1> QED
    BY <1>1, <1>2, <1>3, <1>4

(* The other actions only move a handler along. *)
LEMMA ReadOnlySteps ==
  ASSUME NEW r \in Request,
         \/ OwnAccount(r) \/ OwnPeer(r) \/ OwnCategory(r) \/ LoadTransaction(r)
         \/ CreateLeg(r) \/ CreateBatch(r) \/ ImportRow(r)
         \/ LoadAccount(r) \/ CountTransactions(r) \/ LoadCategory(r)
         \/ FindTarget(r) \/ Abort(r)
  PROVE  db' = db
  <1>1. CASE CreateLeg(r)
    BY <1>1 DEF CreateLeg, Stage
  <1>2. CASE ImportRow(r)
    BY <1>2 DEF ImportRow, Stage
  <1>3. CASE LoadTransaction(r)
    BY <1>3 DEF LoadTransaction, Refuse
  <1>4. CASE OwnAccount(r)
    BY <1>4 DEF OwnAccount, Refuse
  <1> QED
    BY <1>1, <1>2, <1>3, <1>4
       DEF OwnPeer, OwnCategory, CreateBatch, LoadAccount, CountTransactions,
           LoadCategory, FindTarget, Abort, Refuse

LEMMA HandleIsolated ==
  ASSUME IInv, NEW r \in Request, Handle(r) \/ Abort(r)
  PROVE  Isolated(db, db', in[r].user)
  BY CommitIsolated, MoneyIsolated, AccountIsolated, CategoryIsolated,
     ReadOnlySteps, SameDatabase
     DEF Handle

(* A step of r moves no other handler along. *)
LEMMA OnlyOneRuns ==
  ASSUME IInv, NEW r \in Request, Handle(r) \/ Abort(r),
         NEW q \in Request, Runs(q)
  PROVE  q = r
  <1>1. \E l : pc' = [pc EXCEPT ![r] = l]
    <2>1. CASE \/ OwnAccount(r) \/ OwnPeer(r) \/ OwnCategory(r)
               \/ LoadTransaction(r) \/ LoadAccount(r) \/ LoadCategory(r)
               \/ CountTransactions(r) \/ FindTarget(r) \/ Reassign(r)
      BY <2>1 DEF OwnAccount, OwnPeer, OwnCategory, LoadTransaction, LoadAccount,
                  LoadCategory, CountTransactions, FindTarget, Reassign,
                  Goto, Refuse, Respond
    <2>2. CASE \/ CreateTransaction(r) \/ WriteTransaction(r) \/ RemoveTransaction(r)
               \/ RevertImport(r) \/ CreateAccount(r) \/ WriteAccount(r)
               \/ RemoveAccount(r) \/ PutSnapshot(r) \/ RemoveSnapshot(r)
               \/ CreateCategory(r) \/ WriteCategory(r) \/ RemoveCategory(r)
      BY <2>2 DEF CreateTransaction, WriteTransaction, RemoveTransaction,
                  RevertImport, CreateAccount, WriteAccount, RemoveAccount,
                  PutSnapshot, RemoveSnapshot, CreateCategory, WriteCategory,
                  RemoveCategory, Write, Refuse, Respond
    <2>3. CASE CreateLeg(r) \/ ImportRow(r) \/ CreateBatch(r)
      BY <2>3 DEF CreateLeg, ImportRow, CreateBatch, Stage, Goto, Refuse, Respond
    <2>4. CASE Commit(r) \/ Abort(r)
      BY <2>4 DEF Commit, Abort, Respond
    <2> QED
      BY SMTT(60), <2>1, <2>2, <2>3, <2>4 DEF Handle
  <1> QED
    BY <1>1 DEF Runs, IInv, TypeOK

LEMMA StepIsolates == IInv /\ [Next]_vars => [OthersUntouchedStep]_vars
  <1> SUFFICES ASSUME IInv, Next, NEW q \in Request, Runs(q)
               PROVE  \A u \in User \ {in[q].user} : RowsOf(db', u) = RowsOf(db, u)
    BY DEF OthersUntouchedStep
  <1>1. CASE Idle
    BY <1>1 DEF Idle, vars, Runs
  <1>2. ASSUME NEW r \in Request, Handle(r) \/ Abort(r)
        PROVE  Isolated(db, db', in[q].user)
    BY <1>2, HandleIsolated, OnlyOneRuns
  <1> QED
    BY <1>1, <1>2 DEF Next, Isolated

(* No request ever changes another user's rows, cascades included. *)
THEOREM UsersIsolated == Spec => OthersUntouched
  BY StepIsolates, Invariance, PTL DEF Spec, OthersUntouched

-----------------------------------------------------------------------------
(***************************************************************************)
(* Nothing refers to a row that is gone, and fingerprints are current.     *)
(*                                                                         *)
(* Committed rows keep both because each statement does.  Rows that are    *)
(* staged keep theirs while other handlers write because accounts vanish   *)
(* by RemoveAccount alone, which waits for them (KeyShared).               *)
(***************************************************************************)

Fits(d) == ReferencesLiveIn(d) /\ HashCurrentIn(d)

(* Every account of d is still there. *)
Keeps(d, new) == Ids(d.accounts) \subseteq Ids(new.accounts)

(* A row fits among the accounts, categories and imports of d. *)
FitsIn(d, t) ==
  /\ AccountLive(d, t.account)
  /\ CategoryLive(d, t.category)
  /\ t.batch = NULL \/ t.batch \in Ids(d.batches)
  /\ t.group = NULL => t.hash = DedupHash(t.date, t.amount, t.payee)

LEMMA FitsRowByRow ==
  ASSUME NEW d
  PROVE  Fits(d) <=> /\ \A t \in d.transactions : FitsIn(d, t)
                     /\ \A x \in d.batches \cup d.snapshots : AccountLive(d, x.account)
  BY DEF Fits, FitsIn, ReferencesLiveIn, HashCurrentIn

-----------------------------------------------------------------------------
(* The statements. *)

LEMMA UpdateAccountFits ==
  ASSUME NEW i, NEW d, Good(i, d), Fits(d), NEW u, NEW new \in Account
  PROVE  Fits(UpdateAccount(d, u, new)) /\ Keeps(d, UpdateAccount(d, u, new))
  <1> DEFINE Set(a) == [a EXCEPT !.name = new.name, !.type = new.type,
                                 !.opening = new.opening, !.archived = new.archived]
             Rows == {IF a.id = new.id /\ a.owner = u THEN Set(a) ELSE a : a \in d.accounts}
             d2 == [d EXCEPT !.accounts = Rows]
  <1>1. \A a \in Account : Set(a).id = a.id
    BY DEF Account
  <1>2. UpdateAccount(d, u, new) = d2
    BY DEF UpdateAccount
  <1> HIDE DEF Set
  <1>3. Ids(Rows) = Ids(d.accounts)
    BY <1>1 DEF Good, Database, Ids
  <1> HIDE DEF Rows
  <1>4. /\ d2.accounts = Rows /\ d2.categories = d.categories /\ d2.batches = d.batches
        /\ d2.transactions = d.transactions /\ d2.snapshots = d.snapshots
    BY DEF Good, Database
  <1> QED
    BY <1>2, <1>3, <1>4 DEF Fits, ReferencesLiveIn, HashCurrentIn, AccountLive,
                            CategoryLive, Keeps

LEMMA DeleteAccountFits ==
  ASSUME NEW i, NEW d, Good(i, d), Fits(d), NEW u, NEW id
  PROVE  /\ Fits(DeleteAccount(d, u, id))
         /\ \A a \in Ids(d.accounts) : a # id => a \in Ids(DeleteAccount(d, u, id).accounts)
  <1> DEFINE gone == Ids(Find(d.accounts, u, id))
             lost == {b.id : b \in {x \in d.batches : x.account \in gone}}
             d2 == DeleteAccount(d, u, id)
  <1>1. /\ d2.accounts = {a \in d.accounts : ~(a.id = id /\ a.owner = u)}
        /\ d2.categories = d.categories
        /\ d2.batches = {b \in d.batches : b.account \notin gone}
        /\ d2.transactions = {t \in d.transactions : t.account \notin gone /\ t.batch \notin lost}
        /\ d2.snapshots = {s \in d.snapshots : s.account \notin gone}
    BY DEF Good, Database, DeleteAccount
  <1>2. \A a \in Ids(d.accounts) : a \notin gone => a \in Ids(d2.accounts)
    BY <1>1 DEF Ids, Find
  <1>3. \A b \in Ids(d.batches) : b \notin lost => b \in Ids(d2.batches)
    BY <1>1 DEF Ids
  <1>4. \A a \in gone : a = id
    BY DEF Ids, Find
  <1> HIDE DEF gone, lost, d2
  <1>5. ReferencesLiveIn(d2)
    BY <1>1, <1>2, <1>3 DEF Fits, ReferencesLiveIn, AccountLive, CategoryLive
  <1>6. HashCurrentIn(d2)
    BY <1>1 DEF Fits, HashCurrentIn
  <1> QED
    BY <1>2, <1>4, <1>5, <1>6 DEF Fits, d2

LEMMA UpdateCategoryFits ==
  ASSUME NEW i, NEW d, Good(i, d), Fits(d), NEW u, NEW new \in Category
  PROVE  Fits(UpdateCategory(d, u, new)) /\ Keeps(d, UpdateCategory(d, u, new))
  <1> DEFINE Set(c) == [c EXCEPT !.name = new.name, !.archived = new.archived]
             Rows == {IF c.id = new.id /\ c.owner = u THEN Set(c) ELSE c : c \in d.categories}
             d2 == [d EXCEPT !.categories = Rows]
  <1>1. \A c \in Category : Set(c).id = c.id
    BY DEF Category
  <1>2. UpdateCategory(d, u, new) = d2
    BY DEF UpdateCategory
  <1> HIDE DEF Set
  <1>3. Ids(Rows) = Ids(d.categories)
    BY <1>1 DEF Good, Database, Ids
  <1> HIDE DEF Rows
  <1>4. /\ d2.categories = Rows /\ d2.accounts = d.accounts /\ d2.batches = d.batches
        /\ d2.transactions = d.transactions /\ d2.snapshots = d.snapshots
    BY DEF Good, Database
  <1> QED
    BY <1>2, <1>3, <1>4 DEF Fits, ReferencesLiveIn, HashCurrentIn, AccountLive,
                            CategoryLive, Keeps

(* Only the transactions change, and the new ones fit. *)
LEMMA RewriteFits ==
  ASSUME NEW i, NEW d, Good(i, d), Fits(d), NEW Rows, \A t \in Rows : FitsIn(d, t)
  PROVE  Fits([d EXCEPT !.transactions = Rows]) /\ Keeps(d, [d EXCEPT !.transactions = Rows])
  <1> DEFINE d2 == [d EXCEPT !.transactions = Rows]
  <1>1. /\ d2.categories = d.categories /\ d2.accounts = d.accounts /\ d2.batches = d.batches
        /\ d2.transactions = Rows /\ d2.snapshots = d.snapshots
    BY DEF Good, Database
  <1> HIDE DEF d2
  <1>2. \A t \in Rows : FitsIn(d2, t)
    BY <1>1 DEF FitsIn, AccountLive, CategoryLive
  <1>3. \A x \in d2.batches \cup d2.snapshots : AccountLive(d2, x.account)
    BY <1>1 DEF Fits, ReferencesLiveIn, AccountLive
  <1> QED
    BY <1>1, <1>2, <1>3, FitsRowByRow DEF d2, Keeps

LEMMA DeleteCategoryFits ==
  ASSUME NEW i, NEW d, Good(i, d), Fits(d), NEW u, NEW id
  PROVE  Fits(DeleteCategory(d, u, id)) /\ Keeps(d, DeleteCategory(d, u, id))
  <1> DEFINE gone == Ids(Find(d.categories, u, id))
             Clear(t) == [t EXCEPT !.category = NULL]
             Rows == {IF t.category \in gone THEN Clear(t) ELSE t : t \in d.transactions}
             Left == {c \in d.categories : ~(c.id = id /\ c.owner = u)}
             d2 == [d EXCEPT !.categories = Left, !.transactions = Rows]
  <1>1. DeleteCategory(d, u, id) = d2
    BY DEF DeleteCategory
  <1>2. \A t \in Transaction :
          /\ Clear(t).account = t.account /\ Clear(t).category = NULL
          /\ Clear(t).batch = t.batch /\ Clear(t).group = t.group
          /\ Clear(t).date = t.date /\ Clear(t).amount = t.amount
          /\ Clear(t).payee = t.payee /\ Clear(t).hash = t.hash
    BY DEF Transaction
  <1>3. \A c \in Ids(d.categories) : c \notin gone => c \in Ids(Left)
    BY DEF Ids, Find
  <1> HIDE DEF Clear, gone, Left
  <1>4. \A t \in d.transactions : t \in Transaction /\ FitsIn(d, t)
    BY FitsRowByRow DEF Good, Database
  <1>5. /\ d2.categories = Left /\ d2.accounts = d.accounts /\ d2.batches = d.batches
        /\ d2.transactions = Rows /\ d2.snapshots = d.snapshots
    BY DEF Good, Database
  <1>6. \A t \in Rows : FitsIn(d2, t)
    BY <1>2, <1>3, <1>4, <1>5 DEF FitsIn, AccountLive, CategoryLive
  <1>7. \A x \in d2.batches \cup d2.snapshots : AccountLive(d2, x.account)
    BY <1>5 DEF Fits, ReferencesLiveIn, AccountLive
  <1> HIDE DEF Rows
  <1> QED
    BY <1>1, <1>5, <1>6, <1>7, FitsRowByRow DEF Keeps

LEMMA ReassignCategoryFits ==
  ASSUME NEW i, NEW d, Good(i, d), Fits(d), NEW u, NEW from, NEW to
  PROVE  /\ Fits(ReassignCategory(d, u, from, to))
         /\ Keeps(d, ReassignCategory(d, u, from, to))
  <1> DEFINE Move(t) == [t EXCEPT !.category = to]
             moved(t) == t.owner = u /\ t.category = from /\ Find(d.categories, u, to) # {}
             Rows == {IF moved(t) THEN Move(t) ELSE t : t \in d.transactions}
  <1>1. \A t \in Transaction :
          /\ Move(t).account = t.account /\ Move(t).category = to
          /\ Move(t).batch = t.batch /\ Move(t).group = t.group
          /\ Move(t).date = t.date /\ Move(t).amount = t.amount
          /\ Move(t).payee = t.payee /\ Move(t).hash = t.hash
    BY DEF Transaction
  <1>2. ReassignCategory(d, u, from, to) = [d EXCEPT !.transactions = Rows]
    BY DEF ReassignCategory
  <1>3. \A t : moved(t) => to \in Ids(d.categories)
    BY DEF Find, Ids
  <1> HIDE DEF Move, moved
  <1>4. \A t \in d.transactions : t \in Transaction /\ FitsIn(d, t)
    BY FitsRowByRow DEF Good, Database
  <1>5. \A t \in Rows : FitsIn(d, t)
    BY <1>1, <1>3, <1>4 DEF FitsIn, AccountLive, CategoryLive
  <1> HIDE DEF Rows
  <1> QED
    BY <1>2, <1>5, RewriteFits

LEMMA UpdateTransactionFits ==
  ASSUME NEW i, NEW d, Good(i, d), Fits(d), NEW u, NEW new, CategoryLive(d, new.category)
  PROVE  Fits(UpdateTransaction(d, u, new)) /\ Keeps(d, UpdateTransaction(d, u, new))
  <1> DEFINE Set(t) == [t EXCEPT !.date = new.date, !.amount = new.amount,
                                 !.payee = new.payee, !.category = new.category,
                                 !.hash = DedupHash(new.date, new.amount, new.payee)]
             Rows == {IF t.id = new.id /\ t.owner = u THEN Set(t) ELSE t :
                        t \in d.transactions}
  <1>1. \A t \in Transaction :
          /\ Set(t).account = t.account /\ Set(t).category = new.category
          /\ Set(t).batch = t.batch
          /\ Set(t).hash = DedupHash(Set(t).date, Set(t).amount, Set(t).payee)
    BY DEF Transaction
  <1>2. UpdateTransaction(d, u, new) = [d EXCEPT !.transactions = Rows]
    BY DEF UpdateTransaction
  <1> HIDE DEF Set
  <1>3. \A t \in d.transactions : t \in Transaction /\ FitsIn(d, t)
    BY FitsRowByRow DEF Good, Database
  <1>4. \A t \in Rows : FitsIn(d, t)
    BY <1>1, <1>3 DEF FitsIn, AccountLive, CategoryLive
  <1> HIDE DEF Rows
  <1> QED
    BY <1>2, <1>4, RewriteFits

LEMMA InsertTransactionFits ==
  ASSUME NEW i, NEW d, Good(i, d), Fits(d), NEW t, FitsIn(d, t)
  PROVE  Fits(InsertTransaction(d, t)) /\ Keeps(d, InsertTransaction(d, t))
  <1>1. \A x \in d.transactions \cup {t} : FitsIn(d, x)
    BY FitsRowByRow
  <1> QED
    BY <1>1, RewriteFits DEF InsertTransaction

LEMMA DeleteTransactionFits ==
  ASSUME NEW i, NEW d, Good(i, d), Fits(d), NEW u, NEW id
  PROVE  Fits(DeleteTransaction(d, u, id)) /\ Keeps(d, DeleteTransaction(d, u, id))
  <1> DEFINE groups == {t.group : t \in Find(d.transactions, u, id)} \ {NULL}
             Rows == {t \in d.transactions : ~(t.owner = u /\ (t.id = id \/ t.group \in groups))}
  <1>1. \A t \in Rows : FitsIn(d, t)
    BY FitsRowByRow
  <1>2. DeleteTransaction(d, u, id) = [d EXCEPT !.transactions = Rows]
    BY DEF DeleteTransaction
  <1> HIDE DEF Rows
  <1> QED
    BY <1>1, <1>2, RewriteFits

LEMMA DeleteBatchFits ==
  ASSUME NEW i, NEW d, Good(i, d), Fits(d), NEW u, NEW id
  PROVE  Fits(DeleteBatch(d, u, id)) /\ Keeps(d, DeleteBatch(d, u, id))
  <1> DEFINE gone == Ids(Find(d.batches, u, id))
             d2 == DeleteBatch(d, u, id)
  <1>1. /\ d2.batches = {b \in d.batches : ~(b.id = id /\ b.owner = u)}
        /\ d2.transactions = {t \in d.transactions : t.batch \notin gone}
        /\ d2.accounts = d.accounts /\ d2.categories = d.categories
        /\ d2.snapshots = d.snapshots
    BY DEF Good, Database, DeleteBatch
  <1>2. \A b \in Ids(d.batches) : b \notin gone => b \in Ids(d2.batches)
    BY <1>1 DEF Ids, Find
  <1> HIDE DEF gone, d2
  <1>3. ReferencesLiveIn(d2)
    BY <1>1, <1>2 DEF Fits, ReferencesLiveIn, AccountLive, CategoryLive
  <1>4. HashCurrentIn(d2)
    BY <1>1 DEF Fits, HashCurrentIn
  <1> QED
    BY <1>1, <1>3, <1>4 DEF Fits, Keeps, d2

(* Only the snapshots change, and they are on live accounts. *)
LEMMA SnapshotsFit ==
  ASSUME NEW i, NEW d, Good(i, d), Fits(d), NEW Rows,
         \A s \in Rows : AccountLive(d, s.account)
  PROVE  Fits([d EXCEPT !.snapshots = Rows]) /\ Keeps(d, [d EXCEPT !.snapshots = Rows])
  <1> DEFINE d2 == [d EXCEPT !.snapshots = Rows]
  <1>1. /\ d2.categories = d.categories /\ d2.accounts = d.accounts /\ d2.batches = d.batches
        /\ d2.transactions = d.transactions /\ d2.snapshots = Rows
    BY DEF Good, Database
  <1> HIDE DEF d2
  <1> QED
    BY <1>1 DEF d2, Fits, ReferencesLiveIn, HashCurrentIn, AccountLive, CategoryLive, Keeps

LEMMA UpsertSnapshotFits ==
  ASSUME NEW i, NEW d, Good(i, d), Fits(d), NEW new, AccountLive(d, new.account)
  PROVE  Fits(UpsertSnapshot(d, new)) /\ Keeps(d, UpsertSnapshot(d, new))
  <1> DEFINE same == {s \in d.snapshots : s.account = new.account /\ s.asOf = new.asOf}
             Set(s) == [s EXCEPT !.balance = new.balance]
             Rows == IF same = {} THEN d.snapshots \cup {new}
                     ELSE (d.snapshots \ same) \cup {Set(s) : s \in same}
  <1>1. \A s \in same : Set(s).account = s.account
    BY DEF Good, Database, Snapshot
  <1>2. UpsertSnapshot(d, new) = [d EXCEPT !.snapshots = Rows]
    BY DEF UpsertSnapshot, Good, Database
  <1>3. same \subseteq d.snapshots
    OBVIOUS
  <1> HIDE DEF same, Set
  <1>4. \A s \in Rows : AccountLive(d, s.account)
    BY <1>1, <1>3 DEF Fits, ReferencesLiveIn
  <1> HIDE DEF Rows
  <1> QED
    BY <1>2, <1>4, SnapshotsFit

LEMMA DeleteSnapshotFits ==
  ASSUME NEW i, NEW d, Good(i, d), Fits(d), NEW u, NEW id
  PROVE  Fits(DeleteSnapshot(d, u, id)) /\ Keeps(d, DeleteSnapshot(d, u, id))
  <1> DEFINE Rows == {s \in d.snapshots : ~(s.id = id /\ s.owner = u)}
  <1>1. \A s \in Rows : AccountLive(d, s.account)
    BY DEF Fits, ReferencesLiveIn
  <1>2. DeleteSnapshot(d, u, id) = [d EXCEPT !.snapshots = Rows]
    BY DEF DeleteSnapshot
  <1> HIDE DEF Rows
  <1> QED
    BY <1>1, <1>2, SnapshotsFit

LEMMA AddAccountFits ==
  ASSUME NEW i, NEW d, Good(i, d), Fits(d), NEW a
  PROVE  /\ Fits([d EXCEPT !.accounts = @ \cup {a}])
         /\ Keeps(d, [d EXCEPT !.accounts = @ \cup {a}])
  <1> DEFINE d2 == [d EXCEPT !.accounts = @ \cup {a}]
  <1>1. /\ d2.categories = d.categories /\ d2.accounts = d.accounts \cup {a}
        /\ d2.batches = d.batches /\ d2.transactions = d.transactions
        /\ d2.snapshots = d.snapshots
    BY DEF Good, Database
  <1> HIDE DEF d2
  <1>2. Keeps(d, d2)
    BY <1>1 DEF Keeps, Ids
  <1>3. Fits(d2)
    BY <1>1, <1>2 DEF Fits, ReferencesLiveIn, HashCurrentIn, AccountLive, CategoryLive, Keeps
  <1> QED
    BY <1>2, <1>3 DEF d2

LEMMA AddCategoryFits ==
  ASSUME NEW i, NEW d, Good(i, d), Fits(d), NEW c
  PROVE  /\ Fits([d EXCEPT !.categories = @ \cup {c}])
         /\ Keeps(d, [d EXCEPT !.categories = @ \cup {c}])
  <1> DEFINE d2 == [d EXCEPT !.categories = @ \cup {c}]
  <1>1. /\ d2.accounts = d.accounts /\ d2.categories = d.categories \cup {c}
        /\ d2.batches = d.batches /\ d2.transactions = d.transactions
        /\ d2.snapshots = d.snapshots
    BY DEF Good, Database
  <1> HIDE DEF d2
  <1>2. Ids(d.categories) \subseteq Ids(d2.categories)
    BY <1>1 DEF Ids
  <1>3. Fits(d2)
    BY <1>1, <1>2 DEF Fits, ReferencesLiveIn, HashCurrentIn, AccountLive, CategoryLive
  <1> QED
    BY <1>1, <1>3 DEF d2, Keeps

-----------------------------------------------------------------------------
(* What is staged, on top of IInv: no category, an import that is staged    *)
(* with it, and a current fingerprint.                                      *)

Coherent(r, l, o) ==
  /\ \A k \in DOMAIN o.transactions :
       LET t == o.transactions[k]
       IN /\ t.category = NULL
          /\ t.batch = NULL \/ t.batch \in Ids(o.batches)
          /\ t.group = NULL => t.hash = DedupHash(t.date, t.amount, t.payee)
  /\ in[r].op = "commitImport" /\ l \in {"rows", "commit"} => <<r, 0>> \in Ids(o.batches)

(* What o has staged is on accounts of d. *)
OnLive(d, o) ==
  /\ \A b \in o.batches : AccountLive(d, b.account)
  /\ \A k \in DOMAIN o.transactions : AccountLive(d, o.transactions[k].account)

LInv ==
  /\ IInv
  /\ Fits(db)
  /\ \A r \in Request : OnLive(db, open[r]) /\ Coherent(r, pc[r], open[r])

LEMMA NothingFits ==
  ASSUME NEW r, NEW d, NEW l, l \notin {"rows", "commit"}
  PROVE  OnLive(d, NothingOpen) /\ Coherent(r, l, NothingOpen)
  BY DEF OnLive, Coherent, NothingOpen

(* A handler without an open transaction writes: the accounts are kept, or  *)
(* those that go are not staged on.                                         *)
LEMMA WriteFits ==
  ASSUME LInv, IInv', NEW r \in Request, UNCHANGED <<in, open>>,
         \A s \in Request \ {r} : pc'[s] = pc[s],
         pc'[r] \notin {"rows", "commit"} \/ in[r].op # "commitImport",
         Fits(db'), \A s \in Request : OnLive(db', open[s])
  PROVE  LInv'
  <1>1. ASSUME NEW s \in Request PROVE Coherent(s, pc[s], open[s])'
    <2>1. CASE s = r
      BY <2>1 DEF LInv, Coherent
    <2>2. CASE s # r
      BY <2>2 DEF LInv, Coherent
    <2> QED
      BY <2>1, <2>2
  <1>2. Fits(db)' /\ \A s \in Request : OnLive(db, open[s])'
    OBVIOUS
  <1> QED
    BY <1>1, <1>2 DEF LInv

LEMMA KeepsOnLive ==
  ASSUME NEW d, NEW new, Keeps(d, new), NEW o, OnLive(d, o)
  PROVE  OnLive(new, o)
  BY DEF Keeps, OnLive, AccountLive

(* A handler without an open transaction answers, leaving db as new. *)
LEMMA AnswerFits ==
  ASSUME LInv, IInv', NEW r \in Request, NEW new, NEW a, Write(r, new, a),
         Fits(new), Keeps(db, new)
  PROVE  LInv'
  <1>1. \A s \in Request : OnLive(new, open[s])
    BY KeepsOnLive DEF LInv
  <1>2. /\ db' = new /\ UNCHANGED <<in, open>> /\ pc'[r] = "done"
        /\ \A s \in Request \ {r} : pc'[s] = pc[s]
    BY DEF Write, Respond, LInv, IInv, TypeOK
  <1> QED
    BY <1>1, <1>2, WriteFits

LEMMA RefusalFits ==
  ASSUME LInv, IInv', NEW r \in Request, NEW a, Refuse(r, a)
  PROVE  LInv'
  <1>1. Write(r, db, a) /\ Fits(db) /\ Keeps(db, db)
    BY DEF Write, Refuse, Respond, LInv, Keeps
  <1> QED
    BY <1>1, AnswerFits

LEMMA GotoFits ==
  ASSUME LInv, IInv', NEW r \in Request, NEW l, Goto(r, l), UNCHANGED <<db, open>>,
         l \notin {"rows", "commit"} \/ in[r].op # "commitImport"
  PROVE  LInv'
  <1>1. /\ UNCHANGED in /\ pc'[r] = l
        /\ \A s \in Request \ {r} : pc'[s] = pc[s]
    BY DEF Goto, LInv, IInv, TypeOK
  <1>2. Fits(db') /\ \A s \in Request : OnLive(db', open[s])
    BY DEF LInv
  <1> QED
    BY <1>1, <1>2, WriteFits

-----------------------------------------------------------------------------
(* The actions. *)

(* Handlers with no open transaction. *)
LEMMA MoneyFits ==
  ASSUME LInv, IInv', NEW r \in Request,
         \/ CreateTransaction(r) \/ WriteTransaction(r) \/ LoadTransaction(r)
         \/ RemoveTransaction(r) \/ RevertImport(r)
  PROVE  LInv'
  <1>0. Good(in, db) /\ Fits(db)
    BY GoodDB DEF LInv
  <1>1. CASE CreateTransaction(r)
    <2> DEFINE t == NewTransaction(r)
    <2>1. /\ t.account = in[r].account /\ t.category = in[r].category /\ t.batch = NULL
          /\ t.hash = DedupHash(t.date, t.amount, t.payee)
      BY DEF NewTransaction
    <2> HIDE DEF t
    <2>2. CASE AccountLive(db, in[r].account) /\ CategoryLive(db, in[r].category)
      <3>1. Write(r, InsertTransaction(db, t), "created")
        BY <1>1, <2>2 DEF CreateTransaction, t
      <3>2. FitsIn(db, t)
        BY <2>1, <2>2 DEF FitsIn
      <3> QED
        BY <1>0, <3>1, <3>2, InsertTransactionFits, AnswerFits
    <2>3. CASE ~(AccountLive(db, in[r].account) /\ CategoryLive(db, in[r].category))
      BY <1>1, <2>3, RefusalFits DEF CreateTransaction
    <2> QED
      BY <2>2, <2>3
  <1>2. CASE WriteTransaction(r)
    <2>1. CASE Refuse(r, "error")
      BY <2>1, RefusalFits
    <2>2. CASE CategoryLive(db, row[r].category)
               /\ Write(r, UpdateTransaction(db, in[r].user, row[r]), "ok")
      BY <1>0, <2>2, UpdateTransactionFits, AnswerFits
    <2> QED
      BY <1>2, <2>1, <2>2 DEF WriteTransaction
  <1>3. CASE LoadTransaction(r)
    <2>1. CASE \E a : Refuse(r, a)
      BY <2>1, RefusalFits
    <2>2. CASE /\ in[r].op = "updateTransaction" /\ UNCHANGED <<db, open>>
               /\ Goto(r, IF "category" \in in[r].fields THEN "category" ELSE "write")
      BY <2>2, GotoFits
    <2> QED
      BY <1>3, <2>1, <2>2 DEF LoadTransaction, At
  <1>4. CASE RemoveTransaction(r)
    BY <1>0, <1>4, DeleteTransactionFits, AnswerFits DEF RemoveTransaction
  <1>5. CASE RevertImport(r)
    BY <1>0, <1>5, DeleteBatchFits, AnswerFits DEF RevertImport
  <1> QED
    BY <1>1, <1>2, <1>3, <1>4, <1>5

LEMMA RemoveAccountFits ==
  ASSUME LInv, IInv', NEW r \in Request, RemoveAccount(r)
  PROVE  LInv'
  <1>1. CASE Refuse(r, "not_found")
    BY <1>1, RefusalFits
  <1>2. CASE /\ ~KeyShared(in[r].id)
             /\ Write(r, DeleteAccount(db, in[r].user, in[r].id), "no_content")
    <2> DEFINE d2 == DeleteAccount(db, in[r].user, in[r].id)
    <2>1. /\ Fits(d2)
          /\ \A a \in Ids(db.accounts) : a # in[r].id => a \in Ids(d2.accounts)
      BY GoodDB, DeleteAccountFits DEF LInv
    <2> HIDE DEF d2
    <2>2. ASSUME NEW s \in Request PROVE OnLive(d2, open[s])
      <3>1. /\ \A b \in open[s].batches : b.account # in[r].id
            /\ \A k \in DOMAIN open[s].transactions :
                 open[s].transactions[k].account # in[r].id
        BY <1>2 DEF KeyShared, Staged
      <3> QED
        BY <2>1, <3>1 DEF LInv, OnLive, AccountLive
    <2>3. /\ db' = d2 /\ UNCHANGED <<in, open>> /\ pc'[r] = "done"
          /\ \A s \in Request \ {r} : pc'[s] = pc[s]
      BY <1>2 DEF Write, Respond, LInv, IInv, TypeOK, d2
    <2> QED
      BY <2>1, <2>2, <2>3, WriteFits
  <1> QED
    BY <1>1, <1>2 DEF RemoveAccount

LEMMA CatalogueFits ==
  ASSUME LInv, IInv', NEW r \in Request,
         \/ CreateAccount(r) \/ LoadAccount(r) \/ WriteAccount(r) \/ CountTransactions(r)
         \/ PutSnapshot(r) \/ RemoveSnapshot(r)
         \/ CreateCategory(r) \/ LoadCategory(r) \/ WriteCategory(r)
         \/ FindTarget(r) \/ Reassign(r) \/ RemoveCategory(r)
  PROVE  LInv'
  <1>0. Good(in, db) /\ Fits(db)
    BY GoodDB DEF LInv
  <1>1. CASE CreateAccount(r)
    BY <1>0, <1>1, AddAccountFits, AnswerFits, RefusalFits DEF CreateAccount
  <1>2. CASE LoadAccount(r)
    BY <1>2, RefusalFits, GotoFits DEF LoadAccount, At
  <1>3. CASE WriteAccount(r)
    <2>1. row[r] \in Account
      BY <1>3 DEF WriteAccount, At, LInv, IInv, Checked, RowLoaded
    <2>2. \/ \E a : Refuse(r, a)
          \/ Write(r, UpdateAccount(db, in[r].user, row[r]), "ok")
      BY <1>3 DEF WriteAccount
    <2> QED
      BY <1>0, <2>1, <2>2, UpdateAccountFits, AnswerFits, RefusalFits
  <1>4. CASE CountTransactions(r)
    BY <1>4, RefusalFits, GotoFits DEF CountTransactions, At
  <1>5. CASE PutSnapshot(r)
    <2> DEFINE new == [id |-> <<r, 1>>, owner |-> in[r].user,
                       account |-> in[r].account, asOf |-> in[r].date,
                       balance |-> in[r].amount]
    <2>1. new.account = in[r].account
      OBVIOUS
    <2>2. \/ Refuse(r, "error")
          \/ AccountLive(db, in[r].account) /\ Write(r, UpsertSnapshot(db, new), "ok")
      BY <1>5 DEF PutSnapshot
    <2> HIDE DEF new
    <2> QED
      BY <1>0, <2>1, <2>2, UpsertSnapshotFits, AnswerFits, RefusalFits
  <1>6. CASE RemoveSnapshot(r)
    BY <1>0, <1>6, DeleteSnapshotFits, AnswerFits DEF RemoveSnapshot
  <1>7. CASE CreateCategory(r)
    BY <1>0, <1>7, AddCategoryFits, AnswerFits, RefusalFits DEF CreateCategory
  <1>8. CASE LoadCategory(r)
    BY <1>8, RefusalFits, GotoFits DEF LoadCategory, At
  <1>9. CASE WriteCategory(r)
    <2>1. row[r] \in Category
      BY <1>9 DEF WriteCategory, At, LInv, IInv, Checked, RowLoaded
    <2>2. \/ \E a : Refuse(r, a)
          \/ Write(r, UpdateCategory(db, in[r].user, row[r]), "ok")
      BY <1>9 DEF WriteCategory
    <2> QED
      BY <1>0, <2>1, <2>2, UpdateCategoryFits, AnswerFits, RefusalFits
  <1>10. CASE FindTarget(r)
    BY <1>10, RefusalFits, GotoFits DEF FindTarget, At
  <1>11. CASE Reassign(r)
    <2>1. /\ Fits(db') /\ Keeps(db, db')
          /\ Goto(r, "write") /\ UNCHANGED open
      BY <1>0, <1>11, ReassignCategoryFits DEF Reassign
    <2>2. /\ UNCHANGED in /\ pc'[r] = "write"
          /\ \A s \in Request \ {r} : pc'[s] = pc[s]
      BY <2>1 DEF Goto, LInv, IInv, TypeOK
    <2>3. \A s \in Request : OnLive(db', open[s])
      BY <2>1, KeepsOnLive DEF LInv
    <2> QED
      BY <2>1, <2>2, <2>3, WriteFits
  <1>12. CASE RemoveCategory(r)
    BY <1>0, <1>12, DeleteCategoryFits, AnswerFits DEF RemoveCategory
  <1> QED
    BY <1>1, <1>2, <1>3, <1>4, <1>5, <1>6, <1>7, <1>8, <1>9, <1>10, <1>11, <1>12

LEMMA CheckFits ==
  ASSUME LInv, IInv', NEW r \in Request, OwnAccount(r) \/ OwnPeer(r) \/ OwnCategory(r)
  PROVE  LInv'
  <1>1. CASE OwnAccount(r)
    <2>1. AfterAccount(in[r]) \notin {"rows", "commit"}
      BY DEF AfterAccount
    <2> QED
      BY <1>1, <2>1, RefusalFits, GotoFits DEF OwnAccount
  <1>2. CASE OwnPeer(r)
    BY <1>2, RefusalFits, GotoFits DEF OwnPeer, At
  <1>3. CASE OwnCategory(r)
    BY <1>3, RefusalFits, GotoFits DEF OwnCategory
  <1> QED
    BY <1>1, <1>2, <1>3

-----------------------------------------------------------------------------
(* The handlers that keep a database transaction open. *)

(* r's own transaction goes on or ends; every account is kept. *)
LEMMA OpenFits ==
  ASSUME LInv, IInv', NEW r \in Request, in' = in,
         \A s \in Request \ {r} : pc'[s] = pc[s] /\ open'[s] = open[s],
         NEW new, db' = new, Fits(new), Keeps(db, new),
         NEW o, open'[r] = o, NEW l, pc'[r] = l, OnLive(new, o), Coherent(r, l, o)
  PROVE  LInv'
  <1>1. ASSUME NEW s \in Request
        PROVE  OnLive(new, open'[s]) /\ Coherent(s, pc'[s], open'[s])
    <2>1. CASE s = r
      BY <2>1
    <2>2. CASE s # r
      BY <2>2, KeepsOnLive DEF LInv
    <2> QED
      BY <2>1, <2>2
  <1>2. \A s \in Request : OnLive(db, open[s])' /\ Coherent(s, pc[s], open[s])'
    BY <1>1 DEF Coherent
  <1> QED
    BY <1>2 DEF LInv

(* A handler whose open transaction is rolled back answers. *)
LEMMA RollbackFits ==
  ASSUME LInv, IInv', NEW r \in Request, open' = [open EXCEPT ![r] = NothingOpen],
         Respond(r, "error"), db' = db
  PROVE  LInv'
  <1>1. /\ in' = in /\ pc'[r] = "done" /\ open'[r] = NothingOpen
        /\ \A s \in Request \ {r} : pc'[s] = pc[s] /\ open'[s] = open[s]
    BY DEF Respond, LInv, IInv, TypeOK
  <1>2. OnLive(db, NothingOpen) /\ Coherent(r, "done", NothingOpen)
    BY NothingFits
  <1>3. Fits(db) /\ Keeps(db, db)
    BY DEF LInv, Keeps
  <1> QED
    BY <1>1, <1>2, <1>3, OpenFits

LEMMA StageFits ==
  ASSUME LInv, IInv', NEW r \in Request, pc[r] = "rows", NEW t,
         NEW l \in {"rows", "commit"}, Stage(r, t, l),
         t.category = NULL, t.batch = NULL \/ t.batch \in Ids(open[r].batches),
         t.group = NULL => t.hash = DedupHash(t.date, t.amount, t.payee)
  PROVE  LInv'
  <1>1. CASE /\ AccountLive(db, t.account)
             /\ open' = [open EXCEPT ![r].transactions = Append(@, t)]
             /\ Goto(r, l) /\ UNCHANGED <<db, row>>
    <2> DEFINE o == [open[r] EXCEPT !.transactions = Append(@, t)]
    <2>1. open[r] \in [batches: SUBSET Batch, transactions: Seq(Transaction)]
      BY DEF LInv, IInv, TypeOK
    <2>2. /\ o.batches = open[r].batches
          /\ o.transactions = Append(open[r].transactions, t)
      BY <2>1
    <2>3. /\ in' = in /\ pc'[r] = l /\ open'[r] = o
          /\ \A s \in Request \ {r} : pc'[s] = pc[s] /\ open'[s] = open[s]
      BY <1>1 DEF Goto, LInv, IInv, TypeOK
    <2> HIDE DEF o
    <2>4. \A k \in DOMAIN o.transactions :
            \/ o.transactions[k] = t
            \/ k \in DOMAIN open[r].transactions /\ o.transactions[k] = open[r].transactions[k]
      BY <2>1, <2>2
    <2>5. OnLive(db, open[r]) /\ Coherent(r, pc[r], open[r])
      BY DEF LInv
    <2>6. OnLive(db, o)
      BY <1>1, <2>2, <2>4, <2>5 DEF OnLive
    <2>7. Coherent(r, l, o)
      BY <2>2, <2>4, <2>5 DEF Coherent
    <2>8. Fits(db) /\ Keeps(db, db) /\ db' = db
      BY <1>1 DEF LInv, Keeps
    <2> QED
      BY <2>3, <2>6, <2>7, <2>8, OpenFits
  <1>2. CASE /\ open' = [open EXCEPT ![r] = NothingOpen]
             /\ Respond(r, "error") /\ UNCHANGED <<db, row>>
    BY <1>2, RollbackFits
  <1> QED
    BY <1>1, <1>2 DEF Stage

LEMMA CreateLegFits ==
  ASSUME LInv, IInv', NEW r \in Request, CreateLeg(r)
  PROVE  LInv'
  <1> DEFINE k == Len(open[r].transactions) + 1
             t == Leg(r, k)
             l == IF k = 2 THEN "commit" ELSE "rows"
  <1>1. pc[r] = "rows" /\ Stage(r, t, l) /\ l \in {"rows", "commit"}
    BY DEF CreateLeg, At
  <1>2. t.group = <<r, 0>> /\ t.category = NULL /\ t.batch = NULL
    BY DEF Leg
  <1>3. <<r, 0>> # NULL
    BY DrawnId, NullAssumption
  <1> HIDE DEF t, l
  <1> QED
    BY <1>1, <1>2, <1>3, StageFits

LEMMA ImportRowFits ==
  ASSUME LInv, IInv', NEW r \in Request, ImportRow(r)
  PROVE  LInv'
  <1> DEFINE k == Len(open[r].transactions) + 1
             t == Imported(r, k)
             l == IF k = Len(in[r].rows) THEN "commit" ELSE "rows"
  <1>1. /\ pc[r] = "rows" /\ in[r].op = "commitImport"
        /\ Stage(r, t, l) /\ l \in {"rows", "commit"}
    BY DEF ImportRow, At
  <1>2. /\ t.category = NULL /\ t.batch = <<r, 0>>
        /\ t.hash = DedupHash(t.date, t.amount, t.payee)
    BY DEF Imported
  <1>3. <<r, 0>> \in Ids(open[r].batches)
    BY <1>1 DEF LInv, Coherent
  <1> HIDE DEF t, l
  <1> QED
    BY <1>1, <1>2, <1>3, StageFits

LEMMA CreateBatchFits ==
  ASSUME LInv, IInv', NEW r \in Request, CreateBatch(r)
  PROVE  LInv'
  <1>1. CASE Refuse(r, "error")
    BY <1>1, RefusalFits
  <1>2. CASE /\ AccountLive(db, in[r].account)
             /\ open' = [open EXCEPT ![r].batches =
                           {[id |-> <<r, 0>>, owner |-> in[r].user,
                             account |-> in[r].account, count |-> Len(in[r].rows)]}]
             /\ Goto(r, "rows") /\ UNCHANGED <<db, row>>
    <2> DEFINE b == [id |-> <<r, 0>>, owner |-> in[r].user,
                     account |-> in[r].account, count |-> Len(in[r].rows)]
               o == [open[r] EXCEPT !.batches = {b}]
    <2>1. b.id = <<r, 0>> /\ b.account = in[r].account
      OBVIOUS
    <2>2. /\ open[r] = NothingOpen
          /\ open[r] \in [batches: SUBSET Batch, transactions: Seq(Transaction)]
      BY DEF CreateBatch, At, LInv, IInv, TypeOK, Checked, StagedInOrder
    <2>3. o.batches = {b} /\ o.transactions = <<>>
      BY <2>2 DEF NothingOpen
    <2>4. open' = [open EXCEPT ![r] = o]
      BY <1>2
    <2> HIDE DEF b, o
    <2>5. /\ in' = in /\ pc'[r] = "rows" /\ open'[r] = o
          /\ \A s \in Request \ {r} : pc'[s] = pc[s] /\ open'[s] = open[s]
      BY <1>2, <2>4 DEF Goto, LInv, IInv, TypeOK
    <2>6. OnLive(db, o)
      BY <1>2, <2>1, <2>3 DEF OnLive
    <2>7. Coherent(r, "rows", o)
      BY <2>1, <2>3 DEF Coherent, Ids
    <2>8. Fits(db) /\ Keeps(db, db) /\ db' = db
      BY <1>2 DEF LInv, Keeps
    <2> QED
      BY <2>5, <2>6, <2>7, <2>8, OpenFits
  <1> QED
    BY <1>1, <1>2 DEF CreateBatch

LEMMA CommitFits ==
  ASSUME LInv, IInv', NEW r \in Request, Commit(r)
  PROVE  LInv'
  <1> DEFINE new == [db EXCEPT !.batches = @ \cup open[r].batches,
                               !.transactions = @ \cup Staged(r)]
  <1>1. /\ new.batches = db.batches \cup open[r].batches
        /\ new.transactions = db.transactions \cup Staged(r)
        /\ new.accounts = db.accounts /\ new.categories = db.categories
        /\ new.snapshots = db.snapshots
    BY GoodDB DEF LInv, Good, Database
  <1>2. db' = new
    BY DEF Commit
  <1> HIDE DEF new
  <1>3. OnLive(db, open[r]) /\ Coherent(r, pc[r], open[r]) /\ Fits(db)
    BY DEF LInv
  <1>4. /\ Ids(db.batches) \subseteq Ids(new.batches)
        /\ Ids(open[r].batches) \subseteq Ids(new.batches)
    BY <1>1 DEF Ids
  <1>5. ASSUME NEW t \in Staged(r) PROVE FitsIn(new, t)
    <2>1. /\ AccountLive(db, t.account) /\ t.category = NULL
          /\ t.batch = NULL \/ t.batch \in Ids(open[r].batches)
          /\ t.group = NULL => t.hash = DedupHash(t.date, t.amount, t.payee)
      BY <1>3 DEF Staged, OnLive, Coherent
    <2> QED
      BY <1>1, <1>4, <2>1 DEF FitsIn, AccountLive, CategoryLive
  <1>6. ASSUME NEW t \in db.transactions PROVE FitsIn(new, t)
    <2>1. FitsIn(db, t)
      BY <1>3, FitsRowByRow
    <2> QED
      BY <1>1, <1>4, <2>1 DEF FitsIn, AccountLive, CategoryLive
  <1>7. \A x \in new.batches \cup new.snapshots : AccountLive(new, x.account)
    BY <1>1, <1>3 DEF Fits, ReferencesLiveIn, AccountLive, OnLive
  <1>8. Fits(new) /\ Keeps(db, new)
    BY <1>1, <1>5, <1>6, <1>7, FitsRowByRow DEF Keeps
  <1>9. /\ in' = in /\ pc'[r] = "done" /\ open'[r] = NothingOpen
        /\ \A s \in Request \ {r} : pc'[s] = pc[s] /\ open'[s] = open[s]
    BY DEF Commit, Respond, LInv, IInv, TypeOK
  <1>10. OnLive(new, NothingOpen) /\ Coherent(r, "done", NothingOpen)
    BY NothingFits
  <1> QED
    BY <1>2, <1>8, <1>9, <1>10, OpenFits

-----------------------------------------------------------------------------
(* The invariant. *)

LEMMA LInit == Init => LInv
  <1> SUFFICES ASSUME Init PROVE LInv
    OBVIOUS
  <1>1. IInv
    BY InitHolds
  <1>2. Fits(db)
    BY InitialDBAssumption DEF Init, Fits
  <1>3. ASSUME NEW r \in Request PROVE OnLive(db, open[r]) /\ Coherent(r, pc[r], open[r])
    BY NothingFits DEF Init
  <1> QED
    BY <1>1, <1>2, <1>3 DEF LInv

LEMMA LNext == LInv /\ [Next]_vars => LInv'
  <1> SUFFICES ASSUME LInv, [Next]_vars PROVE LInv'
    OBVIOUS
  <1>0. IInv'
    BY NextKeeps DEF LInv
  <1>1. CASE UNCHANGED vars
    BY <1>0, <1>1 DEF vars, LInv, Coherent
  <1>2. ASSUME NEW r \in Request, Handle(r) PROVE LInv'
    BY <1>0, <1>2, CheckFits, MoneyFits, CatalogueFits, RemoveAccountFits,
       CreateLegFits, CreateBatchFits, ImportRowFits, CommitFits DEF Handle
  <1>3. ASSUME NEW r \in Request, Abort(r) PROVE LInv'
    BY <1>0, <1>3, RollbackFits DEF Abort
  <1> QED
    BY <1>1, <1>2, <1>3 DEF Next, Idle

THEOREM LInvariance == Spec => []LInv
  BY LInit, LNext, PTL DEF Spec

(* No committed row, and no row staged in a database transaction that is    *)
(* still open, refers to an account, category or import that is gone: the   *)
(* cascades, the foreign key checks and the key-share locks suffice         *)
(* whatever the number of requests and rows.                                *)
THEOREM ReferencesStayLive == Spec => []ReferencesLive
  <1>1. ASSUME LInv PROVE ReferencesLive
    <2>1. ReferencesLiveIn(db)
      BY <1>1 DEF LInv, Fits
    <2>2. ASSUME NEW r \in Request, NEW t \in Staged(r) \cup open[r].batches
          PROVE  AccountLive(db, t.account)
      <3>1. OnLive(db, open[r])
        BY <1>1 DEF LInv
      <3> QED
        BY <2>2, <3>1 DEF OnLive, Staged
    <2> QED
      BY <2>1, <2>2 DEF ReferencesLive
  <1> QED
    BY <1>1, LInvariance, PTL

(* However PATCHes and imports interleave, the fingerprint of a row that is *)
(* no transfer leg is that of its own date, amount and payee.               *)
THEOREM HashesStayCurrent == Spec => []HashCurrent
  <1>1. LInv => HashCurrent
    BY DEF LInv, Fits, HashCurrent
  <1> QED
    BY <1>1, LInvariance, PTL
=============================================================================
