------------------------------- MODULE Schema -------------------------------
(***************************************************************************)
(* The Postgres tables of migrations/ and, one operator per statement of   *)
(* internal/store/queries/, what a statement makes of the database.  A     *)
(* table is the set of its rows; a statement is atomic (autocommit, READ   *)
(* COMMITTED), and the foreign keys' ON DELETE actions are part of it.     *)
(*                                                                         *)
(* An id stands for a uuid and is named for the one that drew it: <<r, n>> *)
(* is the n-th id drawn by request r, <<u, n>> an id of a row user u had   *)
(* before the behaviour starts.  gen_random_uuid() never repeats, and      *)
(* neither do these.  Notes, colours, currencies, institutions and         *)
(* timestamps are data no property tells apart and are left out.           *)
(***************************************************************************)
EXTENDS Integers, Sequences, FiniteSets

CONSTANTS User, Request, Name, AccountType, Kind, Date, Payee,
          Normalized,  \* what DedupHash's loop makes of a payee
          Untitled,    \* the empty payee, the column's default
          TransferWord,\* the payee CreateTransfer hashes, "transfer"
          NULL

ASSUME SchemaAssumption ==
  /\ User \cap Request = {}
  /\ Normalized \in [Payee -> Payee]
  /\ Untitled \in Payee /\ TransferWord \in Payee

Id == (User \cup Request) \X Nat

ASSUME NullAssumption == NULL \notin Id

-----------------------------------------------------------------------------
(* The rows. *)

Account == [id: Id, owner: User, name: Name, type: AccountType,
            opening: Int, archived: BOOLEAN]

Category == [id: Id, owner: User, kind: Kind, name: Name, archived: BOOLEAN]

Batch == [id: Id, owner: User, account: Id, count: Nat]

(* sha256 is taken to be injective: a fingerprint is what was hashed. *)
Fingerprint == Date \X Int \X Payee

DedupHash(date, amount, payee) == <<date, amount, Normalized[payee]>>

(* No handler and no import stores an amount of zero. *)
Transaction == [id: Id, owner: User, account: Id, date: Date,
                amount: Int \ {0}, payee: Payee, category: Id \cup {NULL},
                group: Id \cup {NULL}, batch: Id \cup {NULL},
                hash: Fingerprint]

Snapshot == [id: Id, owner: User, account: Id, asOf: Date, balance: Int]

Database == [accounts: SUBSET Account, categories: SUBSET Category,
             batches: SUBSET Batch, transactions: SUBSET Transaction,
             snapshots: SUBSET Snapshot]

-----------------------------------------------------------------------------
(* Reading: SELECT ... WHERE id = $2 AND user_id = $1 on any table. *)

Ids(table) == {row.id : row \in table}

Find(table, user, id) == {row \in table : row.id = id /\ row.owner = user}

(* Rows of an account seen by CountAccountTransactions. *)
TransactionsIn(d, user, account) ==
  {t \in d.transactions : t.account = account /\ t.owner = user}

(* The constraints Postgres checks when a row is written. *)
NameTaken(table, row) ==
  \E other \in table : /\ other.owner = row.owner
                       /\ other.name = row.name
                       /\ other.id # row.id

CategoryNameTaken(table, row) ==
  NameTaken({c \in table : c.kind = row.kind}, row)

AccountLive(d, account) == account \in Ids(d.accounts)

CategoryLive(d, category) == category = NULL \/ category \in Ids(d.categories)

-----------------------------------------------------------------------------
(* Writing: each operator is the database a statement leaves behind. *)

(* UPDATE accounts SET ... WHERE id = $2 AND user_id = $1 *)
UpdateAccount(d, user, new) ==
  [d EXCEPT !.accounts =
     {IF a.id = new.id /\ a.owner = user
        THEN [a EXCEPT !.name = new.name, !.type = new.type,
                       !.opening = new.opening, !.archived = new.archived]
        ELSE a : a \in @}]

(* DELETE FROM accounts; batches, transactions and snapshots cascade. *)
DeleteAccount(d, user, id) ==
  LET gone == Ids(Find(d.accounts, user, id))
      lost == {b.id : b \in {x \in d.batches : x.account \in gone}}
  IN [d EXCEPT
        !.accounts = {a \in @ : ~(a.id = id /\ a.owner = user)},
        !.batches = {b \in @ : b.account \notin gone},
        !.transactions = {t \in @ : t.account \notin gone /\ t.batch \notin lost},
        !.snapshots = {s \in @ : s.account \notin gone}]

UpdateCategory(d, user, new) ==
  [d EXCEPT !.categories =
     {IF c.id = new.id /\ c.owner = user
        THEN [c EXCEPT !.name = new.name, !.archived = new.archived]
        ELSE c : c \in @}]

(* A slip: the foreign key declared ON DELETE CASCADE. *)
DeleteCategory_Cascades(d, user, id) ==
  LET gone == Ids(Find(d.categories, user, id))
  IN [d EXCEPT
        !.categories = {c \in @ : ~(c.id = id /\ c.owner = user)},
        !.transactions = {t \in @ : t.category \notin gone}]

(* DELETE FROM categories; the transactions' foreign key is SET NULL. *)
DeleteCategory(d, user, id) ==
  LET gone == Ids(Find(d.categories, user, id))
  IN [d EXCEPT
        !.categories = {c \in @ : ~(c.id = id /\ c.owner = user)},
        !.transactions = {IF t.category \in gone
                            THEN [t EXCEPT !.category = NULL] ELSE t : t \in @}]

(* A slip: the statement without its user_id filter. *)
ReassignCategory_AnyOwner(d, user, from, to) ==
  [d EXCEPT !.transactions =
     {IF t.category = from /\ to \in Ids(d.categories)
        THEN [t EXCEPT !.category = to] ELSE t : t \in @}]

(* UPDATE transactions SET category_id = to WHERE category_id = from, under *)
(* the EXISTS guard that the target is the user's.                          *)
ReassignCategory(d, user, from, to) ==
  [d EXCEPT !.transactions =
     {IF t.owner = user /\ t.category = from /\ Find(d.categories, user, to) # {}
        THEN [t EXCEPT !.category = to] ELSE t : t \in @}]

InsertTransaction(d, t) == [d EXCEPT !.transactions = @ \cup {t}]

(* A slip: the hash kept from the row that was read. *)
UpdateTransaction_StaleHash(d, user, new) ==
  [d EXCEPT !.transactions =
     {IF t.id = new.id /\ t.owner = user
        THEN [t EXCEPT !.date = new.date, !.amount = new.amount,
                       !.payee = new.payee, !.category = new.category]
        ELSE t : t \in @}]

(* UPDATE transactions: every editable column, and the recomputed hash. *)
UpdateTransaction(d, user, new) ==
  [d EXCEPT !.transactions =
     {IF t.id = new.id /\ t.owner = user
        THEN [t EXCEPT !.date = new.date, !.amount = new.amount,
                       !.payee = new.payee, !.category = new.category,
                       !.hash = DedupHash(new.date, new.amount, new.payee)]
        ELSE t : t \in @}]

(* A slip: only the leg that was named goes. *)
DeleteTransaction_OneLeg(d, user, id) ==
  [d EXCEPT !.transactions = {t \in @ : ~(t.owner = user /\ t.id = id)}]

(* DELETE FROM transactions: the row, or both legs of the row's transfer. *)
DeleteTransaction(d, user, id) ==
  LET groups == {t.group : t \in Find(d.transactions, user, id)} \ {NULL}
  IN [d EXCEPT !.transactions =
        {t \in @ : ~(t.owner = user /\ (t.id = id \/ t.group \in groups))}]

(* A slip: the foreign key declared ON DELETE SET NULL. *)
DeleteBatch_KeepsRows(d, user, id) ==
  LET gone == Ids(Find(d.batches, user, id))
  IN [d EXCEPT !.batches = {b \in @ : ~(b.id = id /\ b.owner = user)},
               !.transactions = {IF t.batch \in gone THEN [t EXCEPT !.batch = NULL] ELSE t : t \in @}]

(* DELETE FROM import_batches; its transactions cascade. *)
DeleteBatch(d, user, id) ==
  LET gone == Ids(Find(d.batches, user, id))
  IN [d EXCEPT !.batches = {b \in @ : ~(b.id = id /\ b.owner = user)},
               !.transactions = {t \in @ : t.batch \notin gone}]

(* INSERT ... ON CONFLICT (account_id, as_of) DO UPDATE SET balance_cents *)
UpsertSnapshot(d, new) ==
  LET same == {s \in d.snapshots : s.account = new.account /\ s.asOf = new.asOf}
  IN [d EXCEPT !.snapshots =
        IF same = {} THEN @ \cup {new}
        ELSE (@ \ same) \cup {[s EXCEPT !.balance = new.balance] : s \in same}]

DeleteSnapshot(d, user, id) ==
  [d EXCEPT !.snapshots = {s \in @ : ~(s.id = id /\ s.owner = user)}]

-----------------------------------------------------------------------------
(* What the tables keep, whatever the time. *)

(* Rows that refer to one another are of one user. *)
OwnersAgreeIn(d) ==
  /\ \A t \in d.transactions :
       /\ \A a \in d.accounts : a.id = t.account => a.owner = t.owner
       /\ \A c \in d.categories : c.id = t.category => c.owner = t.owner
       /\ \A b \in d.batches : b.id = t.batch => b.owner = t.owner /\ b.account = t.account
  /\ \A x \in d.batches \cup d.snapshots :
       \A a \in d.accounts : a.id = x.account => a.owner = x.owner

(* The foreign keys. *)
ReferencesLiveIn(d) ==
  /\ \A t \in d.transactions :
       /\ AccountLive(d, t.account)
       /\ CategoryLive(d, t.category)
       /\ t.batch = NULL \/ t.batch \in Ids(d.batches)
  /\ \A x \in d.batches \cup d.snapshots : AccountLive(d, x.account)

(* A transfer leg's hash is that of another payee, TransferWord. *)
HashCurrentIn(d) ==
  \A t \in d.transactions :
    t.group = NULL => t.hash = DedupHash(t.date, t.amount, t.payee)

(* The primary keys, and balance_snapshots' UNIQUE (account_id, as_of). *)
KeysIn(d) ==
  /\ \A table \in DOMAIN d : \A x, y \in d[table] : x.id = y.id => x = y
  /\ \A s, other \in d.snapshots :
       s.account = other.account /\ s.asOf = other.asOf => s = other

(* The legs of a transfer are one user's and opposite, and no third row is   *)
(* in their group; when an account is closed, a leg may be left alone.       *)
OpposedIn(d) ==
  \A t, leg \in d.transactions :
    t.group # NULL /\ leg.group = t.group /\ leg # t =>
      /\ leg.owner = t.owner /\ leg.amount = -t.amount
      /\ \A x \in d.transactions : x.group = t.group => x \in {t, leg}

(* What the reports rely on. *)
Consistent(d) ==
  /\ d \in Database
  /\ \A table \in DOMAIN d : IsFiniteSet(d[table])
  /\ OwnersAgreeIn(d) /\ ReferencesLiveIn(d) /\ KeysIn(d) /\ OpposedIn(d)
=============================================================================
