------------------------------- MODULE Books -------------------------------
(***************************************************************************)
(* What the program promises about a household's books, without handlers,  *)
(* statements, locks or failures: they change by whole entries.  A step is *)
(* one user's doing: a transaction is recorded, corrected or erased, money *)
(* moves between two accounts, an import lands or is taken back, an        *)
(* account is closed with all that is on it, a category's transactions are *)
(* filed elsewhere or lose it, or one row of the catalogue changes.        *)
(* A request may make two of these steps, and stop after the first.        *)
(*                                                                         *)
(* Steps are told by what comes and what goes, not by the statement that   *)
(* does it.                                                                *)
(***************************************************************************)
EXTENDS Schema

VARIABLE db

Init == db \in Database

-----------------------------------------------------------------------------
Table == {"accounts", "categories", "batches", "transactions", "snapshots"}

Came(table) == db'[table] \ db[table]

Gone(table) == db[table] \ db'[table]

Only(tables) == \A table \in Table \ tables : db'[table] = db[table]

(* A transaction is on an account and in a category of its user. *)
Filed(u, t) ==
  /\ t.owner = u
  /\ Find(db.accounts, u, t.account) # {}
  /\ t.category = NULL \/ Find(db.categories, u, t.category) # {}

New(t) == t.id \notin Ids(db.transactions)

Current(t) == t.hash = DedupHash(t.date, t.amount, t.payee)

-----------------------------------------------------------------------------
(* Transactions. *)

Record(u) ==
  /\ Only({"transactions"}) /\ Gone("transactions") = {}
  /\ \E t \in Came("transactions") :
       /\ Came("transactions") = {t}
       /\ New(t) /\ Filed(u, t) /\ Current(t)
       /\ t.group = NULL /\ t.batch = NULL

(* What the row becomes may be any row of its id, account and import: what *)
(* a request left alone it may have read before another changed it.        *)
Correct(u) ==
  /\ Only({"transactions"})
  /\ \E old \in Gone("transactions"), new \in Came("transactions") :
       /\ Gone("transactions") = {old} /\ Came("transactions") = {new}
       /\ old.owner = u /\ old.group = NULL
       /\ Filed(u, new) /\ Current(new)
       /\ new.id = old.id /\ new.account = old.account
       /\ new.group = NULL /\ new.batch = old.batch

Erase(u) ==
  /\ Only({"transactions"}) /\ Came("transactions") = {}
  /\ \E t \in Gone("transactions") :
       /\ t.owner = u
       /\ Gone("transactions") =
            {t} \cup {leg \in db.transactions : leg.group # NULL /\ leg.group = t.group}

Move(u) ==
  /\ Only({"transactions"}) /\ Gone("transactions") = {}
  /\ \E out, into \in Came("transactions") :
       /\ Came("transactions") = {out, into}
       /\ New(out) /\ New(into) /\ out.id # into.id
       /\ Filed(u, out) /\ Filed(u, into) /\ out.account # into.account
       /\ out.amount < 0 /\ into.amount = -out.amount /\ into.date = out.date
       /\ out.group # NULL /\ into.group = out.group
       /\ \A t \in db.transactions : t.group # out.group
       /\ {out.category, into.category, out.batch, into.batch} = {NULL}

-----------------------------------------------------------------------------
(* Imports. *)

Land(u) ==
  /\ Only({"batches", "transactions"})
  /\ Gone("batches") = {} /\ Gone("transactions") = {}
  /\ \E b \in Came("batches") :
       /\ Came("batches") = {b} /\ b.owner = u
       /\ Cardinality(Came("transactions")) = b.count
       /\ b.id \notin Ids(db.batches) /\ \A t \in db.transactions : t.batch # b.id
       /\ \A t, other \in Came("transactions") : t.id = other.id => t = other
       /\ \A t \in Came("transactions") :
            /\ New(t) /\ Filed(u, t) /\ Current(t)
            /\ t.account = b.account /\ t.batch = b.id
            /\ t.category = NULL /\ t.group = NULL

TakeBack(u) ==
  /\ Only({"batches", "transactions"})
  /\ Came("batches") = {} /\ Came("transactions") = {}
  /\ \E b \in Gone("batches") :
       /\ Gone("batches") = {b} /\ b.owner = u
       /\ Gone("transactions") = {t \in db.transactions : t.batch = b.id}

-----------------------------------------------------------------------------
(* The catalogue. *)

CloseAccount(u) ==
  /\ \A table \in Table : Came(table) = {}
  /\ Only({"accounts", "batches", "transactions", "snapshots"})
  /\ \E a \in Gone("accounts") :
       /\ Gone("accounts") = {a} /\ a.owner = u
       /\ \A table \in {"batches", "transactions", "snapshots"} :
            Gone(table) = {x \in db[table] : x.account = a.id}

File(u, from, to) ==
  LET filed == {t \in db.transactions : t.category = from}
  IN /\ \A t \in filed : t.owner = u
     /\ db'.transactions = (db.transactions \ filed)
                             \cup {[t EXCEPT !.category = to] : t \in filed}

(* The first half of a merge; the second, DropCategory, is a step apart    *)
(* and may never come.                                                     *)
Refile(u) ==
  /\ Only({"transactions"})
  /\ \E from, to \in Ids({c \in db.categories : c.owner = u}) : File(u, from, to)

DropCategory(u) ==
  /\ Only({"categories", "transactions"}) /\ Came("categories") = {}
  /\ \E c \in Gone("categories") :
       /\ Gone("categories") = {c} /\ c.owner = u
       /\ File(u, c.id, NULL)

(* An account, a category or a snapshot is added or changed, under a name  *)
(* or on a date that none of the others has; a category keeps its kind.    *)
Enter(u) ==
  \E table \in {"accounts", "categories", "snapshots"} :
    /\ Only({table})
    /\ \E new \in Came(table) :
         /\ Came(table) = {new} /\ new.owner = u
         /\ Gone(table) = {old \in db[table] : old.id = new.id}
         /\ \A old \in Gone(table) : old.owner = u
         /\ table = "accounts" => ~NameTaken(db.accounts, new)
         /\ table = "categories" =>
              /\ ~CategoryNameTaken(db.categories, new)
              /\ \A old \in Gone(table) : old.kind = new.kind
         /\ table = "snapshots" =>
              \A s \in db.snapshots : s.account = new.account /\ s.asOf = new.asOf => s.id = new.id

DropSnapshot(u) ==
  /\ Only({"snapshots"}) /\ Came("snapshots") = {}
  /\ \E s \in Gone("snapshots") : Gone("snapshots") = {s} /\ s.owner = u

-----------------------------------------------------------------------------
Next ==
  \E u \in User :
    \/ Record(u) \/ Correct(u) \/ Erase(u) \/ Move(u)
    \/ Land(u) \/ TakeBack(u)
    \/ CloseAccount(u) \/ Refile(u) \/ DropCategory(u)
    \/ Enter(u) \/ DropSnapshot(u)

Spec == Init /\ [][Next]_db
=============================================================================
