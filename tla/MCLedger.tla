------------------------------ MODULE MCLedger ------------------------------
(***************************************************************************)
(* Small instances of Ledger: two users with a few rows each, and clients  *)
(* that send any of the requests of a menu, at once.                       *)
(***************************************************************************)
EXTENDS LedgerBooks, TLC

CONSTANTS u1, u2

MCNormalized == [p \in Payee |-> CASE p = "CAFE 1" -> "cafe" [] OTHER -> p]

-----------------------------------------------------------------------------
(* The rows of two users.  u1 has three accounts, the third one empty, two  *)
(* categories, an import of one row and a transfer; u2 has one of each.     *)

Acct(u, n, name) == [id |-> <<u, n>>, owner |-> u, name |-> name,
                     type |-> "chequing", opening |-> 0, archived |-> FALSE]

Cat(u, n, name) == [id |-> <<u, n>>, owner |-> u, kind |-> "expense",
                    name |-> name, archived |-> FALSE]

Txn(u, n, account, amount, payee, category, group, batch) ==
  [id |-> <<u, n>>, owner |-> u, account |-> <<u, account>>, date |-> 1,
   amount |-> amount, payee |-> payee, category |-> category, group |-> group,
   batch |-> batch,
   hash |-> DedupHash(1, amount, IF group = NULL THEN payee ELSE TransferWord)]

TwoHouseholds ==
  [accounts     |-> {Acct(u1, 1, "A"), Acct(u1, 2, "B"), Acct(u1, 3, "C"), Acct(u2, 1, "A")},
   categories   |-> {Cat(u1, 1, "A"), Cat(u1, 2, "B"), Cat(u2, 1, "A")},
   batches      |-> {[id |-> <<u1, 1>>, owner |-> u1, account |-> <<u1, 1>>, count |-> 1]},
   transactions |-> {Txn(u1, 1, 1, -1, "cafe", <<u1, 1>>, NULL, <<u1, 1>>),
                     Txn(u1, 2, 1, -2, Untitled, NULL, <<u1, 9>>, NULL),
                     Txn(u1, 3, 2, 2, Untitled, NULL, <<u1, 9>>, NULL),
                     Txn(u2, 1, 1, -1, "cafe", <<u2, 1>>, NULL, NULL)},
   snapshots    |-> {[id |-> <<u1, 1>>, owner |-> u1, account |-> <<u1, 2>>,
                      asOf |-> 1, balance |-> 5]}]

-----------------------------------------------------------------------------
(* The requests. *)

Blank == [op |-> "createAccount", user |-> u1, id |-> NULL, account |-> NULL,
          peer |-> NULL, category |-> NULL, fields |-> {}, date |-> 1,
          amount |-> 1, payee |-> "cafe", name |-> "A", type |-> "chequing",
          kind |-> "expense", archived |-> FALSE, rows |-> <<>>]

Ask(op) == [Blank EXCEPT !.op = op]

On(op, id) == [Ask(op) EXCEPT !.id = id]

Post(account, category) ==
  [Ask("createTransaction") EXCEPT !.account = account, !.category = category]

Patch(id, fields, category) ==
  [On("updateTransaction", id) EXCEPT !.fields = fields, !.category = category,
                                      !.amount = 2, !.payee = "CAFE 1"]

Transfer(from, to) ==
  [Ask("createTransfer") EXCEPT !.account = from, !.peer = to]

TwoRows == <<[date |-> 1, amount |-> -1, payee |-> "cafe"],
             [date |-> 1, amount |-> 2, payee |-> "CAFE 1"]>>

Import(account, lines) == [Ask("commitImport") EXCEPT !.account = account, !.rows = lines]

Merge(from, to) == [On("deleteCategory", from) EXCEPT !.category = to]

By(u, q) == [q EXCEPT !.user = u]

PatchAccount(id, fields) ==
  [On("updateAccount", id) EXCEPT !.fields = fields, !.name = "D", !.archived = TRUE,
                                  !.type = "tfsa"]

PatchCategory(id, fields) ==
  [On("updateCategory", id) EXCEPT !.fields = fields, !.name = "D", !.archived = TRUE]

(* Money: transactions, transfers, imports, and the deletes that race with  *)
(* them; u2 asks for rows of u1 as well as for rows of its own.             *)
MoneyMenu ==
  {Post(<<u1, 1>>, <<u1, 1>>), Post(<<u1, 3>>, NULL),
   By(u2, Post(<<u1, 3>>, NULL)), By(u2, Post(<<u2, 1>>, <<u1, 1>>)),
   Patch(<<u1, 1>>, {"payee"}, NULL), Patch(<<u1, 1>>, {"amount", "category"}, <<u1, 2>>),
   Patch(<<u1, 3>>, {"payee"}, NULL),
   On("deleteTransaction", <<u1, 1>>), On("deleteTransaction", <<u1, 2>>),
   By(u2, On("deleteTransaction", <<u1, 1>>)),
   Transfer(<<u1, 1>>, <<u1, 3>>),
   Import(<<u1, 3>>, TwoRows), On("revertImport", <<u1, 1>>),
   On("deleteAccount", <<u1, 3>>), On("deleteAccount", <<u1, 1>>),
   On("deleteCategory", <<u1, 1>>), Merge(<<u1, 1>>, <<u1, 2>>),
   By(u2, Merge(<<u1, 1>>, <<u2, 1>>))}
  \cup {On("revertImport", <<r, 0>>) : r \in Request}
  \cup {Patch(<<r, 1>>, {"payee"}, NULL) : r \in Request}

(* Accounts, categories and snapshots come and go under names that collide. *)
CatalogueMenu ==
  {[Ask("createAccount") EXCEPT !.name = "D"], [Ask("createCategory") EXCEPT !.name = "D"],
   PatchAccount(<<u1, 3>>, {"name"}), PatchAccount(<<u1, 3>>, {"archived", "type"}),
   PatchCategory(<<u1, 2>>, {"name"}), PatchCategory(<<u1, 2>>, {"archived"}),
   By(u2, PatchAccount(<<u1, 3>>, {"name"})),
   On("deleteCategory", <<u1, 2>>),
   [Ask("upsertSnapshot") EXCEPT !.account = <<u1, 2>>],
   [Ask("upsertSnapshot") EXCEPT !.account = <<u1, 3>>],
   On("deleteSnapshot", <<u1, 1>>)}

(* What the handlers refuse before or while they look rows up. *)
RefusedMenu ==
  {[Post(<<u1, 1>>, NULL) EXCEPT !.amount = 0], Transfer(<<u1, 1>>, <<u1, 1>>),
   [Patch(<<u1, 1>>, {"amount"}, NULL) EXCEPT !.amount = 0],
   Import(<<u1, 1>>, <<>>), Transfer(<<u1, 1>>, <<u2, 1>>)}

FullMenu == MoneyMenu \cup CatalogueMenu \cup RefusedMenu

(* Everything that meets a transfer, account deletion left out. *)
TransferMenu ==
  {Transfer(<<u1, 1>>, <<u1, 3>>), Transfer(<<u1, 3>>, <<u1, 2>>),
   On("deleteTransaction", <<u1, 2>>), On("deleteTransaction", <<u1, 3>>),
   Patch(<<u1, 3>>, {"amount"}, NULL), Patch(<<u1, 2>>, {"category"}, <<u1, 1>>),
   Import(<<u1, 3>>, TwoRows), On("revertImport", <<u1, 1>>),
   PatchAccount(<<u1, 3>>, {"name"}), Merge(<<u1, 1>>, <<u1, 2>>)}
  \cup {On("deleteTransaction", <<r, 1>>) : r \in Request}
  \cup {Patch(<<r, 2>>, {"category"}, <<u1, 1>>) : r \in Request}

(* The races of an account's delete and of a category's merge. *)
AccountMenu == {On("deleteAccount", <<u1, 3>>), Transfer(<<u1, 1>>, <<u1, 3>>)}

CategoryMenu ==
  {Merge(<<u1, 1>>, <<u1, 2>>), Post(<<u1, 1>>, <<u1, 1>>),
   Patch(<<u1, 1>>, {"payee"}, NULL)}

Anyone == Permutations(Request)
=============================================================================
