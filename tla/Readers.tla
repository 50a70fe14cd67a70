------------------------------- MODULE Readers -------------------------------
(***************************************************************************)
(* The pages that read: the tiles of Dashboard.tsx, Reports.tsx and        *)
(* Contributions.tsx, and the pages of Transactions.tsx.  Their handlers   *)
(* (server/reports.go, contributions.go, transactions.go) answer from two  *)
(* statements without a transaction around them, while the books change;   *)
(* the pages keep the answers of useQuery by what was asked.               *)
(*                                                                         *)
(* How the books change is the business of Ledger and Import; here a       *)
(* session says which statements of Schema happen, in which order.         *)
(***************************************************************************)
EXTENDS Reports

CONSTANTS Me,       \* the user who reads
          PageSize, \* 50 in the code
          Sessions

-----------------------------------------------------------------------------
(* Sessions.  One has the books it starts from, the writes in their order,  *)
(* the tiles and the filters that are looked at, and the bounds: the pages  *)
(* that are turned to and the calls that are sent.                          *)

RoomRow == [owner: User, type: AccountType, year: Nat, cents: Int]

Statement ==
  [op: {"enter"}, rows: SUBSET Transaction]
    \cup [op: {"edit"}, user: User, row: Transaction]
    \cup [op: {"retype"}, user: User, row: Account]
    \cup [op: {"erase", "close", "drop"}, user: User, id: Id]
    \cup [op: {"refile"}, user: User, from: Id, to: Id]
    \cup [op: {"measure"}, row: Snapshot]
    \cup [op: {"room"}, row: RoomRow]

Effect(d, w) ==
  CASE w.op = "enter"   -> [d EXCEPT !.transactions = @ \cup w.rows]
    [] w.op = "edit"    -> UpdateTransaction(d, w.user, w.row)
    [] w.op = "erase"   -> DeleteTransaction(d, w.user, w.id)
    [] w.op = "retype"  -> UpdateAccount(d, w.user, w.row)
    [] w.op = "close"   -> DeleteAccount(d, w.user, w.id)
    [] w.op = "drop"    -> DeleteCategory(d, w.user, w.id)
    [] w.op = "refile"  -> ReassignCategory(d, w.user, w.from, w.to)
    [] w.op = "measure" -> UpsertSnapshot(d, w.row)
    [] OTHER            -> d

(* The books after each of the session's writes. *)
Books(s) ==
  LET after[n \in 0..Len(s.writes)] ==
        IF n = 0 THEN s.db ELSE Effect(after[n - 1], s.writes[n])
  IN after

Tile == [op: {"summary"}, from: Date, to: Date] \cup [op: {"room"}, year: Nat]

Filter == [from: Date \cup {NULL}, to: Date \cup {NULL}, account: Id \cup {NULL},
           category: Id \cup {NULL}, uncategorized: BOOLEAN, payees: SUBSET Payee]

(* The writes are such as Ledger and Import do: the books stay consistent.   *)
ASSUME ReadersAssumption ==
  /\ Me \in User /\ PageSize \in Nat \ {0}
  /\ \A s \in Sessions :
       /\ s.writes \in Seq(Statement)
       /\ \A n \in 0..Len(s.writes) : Consistent(Books(s)[n])
       /\ s.tiles \subseteq Tile /\ s.filters \subseteq Filter
       /\ s.pages \in Nat /\ s.calls \in Nat

-----------------------------------------------------------------------------
VARIABLES session,
          db,
          room,    \* the table contribution_room
          written, \* how many of the session's writes happened
          calls,   \* by what is asked: the first statement's rows, or NULL
          cache,   \* by what was asked: the last answer, or NULL
          asked,   \* how many calls were sent
          view     \* the state of TransactionsPage

vars == <<session, db, room, written, calls, cache, asked, view>>

List(filter, page) == [op |-> "list", filter |-> filter, page |-> page]

Asks == session.tiles
          \cup {List(f, p) : f \in session.filters, p \in 0..session.pages}

Init ==
  /\ session \in Sessions
  /\ db = session.db
  /\ room = {}
  /\ written = 0
  /\ calls = [ask \in Asks |-> NULL]
  /\ cache = [ask \in Asks |-> NULL]
  /\ asked = 0
  /\ \E filter \in session.filters : view = [filter |-> filter, page |-> 0]

-----------------------------------------------------------------------------
(* Writes. *)

Due == session.writes[written + 1]

Write ==
  /\ written < Len(session.writes)
  /\ Due.op # "room"
  /\ db' = Effect(db, Due)
  /\ written' = written + 1
  /\ UNCHANGED <<session, room, calls, cache, asked, view>>

(* A slip: the table without its primary key. *)
UpsertRoom_Appends(row) == room \cup {row}

(* INSERT ... ON CONFLICT (user_id, account_type, tax_year) DO UPDATE. *)
UpsertRoom(row) ==
  {r \in room : <<r.owner, r.type, r.year>> # <<row.owner, row.type, row.year>>} \cup {row}

(* putContributionRoom refuses a negative room and any other account type. *)
PutRoom ==
  /\ written < Len(session.writes)
  /\ Due.op = "room"
  /\ room' = IF Due.row.type \in Registered /\ Due.row.cents >= 0
               THEN UpsertRoom(Due.row) ELSE room
  /\ written' = written + 1
  /\ UNCHANGED <<session, db, calls, cache, asked, view>>

-----------------------------------------------------------------------------
(* The handlers' two statements. *)

Found(d, filter) == Matching(d, Me, filter)

First(ask) ==
  CASE ask.op = "summary" -> {ReportSummary(db, Me, ask.from, ask.to)}
    [] ask.op = "room"    -> {{r \in room : r.owner = Me /\ r.year = ask.year}}
    [] ask.op = "list"    -> Pages(Found(db, ask.filter), PageSize, ask.page * PageSize)

Tiles(ask, summary) ==
  {[income |-> summary.income, expense |-> summary.expense,
    net |-> summary.income - summary.expense,
    uncategorized |-> summary.uncategorized, top |-> top] :
   top \in Tops(ExpenseFlows(CategoryTotals(db, Me, ask.from, ask.to)))}

RoomOf(ask, rows) ==
  [type \in Registered |->
     LET total == Contributions(db, Me, type, ask.year)
         entered == {r.cents : r \in {x \in rows : x.type = type}}
     IN [room |-> entered, contributed |-> total.contributed, withdrawn |-> total.withdrawn,
         remaining |-> {cents - total.contributed : cents \in entered}]]

Second(ask, first) ==
  CASE ask.op = "summary" -> Tiles(ask, first)
    [] ask.op = "room"    -> {RoomOf(ask, first)}
    [] ask.op = "list"    -> {[rows |-> first, total |-> Cardinality(Found(db, ask.filter))]}

-----------------------------------------------------------------------------
(* useQuery: one call at a time for what is asked and is on the screen; what *)
(* is on the screen is asked again at any time (focus, mount, invalidation). *)

OnScreen(ask) == ask.op = "list" => ask = List(view.filter, view.page)

Fetch(ask) ==
  /\ OnScreen(ask) /\ calls[ask] = NULL
  /\ asked < session.calls
  /\ asked' = asked + 1
  /\ \E rows \in First(ask) : calls' = [calls EXCEPT ![ask] = [rows |-> rows, at |-> written]]
  /\ UNCHANGED <<session, db, room, written, cache, view>>

Answer(ask) ==
  /\ calls[ask] # NULL
  /\ \E body \in Second(ask, calls[ask].rows) :
       cache' = [cache EXCEPT ![ask] =
                   [body |-> body, first |-> calls[ask].at, second |-> written]]
  /\ calls' = [calls EXCEPT ![ask] = NULL]
  /\ UNCHANGED <<session, db, room, written, asked, view>>

(* A statement fails, or the answer is lost: the last data stay. *)
Fail(ask) ==
  /\ calls[ask] # NULL
  /\ calls' = [calls EXCEPT ![ask] = NULL]
  /\ UNCHANGED <<session, db, room, written, cache, asked, view>>

-----------------------------------------------------------------------------
(* TransactionsPage. *)

Data == cache[List(view.filter, view.page)]

TotalPages(total) == IF total = 0 THEN 1 ELSE (total + PageSize - 1) \div PageSize

(* A slip: Math.floor for Math.ceil. *)
NextEnabled_Floor ==
  Data # NULL /\ Data.body.total > PageSize /\ view.page + 1 < Data.body.total \div PageSize

NextEnabled ==
  /\ Data # NULL /\ Data.body.total > PageSize
  /\ view.page + 1 < TotalPages(Data.body.total)

PreviousEnabled == Data # NULL /\ Data.body.total > PageSize /\ view.page > 0

Turn(page) ==
  /\ \/ page = view.page + 1 /\ NextEnabled
     \/ page = view.page - 1 /\ PreviousEnabled
  /\ view' = [view EXCEPT !.page = page]
  /\ UNCHANGED <<session, db, room, written, calls, cache, asked>>

(* A slip: without setPage(0). *)
SetFilter_KeepsPage(filter) ==
  /\ view' = [view EXCEPT !.filter = filter]
  /\ UNCHANGED <<session, db, room, written, calls, cache, asked>>

SetFilter(filter) ==
  /\ view' = [filter |-> filter, page |-> 0]
  /\ UNCHANGED <<session, db, room, written, calls, cache, asked>>

Next ==
  \/ Write
  \/ PutRoom
  \/ \E ask \in Asks : Fetch(ask) \/ Answer(ask) \/ Fail(ask)
  \/ \E page \in 0..session.pages : Turn(page)
  \/ \E filter \in session.filters : SetFilter(filter)

Spec == Init /\ [][Next]_vars
-----------------------------------------------------------------------------
(* Properties. *)

Room == [owner : User, type : Registered, year : Nat, cents : Nat]

(* The books, the room of each type and year, which is one row              *)
(* (contribution_room's primary key), and what is remembered by what is     *)
(* asked; no answer is from books that are still to come.                   *)
TypeOK ==
  /\ db \in Database
  /\ room \subseteq Room
  /\ \A r, other \in room :
       r # other => <<r.owner, r.type, r.year>> # <<other.owner, other.type, other.year>>
  /\ written \in 0..Len(session.writes) /\ asked \in 0..session.calls
  /\ view \in [filter : session.filters, page : 0..session.pages]
  /\ session.tiles \subseteq Tile
  /\ DOMAIN calls = Asks /\ DOMAIN cache = Asks
  /\ \A ask \in Asks : calls[ask] # NULL => calls[ask].at \in 0..written
  /\ \A ask \in Asks : cache[ask] # NULL =>
       cache[ask].second \in 0..written /\ cache[ask].first \in 0..cache[ask].second

(* Three statements tell one story: over any range, the summary is the sum  *)
(* of the categories' totals, and these are the sums of the months of       *)
(* Trends, for money in and money out.                                      *)
ReportsAgree == ReportsAgreeIn(db)

(* However many categories are folded and in whatever order equal ones come *)
(* out, the remainder of the Sankey (reports.go:167) is the net of the      *)
(* summary's tiles, up to the categories that net against their kind.       *)
SankeyTellsNet == SankeyTellsNetIn(db)

(* A node of the Sankey is known by its name alone (reports.go:138).  Two    *)
(* links meet in a node other than Income only where a category has a name   *)
(* that reportSankey gives to nodes itself, or one that another category     *)
(* with flows has, as an income and an expense may: that alone makes a cycle *)
(* of the diagram, or one node of two things.  The uncategorized, the folded *)
(* and the remainder never meet.                                             *)
SankeyLayered == SankeyLayeredIn(db)

(* Moving money within a type is no contribution, but nothing else is lost: *)
(* whatever was retyped, closed or erased meanwhile, the net contributions  *)
(* of all years to a registered type are what its accounts' rows add up to. *)
ContributionsAddUp == ContributionsAddUpIn(db)

(* Net worth is carried forward by one statement and an account's balance   *)
(* read by another: at the end of a range after which nothing was measured, *)
(* they agree on every type of account that is measured.                    *)
NetWorthMatchesAccounts == NetWorthMatchesAccountsIn(db)

(* The tile that counts what needs a category links to the list that is     *)
(* filtered for it: they are the same rows.                                 *)
UncategorizedListed == UncategorizedListedIn(db)

-----------------------------------------------------------------------------
(* No report of a user changes with what another user does. *)
ReportsPrivate ==
  [][\A u \in User : Rows(db, u)' = Rows(db, u) =>
       Figures(db, u)' = Figures(db, u) /\ Standing(db, u)' = Standing(db, u)]_db

(* What a step adds to the transactions or takes from them. *)
Moved == SymDiff(db.transactions, db'.transactions)

Grows == db.transactions \subseteq db'.transactions

Shrinks == db'.transactions \subseteq db.transactions

(* Transfers are no income and no spending: a step that only makes or       *)
(* erases legs changes no report of flows and, if both legs are on accounts *)
(* that are summed, not their total.                                        *)
TransferNeutral ==
  [][\A u \in User :
       /\ \A table \in DOMAIN db \ {"transactions"} : db'[table] = db[table]
       /\ Grows \/ Shrinks
       /\ \A t \in Moved : t.group # NULL
       => /\ Figures(db, u)' = Figures(db, u)
          /\ (\A t \in Moved :
                /\ TypeOf(db, t.account) \notin InvestmentTypes
                /\ \E leg \in Moved : leg # t /\ leg.group = t.group)
             => Cash(db, u)' = Cash(db, u)]_db

-----------------------------------------------------------------------------
(* Who turns the pages from the first to where Next is disabled, while the   *)
(* books stay as they are, has seen every row that the filter lets through,  *)
(* as long as dates tell the rows apart.                                     *)
PagesShowAll ==
  LET found == Found(db, view.filter)
      pages == {List(view.filter, p) : p \in 0..view.page}
      walked == \A ask \in pages :
                  cache[ask] # NULL /\ cache[ask].first = written /\ cache[ask].second = written
      tied == \E t, other \in found : t # other /\ t.date = other.date
  IN Data # NULL /\ ~NextEnabled /\ walked /\ ~tied =>
       UNION {cache[ask].body.rows : ask \in pages} = found

(* A page beyond the first comes up empty only if rows have left the list    *)
(* since it was opened: a filter that is set goes back to the first page.    *)
EmptyOnlyAfterLoss ==
  Data # NULL /\ view.page > 0 /\ Data.body.rows = {} =>
    \E n \in 0..(Data.first - 1) :
      Found(Books(session)[n], view.filter) \ Found(Books(session)[Data.first], view.filter) # {}
=============================================================================
