------------------------------ MODULE Reports ------------------------------
(***************************************************************************)
(* What the program computes from the tables of Schema: the statements of  *)
(* queries/reports.sql, contributions.sql and the lists of accounts and    *)
(* transactions, and what internal/server makes of their rows.  It is a    *)
(* set of functions of the database, without a state.                      *)
(*                                                                         *)
(* A report ranges over days, and groups them by month and tax year.       *)
(***************************************************************************)
EXTENDS Schema, FiniteSetsExt

CONSTANTS MonthOf, YearOf,  \* of a date; months are numbered through
          MaxExpenseNodes,  \* 12 in the code
          TopCategories     \* 5 in the code

ASSUME ReportsAssumption ==
  /\ Date \subseteq Nat /\ NULL \notin Date
  /\ MonthOf \in [Date -> Nat] /\ YearOf \in [Date -> Nat]
  /\ \A a, b \in Date : a <= b => MonthOf[a] <= MonthOf[b]
  /\ Kind = {"income", "expense"} /\ NULL \notin Kind
  /\ MaxExpenseNodes \in Nat /\ TopCategories \in Nat

Registered == {"rrsp", "tfsa", "fhsa"}

InvestmentTypes == Registered \cup {"non_registered"}

-----------------------------------------------------------------------------
(* Sums. *)

AmountOf(rows) == SumFunction([x \in rows |-> x.amount])

Inflow(rows) == AmountOf({t \in rows : t.amount > 0})

Outflow(rows) == -AmountOf({t \in rows : t.amount < 0})

-----------------------------------------------------------------------------
(* Flows: what is in the range and no transfer. *)

(* A slip: without `transfer_group_id IS NULL`. *)
FlowRows_Transfers(d, user, from, to) ==
  {t \in d.transactions : t.owner = user /\ from <= t.date /\ t.date <= to}

FlowRows(d, user, from, to) ==
  {t \in d.transactions :
     t.owner = user /\ from <= t.date /\ t.date <= to /\ t.group = NULL}

ReportSummary(d, user, from, to) ==
  LET rows == FlowRows(d, user, from, to)
  IN [income |-> Inflow(rows), expense |-> Outflow(rows),
      uncategorized |-> Cardinality({t \in rows : t.category = NULL})]

(* LEFT JOIN categories ... GROUP BY c.id: NULL is a group of its own. *)
Grouped(d, rows) ==
  {LET of == {t \in rows : t.category = id}
       joined == {c \in d.categories : c.id = id}
   IN [category |-> id,
       name |-> IF joined = {} THEN "Uncategorized" ELSE (CHOOSE c \in joined : TRUE).name,
       kind |-> IF joined = {} THEN NULL ELSE (CHOOSE c \in joined : TRUE).kind,
       inflow |-> Inflow(of), outflow |-> Outflow(of)] :
   id \in {t.category : t \in rows}}

(* A slip: another user's rows are not filtered out. *)
CategoryTotals_AnyUser(d, user, from, to) ==
  Grouped(d, UNION {FlowRows(d, u, from, to) : u \in User})

CategoryTotals(d, user, from, to) == Grouped(d, FlowRows(d, user, from, to))

(* A slip: the last day is left out. *)
Trends_OpenEnd(d, user, from, to) ==
  LET rows == {t \in FlowRows(d, user, from, to) : t.date < to}
  IN {[month |-> m, totals |-> Grouped(d, {t \in rows : MonthOf[t.date] = m})] :
        m \in {MonthOf[t.date] : t \in rows}}

Trends(d, user, from, to) ==
  LET rows == FlowRows(d, user, from, to)
  IN {[month |-> m, totals |-> Grouped(d, {t \in rows : MonthOf[t.date] = m})] :
        m \in {MonthOf[t.date] : t \in rows}}

-----------------------------------------------------------------------------
(* splitCategoryTotals: a category is on the side of its kind, net, and only *)
(* if it is in the right direction; what has none is on both sides.          *)

Flow(row, amount) == [category |-> row.category, name |-> row.name, amount |-> amount]

Positive(flows) == {flow \in flows : flow.amount > 0}

IncomeFlows(totals) ==
  Positive({Flow(row, row.inflow - row.outflow) : row \in {x \in totals : x.kind = "income"}}
           \cup {Flow(row, row.inflow) : row \in {x \in totals : x.kind = NULL}})

ExpenseFlows(totals) ==
  Positive({Flow(row, row.outflow - row.inflow) : row \in {x \in totals : x.kind = "expense"}}
           \cup {Flow(row, row.outflow) : row \in {x \in totals : x.kind = NULL}})

(* sort.Slice is not stable: equal amounts come in any order. *)
Sorted(flows) ==
  {order \in [1..Cardinality(flows) -> flows] :
     \A i, j \in DOMAIN order :
       i < j => order[i] # order[j] /\ order[i].amount >= order[j].amount}

FirstFlows(n, order) == SubSeq(order, 1, IF n < Len(order) THEN n ELSE Len(order))

Tops(expense) == {FirstFlows(TopCategories, order) : order \in Sorted(expense)}

-----------------------------------------------------------------------------
(* reportSankey. *)

SumOfFlows(order) == SumFunction([k \in DOMAIN order |-> order[k].amount])

(* A slip: the first folded category is lost. *)
Folded_OffByOne(order) ==
  IF Len(order) <= MaxExpenseNodes THEN order
  ELSE Append(FirstFlows(MaxExpenseNodes, order),
              [category |-> NULL, name |-> "Other",
               amount |-> SumOfFlows(SubSeq(order, MaxExpenseNodes + 2, Len(order)))])

Folded(order) ==
  IF Len(order) <= MaxExpenseNodes THEN order
  ELSE Append(FirstFlows(MaxExpenseNodes, order),
              [category |-> NULL, name |-> "Other",
               amount |-> SumOfFlows(SubSeq(order, MaxExpenseNodes + 1, Len(order)))])

(* A slip: the uncategorized rows of both sides share a node. *)
NodeName_Kept(name, uncategorized) == name

NodeName(name, uncategorized) ==
  IF name = "Uncategorized" THEN uncategorized ELSE name

Link(source, target, value) == [source |-> source, target |-> target, value |-> value]

SankeyLinks(income, expense) ==
  LET shown == Folded(expense)
      earned == SumOfFlows(income)
      spent == SumOfFlows(shown)
  IN [k \in DOMAIN income |->
        Link(NodeName(income[k].name, "Uncategorized income"), "Income", income[k].amount)]
     \o [k \in DOMAIN shown |->
           Link("Income", NodeName(shown[k].name, "Uncategorized spending"), shown[k].amount)]
     \o (CASE earned > spent -> <<Link("Income", "Savings", earned - spent)>>
           [] earned < spent -> <<Link("From savings", "Income", spent - earned)>>
           [] OTHER          -> <<>>)

Sankeys(d, user, from, to) ==
  LET totals == CategoryTotals(d, user, from, to)
  IN {SankeyLinks(in, out) : in \in Sorted(IncomeFlows(totals)), out \in Sorted(ExpenseFlows(totals))}

-----------------------------------------------------------------------------
(* Balances. *)

(* ORDER BY as_of DESC LIMIT 1; as_of is unique per account. *)
Latest(snapshots) == CHOOSE s \in snapshots : \A other \in snapshots : other.asOf <= s.asOf

(* A slip: a month starts with the snapshots before it. *)
CarriedTo_Start(d, a, month) ==
  {s \in d.snapshots : s.account = a.id /\ MonthOf[s.asOf] < month}

CarriedTo(d, a, month) ==
  {s \in d.snapshots : s.account = a.id /\ MonthOf[s.asOf] < month + 1}

NetWorth(d, user, from, to) ==
  LET counted(m) == {a \in d.accounts : a.owner = user /\ ~a.archived /\ CarriedTo(d, a, m) # {}}
      worth(m, type) ==
        SumFunction([a \in {x \in counted(m) : x.type = type} |->
                       Latest(CarriedTo(d, a, m)).balance])
  IN UNION {{[month |-> m, type |-> type, total |-> worth(m, type)] :
               type \in {a.type : a \in counted(m)}} :
            m \in MonthOf[from]..MonthOf[to]}

Balance(d, a) ==
  LET snapshots == {s \in d.snapshots : s.account = a.id}
  IN IF a.type \notin InvestmentTypes
       THEN a.opening + AmountOf({t \in d.transactions : t.account = a.id})
     ELSE IF snapshots = {} THEN 0
     ELSE Latest(snapshots).balance

ListAccounts(d, user) ==
  {[account |-> a, balance |-> Balance(d, a)] : a \in {x \in d.accounts : x.owner = user}}

-----------------------------------------------------------------------------
(* ContributionTotals.  Two NULL groups are not equal to SQL. *)

TypeOf(d, account) == (CHOOSE a \in d.accounts : a.id = account).type

(* A slip: without `peer.id <> t.id`, a leg is a peer of its own. *)
WithinType_Itself(d, t) ==
  t.group # NULL /\ \E peer \in d.transactions :
    peer.group = t.group /\ TypeOf(d, peer.account) = TypeOf(d, t.account)

WithinType(d, t) ==
  t.group # NULL /\ \E peer \in d.transactions :
    /\ peer.group = t.group /\ peer.id # t.id
    /\ TypeOf(d, peer.account) = TypeOf(d, t.account)

Contributions(d, user, type, year) ==
  LET rows == {t \in d.transactions :
                 /\ t.owner = user /\ TypeOf(d, t.account) = type
                 /\ YearOf[t.date] = year
                 /\ ~WithinType(d, t)}
  IN [contributed |-> Inflow(rows), withdrawn |-> Outflow(rows)]

-----------------------------------------------------------------------------
(* ListTransactions and CountTransactions.  A filter is NULL where it is not *)
(* set; a search text is the set of the payees it occurs in.                 *)

NoFilter == [from |-> NULL, to |-> NULL, account |-> NULL, category |-> NULL,
             uncategorized |-> FALSE, payees |-> Payee]

(* A slip: transfers, which never have a category, are not left out. *)
Matching_Transfers(d, user, filter) ==
  {t \in d.transactions :
     /\ t.owner = user
     /\ filter.from = NULL \/ filter.from <= t.date
     /\ filter.to = NULL \/ t.date <= filter.to
     /\ filter.uncategorized => t.category = NULL}

Matching(d, user, filter) ==
  {t \in d.transactions :
     /\ t.owner = user
     /\ filter.from = NULL \/ filter.from <= t.date
     /\ filter.to = NULL \/ t.date <= filter.to
     /\ filter.account = NULL \/ t.account = filter.account
     /\ filter.category = NULL \/ t.category = filter.category
     /\ filter.uncategorized => t.category = NULL /\ t.group = NULL
     /\ t.payee \in filter.payees}

(* LIMIT n OFFSET k of rows in descending order of their dates.  Rows of one *)
(* date come in any order: the rest of the order, created_at, is the same    *)
(* for all rows of one import, and is left out.                              *)
Pages(rows, n, k) ==
  LET newer(t) == {x \in rows : x.date > t.date}
      older(t) == {x \in rows : x.date < t.date}
      size == IF Cardinality(rows) <= k THEN 0
              ELSE IF Cardinality(rows) < k + n THEN Cardinality(rows) - k ELSE n
  IN {page \in kSubset(size, rows) :
        \A t \in page :
          /\ Cardinality(newer(t) \ page) <= k
          /\ Cardinality(older(t) \ page) <= Cardinality(rows) - k - size}

-----------------------------------------------------------------------------
(* What the reports of one database tell together. *)

(* reportRange refuses a range that ends before it starts. *)
Ranges == {range \in Date \X Date : range[1] <= range[2]}

ReportsAgreeIn(d) ==
  \A u \in User, range \in Ranges :
    LET summary == ReportSummary(d, u, range[1], range[2])
        totals == CategoryTotals(d, u, range[1], range[2])
        months == Trends(d, u, range[1], range[2])
        in(rows) == SumFunction([row \in rows |-> row.inflow])
        out(rows) == SumFunction([row \in rows |-> row.outflow])
        of(id, rows) == {row \in rows : row.category = id}
    IN /\ summary.income = in(totals) /\ summary.expense = out(totals)
       /\ \A month \in months : \A row \in month.totals : of(row.category, totals) # {}
       /\ \A row \in totals :
            /\ row.inflow = SumFunction([m \in months |-> in(of(row.category, m.totals))])
            /\ row.outflow = SumFunction([m \in months |-> out(of(row.category, m.totals))])

(* What links carry from one node to another. *)
Carried(links, source, target) ==
  SumFunction([k \in {j \in DOMAIN links : links[j].source = source /\ links[j].target = target} |->
                 links[k].value])

(* Net the wrong way for its kind, and so on neither side of the Sankey. *)
Refunded(totals) ==
  SumFunction([row \in {x \in totals : x.kind = "expense" /\ x.inflow > x.outflow} |->
                 row.inflow - row.outflow])

PaidBack(totals) ==
  SumFunction([row \in {x \in totals : x.kind = "income" /\ x.outflow > x.inflow} |->
                 row.outflow - row.inflow])

(* The nodes of the remainder, told by their names. *)
RemainderWords == {"Savings", "From savings"}

(* The names reportSankey itself gives to nodes. *)
NodeWords == RemainderWords \cup {"Income", "Other", "Uncategorized",
                                 "Uncategorized income", "Uncategorized spending"}

NamesOf(totals) == {row.name : row \in totals}

SankeyTellsNetIn(d) ==
  \A u \in User, range \in Ranges :
    LET summary == ReportSummary(d, u, range[1], range[2])
        totals == CategoryTotals(d, u, range[1], range[2])
    IN NamesOf(totals) \cap RemainderWords = {} =>
         \A links \in Sankeys(d, u, range[1], range[2]) :
           Carried(links, "Income", "Savings") - Carried(links, "From savings", "Income")
             = summary.income - summary.expense - Refunded(totals) + PaidBack(totals)

(* The end of a link that is not the middle of the diagram. *)
Outer(link) == IF link.source = "Income" THEN link.target ELSE link.source

NodesOf(row) ==
  {NodeName(row.name, "Uncategorized income"), NodeName(row.name, "Uncategorized spending")}

(* A node that reportSankey names itself, or that another category shares. *)
Taken(node, row, named) ==
  node \in NodeWords \/ \E other \in named \ {row} : other.name = row.name

Layered(links, named) ==
  /\ \A k \in DOMAIN links :
       /\ links[k].value > 0
       /\ "Income" \in {links[k].source, links[k].target}
       /\ Outer(links[k]) = "Income" => "Income" \in NamesOf(named)
  /\ \A j, k \in DOMAIN links :
       LET node == Outer(links[j])
       IN j # k /\ Outer(links[k]) = node =>
            \E row \in named : node \in NodesOf(row) /\ Taken(node, row, named)

SankeyLayeredIn(d) ==
  \A u \in User, range \in Ranges :
    LET named == {row \in CategoryTotals(d, u, range[1], range[2]) : row.category # NULL}
    IN \A links \in Sankeys(d, u, range[1], range[2]) : Layered(links, named)

ContributionsAddUpIn(d) ==
  \A u \in User, type \in Registered :
    AmountOf({t \in d.transactions : t.owner = u /\ TypeOf(d, t.account) = type})
      = SumFunction([year \in {YearOf[t.date] : t \in d.transactions} |->
                       Contributions(d, u, type, year).contributed
                         - Contributions(d, u, type, year).withdrawn])

NetWorthMatchesAccountsIn(d) ==
  \A u \in User, range \in Ranges :
    LET last == MonthOf[range[2]]
        open == {row \in ListAccounts(d, u) : ~row.account.archived}
        worth == {row \in NetWorth(d, u, range[1], range[2]) : row.month = last}
    IN (\A s \in d.snapshots : MonthOf[s.asOf] <= last) =>
         \A type \in InvestmentTypes :
           SumFunction([row \in {x \in worth : x.type = type} |-> row.total])
             = SumFunction([row \in {x \in open : x.account.type = type} |-> row.balance])

UncategorizedListedIn(d) ==
  \A u \in User, range \in Ranges :
    ReportSummary(d, u, range[1], range[2]).uncategorized
      = Cardinality(Matching(d, u, [NoFilter EXCEPT !.from = range[1], !.to = range[2],
                                                    !.uncategorized = TRUE]))

-----------------------------------------------------------------------------
(* What a user's reports show. *)
Figures(d, u) ==
  [range \in Ranges |->
     [summary |-> ReportSummary(d, u, range[1], range[2]),
      totals |-> CategoryTotals(d, u, range[1], range[2]),
      trends |-> Trends(d, u, range[1], range[2])]]

Standing(d, u) ==
  [accounts |-> ListAccounts(d, u),
   worth |-> [range \in Ranges |-> NetWorth(d, u, range[1], range[2])],
   room |-> [type \in Registered |->
               [year \in {YearOf[date] : date \in Date} |-> Contributions(d, u, type, year)]]]

Rows(d, u) ==
  [table \in DOMAIN d |-> {row \in d[table] : row.owner = u}]

(* The user's accounts that are summed, taken together. *)
Cash(d, u) ==
  LET summed == {row \in ListAccounts(d, u) : row.account.type \notin InvestmentTypes}
  IN SumFunction([row \in summed |-> row.balance])
=============================================================================
