---------------------------- MODULE ReadersProofs ----------------------------
(***************************************************************************)
(* Proofs about Readers: for any sessions of writes that keep the books    *)
(* consistent, the reports agree in every state, no report of a user is    *)
(* touched by another user's doing or by a transfer, and the pages of a    *)
(* list show all of it.                                                    *)
(*                                                                         *)
(* What a report says of one database is in ReportsProofs.  Here the books *)
(* of every state are the session's after so many writes, and what is      *)
(* remembered was computed from such books.                                *)
(***************************************************************************)
EXTENDS Readers, ReportsProofs

-----------------------------------------------------------------------------
(* The books of a session, one write after the other. *)

LEMMA BooksExist ==
  ASSUME NEW s \in Sessions
  PROVE  \E f : f = [n \in 0..Len(s.writes) |->
                       IF n = 0 THEN s.db ELSE Effect(f[n - 1], s.writes[n])]
<1> DEFINE L == Len(s.writes)
           Step(f, n) == IF n = 0 THEN s.db ELSE Effect(f[n - 1], s.writes[n])
           Bad == {k \in 0..L : ~\E f : f = [n \in 0..k |-> Step(f, n)]}
<1>1. L \in Nat
  BY ReadersAssumption
<1> HIDE DEF L
<1>2. Bad = {}
  <2> SUFFICES ASSUME Bad # {} PROVE FALSE
    OBVIOUS
  <2>1. Bad \subseteq Nat
    BY <1>1
  <2> HIDE DEF Bad
  <2>2. PICK k \in Bad : \A i \in Bad : k <= i
    BY <2>1, Least
  <2>3. k \in 0..L /\ ~\E f : f = [n \in 0..k |-> Step(f, n)]
    BY <2>2 DEF Bad
  <2>4. k # 0
    <3> SUFFICES ASSUME k = 0 PROVE FALSE
      OBVIOUS
    <3> DEFINE f == [n \in 0..0 |-> s.db]
    <3>1. f = [n \in 0..0 |-> Step(f, n)]
      OBVIOUS
    <3> QED
      BY <2>3, <3>1
  <2>5. k - 1 \in 0..L /\ k - 1 \notin Bad
    BY <1>1, <2>1, <2>2, <2>3, <2>4
  <2>6. PICK f : f = [n \in 0..(k - 1) |-> Step(f, n)]
    BY <2>5 DEF Bad
  <2> DEFINE g == [n \in 0..k |-> IF n = k THEN Effect(f[k - 1], s.writes[k]) ELSE f[n]]
  <2>7. g = [n \in 0..k |-> Step(g, n)]
    <3> SUFFICES ASSUME NEW n \in 0..k PROVE g[n] = Step(g, n)
      OBVIOUS
    <3>1. CASE n = 0
      <4>1. n # k /\ n \in 0..(k - 1)
        BY <1>1, <2>3, <2>4, <3>1
      <4>2. g[n] = f[n] /\ f[n] = s.db
        BY <2>6, <3>1, <4>1
      <4> QED
        BY <3>1, <4>2
    <3>2. CASE n # 0 /\ n # k
      <4>1. n \in 0..(k - 1) /\ n - 1 \in 0..k /\ n - 1 # k
        BY <1>1, <2>3, <3>2
      <4>2. g[n] = f[n] /\ g[n - 1] = f[n - 1]
        BY <3>2, <4>1
      <4>3. f[n] = Effect(f[n - 1], s.writes[n])
        BY <2>6, <3>2, <4>1
      <4> QED
        BY <3>2, <4>2, <4>3
    <3>3. CASE n = k
      <4>1. k - 1 \in 0..k /\ k - 1 # k
        BY <1>1, <2>3, <2>4
      <4>2. g[n] = Effect(f[k - 1], s.writes[k]) /\ g[k - 1] = f[k - 1]
        BY <3>3, <4>1
      <4> QED
        BY <2>4, <3>3, <4>2
    <3> QED
      BY <3>1, <3>2, <3>3
  <2> QED
    BY <2>3, <2>7
<1>3. L \in 0..L /\ L \notin Bad
  BY <1>1, <1>2
<1> QED
  BY <1>3 DEF L

LEMMA BooksAre ==
  ASSUME NEW s \in Sessions
  PROVE  /\ Books(s)[0] = s.db
         /\ \A n \in Nat : n < Len(s.writes) => Books(s)[n + 1] = Effect(Books(s)[n], s.writes[n + 1])
<1> DEFINE f == Books(s)
<1>1. f = [n \in 0..Len(s.writes) |-> IF n = 0 THEN s.db ELSE Effect(f[n - 1], s.writes[n])]
  <2>1. \E after : after = [n \in 0..Len(s.writes) |->
                              IF n = 0 THEN s.db ELSE Effect(after[n - 1], s.writes[n])]
    BY BooksExist
  <2> QED
    BY <2>1, Zenon DEF Books
<1>2. Len(s.writes) \in Nat
  BY ReadersAssumption
<1> HIDE DEF f
<1>3. f[0] = s.db
  BY <1>1, <1>2
<1>4. ASSUME NEW n \in Nat, n < Len(s.writes)
      PROVE  f[n + 1] = Effect(f[n], s.writes[n + 1])
  <2>1. n + 1 \in 0..Len(s.writes) /\ n + 1 # 0 /\ (n + 1) - 1 = n
    BY <1>2, <1>4
  <2> QED
    BY <1>1, <2>1
<1> QED
  BY <1>3, <1>4 DEF f
-----------------------------------------------------------------------------
(* What holds in every state: the types, and that the books are the ones    *)
(* the session comes to after so many of its writes.                         *)
Inv == TypeOK /\ session \in Sessions /\ db = Books(session)[written]


LEMMA Typed ==
  ASSUME NEW s \in Sessions
  PROVE  /\ s.writes \in Seq(Statement) /\ Len(s.writes) \in Nat
         /\ \A n \in 1..Len(s.writes) : s.writes[n] \in Statement
         /\ \A n \in 0..Len(s.writes) : Consistent(Books(s)[n]) /\ Books(s)[n] \in Database
         /\ s.tiles \subseteq Tile /\ s.filters \subseteq Filter
         /\ s.pages \in Nat /\ s.calls \in Nat
BY ReadersAssumption DEF Consistent

LEMMA InvInit == Init => Inv
<1> SUFFICES ASSUME Init PROVE Inv
  OBVIOUS
<1>1. session \in Sessions /\ db = Books(session)[written] /\ written = 0
  BY BooksAre DEF Init
<1>2. db \in Database /\ 0 \in 0..Len(session.writes) /\ 0 \in 0..session.calls /\ 0 \in 0..session.pages
  BY <1>1, Typed
<1>3. room = {} /\ asked = 0 /\ session.tiles \subseteq Tile
      /\ \E filter \in session.filters : view = [filter |-> filter, page |-> 0]
  BY <1>1, Typed DEF Init
<1>4. calls = [ask \in Asks |-> NULL] /\ cache = [ask \in Asks |-> NULL]
  BY DEF Init
<1>5. view \in [filter : session.filters, page : 0..session.pages]
  BY <1>2, <1>3
<1> QED
  BY <1>1, <1>2, <1>3, <1>4, <1>5 DEF Inv, TypeOK

LEMMA WriteKeeps ==
  ASSUME Inv, Write
  PROVE  db' = Books(session)[written + 1] /\ written + 1 \in 0..Len(session.writes)
<1>1. written \in Nat /\ written < Len(session.writes) /\ Len(session.writes) \in Nat /\ session \in Sessions
  BY Typed DEF Inv, TypeOK, Write
<1>2. Books(session)[written + 1] = Effect(Books(session)[written], session.writes[written + 1])
  BY <1>1, BooksAre
<1>3. db' = Effect(Books(session)[written], session.writes[written + 1])
  BY DEF Inv, Write, Due
<1> QED
  BY <1>1, <1>2, <1>3

LEMMA RoomIs ==
  ASSUME NEW w \in Statement, w.op = "room"
  PROVE  w.row \in RoomRow /\ \A d : Effect(d, w) = d
<1>1. w.row \in RoomRow
  BY DEF Statement
<1>2. ASSUME NEW d PROVE Effect(d, w) = d
  BY DEF Effect
<1> QED
  BY <1>1, <1>2

LEMMA RoomKept ==
  ASSUME Inv, PutRoom
  PROVE  /\ db = Books(session)[written + 1] /\ written + 1 \in 0..Len(session.writes)
         /\ room' \subseteq Room
         /\ \A r, other \in room' :
              r # other => <<r.owner, r.type, r.year>> # <<other.owner, other.type, other.year>>
<1>1. written \in Nat /\ written < Len(session.writes) /\ Len(session.writes) \in Nat /\ session \in Sessions
  BY Typed DEF Inv, TypeOK, PutRoom
<1>2. Books(session)[written + 1] = Effect(Books(session)[written], session.writes[written + 1])
  BY <1>1, BooksAre
<1>3. Due \in Statement /\ Due.op = "room"
  <2>1. written + 1 \in 1..Len(session.writes)
    BY <1>1
  <2> QED
    BY <1>1, <2>1, Typed DEF Due, PutRoom
<1>4. Due.row \in RoomRow /\ Effect(db, Due) = db
  BY <1>3, RoomIs
<1>5. db = Books(session)[written + 1] /\ written + 1 \in 0..Len(session.writes)
  BY <1>1, <1>2, <1>4 DEF Inv, Due
<1>6. CASE Due.row.type \in Registered /\ Due.row.cents >= 0
  <2>1. Due.row \in Room
    BY <1>4, <1>6 DEF RoomRow, Room
  <2>2. room' = UpsertRoom(Due.row) /\ room \subseteq Room
        /\ \A r, other \in room :
             r # other => <<r.owner, r.type, r.year>> # <<other.owner, other.type, other.year>>
    BY <1>6 DEF PutRoom, Inv, TypeOK
  <2> QED
    BY <1>5, <2>1, <2>2 DEF UpsertRoom
<1>7. CASE ~(Due.row.type \in Registered /\ Due.row.cents >= 0)
  BY <1>5, <1>7 DEF PutRoom, Inv, TypeOK
<1> QED
  BY <1>6, <1>7

LEMMA InvNext == Inv /\ [Next]_vars => Inv'
<1> SUFFICES ASSUME Inv, [Next]_vars PROVE Inv'
  OBVIOUS
<1>0. session \in Sessions /\ written \in Nat /\ written <= Len(session.writes) /\ Len(session.writes) \in Nat
  BY Typed DEF Inv, TypeOK
<1>1. CASE Write
  <2>1. db' = Books(session)[written + 1] /\ written + 1 \in 0..Len(session.writes)
        /\ written' = written + 1
    BY <1>1, WriteKeeps DEF Write
  <2>2. db' \in Database
    BY <1>0, <2>1, Typed
  <2>3. UNCHANGED <<session, room, calls, cache, asked, view, Asks>>
    BY <1>1 DEF Write, Asks
  <2>4. \A n \in 0..written : n \in 0..written'
    BY <1>0, <2>1
  <2> QED
    BY <2>1, <2>2, <2>3, <2>4 DEF Inv, TypeOK
<1>2. CASE PutRoom
  <2>1. /\ db' = db /\ db = Books(session)[written + 1] /\ written + 1 \in 0..Len(session.writes)
        /\ written' = written + 1 /\ room' \subseteq Room
        /\ \A r, other \in room' :
             r # other => <<r.owner, r.type, r.year>> # <<other.owner, other.type, other.year>>
    BY <1>2, RoomKept DEF PutRoom
  <2>2. UNCHANGED <<session, calls, cache, asked, view, Asks>>
    BY <1>2 DEF PutRoom, Asks
  <2>3. \A n \in 0..written : n \in 0..written'
    BY <1>0, <2>1
  <2> QED
    BY <2>1, <2>2, <2>3 DEF Inv, TypeOK
<1>3. ASSUME NEW ask \in Asks, Fetch(ask)
      PROVE  Inv'
  <2>1. PICK rows : calls' = [calls EXCEPT ![ask] = [rows |-> rows, at |-> written]]
    BY <1>3 DEF Fetch
  <2>2. UNCHANGED <<session, db, room, written, cache, view, Asks>>
    BY <1>3 DEF Fetch, Asks
  <2>3. asked' \in 0..session.calls
    BY <1>0, <1>3, Typed DEF Fetch, Inv, TypeOK
  <2>4. DOMAIN calls' = Asks
        /\ \A q \in Asks : calls'[q] # NULL => calls'[q].at \in 0..written
    BY <1>0, <2>1 DEF Inv, TypeOK
  <2> QED
    BY <2>2, <2>3, <2>4 DEF Inv, TypeOK
<1>4. ASSUME NEW ask \in Asks, Answer(ask)
      PROVE  Inv'
  <2>1. PICK body : cache' = [cache EXCEPT ![ask] =
                                [body |-> body, first |-> calls[ask].at, second |-> written]]
    BY <1>4 DEF Answer
  <2>2. UNCHANGED <<session, db, room, written, asked, view, Asks>>
    BY <1>4 DEF Answer, Asks
  <2>3. DOMAIN calls' = Asks
        /\ \A q \in Asks : calls'[q] # NULL => calls'[q].at \in 0..written
    BY <1>4 DEF Answer, Inv, TypeOK
  <2>4. calls[ask].at \in 0..written
    BY <1>4 DEF Answer, Inv, TypeOK
  <2>5. DOMAIN cache' = Asks
        /\ \A q \in Asks : cache'[q] # NULL =>
             cache'[q].second \in 0..written /\ cache'[q].first \in 0..cache'[q].second
    BY <1>0, <2>1, <2>4 DEF Inv, TypeOK
  <2> QED
    BY <2>2, <2>3, <2>5 DEF Inv, TypeOK
<1>5. ASSUME NEW ask \in Asks, Fail(ask)
      PROVE  Inv'
  <2>1. UNCHANGED <<session, db, room, written, cache, asked, view, Asks>>
    BY <1>5 DEF Fail, Asks
  <2>2. DOMAIN calls' = Asks
        /\ \A q \in Asks : calls'[q] # NULL => calls'[q].at \in 0..written
    BY <1>5 DEF Fail, Inv, TypeOK
  <2> QED
    BY <2>1, <2>2 DEF Inv, TypeOK
<1>6. ASSUME NEW page \in 0..session.pages, Turn(page)
      PROVE  Inv'
  <2>1. UNCHANGED <<session, db, room, written, calls, cache, asked, Asks>>
    BY <1>6 DEF Turn, Asks
  <2>2. view' \in [filter : session.filters, page : 0..session.pages]
    BY <1>6 DEF Turn, Inv, TypeOK
  <2> QED
    BY <2>1, <2>2 DEF Inv, TypeOK
<1>7. ASSUME NEW filter \in session.filters, SetFilter(filter)
      PROVE  Inv'
  <2>1. UNCHANGED <<session, db, room, written, calls, cache, asked, Asks>>
    BY <1>7 DEF SetFilter, Asks
  <2>2. view' \in [filter : session.filters, page : 0..session.pages]
    BY <1>0, <1>7, Typed DEF SetFilter
  <2> QED
    BY <2>1, <2>2 DEF Inv, TypeOK
<1>8. CASE UNCHANGED vars
  BY <1>8 DEF vars, Inv, TypeOK, Asks
<1> QED
  BY <1>1, <1>2, <1>3, <1>4, <1>5, <1>6, <1>7, <1>8 DEF Next

LEMMA Invariance == Spec => []Inv
BY InvInit, InvNext, PTL DEF Spec

LEMMA InvConsistent ==
  ASSUME Inv
  PROVE  Consistent(db)
BY Typed DEF Inv, TypeOK

-----------------------------------------------------------------------------
(* Every variable keeps its type, the room of a year is one row per type of *)
(* account, and what is remembered is never from books still to come.       *)
THEOREM TypeCorrect == Spec => []TypeOK
<1>1. Inv => TypeOK
  BY DEF Inv
<1> QED
  BY <1>1, Invariance, PTL

(* What the summary, the categories' totals and the trends tell is one and  *)
(* the same in every state.                                                 *)
THEOREM ReportsAlwaysAgree == Spec => []ReportsAgree
<1>1. Inv => ReportsAgree
  BY InvConsistent, StatementsAgree DEF ReportsAgree
<1> QED
  BY <1>1, Invariance, PTL

(* The remainder of the Sankey is the net of the summary in every state,    *)
(* however the flows are sorted and folded.                                 *)
THEOREM SankeyAlwaysTellsNet == Spec => []SankeyTellsNet
<1>1. Inv => SankeyTellsNet
  BY InvConsistent, SankeyDoesTellNet DEF SankeyTellsNet
<1> QED
  BY <1>1, Invariance, PTL

(* Every link of the Sankey lies on one side of Income, and two share a     *)
(* node only where a category has the name of another, or a word of         *)
(* reportSankey's.                                                          *)
THEOREM SankeyStaysLayered == Spec => []SankeyLayered
<1>1. Inv => SankeyLayered
  BY InvConsistent, SankeyIsLayered DEF SankeyLayered
<1> QED
  BY <1>1, Invariance, PTL

(* Net contributions are what the rows on the accounts of a type add up to, *)
(* whatever was moved, retyped, closed or erased.                           *)
THEOREM ContributionsAlwaysAddUp == Spec => []ContributionsAddUp
<1>1. Inv => ContributionsAddUp
  BY InvConsistent, ContributionsDoAddUp DEF ContributionsAddUp
<1> QED
  BY <1>1, Invariance, PTL

(* Net worth and the list of accounts agree on what is measured.            *)
THEOREM NetWorthAlwaysMatches == Spec => []NetWorthMatchesAccounts
<1>1. Inv => NetWorthMatchesAccounts
  BY InvConsistent, NetWorthDoesMatch DEF NetWorthMatchesAccounts
<1> QED
  BY <1>1, Invariance, PTL

(* The uncategorized rows that are counted are those that are listed.       *)
THEOREM UncategorizedAlwaysListed == Spec => []UncategorizedListed
<1>1. Inv => UncategorizedListed
  BY InvConsistent, UncategorizedAreListed DEF UncategorizedListed
<1> QED
  BY <1>1, Invariance, PTL
-----------------------------------------------------------------------------
(* Another user's doing shows in no report of a user: not in the flows, not  *)
(* in the balances and the net worth, not in the contributions.             *)
THEOREM ReportsStayPrivate == Spec => ReportsPrivate
<1> DEFINE Private ==
             \A u \in User : Rows(db, u)' = Rows(db, u) =>
               Figures(db, u)' = Figures(db, u) /\ Standing(db, u)' = Standing(db, u)
<1>1. Inv /\ Inv' => Private
  <2> SUFFICES ASSUME Inv, Inv', NEW u \in User, Rows(db', u) = Rows(db, u)
               PROVE  Figures(db', u) = Figures(db, u) /\ Standing(db', u) = Standing(db, u)
    OBVIOUS
  <2>1. Consistent(db)
    BY InvConsistent
  <2>2. Consistent(db')
    BY Typed DEF Inv, TypeOK
  <2> QED
    BY <2>1, <2>2, FiguresPrivate, StandingPrivate
<1>2. Inv /\ Inv' => [Private]_db
  BY <1>1
<1> QED
  BY <1>2, Invariance, PTL DEF ReportsPrivate

(* A step that only makes or erases transfer legs changes no report of      *)
(* flows, and with both legs on accounts that are summed not their total.   *)
THEOREM TransfersStayNeutral == Spec => TransferNeutral
<1> DEFINE Neutral ==
             \A u \in User :
               /\ \A table \in DOMAIN db \ {"transactions"} : db'[table] = db[table]
               /\ Grows \/ Shrinks
               /\ \A t \in Moved : t.group # NULL
               => /\ Figures(db, u)' = Figures(db, u)
                  /\ (\A t \in Moved :
                        /\ TypeOf(db, t.account) \notin InvestmentTypes
                        /\ \E leg \in Moved : leg # t /\ leg.group = t.group)
                     => Cash(db, u)' = Cash(db, u)
<1>1. Inv /\ Inv' => Neutral
  <2> SUFFICES ASSUME Inv, Inv', NEW u \in User,
                      \A table \in DOMAIN db \ {"transactions"} : db'[table] = db[table],
                      Grows \/ Shrinks,
                      \A t \in Moved : t.group # NULL
               PROVE  /\ Figures(db', u) = Figures(db, u)
                      /\ (\A t \in Moved :
                            /\ TypeOf(db, t.account) \notin InvestmentTypes
                            /\ \E leg \in Moved : leg # t /\ leg.group = t.group)
                         => Cash(db', u) = Cash(db, u)
    OBVIOUS
  <2>1. Consistent(db)
    BY InvConsistent
  <2>2. Consistent(db')
    BY Typed DEF Inv, TypeOK
  <2>3. db'.categories = db.categories /\ db'.accounts = db.accounts
    BY <2>1, Tables
  <2>4. Moved = SymDiff(db.transactions, db'.transactions)
    BY DEF Moved
  <2>5. Figures(db', u) = Figures(db, u)
    BY <2>3, <2>4, FlowsNeutral
  <2>6. ASSUME \A t \in Moved :
                 /\ TypeOf(db, t.account) \notin InvestmentTypes
                 /\ \E leg \in Moved : leg # t /\ leg.group = t.group
        PROVE  Cash(db', u) = Cash(db, u)
    <3>0. \A t \in Moved : TypeOf(db', t.account) = TypeOf(db, t.account)
      BY <2>3 DEF TypeOf
    <3>1. CASE Grows
      <4>1. db.transactions \subseteq db'.transactions /\ Moved = db'.transactions \ db.transactions
        BY <2>4, <3>1 DEF Grows, SymDiff
      <4>2. \A t \in db'.transactions \ db.transactions :
              /\ t.group # NULL /\ TypeOf(db', t.account) \notin InvestmentTypes
              /\ \E leg \in db'.transactions \ db.transactions : leg # t /\ leg.group = t.group
        BY <2>6, <3>0, <4>1
      <4> QED
        BY <2>1, <2>2, <2>3, <4>1, <4>2, CashNeutral
    <3>2. CASE Shrinks
      <4>1. db'.transactions \subseteq db.transactions /\ Moved = db.transactions \ db'.transactions
        BY <2>4, <3>2 DEF Shrinks, SymDiff
      <4>2. \A t \in db.transactions \ db'.transactions :
              /\ t.group # NULL /\ TypeOf(db, t.account) \notin InvestmentTypes
              /\ \E leg \in db.transactions \ db'.transactions : leg # t /\ leg.group = t.group
        BY <2>6, <4>1
      <4>3. db.accounts = db'.accounts
        BY <2>3
      <4> QED
        BY <2>1, <2>2, <4>1, <4>2, <4>3, CashNeutral
    <3> QED
      BY <3>1, <3>2
  <2> QED
    BY <2>5, <2>6
<1>2. Inv /\ Inv' => [Neutral]_db
  BY <1>1
<1> QED
  BY <1>2, Invariance, PTL DEF TransferNeutral
-----------------------------------------------------------------------------
(* LIMIT and OFFSET. *)

LEMMA PagesAre ==
  ASSUME NEW F, IsFiniteSet(F), NEW n \in Nat \ {0}, NEW k \in Nat, NEW page \in Pages(F, n, k)
  PROVE  LET N == Cardinality(F)
             size == Cardinality(page)
         IN /\ N \in Nat /\ size \in Nat /\ page \subseteq F
            /\ N <= k => size = 0
            /\ N > k => size > 0 /\ (size = N - k \/ size = n) /\ size <= n /\ size <= N - k
            /\ \A t \in page :
                 /\ Cardinality({x \in F : x.date > t.date} \ page) <= k
                 /\ Cardinality({x \in F : x.date < t.date} \ page) <= N - k - size
<1> DEFINE N == Cardinality(F)
           size == IF N <= k THEN 0 ELSE IF N < k + n THEN N - k ELSE n
<1>1. N \in Nat
  BY FS_CardinalityType
<1>2. page \in kSubset(size, F)
  BY DEF Pages
<1>3. \A t \in page : /\ Cardinality({x \in F : x.date > t.date} \ page) <= k
                      /\ Cardinality({x \in F : x.date < t.date} \ page) <= N - k - size
  BY DEF Pages
<1> HIDE DEF N
<1>4. size \in Nat
  BY <1>1
<1>5. /\ N <= k => size = 0
      /\ N > k => size > 0 /\ (size = N - k \/ size = n) /\ size <= n /\ size <= N - k
  BY <1>1
<1> HIDE DEF size
<1>6. page \subseteq F /\ Cardinality(page) = size
  BY <1>2 DEF kSubset
<1> QED
  BY <1>1, <1>3, <1>4, <1>5, <1>6 DEF N

(* Where no two rows tie, a row is on the page its rank falls on. *)
LEMMA RowOnPage ==
  ASSUME NEW F, IsFiniteSet(F), \A x \in F : x.date \in Nat,
         \A x, y \in F : x.date = y.date => x = y,
         NEW n \in Nat \ {0}, NEW k \in Nat, NEW page \in Pages(F, n, k), NEW t \in F,
         Cardinality({x \in F : x.date > t.date}) >= k,
         Cardinality({x \in F : x.date > t.date}) < k + n
  PROVE  t \in page
<1> SUFFICES ASSUME t \notin page PROVE FALSE
  OBVIOUS
<1> DEFINE N == Cardinality(F)
           size == Cardinality(page)
           up == {x \in F : x.date > t.date}
           down == {x \in F : x.date < t.date}
           A == up \cap page
           B == down \cap page
           r == Cardinality(up)
           o == Cardinality(down)
           a == Cardinality(A)
           b == Cardinality(B)
<1>1. /\ N \in Nat /\ size \in Nat /\ page \subseteq F
      /\ N <= k => size = 0
      /\ N > k => size > 0 /\ (size = N - k \/ size = n) /\ size <= n /\ size <= N - k
      /\ \A y \in page :
           /\ Cardinality({x \in F : x.date > y.date} \ page) <= k
           /\ Cardinality({x \in F : x.date < y.date} \ page) <= N - k - size
  BY PagesAre
<1>2. r >= k /\ r < k + n
  OBVIOUS
<1>3. /\ F = (up \cup down) \cup {t} /\ up \cap down = {} /\ t \notin up \cup down
      /\ page = A \cup B /\ A \cap B = {}
      /\ \A x \in up : x.date > t.date
      /\ \A x \in down : x.date < t.date
      /\ up \subseteq F /\ down \subseteq F
  <2>1. \A x \in F : x.date > t.date \/ x.date < t.date \/ x = t
    OBVIOUS
  <2>2. \A x \in F : ~(x.date > t.date /\ x.date < t.date)
    OBVIOUS
  <2> QED
    BY <1>1, <2>1, <2>2
<1>4. IsFiniteSet(up) /\ IsFiniteSet(down) /\ IsFiniteSet(A) /\ IsFiniteSet(B) /\ IsFiniteSet(page)
  BY <1>1, FS_Subset
<1> HIDE DEF up, down, A, B
<1>5. r \in Nat /\ o \in Nat /\ a \in Nat /\ b \in Nat
  BY <1>4, FS_CardinalityType
<1>6. N = r + o + 1
  <2>1. IsFiniteSet(up \cup down) /\ Cardinality(up \cup down) = r + o - Cardinality(up \cap down)
    BY <1>4, FS_Union
  <2>2. Cardinality(up \cap down) = 0
    BY <1>3, FS_EmptySet
  <2>3. Cardinality((up \cup down) \cup {t}) = Cardinality(up \cup down) + 1
    BY <1>3, <2>1, FS_AddElement
  <2>4. N = Cardinality((up \cup down) \cup {t})
    BY <1>3
  <2> HIDE DEF N, r, o
  <2> QED
    BY <1>5, <2>1, <2>2, <2>3, <2>4
<1>7. size = a + b
  <2>1. Cardinality(A \cup B) = a + b - Cardinality(A \cap B)
    BY <1>4, FS_Union
  <2>2. Cardinality(A \cap B) = 0
    BY <1>3, FS_EmptySet
  <2>3. size = Cardinality(A \cup B)
    BY <1>3
  <2> HIDE DEF size, a, b
  <2> QED
    BY <1>5, <2>1, <2>2, <2>3
<1>8. ASSUME NEW y \in A
      PROVE  (o + 1) - b <= N - k - size
  <2> DEFINE D == {x \in F : x.date < y.date} \ page
             S == (down \ page) \cup {t}
  <2>1. y \in F /\ y \in page /\ y.date > t.date
    BY <1>1, <1>3 DEF A
  <2>2. S \subseteq D
    <3>1. t \in D
      BY <2>1
    <3>2. ASSUME NEW x \in down \ page PROVE x \in D
      <4>1. x \in F /\ x.date < t.date /\ x.date \in Nat /\ t.date \in Nat /\ y.date \in Nat
        BY <1>3, <2>1
      <4> QED
        BY <2>1, <4>1
    <3> QED
      BY <3>1, <3>2
  <2>3. IsFiniteSet(D) /\ IsFiniteSet(down \ page)
    BY <1>4, FS_Subset
  <2>4. Cardinality(D) <= N - k - size
    BY <1>1, <2>1
  <2>5. Cardinality(down \ page) = o - b
    <3>1. Cardinality(down \ page) = Cardinality(down) - Cardinality(down \cap page)
      BY <1>4, FS_Difference
    <3> QED
      BY <3>1 DEF B
  <2>6. Cardinality(S) = Cardinality(down \ page) + 1
    BY <1>3, <2>3, FS_AddElement
  <2>7. Cardinality(S) <= Cardinality(D) /\ Cardinality(S) \in Nat /\ Cardinality(D) \in Nat
    <3> HIDE DEF S, D
    <3> QED BY <2>2, <2>3, FS_Subset, FS_CardinalityType
  <2> HIDE DEF D, S, N, size, o, b
  <2> QED
    BY <1>1, <1>5, <2>4, <2>5, <2>6, <2>7
<1>9. ASSUME NEW y \in B
      PROVE  (r + 1) - a <= k
  <2> DEFINE D == {x \in F : x.date > y.date} \ page
             S == (up \ page) \cup {t}
  <2>1. y \in F /\ y \in page /\ y.date < t.date
    BY <1>1, <1>3 DEF B
  <2>2. S \subseteq D
    <3>1. t \in D
      BY <2>1
    <3>2. ASSUME NEW x \in up \ page PROVE x \in D
      <4>1. x \in F /\ x.date > t.date /\ x.date \in Nat /\ t.date \in Nat /\ y.date \in Nat
        BY <1>3, <2>1
      <4> QED
        BY <2>1, <4>1
    <3> QED
      BY <3>1, <3>2
  <2>3. IsFiniteSet(D) /\ IsFiniteSet(up \ page)
    BY <1>4, FS_Subset
  <2>4. Cardinality(D) <= k
    BY <1>1, <2>1
  <2>5. Cardinality(up \ page) = r - a
    <3>1. Cardinality(up \ page) = Cardinality(up) - Cardinality(up \cap page)
      BY <1>4, FS_Difference
    <3> QED
      BY <3>1 DEF A
  <2>6. Cardinality(S) = Cardinality(up \ page) + 1
    BY <1>3, <2>3, FS_AddElement
  <2>7. Cardinality(S) <= Cardinality(D) /\ Cardinality(S) \in Nat /\ Cardinality(D) \in Nat
    <3> HIDE DEF S, D
    <3> QED BY <2>2, <2>3, FS_Subset, FS_CardinalityType
  <2> HIDE DEF D, S, r, a
  <2> QED
    BY <1>1, <1>5, <2>4, <2>5, <2>6, <2>7
<1>10. (A = {} => a = 0) /\ (B = {} => b = 0)
  BY FS_EmptySet
<1> HIDE DEF N, size, r, o, a, b
<1>11. r >= k + a
  <2>1. CASE A = {}
    BY <1>2, <1>5, <1>10, <2>1
  <2>2. CASE A # {}
    <3>1. (o + 1) - b <= N - k - size
      BY <1>8, <2>2
    <3> QED
      BY <1>1, <1>5, <1>6, <1>7, <3>1
  <2> QED
    BY <2>1, <2>2
<1>12. r < k + a
  <2>1. CASE B = {}
    <3>1. b = 0 /\ size = a
      BY <1>5, <1>7, <1>10, <2>1
    <3>2. N > k
      BY <1>2, <1>5, <1>6
    <3> QED
      BY <1>1, <1>2, <1>5, <1>6, <3>1, <3>2
  <2>2. CASE B # {}
    <3>1. (r + 1) - a <= k
      BY <1>9, <2>2
    <3> QED
      BY <1>5, <3>1
  <2> QED
    BY <2>1, <2>2
<1> QED
  BY <1>5, <1>11, <1>12
-----------------------------------------------------------------------------
(* Arithmetic of pages. *)

LEMMA Quotient ==
  ASSUME NEW a \in Nat, NEW s \in Nat \ {0}
  PROVE  a \div s \in Nat /\ (a \div s) * s <= a /\ a < (a \div s) * s + s
OBVIOUS

LEMMA Times ==
  ASSUME NEW a \in Nat, NEW b \in Nat, NEW s \in Nat, a <= b
  PROVE  a * s \in Nat /\ b * s \in Nat /\ a * s <= b * s
OBVIOUS

LEMMA TimesOneMore ==
  ASSUME NEW a \in Nat, NEW s \in Nat
  PROVE  (a + 1) * s = a * s + s
OBVIOUS

(* Beyond a page there are rows where its number is below the last one's. *)
LEMMA PagesHold ==
  ASSUME NEW total \in Nat, NEW page \in Nat
  PROVE  total > 0 => (page + 1 < TotalPages(total) <=> total > (page + 1) * PageSize)
<1> DEFINE s == PageSize
           q == (total + s - 1) \div s
<1> SUFFICES ASSUME total > 0 PROVE page + 1 < TotalPages(total) <=> total > (page + 1) * s
  OBVIOUS
<1>1. s \in Nat \ {0}
  BY ReadersAssumption
<1>2. TotalPages(total) = q
  BY DEF TotalPages
<1> HIDE DEF s
<1>3. total + s - 1 \in Nat
  BY <1>1
<1>4. q \in Nat /\ q * s <= total + s - 1 /\ total + s - 1 < q * s + s
  BY <1>1, <1>3, Quotient
<1> HIDE DEF q
<1>5. CASE page + 1 < q
  <2>1. (page + 2) * s <= q * s /\ (page + 2) * s \in Nat /\ q * s \in Nat
    BY <1>1, <1>4, <1>5, Times
  <2>2. (page + 2) * s = (page + 1) * s + s
    <3>1. ((page + 1) + 1) * s = (page + 1) * s + s /\ (page + 1) + 1 = page + 2
      BY <1>1, TimesOneMore
    <3> QED
      BY <3>1
  <2>3. (page + 1) * s \in Nat
    BY <1>1, Times
  <2>4. (page + 1) * s + s <= total + s - 1
    BY <1>1, <1>4, <2>1, <2>2, <2>3
  <2> QED
    BY <1>1, <1>2, <1>5, <2>3, <2>4
<1>6. CASE ~(page + 1 < q)
  <2>1. q * s <= (page + 1) * s /\ (page + 1) * s \in Nat /\ q * s \in Nat
    BY <1>1, <1>4, <1>6, Times
  <2>2. total <= q * s
    BY <1>1, <1>4, <2>1
  <2> QED
    BY <1>2, <1>6, <2>1, <2>2
<1> QED
  BY <1>5, <1>6

-----------------------------------------------------------------------------
(* What is remembered was computed from the books of its time, and a page    *)
(* beyond the first is opened when there is something on it.                *)

At(s, n, filter) == Found(Books(s)[n], filter)

Reached(s, n, filter, p) ==
  p > 0 => \E i \in 0..n : Cardinality(At(s, i, filter)) > p * PageSize

CallIs(s, call, filter, p) ==
  call # NULL => /\ call.rows \in Pages(At(s, call.at, filter), PageSize, p * PageSize)
                 /\ Reached(s, call.at, filter, p)

AnswerIs(s, answer, filter, p) ==
  answer # NULL =>
    /\ answer.body.rows \in Pages(At(s, answer.first, filter), PageSize, p * PageSize)
    /\ answer.body.total = Cardinality(At(s, answer.second, filter))
    /\ Reached(s, answer.first, filter, p)

Remembered ==
  /\ Reached(session, written, view.filter, view.page)
  /\ \A filter \in session.filters, p \in 0..session.pages :
       /\ CallIs(session, calls[List(filter, p)], filter, p)
       /\ AnswerIs(session, cache[List(filter, p)], filter, p)

LEMMA FoundIs ==
  ASSUME NEW s \in Sessions, NEW n \in 0..Len(s.writes), NEW filter
  PROVE  /\ At(s, n, filter) \subseteq Transaction /\ IsFiniteSet(At(s, n, filter))
         /\ Cardinality(At(s, n, filter)) \in Nat
<1>1. Books(s)[n].transactions \subseteq Transaction /\ IsFiniteSet(Books(s)[n].transactions)
  BY Typed, Tables
<1>2. At(s, n, filter) \in SUBSET Books(s)[n].transactions
  BY DEF At, Found, Matching
<1> HIDE DEF At
<1> QED
  BY <1>1, <1>2, FS_Subset, FS_CardinalityType

LEMMA Lists ==
  ASSUME Inv
  PROVE  /\ \A filter \in session.filters, p \in 0..session.pages : List(filter, p) \in Asks
         /\ \A filter, p : List(filter, p).op = "list" /\ List(filter, p).filter = filter
                           /\ List(filter, p).page = p
         /\ session.pages \in Nat /\ PageSize \in Nat \ {0}
         /\ session \in Sessions /\ written \in 0..Len(session.writes)
         /\ view.filter \in session.filters /\ view.page \in 0..session.pages
         /\ db = Books(session)[written]
<1>1. \A filter \in session.filters, p \in 0..session.pages : List(filter, p) \in Asks
  BY DEF Asks
<1>2. \A filter, p : List(filter, p).op = "list" /\ List(filter, p).filter = filter
                      /\ List(filter, p).page = p
  BY DEF List
<1>3. /\ session \in Sessions /\ written \in 0..Len(session.writes)
      /\ view \in [filter : session.filters, page : 0..session.pages]
      /\ db = Books(session)[written]
  BY DEF Inv, TypeOK
<1> QED
  BY <1>1, <1>2, <1>3, Typed, ReadersAssumption

LEMMA ReachedLater ==
  ASSUME NEW s, NEW n \in Nat, NEW filter, NEW p, Reached(s, n, filter, p)
  PROVE  Reached(s, n + 1, filter, p)
BY DEF Reached

LEMMA RememberedInit == Init /\ Inv => Remembered
<1> SUFFICES ASSUME Init, Inv PROVE Remembered
  OBVIOUS
<1>1. view.page = 0 /\ calls = [ask \in Asks |-> NULL] /\ cache = [ask \in Asks |-> NULL]
  BY DEF Init
<1> QED
  BY <1>1, Lists DEF Remembered, Reached, CallIs, AnswerIs

LEMMA RememberedNext == Inv /\ Remembered /\ [Next]_vars => Remembered'
<1> SUFFICES ASSUME Inv, Remembered, [Next]_vars PROVE Remembered'
  OBVIOUS
<1> USE DEF Remembered
<1>0. /\ \A filter \in session.filters, p \in 0..session.pages : List(filter, p) \in Asks
      /\ \A filter, p : List(filter, p).op = "list" /\ List(filter, p).filter = filter
                        /\ List(filter, p).page = p
      /\ session.pages \in Nat /\ PageSize \in Nat \ {0}
      /\ session \in Sessions /\ written \in 0..Len(session.writes) /\ Len(session.writes) \in Nat
      /\ view.filter \in session.filters /\ view.page \in 0..session.pages
      /\ \A filter : Found(db, filter) = At(session, written, filter)
      /\ DOMAIN calls = Asks /\ DOMAIN cache = Asks
  BY Lists, Typed DEF At, Inv, TypeOK
<1>1. ASSUME UNCHANGED <<session, calls, cache, view>>, written' = written + 1
      PROVE  Remembered'
  <2>1. Reached(session, written + 1, view.filter, view.page)
    BY <1>0, ReachedLater
  <2> QED
    BY <1>1, <2>1
<1>2. ASSUME NEW ask \in Asks, Fetch(ask)
      PROVE  Remembered'
  <2>1. UNCHANGED <<session, written, cache, view>>
    BY <1>2 DEF Fetch
  <2>2. PICK rows \in First(ask) : calls' = [calls EXCEPT ![ask] = [rows |-> rows, at |-> written]]
    BY <1>2 DEF Fetch
  <2>3. ASSUME NEW filter \in session.filters, NEW p \in 0..session.pages, List(filter, p) = ask
        PROVE  CallIs(session, calls'[List(filter, p)], filter, p)
    <3>1. ask.op = "list" /\ ask.filter = filter /\ ask.page = p
      BY <1>0, <2>3
    <3>2. First(ask) = Pages(Found(db, filter), PageSize, p * PageSize)
      BY <3>1 DEF First
    <3>3. ask = List(view.filter, view.page)
      BY <1>2, <3>1 DEF Fetch, OnScreen
    <3>4. filter = view.filter /\ p = view.page
      BY <1>0, <3>1, <3>3
    <3>5. calls'[ask].rows = rows /\ calls'[ask].at = written
      BY <1>0, <2>2
    <3> QED
      BY <1>0, <2>2, <2>3, <3>2, <3>4, <3>5 DEF CallIs
  <2>4. ASSUME NEW filter \in session.filters, NEW p \in 0..session.pages, List(filter, p) # ask
        PROVE  CallIs(session, calls'[List(filter, p)], filter, p)
    <3>1. calls'[List(filter, p)] = calls[List(filter, p)]
      BY <1>0, <2>2, <2>4
    <3> QED
      BY <3>1
  <2> QED
    BY <2>1, <2>3, <2>4
<1>3. ASSUME NEW ask \in Asks, Answer(ask)
      PROVE  Remembered'
  <2>1. UNCHANGED <<session, written, view>> /\ calls[ask] # NULL
        /\ calls' = [calls EXCEPT ![ask] = NULL]
    BY <1>3 DEF Answer
  <2>2. PICK body \in Second(ask, calls[ask].rows) :
          cache' = [cache EXCEPT ![ask] = [body |-> body, first |-> calls[ask].at, second |-> written]]
    BY <1>3 DEF Answer
  <2>3. ASSUME NEW filter \in session.filters, NEW p \in 0..session.pages
        PROVE  CallIs(session, calls'[List(filter, p)], filter, p)
    <3>1. calls'[List(filter, p)] = NULL \/ calls'[List(filter, p)] = calls[List(filter, p)]
      BY <1>0, <2>1
    <3>2. CASE calls'[List(filter, p)] = NULL
      BY <3>2 DEF CallIs
    <3>3. CASE calls'[List(filter, p)] = calls[List(filter, p)]
      BY <3>3
    <3> QED
      BY <3>1, <3>2, <3>3
  <2>4. ASSUME NEW filter \in session.filters, NEW p \in 0..session.pages, List(filter, p) = ask
        PROVE  AnswerIs(session, cache'[List(filter, p)], filter, p)
    <3>1. ask.op = "list" /\ ask.filter = filter /\ ask.page = p
      BY <1>0, <2>4
    <3>2. body = [rows |-> calls[ask].rows, total |-> Cardinality(Found(db, filter))]
      BY <2>2, <3>1 DEF Second
    <3>3. /\ calls[ask].rows \in Pages(At(session, calls[ask].at, filter), PageSize, p * PageSize)
          /\ Reached(session, calls[ask].at, filter, p)
      BY <2>1, <2>4 DEF CallIs
    <3>4. /\ cache'[ask].body.rows = calls[ask].rows /\ cache'[ask].first = calls[ask].at
          /\ cache'[ask].body.total = Cardinality(At(session, written, filter))
          /\ cache'[ask].second = written
      BY <1>0, <2>2, <3>2
    <3> QED
      BY <2>4, <3>3, <3>4 DEF AnswerIs
  <2>5. ASSUME NEW filter \in session.filters, NEW p \in 0..session.pages, List(filter, p) # ask
        PROVE  AnswerIs(session, cache'[List(filter, p)], filter, p)
    <3>1. cache'[List(filter, p)] = cache[List(filter, p)]
      BY <1>0, <2>2, <2>5
    <3> QED
      BY <3>1
  <2> QED
    BY <2>1, <2>3, <2>4, <2>5
<1>4. ASSUME NEW ask \in Asks, Fail(ask)
      PROVE  Remembered'
  <2>1. UNCHANGED <<session, written, cache, view>> /\ calls' = [calls EXCEPT ![ask] = NULL]
    BY <1>4 DEF Fail
  <2>2. ASSUME NEW filter \in session.filters, NEW p \in 0..session.pages
        PROVE  CallIs(session, calls'[List(filter, p)], filter, p)
    <3>1. calls'[List(filter, p)] = NULL \/ calls'[List(filter, p)] = calls[List(filter, p)]
      BY <1>0, <2>1
    <3>2. CASE calls'[List(filter, p)] = NULL
      BY <3>2 DEF CallIs
    <3>3. CASE calls'[List(filter, p)] = calls[List(filter, p)]
      BY <3>3
    <3> QED
      BY <3>1, <3>2, <3>3
  <2> QED
    BY <2>1, <2>2
<1>5. ASSUME NEW page \in 0..session.pages, Turn(page)
      PROVE  Remembered'
  <2>1. UNCHANGED <<session, written, calls, cache>> /\ view' = [view EXCEPT !.page = page]
    BY <1>5 DEF Turn
  <2>2. view'.filter = view.filter /\ view'.page = page
    BY <2>1 DEF Inv, TypeOK
  <2>3. Reached(session, written, view.filter, page)
    <3>0. Data = cache[List(view.filter, view.page)]
      BY DEF Data
    <3>1. CASE page = view.page + 1 /\ NextEnabled
      <4>1. /\ Data # NULL /\ Data.body.total > PageSize
            /\ page < TotalPages(Data.body.total)
        BY <3>1 DEF NextEnabled
      <4>2. /\ Data.body.total = Cardinality(At(session, Data.second, view.filter))
            /\ Data.second \in 0..written /\ Data.second \in 0..Len(session.writes)
        <5>1. AnswerIs(session, Data, view.filter, view.page)
          BY <1>0, <3>0
        <5>2. Data.second \in 0..written
          BY <1>0, <3>0, <4>1 DEF Inv, TypeOK
        <5> QED
          BY <1>0, <4>1, <5>1, <5>2 DEF AnswerIs
      <4>3. Data.body.total \in Nat
        BY <1>0, <4>2, FoundIs
      <4>4. Data.body.total > page * PageSize
        BY <1>0, <3>1, <4>1, <4>3, PagesHold
      <4> QED
        BY <4>2, <4>4 DEF Reached
    <3>2. CASE page = view.page - 1
      <4> SUFFICES ASSUME page > 0 PROVE \E i \in 0..written : Cardinality(At(session, i, view.filter)) > page * PageSize
        BY DEF Reached
      <4>1. PICK i \in 0..written : Cardinality(At(session, i, view.filter)) > view.page * PageSize
        BY <1>0, <3>2 DEF Reached
      <4>2. Cardinality(At(session, i, view.filter)) \in Nat
        BY <1>0, FoundIs
      <4>3. page * PageSize \in Nat /\ view.page * PageSize \in Nat /\ page * PageSize <= view.page * PageSize
        BY <1>0, <3>2, Times
      <4> QED
        BY <4>1, <4>2, <4>3
    <3> QED
      BY <1>5, <3>1, <3>2 DEF Turn
  <2> QED
    BY <2>1, <2>2, <2>3
<1>6. ASSUME NEW filter \in session.filters, SetFilter(filter)
      PROVE  Remembered'
  <2>1. UNCHANGED <<session, written, calls, cache>> /\ view'.page = 0
    BY <1>6 DEF SetFilter
  <2> QED
    BY <2>1 DEF Reached
<1>7. CASE UNCHANGED vars
  BY <1>7 DEF vars
<1> QED
  BY <1>1, <1>2, <1>3, <1>4, <1>5, <1>6, <1>7 DEF Next, Write, PutRoom

LEMMA AlwaysRemembered == Spec => [](Inv /\ Remembered)
<1>1. Init => Inv /\ Remembered
  BY InvInit, RememberedInit
<1>2. (Inv /\ Remembered) /\ [Next]_vars => (Inv /\ Remembered)'
  BY InvNext, RememberedNext
<1> QED
  BY <1>1, <1>2, PTL DEF Spec
-----------------------------------------------------------------------------
(* Who walks from the first page to where Next is disabled, while nothing is *)
(* written, has seen every row, if no two of them are of one day: the page   *)
(* the rank of a row falls on is among those walked, and the row is on it.   *)
THEOREM PagesAlwaysShowAll == Spec => []PagesShowAll
<1>1. Inv /\ Remembered => PagesShowAll
  <2> DEFINE found == Found(db, view.filter)
             pages == {List(view.filter, p) : p \in 0..view.page}
             N == Cardinality(found)
  <2> SUFFICES ASSUME Inv, Remembered, Data # NULL, ~NextEnabled,
                      \A ask \in pages :
                        cache[ask] # NULL /\ cache[ask].first = written /\ cache[ask].second = written,
                      ~\E t, other \in found : t # other /\ t.date = other.date
               PROVE  UNION {cache[ask].body.rows : ask \in pages} = found
    BY DEF PagesShowAll
  <2>0. /\ PageSize \in Nat \ {0} /\ session \in Sessions /\ written \in 0..Len(session.writes)
        /\ view.filter \in session.filters /\ view.page \in 0..session.pages /\ session.pages \in Nat
        /\ found = At(session, written, view.filter)
    BY Lists DEF At
  <2>1. found \subseteq Transaction /\ IsFiniteSet(found) /\ N \in Nat
    BY <2>0, FoundIs
  <2>2. /\ \A x \in found : x.date \in Nat
        /\ \A x, y \in found : x.date = y.date => x = y
    BY <2>1, ReportsAssumption DEF Transaction
  <2> HIDE DEF found, N
  <2>3. ASSUME NEW p \in 0..view.page
        PROVE  /\ List(view.filter, p) \in pages
               /\ cache[List(view.filter, p)].body.rows \in Pages(found, PageSize, p * PageSize)
               /\ cache[List(view.filter, p)].body.total = N
    <3>1. List(view.filter, p) \in pages
      OBVIOUS
    <3>2. p \in 0..session.pages
      BY <2>0
    <3>3. AnswerIs(session, cache[List(view.filter, p)], view.filter, p)
      BY <2>0, <3>2 DEF Remembered
    <3> HIDE DEF pages
    <3> QED
      BY <2>0, <3>1, <3>3 DEF AnswerIs, N
  <2>4. N <= (view.page + 1) * PageSize
    <3>1. Data.body.total = N
      <4>1. view.page \in 0..view.page
        BY <2>0
      <4> QED
        BY <2>3, <4>1 DEF Data
    <3>2. ~(N > PageSize /\ view.page + 1 < TotalPages(N))
      BY <3>1 DEF NextEnabled
    <3>3. CASE N > PageSize
      <4>1. ~(N > (view.page + 1) * PageSize)
        BY <2>0, <2>1, <3>2, <3>3, PagesHold
      <4>2. (view.page + 1) * PageSize \in Nat
        BY <2>0, Times
      <4> QED
        BY <2>1, <4>1, <4>2
    <3>4. CASE ~(N > PageSize)
      <4>1. 1 * PageSize <= (view.page + 1) * PageSize /\ (view.page + 1) * PageSize \in Nat
        BY <2>0, Times
      <4>2. 1 * PageSize = PageSize
        BY <2>0
      <4> QED
        BY <2>0, <2>1, <3>4, <4>1, <4>2
    <3> QED
      BY <3>3, <3>4
  <2>5. ASSUME NEW t \in found
        PROVE  \E ask \in pages : t \in cache[ask].body.rows
    <3> DEFINE newer == {x \in found : x.date > t.date}
               r == Cardinality(newer)
               p == r \div PageSize
    <3>1. r \in Nat /\ r < N
      <4>1. IsFiniteSet(newer) /\ r <= N /\ (N = r => found = newer)
        BY <2>1, FS_Subset DEF N
      <4>2. t \notin newer
        BY <2>2
      <4>3. r \in Nat
        BY <4>1, FS_CardinalityType
      <4> HIDE DEF r, newer
      <4> QED
        BY <2>1, <4>1, <4>2, <4>3
    <3> HIDE DEF r
    <3>2. p \in Nat /\ p * PageSize <= r /\ r < p * PageSize + PageSize
      BY <2>0, <3>1, Quotient
    <3> HIDE DEF p
    <3>3. p * PageSize \in Nat
      BY <2>0, <3>2, Times
    <3>4. p <= view.page
      <4> SUFFICES ASSUME ~(p <= view.page) PROVE FALSE
        OBVIOUS
      <4>1. (view.page + 1) * PageSize <= p * PageSize /\ (view.page + 1) * PageSize \in Nat
        BY <2>0, <3>2, Times
      <4> QED
        BY <2>1, <2>4, <3>1, <3>2, <3>3, <4>1
    <3>5. /\ List(view.filter, p) \in pages
          /\ cache[List(view.filter, p)].body.rows \in Pages(found, PageSize, p * PageSize)
      <4>1. p \in 0..view.page
        BY <2>0, <3>2, <3>4
      <4> HIDE DEF pages
      <4> QED
        BY <2>3, <4>1
    <3>6. t \in cache[List(view.filter, p)].body.rows
      <4>1. Cardinality({x \in found : x.date > t.date}) >= p * PageSize
            /\ Cardinality({x \in found : x.date > t.date}) < p * PageSize + PageSize
        BY <3>2 DEF r
      <4> HIDE DEF pages
      <4> QED
        BY <2>0, <2>1, <2>2, <3>3, <3>5, <4>1, RowOnPage
    <3> HIDE DEF pages
    <3> QED
      BY <3>5, <3>6
  <2>6. ASSUME NEW ask \in pages
        PROVE  cache[ask].body.rows \subseteq found
    <3>1. PICK p \in 0..view.page : ask = List(view.filter, p)
      OBVIOUS
    <3>2. cache[ask].body.rows \in Pages(found, PageSize, p * PageSize)
      BY <2>3, <3>1
    <3>3. p * PageSize \in Nat
      BY <2>0, <3>1, Times
    <3> HIDE DEF pages
    <3> QED
      BY <2>0, <2>1, <3>2, <3>3, PagesAre
  <2> HIDE DEF pages
  <2> QED
    BY <2>5, <2>6
<1> QED
  BY <1>1, AlwaysRemembered, PTL

(* A page beyond the first is empty only if rows have left the list since    *)
(* there was something on it.                                               *)
THEOREM EmptyAlwaysAfterLoss == Spec => []EmptyOnlyAfterLoss
<1>1. Inv /\ Remembered => EmptyOnlyAfterLoss
  <2> SUFFICES ASSUME Inv, Remembered, Data # NULL, view.page > 0, Data.body.rows = {}
               PROVE  \E n \in 0..(Data.first - 1) :
                        Found(Books(session)[n], view.filter)
                          \ Found(Books(session)[Data.first], view.filter) # {}
    BY DEF EmptyOnlyAfterLoss
  <2> DEFINE first == Data.first
             k == view.page * PageSize
             now == At(session, first, view.filter)
  <2>0. /\ PageSize \in Nat \ {0} /\ session \in Sessions /\ written \in 0..Len(session.writes)
        /\ view.filter \in session.filters /\ view.page \in 0..session.pages /\ session.pages \in Nat
        /\ Data = cache[List(view.filter, view.page)] /\ List(view.filter, view.page) \in Asks
    BY Lists DEF Data
  <2>1. first \in 0..Len(session.writes) /\ first \in Nat
    <3>1. Data.second \in 0..written /\ first \in 0..Data.second
      BY <2>0 DEF Inv, TypeOK
    <3> HIDE DEF first
    <3> QED
      BY <2>0, <3>1, Typed
  <2>2. Data.body.rows \in Pages(now, PageSize, k) /\ Reached(session, first, view.filter, view.page)
    BY <2>0 DEF Remembered, AnswerIs
  <2>3. now \subseteq Transaction /\ IsFiniteSet(now) /\ Cardinality(now) \in Nat
    BY <2>0, <2>1, FoundIs
  <2>4. k \in Nat
    BY <2>0, Times
  <2> HIDE DEF now, k
  <2>5. Cardinality(now) <= k
    <3>1. Cardinality({}) = 0
      BY FS_EmptySet
    <3>2. Cardinality(now) > k => Cardinality(Data.body.rows) > 0
      BY <2>0, <2>2, <2>3, <2>4, PagesAre
    <3> QED
      BY <2>3, <2>4, <3>1, <3>2
  <2>6. PICK n \in 0..first : Cardinality(At(session, n, view.filter)) > k
    BY <2>2 DEF Reached, k
  <2>7. Cardinality(At(session, n, view.filter)) \in Nat /\ IsFiniteSet(At(session, n, view.filter))
    BY <2>0, <2>1, FoundIs
  <2>8. n # first
    BY <2>3, <2>4, <2>5, <2>6 DEF now
  <2>9. ~(At(session, n, view.filter) \subseteq now)
    <3> SUFFICES ASSUME At(session, n, view.filter) \subseteq now PROVE FALSE
      OBVIOUS
    <3>1. Cardinality(At(session, n, view.filter)) <= Cardinality(now)
      BY <2>3, FS_Subset
    <3> QED
      BY <2>3, <2>4, <2>5, <2>6, <2>7, <3>1
  <2>10. n \in 0..(first - 1)
    BY <2>1, <2>6, <2>8
  <2> QED
    BY <2>9, <2>10 DEF At, now
<1> QED
  BY <1>1, AlwaysRemembered, PTL
=============================================================================
