------------------------------ MODULE MCReaders ------------------------------
(***************************************************************************)
(* A small instance of Readers: two users, four days in three months of    *)
(* two years, and sessions that each go through one part of the reports.   *)
(***************************************************************************)
EXTENDS Readers, TLC

CONSTANTS u, v

MCMonthOf == <<1, 1, 2, 3>>
MCYearOf == <<2024, 2024, 2024, 2025>>
MCNormalized == [p \in Payee |-> p]

-----------------------------------------------------------------------------
(* Rows. *)

Acct(who, n, type) ==
  [id |-> <<who, n>>, owner |-> who, name |-> ToString(n), type |-> type,
   opening |-> IF type = "chequing" THEN 7 ELSE 0, archived |-> FALSE]

Chequing == Acct(u, 1, "chequing")
Bills == Acct(u, 2, "chequing")
TFSA1 == Acct(u, 3, "tfsa")
TFSA2 == Acct(u, 4, "tfsa")
Broker == Acct(u, 5, "non_registered")
Theirs == Acct(v, 1, "chequing")
TheirTFSA == Acct(v, 2, "tfsa")

Cat(who, n, kind, name) ==
  [id |-> <<who, n>>, owner |-> who, kind |-> kind, name |-> name, archived |-> FALSE]

Job == Cat(u, 1, "income", "Job")
Food == Cat(u, 2, "expense", "Food")
Rent == Cat(u, 3, "expense", "Rent")
Fun == Cat(u, 4, "expense", "Fun")
GiftsIn == Cat(u, 5, "income", "Gifts")
GiftsOut == Cat(u, 6, "expense", "Gifts")
Sundry == Cat(u, 7, "expense", "Other")
TheirFood == Cat(v, 1, "expense", "Food")

Row(who, n, account, date, amount, category, group) ==
  [id |-> <<who, n>>, owner |-> who, account |-> account.id, date |-> date, amount |-> amount,
   payee |-> IF group = NULL THEN "shop" ELSE "", category |-> category, group |-> group,
   batch |-> NULL,
   hash |-> DedupHash(date, amount, IF group = NULL THEN "shop" ELSE "transfer")]

Plain(n, date, amount, category) == Row(u, n, Chequing, date, amount, category, NULL)

Legs(n, from, to, date, amount) ==
  {Row(u, n, from, date, -amount, NULL, <<u, n>>), Row(u, n + 1, to, date, amount, NULL, <<u, n>>)}

Snap(account, n, date, balance) ==
  [id |-> <<account.owner, n>>, owner |-> account.owner, account |-> account.id,
   asOf |-> date, balance |-> balance]

-----------------------------------------------------------------------------
(* Books, in which the other user always has something. *)

Ours(rows, snapshots) ==
  [accounts |-> {Chequing, Bills, TFSA1, TFSA2, Broker, Theirs, TheirTFSA},
   categories |-> {Job, Food, Rent, Fun, GiftsIn, GiftsOut, Sundry, TheirFood},
   batches |-> {},
   transactions |-> rows \cup {Row(v, 1, Theirs, 1, -9, TheirFood.id, NULL),
                               Row(v, 2, Theirs, 2, 4, NULL, NULL)},
   snapshots |-> snapshots]

Quiet == [db |-> Ours({}, {}), writes |-> <<>>, tiles |-> {}, filters |-> {NoFilter},
          pages |-> 0, calls |-> 0]

Summary(from, to) == [op |-> "summary", from |-> from, to |-> to]

Enter(rows) == [op |-> "enter", rows |-> rows]

Erase(who, n) == [op |-> "erase", user |-> who, id |-> <<who, n>>]

Retype(account, type) ==
  [op |-> "retype", user |-> account.owner, row |-> [account EXCEPT !.type = type]]

Measure(row) == [op |-> "measure", row |-> row]

PutRoomOf(type, cents) ==
  [op |-> "room", row |-> [owner |-> u, type |-> type, year |-> 2024, cents |-> cents]]

-----------------------------------------------------------------------------
(* Sessions. *)

Categories == {NULL} \cup {c.id : c \in {Job, Food, Rent, GiftsIn, GiftsOut, Sundry}}

(* Any two rows beside two expenses, one of them of the same amount. *)
Flows ==
  {[Quiet EXCEPT !.db = Ours({Plain(1, 2, -2, Rent.id), Plain(2, 3, -3, Fun.id),
                              Plain(3, 2, amount, one), Plain(4, 4, other, two)}, {})] :
     amount \in {-2, 5}, other \in {-1, 3}, one \in Categories, two \in Categories}

Filing ==
  [Quiet EXCEPT
     !.db = Ours({Plain(1, 1, 5, Job.id), Plain(2, 2, -2, Rent.id), Plain(3, 2, -2, Fun.id),
                  Plain(4, 3, -1, Food.id), Plain(5, 4, 1, NULL)}, {}),
     !.tiles = {Summary(1, 4)}, !.calls = 1,
     !.writes = <<Enter({Plain(6, 4, 3, Food.id)}),
                  [op |-> "edit", user |-> u, row |-> Plain(5, 3, -4, GiftsOut.id)],
                  [op |-> "refile", user |-> u, from |-> Rent.id, to |-> Food.id],
                  [op |-> "drop", user |-> u, id |-> Fun.id],
                  Enter({Row(v, 3, Theirs, 3, -5, TheirFood.id, NULL)}),
                  Erase(u, 1), Erase(v, 1)>>]

Moving ==
  [Quiet EXCEPT
     !.tiles = {[op |-> "room", year |-> 2024]}, !.calls = 1,
     !.writes = <<PutRoomOf("tfsa", 6), Enter(Legs(1, Chequing, TFSA1, 3, 5)),
                  Enter(Legs(3, TFSA1, TFSA2, 4, 2)), PutRoomOf("tfsa", -1),
                  Enter(Legs(5, Chequing, Bills, 1, 4)), Retype(TFSA2, "non_registered"),
                  Enter({Row(v, 3, TheirTFSA, 3, 6, NULL, NULL)}),
                  PutRoomOf("tfsa", 9), Retype(Chequing, "tfsa"), Erase(u, 6),
                  [op |-> "close", user |-> u, id |-> TFSA1.id],
                  Retype(Chequing, "chequing"), Erase(u, 1)>>]

Measuring ==
  [Quiet EXCEPT
     !.db = Ours({}, {Snap(TFSA1, 1, 1, 10), Snap(Broker, 2, 2, 20), Snap(TheirTFSA, 1, 1, 5)}),
     !.writes = <<Measure(Snap(TFSA2, 3, 3, 30)), Measure(Snap(TFSA1, 4, 2, 11)),
                  Measure(Snap(TFSA1, 5, 2, 12)), Measure(Snap(TFSA1, 6, 4, 13)),
                  [op |-> "retype", user |-> u, row |-> [TFSA2 EXCEPT !.archived = TRUE]],
                  Measure(Snap(TheirTFSA, 2, 3, 6)),
                  [op |-> "close", user |-> u, id |-> TFSA1.id]>>]

Listed == Ours({Plain(1, 1, -1, Food.id), Plain(2, 2, -2, NULL), Plain(3, 3, 3, NULL)}, {})

Searching ==
  [Quiet EXCEPT !.db = Listed, !.pages = 1, !.calls = 3,
                !.filters = {NoFilter, [NoFilter EXCEPT !.uncategorized = TRUE]}]

Growing ==
  [Quiet EXCEPT !.db = Listed, !.pages = 2, !.calls = 3,
                !.writes = <<Enter(Legs(4, Chequing, Bills, 4, 4))>>]

Shrinking ==
  [Quiet EXCEPT !.db = Listed, !.pages = 1, !.calls = 4,
                !.writes = <<Erase(u, 1), Enter({Plain(4, 4, 1, NULL)})>>]

MCSessions == Flows \cup {Filing, Moving, Measuring, Searching, Growing, Shrinking}
=============================================================================
