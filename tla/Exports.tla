------------------------------ MODULE Exports ------------------------------
(***************************************************************************)
(* External: how banks write the statements that csvimport reads.  An      *)
(* entry of a statement is [date, amount, payee]; a style says which       *)
(* columns there are, what the header line calls them, how dates are laid  *)
(* out, how a negative amount is marked, and whether money out is          *)
(* negative, positive, or in a column of its own.                          *)
(*                                                                         *)
(* style.columns is a sequence of roles, "balance" and "other" among them, *)
(* style.header the header line, empty if there is none.                   *)
(***************************************************************************)
EXTENDS CsvImport

Heading(name, roles) == [kind |-> "text", name |-> name, roles |-> roles]

WriteDate(layout, date) ==
  LET first  == IF layout.dayFirst THEN date[3] ELSE date[2]
      second == IF layout.dayFirst THEN date[2] ELSE date[3]
      wide   == date[3] >= 10 /\ (date[2] >= 10 \/ layout.shape \in {"Mon_d_y", "d_Mon_y"})
  IN [kind |-> "date", shape |-> layout.shape, first |-> first, second |-> second,
      year |-> date[1], padded |-> layout.padded \/ wide]

(* A decimal comma is a comma: what it parts are digits of one number. *)
WriteAmount(style, cents) ==
  LET size == IF cents < 0 THEN -cents ELSE cents
      text == IF style.decimals = "comma" THEN Money(size, <<>>)
              ELSE Money(size \div 100, <<(size \div 10) % 10, size % 10>>)
  IN IF cents >= 0 THEN text
     ELSE CASE style.mark = "minus"  -> [text EXCEPT !.minus = TRUE]
            [] style.mark = "inner"  -> [text EXCEPT !.inner = TRUE]
            [] style.mark = "around" -> [text EXCEPT !.open = TRUE, !.close = TRUE]

Signed(style, entry) == IF style.outPositive THEN -entry.amount ELSE entry.amount

WriteCell(style, entry, column) ==
  CASE column = "date"    -> WriteDate(style.layout, entry.date)
    [] column = "payee"   -> entry.payee
    [] column = "amount"  -> WriteAmount(style, Signed(style, entry))
    [] column = "debit"   -> IF entry.amount < 0
                               THEN WriteAmount(style, Signed(style, entry))
                               ELSE Blank
    [] column = "credit"  -> IF entry.amount > 0 THEN WriteAmount(style, entry.amount) ELSE Blank
    [] column = "balance" -> WriteAmount(style, 100000)
    [] column = "other"   -> Heading("other", {})

Export(style, statement) ==
  LET line(entry) == [k \in DOMAIN style.columns |-> WriteCell(style, entry, style.columns[k])]
      lines == [n \in DOMAIN statement |-> line(statement[n])]
  IN [upload |-> IF style.header = <<>> THEN lines ELSE <<style.header>> \o lines,
      style |-> style, statement |-> statement]

-----------------------------------------------------------------------------
(* What a bank means and how it may write it: real days, some text or none  *)
(* for a payee; one column of a role at most, dates, payees and either      *)
(* amounts or debits and credits among them, each with a heading or none.   *)

Occurs(style, column) == \E k \in DOMAIN style.columns : style.columns[k] = column

Text == [kind : {"text"}, name : STRING, roles : SUBSET Role]

IsDay(date) ==
  date[1] > 1900 /\ date[2] \in 1..12 /\ date[3] \in 1..DaysIn(date[1], date[2])

IsStatement(statement) ==
  /\ statement \in Seq([date : Nat \X Nat \X Nat, amount : Int, payee : {Blank} \cup Text])
  /\ statement # <<>>
  /\ \A n \in DOMAIN statement : IsDay(statement[n].date)

IsStyle(style) ==
  /\ style \in [columns : Seq(Role \cup {"balance", "other"}), header : Seq(Text),
               layout : Range(DateFormats), decimals : {"point", "comma"},
               mark : {"minus", "inner", "around"}, outPositive : BOOLEAN]
  /\ style.header # <<>> => Len(style.header) = Len(style.columns)
  /\ \A i, j \in DOMAIN style.columns :
       style.columns[i] = style.columns[j] /\ style.columns[i] \in Role => i = j
  /\ Occurs(style, "date") /\ Occurs(style, "payee")
  /\ Occurs(style, "debit") = Occurs(style, "credit")
  /\ Occurs(style, "amount") # Occurs(style, "debit")

IsExport(file) ==
  /\ IsStyle(file.style) /\ IsStatement(file.statement)
  /\ file = Export(file.style, file.statement)

-----------------------------------------------------------------------------
(* What csvimport has to go by. *)

Precedes(style, a, b) ==
  \E i, j \in DOMAIN style.columns : i < j /\ style.columns[i] = a /\ style.columns[j] = b

(* The role a header names before any other is the role of its column. *)
WellNamed(style) ==
  \A k \in DOMAIN style.header :
    LET named == {p \in DOMAIN Priority : Priority[p] \in style.header[k].roles}
    IN IF named = {} THEN style.columns[k] \notin Role
       ELSE Priority[Min(named)] = style.columns[k]

(* Columns can be told apart: by their names, or by the first of each shape, *)
(* if the sample has a payee at all.                                         *)
ColumnsTold(file) ==
  LET style == file.style
  IN IF style.header # <<>> THEN WellNamed(style)
     ELSE /\ ~Occurs(style, "debit")
          /\ ~Precedes(style, "balance", "amount")
          /\ ~Precedes(style, "other", "payee")
          /\ \E n \in 1..MinOf(SampleRows, Len(file.statement)) : file.statement[n].payee # Blank

SampledDates(file) ==
  {file.statement[n].date : n \in 1..MinOf(SampleDates, Len(file.statement))}

(* Day and month cannot be mistaken for each other, in the sample. *)
OrderTold(file) ==
  file.style.layout.dayFirst /\ file.style.layout.shape \in {"a/b/y", "a-b-y"} =>
    \E date \in SampledDates(file) : date[3] > 12

(* A date in the sample shows that they are not padded. *)
WidthTold(file) ==
  ~file.style.layout.padded /\ file.style.layout.shape = "a/b/y" =>
    \E date \in SampledDates(file) : date[2] < 10 \/ date[3] < 10

(* Money out is negative, or in a column with a name. *)
SignsTold(style) == ~style.outPositive \/ Occurs(style, "debit")

(* A decimal comma is lost: cents become dollars. *)
Scale(style) == IF style.decimals = "comma" THEN 100 ELSE 1

(* Every amount, as it is read, is one that an account can hold. *)
InWidth(file) ==
  \A n \in DOMAIN file.statement :
    LET cents == Scale(file.style) * file.statement[n].amount
    IN -2^(Width - 1) < cents /\ cents < 2^(Width - 1)

(* Nothing is paid nowhere: an entry of no cents is refused as an error. *)
Pays(file) == \A n \in DOMAIN file.statement : file.statement[n].amount # 0

Legible(file) ==
  /\ InWidth(file) /\ Pays(file)
  /\ ColumnsTold(file)
  /\ OrderTold(file)
  /\ SignsTold(file.style)
  /\ file.style.decimals = "point"

(* What a mapping guessed from a file makes of an entry of the same style:  *)
(* day and month the other way round, if the file does not tell; money out  *)
(* for money in, where it is positive in one column; a hundredfold, where   *)
(* decimals have a comma.                                                   *)
Factor(style) == IF SignsTold(style) THEN Scale(style) ELSE -Scale(style)

Swapped(date) == <<date[1], date[3], date[2]>>

TakenFor(first, entry) ==
  LET dates == {entry.date} \cup (IF OrderTold(first) THEN {} ELSE {Swapped(entry.date)})
  IN {[date |-> date, amount |-> Factor(first.style) * entry.amount, payee |-> entry.payee] :
        date \in dates}
=============================================================================
