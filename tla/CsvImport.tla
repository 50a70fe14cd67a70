----------------------------- MODULE CsvImport -----------------------------
(***************************************************************************)
(* internal/csvimport: what the server makes of a bank's CSV export.  It   *)
(* is a set of functions, without a state.                                 *)
(*                                                                         *)
(* A file is what encoding/csv makes of an upload, a sequence of records,  *)
(* a record a sequence of cells.  A cell is known by what can be read in   *)
(* it: an amount by the groups of moneyRe, a date by its three parts, any  *)
(* other text by the kinds of column it would be a name for.  Columns are  *)
(* numbered from 1, and 0 is the code's -1, "not mapped".  Notes are left   *)
(* out.                                                                    *)
(***************************************************************************)
EXTENDS Integers, Sequences, FiniteSets, SequencesExt

CONSTANTS Width,       \* bits of an integer, 64 in the code
          SampleRows,  \* records GuessMapping looks at, 50 in the code
          SampleDates, \* cells guessDateFormat looks at, 100 in the code
          None         \* no date, no amount, no layout

ASSUME CsvAssumption ==
  /\ Width \in Nat /\ Width > 1 /\ SampleRows \in Nat \ {0} /\ SampleDates \in Nat \ {0}
  /\ 2^(Width - 1) \in Nat \ {0} /\ 2^Width = 2 * 2^(Width - 1)
  /\ None \notin Int /\ None \notin Nat \X Nat \X Nat

-----------------------------------------------------------------------------
(* Cells. *)

Role == {"date", "payee", "debit", "credit", "amount"}

Blank == [kind |-> "blank"]

IsBlank(cell) == cell.kind = "blank"

(* A text moneyRe accepts is known by its marks, the number its digits make *)
(* once the commas are dropped (None if there were only commas), and the    *)
(* digits behind the point, none to two.  `inner` is the second minus sign  *)
(* the expression allows.                                                   *)
Money(whole, frac) ==
  [kind |-> "money", open |-> FALSE, close |-> FALSE, minus |-> FALSE,
   inner |-> FALSE, whole |-> whole, frac |-> frac]

Cell ==
  {Blank} \cup [kind: {"text"}, name: STRING, roles: SUBSET Role]
    \cup [kind: {"money"}, open: BOOLEAN, close: BOOLEAN, minus: BOOLEAN, inner: BOOLEAN,
          whole: Nat \cup {None}, frac: UNION {[1..n -> 0..9] : n \in 0..2}]
    \cup [kind: {"date"}, shape: STRING, first: Nat, second: Nat, year: Nat, padded: BOOLEAN]

(* Eight bare digits are an amount to moneyRe and a date to the last layout. *)
MoneyText(cell) ==
  IF cell.kind = "date" /\ cell.shape = "yyyymmdd"
    THEN Money(10000 * cell.year + 100 * cell.first + cell.second, <<>>)
    ELSE cell

(* int64 arithmetic wraps around, here at the end and not at each digit: the *)
(* remainder is the same.                                                    *)
Wrap(n) == ((n + 2^(Width - 1)) % 2^Width) - 2^(Width - 1)

(* What `frac + "00"` cut to two characters is worth. *)
Hundredths(frac) ==
  CASE Len(frac) = 0 -> 0
    [] Len(frac) = 1 -> 10 * frac[1]
    [] OTHER         -> 10 * frac[1] + frac[2]

(* A parenthesis without its peer stays in the text: it is no digit in front *)
(* or behind the whole part, and cut off behind two decimals.                *)
Readable(money) ==
  /\ money.open => money.close
  /\ money.close /\ ~money.open => Len(money.frac) = 2
  /\ ~(money.minus /\ money.inner)
  /\ money.whole # None \/ money.frac # <<>>

(* Either mark makes an amount negative, both make it positive. *)
Negative(money) == (money.open /\ money.close) # (money.minus \/ money.inner)

ParseAmount(cell) ==
  LET money == MoneyText(cell)
  IN IF money.kind # "money" THEN None
     ELSE IF ~Readable(money) THEN None
     ELSE LET dollars == IF money.whole = None THEN 0 ELSE money.whole
              cents == Wrap(100 * dollars + Hundredths(money.frac))
          IN IF Negative(money) THEN Wrap(-cents) ELSE cents

-----------------------------------------------------------------------------
(* Dates are <<year, month, day>>. *)

Layout(shape, dayFirst, padded) ==
  [shape |-> shape, dayFirst |-> dayFirst, padded |-> padded]

(* In guess-priority order. *)
DateFormats ==
  << Layout("y-m-d", FALSE, TRUE), Layout("y/m/d", FALSE, TRUE),
     Layout("a/b/y", FALSE, TRUE), Layout("a/b/y", TRUE, TRUE),
     Layout("a/b/y", FALSE, FALSE), Layout("a/b/y", TRUE, FALSE),
     Layout("a-b-y", FALSE, TRUE), Layout("a-b-y", TRUE, TRUE),
     Layout("Mon_d_y", FALSE, FALSE), Layout("d_Mon_y", TRUE, FALSE),
     Layout("d-Mon-y", TRUE, TRUE), Layout("yyyymmdd", FALSE, TRUE) >>

ASSUME LayoutAssumption == \A k \in DOMAIN DateFormats : DateFormats[k] # None

DaysIn(year, month) ==
  CASE month \in {4, 6, 9, 11} -> 30
    [] month = 2 -> IF year % 4 = 0 /\ (year % 100 # 0 \/ year % 400 = 0) THEN 29 ELSE 28
    [] OTHER -> 31

(* time.Parse; a layout with one-digit parts reads two-digit ones, too. *)
ParseDate(layout, cell) ==
  IF cell.kind # "date" THEN None
  ELSE LET month == IF layout.dayFirst THEN cell.second ELSE cell.first
           day   == IF layout.dayFirst THEN cell.first ELSE cell.second
       IN IF /\ cell.shape = layout.shape
             /\ layout.padded => cell.padded
             /\ month \in 1..12 /\ day \in 1..DaysIn(cell.year, month)
            THEN <<cell.year, month, day>> ELSE None

AnyDate(cell) == \E k \in DOMAIN DateFormats : ParseDate(DateFormats[k], cell) # None

-----------------------------------------------------------------------------
(* Parse. *)

LooksLikeHeader(record) ==
  \A k \in DOMAIN record : ~AnyDate(record[k]) /\ ParseAmount(record[k]) = None

(* The records that are not empty, one after the other. *)
Filled(upload) ==
  LET found[n \in 0..Len(upload)] ==
        IF n = 0 THEN <<>>
        ELSE IF \A k \in DOMAIN upload[n] : IsBlank(upload[n][k]) THEN found[n - 1]
        ELSE Append(found[n - 1], upload[n])
  IN found[Len(upload)]

Unparsable(upload) ==
  LET records == Filled(upload)
  IN records = <<>> \/ (Len(records) = 1 /\ LooksLikeHeader(records[1]))

Parse(upload) ==
  LET records == Filled(upload)
  IN IF LooksLikeHeader(records[1])
       THEN [headers |-> records[1], records |-> Tail(records)]
       ELSE [headers |-> <<>>, records |-> records]

CellAt(record, column) == IF column \in DOMAIN record THEN record[column] ELSE Blank

-----------------------------------------------------------------------------
(* GuessMapping. *)

Unmapped == [date |-> 0, payee |-> 0, debit |-> 0, credit |-> 0, amount |-> 0,
             format |-> None, split |-> FALSE, invert |-> FALSE]

(* The order in which a header's name is tried. *)
Priority == <<"date", "payee", "debit", "credit", "amount">>

MinOf(a, b) == IF a < b THEN a ELSE b

FirstOf(n, list) == SubSeq(list, 1, MinOf(n, Len(list)))

Names(cell, role) == cell.kind = "text" /\ role \in cell.roles

(* Pass 1: a column goes to the first role that is free and in its name. *)
ByName(headers) ==
  LET take(m, k) ==
        LET fits == {p \in DOMAIN Priority : m[Priority[p]] = 0 /\ Names(headers[k], Priority[p])}
        IN IF fits = {} THEN m ELSE [m EXCEPT ![Priority[Min(fits)]] = k]
      named[k \in 0..Len(headers)] == IF k = 0 THEN Unmapped ELSE take(named[k - 1], k)
  IN named[Len(headers)]

(* Pass 2: what most cells of a column look like fills what names left open. *)
Probe(m, sample, k) ==
  LET cells   == {n \in DOMAIN sample : ~IsBlank(CellAt(sample[n], k))}
      inDates == {n \in cells : AnyDate(sample[n][k])}
      inMoney == {n \in cells \ inDates : ParseAmount(sample[n][k]) # None}
      dates   == Cardinality(inDates)
      amounts == Cardinality(inMoney)
      texts   == Cardinality(cells) - dates - amounts
  IN IF m.date = 0 /\ dates > 0 /\ dates >= amounts /\ dates >= texts
       THEN [m EXCEPT !.date = k]
     ELSE IF m.amount = 0 /\ m.debit = 0 /\ amounts > 0 /\ amounts > texts /\ k # m.date
       THEN [m EXCEPT !.amount = k]
     ELSE IF m.payee = 0 /\ texts > 0 /\ k # m.date
       THEN [m EXCEPT !.payee = k]
     ELSE m

ByValue(m, sample) ==
  LET width == CHOOSE w \in {Len(sample[n]) : n \in DOMAIN sample} :
                 \A n \in DOMAIN sample : Len(sample[n]) <= w
      probed[k \in 0..width] == IF k = 0 THEN m ELSE Probe(probed[k - 1], sample, k)
  IN probed[width]

(* A cell that fits none of the layouts left over is passed by.  One layout *)
(* left over ends the search, and nothing could narrow it.                  *)
Narrow(left, cell) ==
  LET fits(k) == LET date == ParseDate(DateFormats[k], cell)
                 IN IF date = None THEN FALSE ELSE date[1] > 1900
      still == {k \in left : fits(k)}
  IN IF still = {} THEN left ELSE still

GuessDateFormat(file, column) ==
  LET tried[n \in 0..Len(file.records)] ==
        IF n = 0 THEN [left |-> DOMAIN DateFormats, sampled |-> 0]
        ELSE LET cell == CellAt(file.records[n], column)
                 seen == tried[n - 1]
             IN IF IsBlank(cell) \/ seen.sampled = SampleDates THEN seen
                ELSE [left |-> Narrow(seen.left, cell), sampled |-> seen.sampled + 1]
  IN DateFormats[Min(tried[Len(file.records)].left)]

GuessMapping(file) ==
  LET m == ByValue(ByName(file.headers), FirstOf(SampleRows, file.records))
  IN [m EXCEPT !.split  = m.debit # 0 /\ m.credit # 0,
               !.format = IF m.date = 0 THEN None ELSE GuessDateFormat(file, m.date)]

-----------------------------------------------------------------------------
(* Normalize: a record is a transaction, or None with an error for the user. *)

Abs64(n) == IF n < 0 THEN Wrap(-n) ELSE n

(* A slip: a debit keeps its sign. *)
SplitAmount_Signed(debit, credit) ==
  IF debit \notin {None, 0} THEN debit
  ELSE IF credit \notin {None, 0} THEN Abs64(credit)
  ELSE None

(* Money out is a debit's amount whatever its sign, money in a credit's. *)
SplitAmount(debit, credit) ==
  IF debit \notin {None, 0} THEN Wrap(-Abs64(debit))
  ELSE IF credit \notin {None, 0} THEN Abs64(credit)
  ELSE None

SignedAmount(amount, invert) ==
  IF amount \in {None, 0} THEN None
  ELSE IF invert THEN Wrap(-amount) ELSE amount

(* A slip: a date that does not match the format is read in any that fits. *)
NormalizeRow_AnyLayout(record, mapping) ==
  LET cell(role) == CellAt(record, mapping[role])
      fits   == SelectSeq(<<mapping.format>> \o DateFormats,
                          LAMBDA layout : ParseDate(layout, cell("date")) # None)
      amount == IF mapping.split
                  THEN SplitAmount(ParseAmount(cell("debit")), ParseAmount(cell("credit")))
                  ELSE SignedAmount(ParseAmount(cell("amount")), mapping.invert)
  IN IF fits = <<>> \/ amount = None THEN None
     ELSE [date |-> ParseDate(Head(fits), cell("date")), amount |-> amount, payee |-> cell("payee")]

NormalizeRow(record, mapping) ==
  LET cell(role) == CellAt(record, mapping[role])
      date   == IF mapping.format = None THEN None ELSE ParseDate(mapping.format, cell("date"))
      amount == IF mapping.split
                  THEN SplitAmount(ParseAmount(cell("debit")), ParseAmount(cell("credit")))
                  ELSE SignedAmount(ParseAmount(cell("amount")), mapping.invert)
  IN IF date = None \/ amount = None THEN None
     ELSE [date |-> date, amount |-> amount, payee |-> cell("payee")]

Normalize(file, mapping) ==
  [n \in DOMAIN file.records |-> NormalizeRow(file.records[n], mapping)]
=============================================================================
