------------------------------ MODULE MCImport ------------------------------
(***************************************************************************)
(* Small instances of Import: exports of many banks that are previewed     *)
(* once, accounts whose second import follows the first one's mapping, and *)
(* short files that are imported, again, from two tabs.                    *)
(***************************************************************************)
EXTENDS Import

CONSTANTS u, t1, t2

-----------------------------------------------------------------------------
(* Statements.  The payee of an entry is a cell, and so is an empty one. *)

Cafe == Heading("cafe", {})
CAFE1 == Heading("CAFE 1", {})
Transfer == Heading("transfer", {})

Entry(day, month, cents, payee) ==
  [date |-> <<2024, month, day>>, amount |-> cents, payee |-> payee]

Early == Entry(3, 4, -1250, Cafe)
Late == Entry(14, 4, 5, CAFE1)
Wide == Entry(12, 10, -8388607, Cafe)
Round == Entry(31, 12, 120000, Blank)
Leap == Entry(29, 2, -1, Cafe)
Huge == Entry(5, 5, -8388609, Cafe)

Statements == {<<Early>>, <<Late>>, <<Early, Late>>, <<Late, Early>>, <<Wide, Early>>,
               <<Wide, Round>>, <<Leap, Early>>, <<Huge, Late>>, <<Early, Wide, Late>>}

(* Styles. *)

Plain == [columns |-> <<"date", "payee", "amount">>, header |-> <<>>,
          layout |-> DateFormats[1], decimals |-> "point", mark |-> "minus",
          outPositive |-> FALSE]

LaidOut == {[Plain EXCEPT !.layout = DateFormats[k]] : k \in DOMAIN DateFormats}

HDate == Heading("Transaction Date", {"date", "payee"})
HPayee == Heading("Description", {"payee"})
HAmount == Heading("Amount", {"amount"})
HDebit == Heading("Debit", {"debit"})
HCredit == Heading("Credit", {"credit"})
HBalance == Heading("Balance", {})
HBoth == Heading("Transaction Amount", {"payee", "amount"})

Named == [Plain EXCEPT !.columns = <<"balance", "date", "amount", "payee">>,
                       !.header = <<HBalance, HDate, HAmount, HPayee>>, !.mark = "inner"]

Misnamed == [Named EXCEPT !.header = <<HBalance, HDate, HBoth, HPayee>>]

Split == [Plain EXCEPT !.columns = <<"date", "payee", "debit", "credit", "balance">>,
                       !.header = <<HDate, HPayee, HDebit, HCredit, HBalance>>,
                       !.layout = DateFormats[6], !.outPositive = TRUE]

Shapes ==
  LaidOut \cup
  {Named, Misnamed, Split, [Split EXCEPT !.outPositive = FALSE],
   [Split EXCEPT !.header = <<>>],
   [Plain EXCEPT !.columns = <<"date", "amount", "balance", "other", "payee">>],
   [Plain EXCEPT !.columns = <<"date", "amount", "payee", "balance">>, !.mark = "around"],
   [Plain EXCEPT !.columns = <<"date", "balance", "amount", "payee">>],
   [Plain EXCEPT !.outPositive = TRUE], [Plain EXCEPT !.decimals = "comma"]}

-----------------------------------------------------------------------------
(* Sessions. *)

Quick == [tabs |-> {t1}, files |-> <<>>, accounts |-> {<<u, 1>>}, edits |-> {}, boxes |-> {},
          reverts |-> FALSE, calls |-> 1, losses |-> 0]

Reading == {[Quick EXCEPT !.files = <<Export(style, s)>>] : style \in Shapes, s \in Statements}

Learning == LaidOut \cup {Named, Split, [Plain EXCEPT !.outPositive = TRUE],
                           [Plain EXCEPT !.decimals = "comma"]}

Twice == {[Quick EXCEPT !.files = <<Export(style, s), Export(style, <<Early, Late>>)>>, !.calls = 3] :
            style \in Learning, s \in {<<Early>>, <<Wide, Round>>}}

Repeating == Export(Plain, <<Early, Early, Late>>)

Other == Export(Named, <<Late>>)

Review == [Quick EXCEPT !.files = <<Repeating>>, !.boxes = {2}, !.reverts = TRUE,
                        !.calls = 4, !.losses = 1]

Edit == [field |-> "invert", to |-> TRUE]

TwoTabs == [Quick EXCEPT !.tabs = {t1, t2}, !.files = <<Repeating>>, !.calls = 4]

Editing == [Quick EXCEPT !.files = <<Repeating, Other>>, !.edits = {Edit}, !.calls = 4]

WizardSessions == Reading \cup Twice \cup {Review, TwoTabs, Editing}

(* The account is chosen again while the preview is on its way. *)
AccountSessions == {[Quick EXCEPT !.files = <<Repeating>>, !.accounts = {<<u, 1>>, <<u, 2>>}, !.calls = 2]}

-----------------------------------------------------------------------------
(* The database and the constants of Schema. *)

Acct(n, name) == [id |-> <<u, n>>, owner |-> u, name |-> name, type |-> "chequing",
                  opening |-> 0, archived |-> FALSE]

MCNormalized == [p \in Payee |-> IF p = CAFE1 THEN Cafe ELSE p]

(* Entered by hand before the import: the bank's file will have it again. *)
ByHand ==
  [id |-> <<u, 1>>, owner |-> u, account |-> <<u, 1>>, date |-> Late.date,
   amount |-> Late.amount, payee |-> Cafe, category |-> NULL, group |-> NULL, batch |-> NULL,
   hash |-> DedupHash(Late.date, Late.amount, Cafe)]

MCStartDB ==
  [accounts |-> {Acct(1, "A"), Acct(2, "B")}, categories |-> {}, batches |-> {},
   transactions |-> {ByHand}, snapshots |-> {}]

MCDate == {e.date : e \in {Early, Late, Wide, Round, Leap, Huge}}
            \cup {<<2024, 3, 4>>, <<2024, 10, 12>>, <<2024, 12, 10>>}

(* Any cell can be taken for the payee. *)
Cells ==
  {Blank, Cafe, CAFE1, Transfer} \cup
  UNION {UNION {Range(record) : record \in Range(file.upload)} :
           file \in UNION {Range(s.files) : s \in WizardSessions}}

MCPayee == Cells
=============================================================================
