----------------------------- MODULE CsvProofs ------------------------------
(***************************************************************************)
(* Proofs about csvimport: what GuessMapping makes of a bank's export in   *)
(* which columns, signs and dates can be told, and what is read of it.     *)
(*                                                                         *)
(* The loops of the code are recursive functions; what they compute is     *)
(* shown by induction over the set of the steps after which it holds (Up). *)
(***************************************************************************)
EXTENDS Exports, FiniteSetTheorems, SequenceTheorems, TLAPS

-----------------------------------------------------------------------------
(* Induction. *)

LEMMA Least ==
  ASSUME NEW T \in SUBSET Nat, T # {}
  PROVE  \E n \in T : \A m \in T : n <= m
<1>1. IsWellFoundedOn(OpToRel(<, Nat), Nat)
  BY NatLessThanWellFounded
<1>2. PICK n \in T : \A m \in T : ~(<<m, n>> \in OpToRel(<, Nat))
  BY <1>1, WFMin
<1>3. ASSUME NEW m \in T PROVE n <= m
  <2>1. <<m, n>> \in Nat \X Nat /\ ~(m < n)
    BY <1>2 DEF OpToRel
  <2> QED
    BY <2>1
<1> QED
  BY <1>3

LEMMA MinIs ==
  ASSUME NEW T \in SUBSET Nat, NEW n \in T, \A m \in T : n <= m
  PROVE  Min(T) = n
<1>1. Min(T) \in T /\ \A m \in T : Min(T) <= m
  <2> DEFINE Lowest(x) == x \in T /\ \A m \in T : x <= m
  <2>1. \E x : Lowest(x)
    OBVIOUS
  <2>2. Min(T) = CHOOSE x \in T : \A m \in T : x <= m
    BY DEF Min
  <2> QED
    BY <2>1, <2>2, Zenon
<1>2. Min(T) <= n /\ n <= Min(T) /\ Min(T) \in Nat /\ n \in Nat
  BY <1>1
<1> QED
  BY <1>2

(* What holds before the first step, and after a step if it did before, *)
(* holds after every step.                                               *)
LEMMA Up ==
  ASSUME NEW n \in Nat, NEW T, 0 \in T, \A k \in 1..n : k - 1 \in T => k \in T
  PROVE  0..n \subseteq T
<1> DEFINE Bad == {k \in 0..n : k \notin T}
<1> SUFFICES ASSUME Bad # {} PROVE FALSE
  OBVIOUS
<1>1. Bad \subseteq Nat
  OBVIOUS
<1> HIDE DEF Bad
<1>2. PICK k \in Bad : \A i \in Bad : k <= i
  BY <1>1, Least
<1>3. k \in 0..n /\ k \notin T
  BY <1>2 DEF Bad
<1>4. k \in 1..n /\ k - 1 \in 0..n /\ ~(k <= k - 1)
  BY <1>3
<1>5. k - 1 \in T
  BY <1>2, <1>4 DEF Bad
<1> QED
  BY <1>3, <1>4, <1>5

(* A loop of n steps over states in S runs. *)
Steps(n, S) == [1..n -> [S -> S]]

RunOf(f, n, S, base, step) ==
  /\ f \in [0..n -> S] /\ f[0] = base
  /\ \A k \in 1..n : f[k] = step[k][f[k - 1]]

LEMMA Iterates ==
  ASSUME NEW n \in Nat, NEW S, NEW base \in S, NEW step \in Steps(n, S)
  PROVE  \E f : RunOf(f, n, S, base, step)
<1>0. step \in [1..n -> [S -> S]]
  BY DEF Steps
<1> DEFINE Runs(f, k) ==
             f \in [0..k -> S] /\ f[0] = base /\ \A i \in 1..k : f[i] = step[i][f[i - 1]]
           T == {k \in 0..n : \E f : Runs(f, k)}
<1>1. 0 \in T
  <2> DEFINE f == [i \in 0..0 |-> base]
  <2>1. Runs(f, 0)
    OBVIOUS
  <2> HIDE DEF f, Runs
  <2> QED
    BY <2>1
<1>2. ASSUME NEW k \in 1..n, k - 1 \in T PROVE k \in T
  <2>1. PICK f : Runs(f, k - 1)
    BY <1>2
  <2>2. k \in 0..n /\ k - 1 \in 0..(k - 1)
    OBVIOUS
  <2>3. f[k - 1] \in S /\ step[k] \in [S -> S]
    BY <1>0, <2>1, <2>2
  <2> DEFINE g == [i \in 0..k |-> IF i = k THEN step[k][f[k - 1]] ELSE f[i]]
  <2>4. g \in [0..k -> S]
    <3> SUFFICES ASSUME NEW i \in 0..k, i # k PROVE f[i] \in S
      BY <2>3
    <3>1. i \in 0..(k - 1)
      OBVIOUS
    <3> QED
      BY <2>1, <3>1
  <2>5. g[0] = base
    <3>1. 0 # k /\ 0 \in 0..k
      OBVIOUS
    <3> QED
      BY <2>1, <3>1
  <2>6. ASSUME NEW i \in 1..k PROVE g[i] = step[i][g[i - 1]]
    <3>1. i \in 0..k /\ i - 1 \in 0..k /\ i - 1 # k
      OBVIOUS
    <3>2. g[i - 1] = f[i - 1]
      BY <3>1
    <3>3. CASE i = k
      BY <3>1, <3>2, <3>3
    <3>4. CASE i # k
      <4>1. i \in 1..(k - 1)
        BY <3>4
      <4> QED
        BY <2>1, <3>1, <3>2, <3>4, <4>1
    <3> QED
      BY <3>3, <3>4
  <2>7. Runs(g, k)
    BY <2>4, <2>5, <2>6
  <2> HIDE DEF g, Runs
  <2> QED
    BY <2>2, <2>7
<1>3. n \in T
  <2>1. 0..n \subseteq T
    <3> HIDE DEF T
    <3> QED
      BY <1>1, <1>2, Up
  <2> QED
    BY <2>1
<1>4. PICK f : Runs(f, n)
  BY <1>3
<1>5. RunOf(f, n, S, base, step)
  BY <1>4 DEF RunOf
<1> QED
  BY <1>5

-----------------------------------------------------------------------------
(* The records of a file. *)

Empty(record) == \A k \in DOMAIN record : IsBlank(record[k])

LEMMA FilledIs ==
  ASSUME NEW R, NEW upload \in Seq(R)
  PROVE  \E f \in [0..Len(upload) -> Seq(R)] :
           /\ f[0] = <<>> /\ Filled(upload) = f[Len(upload)]
           /\ \A k \in 1..Len(upload) :
                f[k] = IF Empty(upload[k]) THEN f[k - 1] ELSE Append(f[k - 1], upload[k])
<1> DEFINE L == Len(upload)
           Q == Seq(R)
           Then(s, n) == IF \A k \in DOMAIN upload[n] : IsBlank(upload[n][k]) THEN s
                         ELSE Append(s, upload[n])
           Step(f, n) == IF n = 0 THEN <<>>
                         ELSE IF \A k \in DOMAIN upload[n] : IsBlank(upload[n][k]) THEN f[n - 1]
                         ELSE Append(f[n - 1], upload[n])
           Found == CHOOSE f : f = [n \in 0..L |-> Step(f, n)]
           step == [n \in 1..L |-> [s \in Q |-> Then(s, n)]]
<1>1. /\ L \in Nat /\ 0 \in 0..L /\ <<>> \in Q
      /\ \A n \in 1..L : upload[n] \in R /\ n \in 0..L /\ n - 1 \in 0..L
  OBVIOUS
<1>2. ASSUME NEW n \in 1..L, NEW s \in Q PROVE Then(s, n) \in Q
  BY <1>1
<1>3. step \in Steps(L, Q)
  <2> HIDE DEF Then, Q
  <2> QED
    BY <1>2 DEF Steps
<1>4. PICK f : RunOf(f, L, Q, <<>>, step)
  <2> HIDE DEF step, L, Q
  <2> QED
    BY <1>1, <1>3, Iterates
<1>5. f \in [0..L -> Q] /\ f[0] = <<>> /\ \A n \in 1..L : f[n] = step[n][f[n - 1]]
  BY <1>4 DEF RunOf
<1>6. f = [n \in 0..L |-> Step(f, n)]
  <2> SUFFICES ASSUME NEW n \in 0..L, n # 0 PROVE f[n] = Step(f, n)
    BY <1>5
  <2>1. n \in 1..L /\ n - 1 \in 0..L
    BY <1>1
  <2>2. f[n - 1] \in Q /\ f[n] = step[n][f[n - 1]]
    BY <1>5, <2>1
  <2> HIDE DEF L, Q
  <2>3. f[n] = Then(f[n - 1], n)
    BY <2>1, <2>2
  <2> QED
    BY <2>3
<1>7. Found = [n \in 0..L |-> Step(Found, n)]
  <2> HIDE DEF L, Step
  <2> QED
    BY <1>6, Zenon
<1>8. Filled(upload) = Found[L]
  BY Zenon DEF Filled
<1> HIDE DEF Found, L
<1>9. Found[0] = <<>> /\ \A n \in 1..L : Found[n] = Then(Found[n - 1], n)
  <2>1. Found[0] = Step(Found, 0)
    <3> HIDE DEF Step
    <3> QED
      BY <1>1, <1>7
  <2>2. ASSUME NEW n \in 1..L PROVE Found[n] = Step(Found, n) /\ n # 0
    <3>1. n \in 0..L /\ n # 0
      BY <1>1
    <3> HIDE DEF Step
    <3> QED
      BY <1>7, <3>1, Zenon
  <2> QED
    BY <2>1, <2>2
<1>10. \A n \in 0..L : Found[n] \in Q
  <2> DEFINE T == {n \in 0..L : Found[n] \in Q}
  <2>1. 0 \in T
    <3> HIDE DEF Q
    <3> QED
      BY <1>1, <1>9
  <2>2. ASSUME NEW n \in 1..L, n - 1 \in T PROVE n \in T
    <3> HIDE DEF Q, Then
    <3> QED
      BY <1>1, <1>2, <1>9, <2>2
  <2> HIDE DEF T
  <2>3. 0..L \subseteq T
    BY <1>1, <2>1, <2>2, Up
  <2> QED
    BY <2>3 DEF T
<1>11. Found \in [0..L -> Q]
  BY <1>7, <1>10
<1> QED
  BY <1>8, <1>9, <1>11 DEF L, Empty

(* A record that is not empty is not left out. *)
LEMMA FilledAll ==
  ASSUME NEW R, NEW upload \in Seq(R), \A n \in DOMAIN upload : ~Empty(upload[n])
  PROVE  Filled(upload) = upload
<1> DEFINE L == Len(upload)
<1>1. L \in Nat /\ upload \in Seq(R) /\ DOMAIN upload = 1..L
  OBVIOUS
<1>2. PICK f \in [0..L -> Seq(R)] :
             /\ f[0] = <<>> /\ Filled(upload) = f[L]
             /\ \A k \in 1..L : f[k] = Append(f[k - 1], upload[k])
  BY <1>1, FilledIs
<1> DEFINE T == {k \in 0..L : f[k] = [i \in 1..k |-> upload[i]]}
<1> HIDE DEF L
<1>3. 0 \in T
  BY <1>1, <1>2
<1>4. ASSUME NEW k \in 1..L, k - 1 \in T PROVE k \in T
  <2>1. f[k] = Append([i \in 1..(k - 1) |-> upload[i]], upload[k])
    BY <1>2, <1>4
  <2>2. [i \in 1..(k - 1) |-> upload[i]] \in Seq(R)
    BY <1>1, <1>4
  <2>3. Len([i \in 1..(k - 1) |-> upload[i]]) = k - 1
    BY <1>1, <1>4
  <2>4. Append([i \in 1..(k - 1) |-> upload[i]], upload[k]) = [i \in 1..k |-> upload[i]]
    BY <1>1, <2>2, <2>3
  <2>5. k \in 0..L
    BY <1>1
  <2> QED
    BY <2>1, <2>4, <2>5
<1>5. L \in T
  <2> HIDE DEF T
  <2>1. 0..L \subseteq T
    BY <1>1, <1>3, <1>4, Up
  <2> QED
    BY <1>1, <2>1
<1> QED
  BY <1>1, <1>2, <1>5

-----------------------------------------------------------------------------
(* Dates. *)

(* Layouts of one shape differ in the order of day and month, or one of *)
(* them is padded.                                                      *)
LEMMA LayoutsAlike ==
  ASSUME NEW g \in 1..12, NEW s \in 1..12, g < s, DateFormats[g].shape = DateFormats[s].shape
  PROVE  LET one == DateFormats[g]
             other == DateFormats[s]
         IN \/ /\ one.shape \in {"a/b/y", "a-b-y"}
               /\ one.dayFirst = FALSE /\ other.dayFirst = TRUE
            \/ /\ one.shape = "a/b/y" /\ one.dayFirst = other.dayFirst
               /\ one.padded = TRUE /\ other.padded = FALSE
            \/ g = 4 /\ s = 5
<1> DEFINE F(k) == DateFormats[k]
<1>1. /\ F(1).shape = "y-m-d" /\ F(2).shape = "y/m/d"
      /\ \A k \in {3, 4, 5, 6} : F(k).shape = "a/b/y"
      /\ F(7).shape = "a-b-y" /\ F(8).shape = "a-b-y" /\ F(9).shape = "Mon_d_y"
      /\ F(10).shape = "d_Mon_y" /\ F(11).shape = "d-Mon-y" /\ F(12).shape = "yyyymmdd"
  BY DEF DateFormats, Layout
<1>2. /\ \A k \in {3, 5, 7} : F(k).dayFirst = FALSE
      /\ \A k \in {4, 6, 8} : F(k).dayFirst = TRUE
      /\ \A k \in {3, 4} : F(k).padded = TRUE
      /\ \A k \in {5, 6} : F(k).padded = FALSE
  BY DEF DateFormats, Layout
<1>3. F(g).shape = F(s).shape
  OBVIOUS
<1> HIDE DEF F
<1>4. (g \in {3, 4, 5, 6} /\ s \in {4, 5, 6}) \/ (g = 7 /\ s = 8)
  BY <1>1, <1>3
<1>5. \/ F(g).shape \in {"a/b/y", "a-b-y"} /\ F(g).dayFirst = FALSE /\ F(s).dayFirst = TRUE
      \/ /\ F(g).shape = "a/b/y" /\ F(g).dayFirst = F(s).dayFirst
         /\ F(g).padded = TRUE /\ F(s).padded = FALSE
      \/ g = 4 /\ s = 5
  <2>1. CASE g = 7 /\ s = 8
    BY <1>1, <1>2, <2>1
  <2>2. CASE g = 3
    <3>1. s = 4 \/ s = 5 \/ s = 6
      BY <1>4, <2>2
    <3> QED
      BY <1>1, <1>2, <2>2, <3>1
  <2>3. CASE g = 4
    <3>1. s = 5 \/ s = 6
      BY <1>4, <2>3
    <3> QED
      BY <1>1, <1>2, <2>3, <3>1
  <2>4. CASE g = 5
    <3>1. s = 6
      BY <1>4, <2>4
    <3> QED
      BY <1>1, <1>2, <2>4, <3>1
  <2>5. (g = 7 /\ s = 8) \/ g = 3 \/ g = 4 \/ g = 5
    BY <1>4
  <2> HIDE DEF F
  <2> QED
    BY <2>1, <2>2, <2>3, <2>4, <2>5
<1> QED
  BY <1>5 DEF F

LEMMA LayoutsAre ==
  /\ DOMAIN DateFormats = 1..12
  /\ DateFormats[3] = Layout("a/b/y", FALSE, TRUE)
  /\ DateFormats[4] = Layout("a/b/y", TRUE, TRUE)
  /\ DateFormats[5] = Layout("a/b/y", FALSE, FALSE)
BY DEF DateFormats

LEMMA LayoutsOrder ==
  ASSUME NEW k \in 1..12
  PROVE  DateFormats[k].dayFirst \in BOOLEAN
<1> DEFINE first(j) == DateFormats[j].dayFirst
<1>1. /\ \A j \in {1, 2, 3, 5, 7, 9, 12} : first(j) = FALSE
      /\ \A j \in {4, 6, 8, 10, 11} : first(j) = TRUE
  BY DEF DateFormats, Layout
<1>2. k \in {1, 2, 3, 5, 7, 9, 12} \/ k \in {4, 6, 8, 10, 11}
  OBVIOUS
<1> HIDE DEF first
<1>3. first(k) \in BOOLEAN
  BY <1>1, <1>2
<1> QED
  BY <1>3 DEF first

LEMMA DayReads ==
  ASSUME NEW date \in Nat \X Nat \X Nat, IsDay(date), NEW written, NEW layout,
         layout.shape = written.shape, layout.dayFirst = written.dayFirst,
         layout.padded => WriteDate(written, date).padded
  PROVE  ParseDate(layout, WriteDate(written, date)) = date
<1> DEFINE cell == WriteDate(written, date)
<1>1. /\ cell.kind = "date" /\ cell.shape = written.shape /\ cell.year = date[1]
      /\ cell.first = IF written.dayFirst THEN date[3] ELSE date[2]
      /\ cell.second = IF written.dayFirst THEN date[2] ELSE date[3]
  BY DEF WriteDate
<1>2. date = <<date[1], date[2], date[3]>>
  OBVIOUS
<1> HIDE DEF cell
<1>3. layout.padded => cell.padded
  BY DEF cell
<1> QED
  BY <1>1, <1>2, <1>3 DEF ParseDate, IsDay, cell

(* Read in another layout of its shape, a date is the day or has day and *)
(* month the other way round, or it is no date.                          *)
LEMMA DayRead ==
  ASSUME NEW date \in Nat \X Nat \X Nat, IsDay(date), NEW written, NEW layout,
         ParseDate(layout, WriteDate(written, date)) # None
  PROVE  /\ layout.shape = written.shape
         /\ layout.padded => WriteDate(written, date).padded
         /\ layout.dayFirst = written.dayFirst =>
              ParseDate(layout, WriteDate(written, date)) = date
         /\ layout.dayFirst \in BOOLEAN /\ written.dayFirst \in BOOLEAN
              /\ layout.dayFirst # written.dayFirst =>
                /\ date[3] \in 1..12
                /\ ParseDate(layout, WriteDate(written, date)) = Swapped(date)
<1> DEFINE cell == WriteDate(written, date)
<1>1. /\ cell.kind = "date" /\ cell.shape = written.shape /\ cell.year = date[1]
      /\ cell.first = IF written.dayFirst THEN date[3] ELSE date[2]
      /\ cell.second = IF written.dayFirst THEN date[2] ELSE date[3]
  BY DEF WriteDate
<1> HIDE DEF cell
<1>2. ParseDate(layout, cell) # None
  BY DEF cell
<1>3. /\ cell.shape = layout.shape /\ (layout.padded => cell.padded)
      /\ (IF layout.dayFirst THEN cell.second ELSE cell.first) \in 1..12
  BY <1>2 DEF ParseDate
<1>4. layout.dayFirst = written.dayFirst => ParseDate(layout, cell) = date
  BY <1>1, <1>3, DayReads DEF cell
<1>5. ParseDate(layout, cell) =
        <<cell.year, IF layout.dayFirst THEN cell.second ELSE cell.first,
          IF layout.dayFirst THEN cell.first ELSE cell.second>>
  BY <1>2 DEF ParseDate
<1>6. ASSUME layout.dayFirst \in BOOLEAN, written.dayFirst \in BOOLEAN,
             layout.dayFirst # written.dayFirst
      PROVE  date[3] \in 1..12 /\ ParseDate(layout, cell) = Swapped(date)
  BY <1>1, <1>3, <1>5, <1>6 DEF Swapped
<1> QED
  BY <1>1, <1>3, <1>4, <1>6 DEF cell

LEMMA DayIsDate ==
  ASSUME NEW date \in Nat \X Nat \X Nat, IsDay(date), NEW layout \in Range(DateFormats)
  PROVE  AnyDate(WriteDate(layout, date))
<1>1. PICK k \in DOMAIN DateFormats : layout = DateFormats[k]
  BY DEF Range
<1>2. layout.padded => WriteDate(layout, date).padded
  BY DEF WriteDate
<1>3. ParseDate(layout, WriteDate(layout, date)) = date
  BY <1>2, DayReads
<1> QED
  BY <1>1, <1>3, CsvAssumption DEF AnyDate

-----------------------------------------------------------------------------
(* Amounts are integers of the width, and so are their negations. *)
Half == 2^(Width - 1)

Within(n) == n \in Int /\ -Half <= n /\ n < Half

LEMMA WrapWithin ==
  ASSUME NEW n \in Int
  PROVE  Within(Wrap(n))
<1> DEFINE H == 2^(Width - 1)
           W == 2^Width
<1>1. H \in Nat \ {0} /\ W = 2 * H
  BY CsvAssumption
<1> HIDE DEF H, W
<1>2. (n + H) % W \in 0..(W - 1)
  BY <1>1
<1>3. (n + H) % W \in Int /\ 0 <= (n + H) % W /\ (n + H) % W < W
  BY <1>1, <1>2
<1> DEFINE r == (n + H) % W
<1> HIDE DEF r
<1>4. r \in Int /\ 0 <= r /\ r < W
  BY <1>3 DEF r
<1>5. r - H \in Int /\ -H <= r - H /\ r - H < H
  BY ONLY <1>1, <1>4, SMT
<1>6. Wrap(n) = r - H /\ Half = H
  BY DEF Wrap, Half, r, H, W
<1> QED
  BY <1>5, <1>6 DEF Within

LEMMA WrapNegative ==
  ASSUME NEW n, Within(n), n # 0
  PROVE  Wrap(-n) # 0
<1> DEFINE H == 2^(Width - 1)
           W == 2^Width
           m == H - n
<1>1. H \in Nat \ {0} /\ W = 2 * H /\ n \in Int /\ -H <= n /\ n < H
  BY CsvAssumption DEF Within, Half
<1> HIDE DEF H, W
<1>2. m \in Int /\ 0 < m /\ m <= W /\ m # H
  BY ONLY <1>1, n # 0, SMT
<1>3. -n + H = m
  BY <1>1
<1>4. m % W = IF m = W THEN 0 ELSE m
  <2> HIDE DEF m
  <2>1. W \in Int /\ W > 0
    BY <1>1
  <2>2. CASE m = W
    BY <1>2, <2>1, <2>2
  <2>3. CASE m < W
    BY <1>2, <2>1, <2>3
  <2> QED
    BY <1>2, <2>1, <2>2, <2>3
<1>5. Wrap(-n) = (m % W) - H
  BY <1>3 DEF Wrap, H, W
<1> QED
  BY <1>1, <1>2, <1>4, <1>5

LEMMA HundredthsAre ==
  ASSUME NEW frac \in UNION {[1..n -> 0..9] : n \in 0..2}
  PROVE  Hundredths(frac) \in Int
<1>1. PICK n \in 0..2 : frac \in [1..n -> 0..9]
  OBVIOUS
<1>2. frac \in Seq(0..9) /\ Len(frac) = n
  BY <1>1
<1>3. n >= 1 => frac[1] \in 0..9
  BY <1>1
<1>4. n = 2 => frac[2] \in 0..9
  BY <1>1
<1>5. n = 0 \/ n = 1 \/ n = 2
  BY <1>1
<1> QED
  BY <1>2, <1>3, <1>4, <1>5 DEF Hundredths

LEMMA AmountWithin ==
  ASSUME NEW cell \in Cell, ParseAmount(cell) # None
  PROVE  Within(ParseAmount(cell))
<1> DEFINE money == MoneyText(cell)
           dollars == IF money.whole = None THEN 0 ELSE money.whole
           sum == 100 * dollars + Hundredths(money.frac)
<1>1. money.kind = "money"
  BY DEF ParseAmount
<1>2. money.frac \in UNION {[1..n -> 0..9] : n \in 0..2} /\ dollars \in Nat
  <2>1. CASE cell.kind = "date" /\ cell.shape = "yyyymmdd"
    <3>1. cell.year \in Nat /\ cell.first \in Nat /\ cell.second \in Nat
      BY <2>1 DEF Cell, Blank
    <3>2. money = Money(10000 * cell.year + 100 * cell.first + cell.second, <<>>)
      BY <2>1 DEF MoneyText
    <3>3. <<>> \in [1..0 -> 0..9] /\ 0 \in 0..2
      OBVIOUS
    <3>4. money.frac = <<>> /\ money.whole = 10000 * cell.year + 100 * cell.first + cell.second
      BY <3>2 DEF Money
    <3>5. <<>> \in UNION {[1..n -> 0..9] : n \in 0..2}
      BY <3>3
    <3> QED
      BY <3>1, <3>4, <3>5
  <2>2. CASE ~(cell.kind = "date" /\ cell.shape = "yyyymmdd")
    <3>1. money = cell
      BY <2>2 DEF MoneyText
    <3> QED
      BY <1>1, <3>1 DEF Cell, Blank
  <2> QED
    BY <2>1, <2>2
<1>3. sum \in Int
  BY <1>2, HundredthsAre
<1>4. ParseAmount(cell) = Wrap(sum) \/ ParseAmount(cell) = Wrap(-Wrap(sum))
  BY DEF ParseAmount
<1> HIDE DEF sum
<1>5. Within(Wrap(sum))
  BY <1>3, WrapWithin
<1>6. Within(Wrap(-Wrap(sum)))
  BY <1>5, WrapWithin DEF Within
<1> QED
  BY <1>4, <1>5, <1>6

LEMMA AbsWithin ==
  ASSUME NEW n, Within(n), n # 0
  PROVE  Within(Abs64(n)) /\ Abs64(n) # 0
BY WrapWithin, WrapNegative DEF Abs64, Within

LEMMA NegatedWithin ==
  ASSUME NEW n, Within(n), n # 0
  PROVE  Wrap(-n) \in Int \ {0}
BY WrapWithin, WrapNegative DEF Within

LEMMA WrapIs ==
  ASSUME NEW n, Within(n)
  PROVE  Wrap(n) = n
<1> DEFINE H == 2^(Width - 1)
           W == 2^Width
<1>1. H \in Nat \ {0} /\ W = 2 * H /\ n \in Int /\ -H <= n /\ n < H
  BY CsvAssumption DEF Within, Half
<1> HIDE DEF H, W
<1> DEFINE m == n + H
<1>2. m \in Int /\ 0 <= m /\ m < W /\ W \in Int /\ W > 0
  BY ONLY <1>1, SMT
<1> HIDE DEF m
<1>3. m % W = m
  BY ONLY <1>2, SMT
<1>4. m - H = n
  BY <1>1 DEF m
<1> QED
  BY <1>3, <1>4 DEF Wrap, H, W, m

Size(cents) == IF cents < 0 THEN -cents ELSE cents

(* What WriteAmount makes of an amount, up to its marks. *)
LEMMA AmountWritten ==
  ASSUME NEW style, style.decimals \in {"point", "comma"},
         style.mark \in {"minus", "inner", "around"}, NEW cents \in Int
  PROVE  LET cell == WriteAmount(style, cents)
         IN /\ cell.kind = "money" /\ Readable(cell) /\ Negative(cell) = (cents < 0)
            /\ IF style.decimals = "comma" THEN cell.whole = Size(cents) /\ cell.frac = <<>>
               ELSE /\ cell.whole = Size(cents) \div 100
                    /\ cell.frac = <<(Size(cents) \div 10) % 10, Size(cents) % 10>>
<1> DEFINE size == IF cents < 0 THEN -cents ELSE cents
           text == IF style.decimals = "comma" THEN Money(size, <<>>)
                   ELSE Money(size \div 100, <<(size \div 10) % 10, size % 10>>)
           cell == WriteAmount(style, cents)
<1>1. size \in Nat /\ size \div 100 \in Nat /\ None \notin Nat
  BY CsvAssumption
<1>2. /\ text.kind = "money" /\ text.whole # None
      /\ text.open = FALSE /\ text.close = FALSE /\ text.minus = FALSE /\ text.inner = FALSE
      /\ IF style.decimals = "comma" THEN text.whole = size /\ text.frac = <<>>
         ELSE text.whole = size \div 100 /\ text.frac = <<(size \div 10) % 10, size % 10>>
  BY <1>1 DEF Money
<1>3. text = [kind |-> "money", open |-> FALSE, close |-> FALSE, minus |-> FALSE,
              inner |-> FALSE, whole |-> text.whole, frac |-> text.frac]
  BY DEF Money
<1>4. cell = IF cents >= 0 THEN text
             ELSE CASE style.mark = "minus"  -> [text EXCEPT !.minus = TRUE]
                    [] style.mark = "inner"  -> [text EXCEPT !.inner = TRUE]
                    [] style.mark = "around" -> [text EXCEPT !.open = TRUE, !.close = TRUE]
  BY DEF WriteAmount
<1> HIDE DEF text, cell
<1>5. /\ cell.kind = "money" /\ cell.whole = text.whole /\ cell.frac = text.frac
      /\ cents >= 0 => ~cell.open /\ ~cell.close /\ ~cell.minus /\ ~cell.inner
      /\ cents < 0 => \/ cell.open /\ cell.close /\ ~cell.minus /\ ~cell.inner
                      \/ ~cell.open /\ ~cell.close /\ cell.minus /\ ~cell.inner
                      \/ ~cell.open /\ ~cell.close /\ ~cell.minus /\ cell.inner
  BY <1>3, <1>4
<1>6. Readable(cell) /\ Negative(cell) = (cents < 0)
  BY <1>2, <1>5 DEF Readable, Negative
<1> QED
  BY <1>2, <1>5, <1>6 DEF Size, cell

(* An amount is no text and no date, whatever its width. *)
LEMMA AmountLooks ==
  ASSUME NEW style, style.decimals \in {"point", "comma"},
         style.mark \in {"minus", "inner", "around"}, NEW cents \in Int
  PROVE  /\ ParseAmount(WriteAmount(style, cents)) \in Int
         /\ WriteAmount(style, cents).kind = "money"
<1> DEFINE cell == WriteAmount(style, cents)
           dollars == IF cell.whole = None THEN 0 ELSE cell.whole
           sum == 100 * dollars + Hundredths(cell.frac)
<1>1. cell.kind = "money" /\ Readable(cell) /\ MoneyText(cell) = cell
  BY AmountWritten DEF MoneyText
<1>2. dollars \in Nat
  <2>1. Size(cents) \in Nat /\ Size(cents) \div 100 \in Nat
    BY DEF Size
  <2>2. cell.whole \in Nat
    BY <2>1, AmountWritten
  <2> QED
    BY <2>2
<1>3. Hundredths(cell.frac) \in Int
  BY AmountWritten DEF Size, Hundredths
<1> HIDE DEF cell, dollars
<1>4. sum \in Int
  BY <1>2, <1>3
<1>5. ParseAmount(cell) = IF Negative(cell) THEN Wrap(-Wrap(sum)) ELSE Wrap(sum)
  BY <1>1 DEF ParseAmount, dollars
<1> HIDE DEF sum
<1>6. Within(Wrap(sum)) /\ Within(Wrap(-Wrap(sum)))
  BY <1>4, WrapWithin DEF Within
<1> QED
  BY <1>1, <1>5, <1>6 DEF Within, cell

LEMMA ScaleIs ==
  ASSUME NEW style
  PROVE  /\ Scale(style) = IF style.decimals = "comma" THEN 100 ELSE 1
         /\ \A n \in Int :
              /\ Scale(style) * n \in Int
              /\ Scale(style) * (-n) = -(Scale(style) * n)
              /\ n < 0 <=> Scale(style) * n < 0
              /\ n = 0 <=> Scale(style) * n = 0
              /\ Size(Scale(style) * n) = Scale(style) * Size(n)
<1>1. CASE style.decimals = "comma"
  BY <1>1 DEF Scale, Size
<1>2. CASE style.decimals # "comma"
  BY <1>2 DEF Scale, Size
<1> QED
  BY <1>1, <1>2

LEMMA AmountReads ==
  ASSUME NEW style, style.decimals \in {"point", "comma"},
         style.mark \in {"minus", "inner", "around"},
         NEW cents \in Int, -Half < Scale(style) * cents, Scale(style) * cents < Half
  PROVE  ParseAmount(WriteAmount(style, cents)) = Scale(style) * cents
<1> DEFINE cell == WriteAmount(style, cents)
           size == Size(cents)
           worth == Scale(style) * cents
           sum == 100 * cell.whole + Hundredths(cell.frac)
<1>1. /\ cell.kind = "money" /\ Readable(cell) /\ MoneyText(cell) = cell
      /\ Negative(cell) = (cents < 0)
      /\ IF style.decimals = "comma" THEN cell.whole = size /\ cell.frac = <<>>
         ELSE cell.whole = size \div 100 /\ cell.frac = <<(size \div 10) % 10, size % 10>>
  BY AmountWritten DEF MoneyText
<1>2. /\ worth \in Int /\ Size(worth) = Scale(style) * size
      /\ worth < 0 <=> cents < 0
  BY ScaleIs
<1>3. -Half < worth /\ worth < Half /\ Half \in Int
  BY CsvAssumption DEF Half
<1>4. size \in Nat
  BY DEF Size
<1>5. cell.whole # None /\ sum = Size(worth)
  <2>1. CASE style.decimals = "comma"
    <3>1. cell.whole = size /\ cell.frac = <<>> /\ Scale(style) = 100
      BY <1>1, <2>1, ScaleIs
    <3> HIDE DEF cell, size, worth
    <3>2. Hundredths(cell.frac) = 0
      BY <3>1 DEF Hundredths
    <3> QED
      BY <1>2, <1>4, <3>1, <3>2, CsvAssumption
  <2>2. CASE style.decimals # "comma"
    <3>1. /\ cell.whole = size \div 100 /\ cell.frac = <<(size \div 10) % 10, size % 10>>
          /\ Scale(style) = 1
      BY <1>1, <2>2, ScaleIs
    <3> HIDE DEF cell, size, worth
    <3>2. /\ cell.whole # None
          /\ Hundredths(cell.frac) = 10 * ((size \div 10) % 10) + (size % 10)
      BY <1>4, <3>1, CsvAssumption DEF Hundredths
    <3>3. 100 * (size \div 100) + (10 * ((size \div 10) % 10) + (size % 10)) = size
      BY ONLY <1>4, SMT
    <3> QED
      BY <1>2, <1>4, <3>1, <3>2, <3>3
  <2> QED
    BY <2>1, <2>2
<1> HIDE DEF cell, size, worth, sum
<1>6. Within(Size(worth)) /\ Within(-Size(worth)) /\ worth = IF worth < 0 THEN -Size(worth) ELSE Size(worth)
  BY <1>2, <1>3 DEF Size, Within
<1>7. Wrap(Size(worth)) = Size(worth) /\ Wrap(-Size(worth)) = -Size(worth)
  BY <1>6, WrapIs
<1>8. ParseAmount(cell) = IF Negative(cell) THEN Wrap(-Wrap(sum)) ELSE Wrap(sum)
  BY <1>1, <1>5 DEF ParseAmount, sum
<1> QED
  BY <1>1, <1>2, <1>5, <1>6, <1>7, <1>8 DEF cell, worth

-----------------------------------------------------------------------------
(* Exports. *)

LEMMA TextIs ==
  ASSUME NEW cell \in Text
  PROVE  cell.kind = "text"
BY DEF Text

LEMMA TextLooks ==
  ASSUME NEW cell, cell.kind = "text"
  PROVE  ~IsBlank(cell) /\ ~AnyDate(cell) /\ ParseAmount(cell) = None
BY DEF IsBlank, AnyDate, ParseDate, ParseAmount, MoneyText

LEMMA BlankLooks == IsBlank(Blank) /\ ~AnyDate(Blank) /\ ParseAmount(Blank) = None
BY DEF Blank, IsBlank, AnyDate, ParseDate, ParseAmount, MoneyText

LEMMA MoneyLooks ==
  ASSUME NEW cell, cell.kind = "money"
  PROVE  ~IsBlank(cell) /\ ~AnyDate(cell)
BY DEF IsBlank, AnyDate, ParseDate

Column == Role \cup {"balance", "other"}

LEMMA StyleIs ==
  ASSUME NEW style, IsStyle(style)
  PROVE  /\ Len(style.columns) \in Nat /\ DOMAIN style.columns = 1..Len(style.columns)
         /\ \A k \in DOMAIN style.columns : style.columns[k] \in Column
         /\ style.header \in Seq(Text) /\ style.layout \in Range(DateFormats)
         /\ style.decimals \in {"point", "comma"} /\ style.mark \in {"minus", "inner", "around"}
         /\ style.outPositive \in BOOLEAN
BY DEF IsStyle, Column

LEMMA EntryIs ==
  ASSUME NEW statement, IsStatement(statement), NEW n \in DOMAIN statement
  PROVE  LET entry == statement[n]
         IN /\ entry = [date |-> entry.date, amount |-> entry.amount, payee |-> entry.payee]
            /\ entry.date \in Nat \X Nat \X Nat /\ IsDay(entry.date)
            /\ entry.amount \in Int /\ entry.payee \in {Blank} \cup Text
<1> DEFINE P == {Blank} \cup Text
           S == [date : Nat \X Nat \X Nat, amount : Int, payee : P]
<1> HIDE DEF P
<1>1. statement \in Seq(S) /\ IsDay(statement[n].date)
  BY DEF IsStatement, P
<1>2. statement[n] \in S
  <2> HIDE DEF S
  <2> QED
    BY <1>1
<1> QED
  BY <1>1, <1>2 DEF P

LEMMA StatementIs ==
  ASSUME NEW statement, IsStatement(statement)
  PROVE  /\ Len(statement) \in Nat \ {0} /\ DOMAIN statement = 1..Len(statement)
         /\ \E S : statement \in Seq(S)
BY DEF IsStatement

(* The record that stands for an entry, and those of a statement. *)
Line(style, entry) == [k \in DOMAIN style.columns |-> WriteCell(style, entry, style.columns[k])]

Lines(file) == [n \in DOMAIN file.statement |-> Line(file.style, file.statement[n])]

(* An export parses: its first line is a header if the bank wrote one. *)
LEMMA ExportParses ==
  ASSUME NEW file, IsExport(file)
  PROVE  /\ ~Unparsable(file.upload)
         /\ Parse(file.upload) = [headers |-> file.style.header, records |-> Lines(file)]
<1> DEFINE style == file.style
           header == style.header
           statement == file.statement
           lines == Lines(file)
           R == Range(lines) \cup {header}
<1>1. IsStyle(style) /\ IsStatement(statement)
  BY DEF IsExport
<1>2. file.upload = IF header = <<>> THEN lines ELSE <<header>> \o lines
  BY DEF IsExport, Export, Lines, Line
<1>3. /\ Len(statement) \in Nat \ {0} /\ DOMAIN lines = 1..Len(statement)
      /\ lines \in Seq(R) /\ Len(lines) = Len(statement)
  BY <1>1, StatementIs DEF Lines, Range
<1>4. ASSUME NEW n \in DOMAIN lines
      PROVE  ~Empty(lines[n]) /\ ~LooksLikeHeader(lines[n])
  <2>1. PICK k \in DOMAIN style.columns : style.columns[k] = "date"
    BY <1>1 DEF IsStyle, Occurs
  <2>2. n \in DOMAIN statement
    BY DEF Lines
  <2>3. k \in DOMAIN lines[n] /\ lines[n][k] = WriteDate(style.layout, statement[n].date)
    BY <2>1, <2>2 DEF Lines, Line, WriteCell
  <2>4. AnyDate(lines[n][k])
    BY <1>1, <2>2, <2>3, EntryIs, StyleIs, DayIsDate
  <2>5. ~IsBlank(lines[n][k])
    BY <2>3 DEF WriteDate, IsBlank
  <2> QED
    BY <2>3, <2>4, <2>5 DEF Empty, LooksLikeHeader
<1>5. header \in Seq(Text)
  BY <1>1, StyleIs
<1>6. CASE header = <<>>
  <2>1. Filled(file.upload) = lines
    <3> HIDE DEF lines, R
    <3> QED
      BY <1>2, <1>3, <1>4, <1>6, FilledAll
  <2>2. lines # <<>> /\ ~LooksLikeHeader(lines[1])
    BY <1>3, <1>4
  <2> HIDE DEF lines, header
  <2>3. Filled(file.upload)[1] = lines[1] /\ Filled(file.upload) # <<>>
    BY <2>1, <2>2
  <2>4. ~Unparsable(file.upload)
    BY <2>2, <2>3 DEF Unparsable
  <2>5. Parse(file.upload) = [headers |-> <<>>, records |-> lines]
    BY <2>1, <2>2 DEF Parse
  <2>6. [headers |-> <<>>, records |-> lines] = [headers |-> header, records |-> lines]
    BY <1>6
  <2> QED
    BY <2>4, <2>5, <2>6 DEF header, lines
<1>7. CASE header # <<>>
  <2>1. LooksLikeHeader(header) /\ ~Empty(header)
    <3>1. \A k \in DOMAIN header : header[k] \in Text
      BY <1>5
    <3>2. 1 \in DOMAIN header
      BY <1>5, <1>7
    <3> QED
      BY <3>1, <3>2, TextIs, TextLooks DEF LooksLikeHeader, Empty
  <2> HIDE DEF lines, R, header
  <2> DEFINE upload == <<header>> \o lines
  <2>2. header \in R
    BY DEF R
  <2>3. /\ upload \in Seq(R) /\ Len(upload) = 1 + Len(lines) /\ upload[1] = header
        /\ DOMAIN upload = 1..(1 + Len(lines))
        /\ \A n \in 2..(1 + Len(lines)) : upload[n] = lines[n - 1]
    BY <1>3, <2>2
  <2>4. Tail(upload) = lines
    BY <1>3, <2>3
  <2>5. \A n \in DOMAIN upload : ~Empty(upload[n])
    BY <1>3, <1>4, <2>1, <2>3
  <2> HIDE DEF upload
  <2>6. Filled(file.upload) = upload
    BY <1>2, <1>7, <2>3, <2>5, FilledAll DEF upload
  <2>7. upload # <<>> /\ Len(upload) # 1
    BY <1>3, <2>3
  <2> QED
    BY <2>1, <2>3, <2>4, <2>6, <2>7 DEF Unparsable, Parse, header, lines
<1> QED
  BY <1>6, <1>7

-----------------------------------------------------------------------------
(* Columns. *)

(* Where a style has a role's column, and whether that is among the first k. *)
Place(style, role) ==
  IF Occurs(style, role) THEN CHOOSE k \in DOMAIN style.columns : style.columns[k] = role ELSE 0

Upto(style, role, k) == IF Place(style, role) <= k THEN Place(style, role) ELSE 0

Mapping(date, payee, debit, credit, amount, format, split, invert) ==
  [date |-> date, payee |-> payee, debit |-> debit, credit |-> credit, amount |-> amount,
   format |-> format, split |-> split, invert |-> invert]

Guess(date, payee, debit, credit, amount) ==
  Mapping(date, payee, debit, credit, amount, None, FALSE, FALSE)

Mapped(style, k) ==
  Guess(Upto(style, "date", k), Upto(style, "payee", k), Upto(style, "debit", k),
        Upto(style, "credit", k), Upto(style, "amount", k))

LEMMA MappingIs ==
  ASSUME NEW a, NEW b, NEW c, NEW d, NEW e, NEW f, NEW g, NEW h, NEW x
  PROVE  LET m == Mapping(a, b, c, d, e, f, g, h)
         IN /\ m.date = a /\ m.payee = b /\ m.debit = c /\ m.credit = d /\ m.amount = e
            /\ m.format = f /\ m.split = g /\ m.invert = h
            /\ [m EXCEPT !.date = x] = Mapping(x, b, c, d, e, f, g, h)
            /\ [m EXCEPT !.payee = x] = Mapping(a, x, c, d, e, f, g, h)
            /\ [m EXCEPT !.debit = x] = Mapping(a, b, x, d, e, f, g, h)
            /\ [m EXCEPT !.credit = x] = Mapping(a, b, c, x, e, f, g, h)
            /\ [m EXCEPT !.amount = x] = Mapping(a, b, c, d, x, f, g, h)
            /\ [m EXCEPT !.format = x] = Mapping(a, b, c, d, e, x, g, h)
            /\ [m EXCEPT !.split = x] = Mapping(a, b, c, d, e, f, x, h)
BY DEF Mapping

LEMMA GuessIs ==
  ASSUME NEW a, NEW b, NEW c, NEW d, NEW e, NEW x
  PROVE  LET m == Guess(a, b, c, d, e)
         IN /\ m.date = a /\ m.payee = b /\ m.debit = c /\ m.credit = d /\ m.amount = e
            /\ [m EXCEPT !.date = x] = Guess(x, b, c, d, e)
            /\ [m EXCEPT !.payee = x] = Guess(a, x, c, d, e)
            /\ [m EXCEPT !.debit = x] = Guess(a, b, x, d, e)
            /\ [m EXCEPT !.credit = x] = Guess(a, b, c, x, e)
            /\ [m EXCEPT !.amount = x] = Guess(a, b, c, d, x)
<1> DEFINE no == FALSE
           G(u, v, w, y, z) == Mapping(u, v, w, y, z, None, no, no)
           m == G(a, b, c, d, e)
<1>1. \A u, v, w, y, z : Guess(u, v, w, y, z) = G(u, v, w, y, z)
  BY DEF Guess
<1> HIDE DEF no
<1>2. m.date = a /\ m.payee = b /\ m.debit = c /\ m.credit = d /\ m.amount = e
  BY MappingIs
<1>3. /\ [m EXCEPT !.date = x] = G(x, b, c, d, e)
      /\ [m EXCEPT !.payee = x] = G(a, x, c, d, e)
  BY MappingIs
<1>4. /\ [m EXCEPT !.debit = x] = G(a, b, x, d, e)
      /\ [m EXCEPT !.credit = x] = G(a, b, c, x, e)
  BY MappingIs
<1>5. [m EXCEPT !.amount = x] = G(a, b, c, d, x)
  BY MappingIs
<1> HIDE DEF G
<1> QED
  BY <1>1, <1>2, <1>3, <1>4, <1>5, Zenon

LEMMA PlaceIs ==
  ASSUME NEW style, IsStyle(style), NEW role \in Role
  PROVE  /\ Place(style, role) \in 0..Len(style.columns)
         /\ Place(style, role) # 0 <=> Occurs(style, role)
         /\ \A k \in DOMAIN style.columns : style.columns[k] = role <=> Place(style, role) = k
<1>1. Len(style.columns) \in Nat /\ DOMAIN style.columns = 1..Len(style.columns)
  BY StyleIs
<1>2. \A i, j \in DOMAIN style.columns :
        style.columns[i] = role /\ style.columns[j] = role => i = j
  BY DEF IsStyle
<1>3. CASE Occurs(style, role)
  <2>1. PICK k \in DOMAIN style.columns : style.columns[k] = role
    BY <1>3 DEF Occurs
  <2>2. Place(style, role) = CHOOSE i \in DOMAIN style.columns : style.columns[i] = role
    BY <1>3 DEF Place
  <2>3. Place(style, role) \in DOMAIN style.columns /\ style.columns[Place(style, role)] = role
    BY <2>1, <2>2
  <2> QED
    BY <1>1, <1>2, <1>3, <2>3
<1>4. CASE ~Occurs(style, role)
  BY <1>1, <1>4 DEF Occurs, Place
<1> QED
  BY <1>3, <1>4

LEMMA UptoStep ==
  ASSUME NEW style, IsStyle(style), NEW role \in Role, NEW k \in DOMAIN style.columns
  PROVE  /\ Upto(style, role, k) = IF style.columns[k] = role THEN k ELSE Upto(style, role, k - 1)
         /\ Upto(style, role, k - 1) \in 0..(k - 1)
         /\ style.columns[k] = role => Upto(style, role, k - 1) = 0
<1>1. k \in Nat /\ k > 0
  BY StyleIs
<1>2. Place(style, role) \in Nat /\ (style.columns[k] = role <=> Place(style, role) = k)
  BY PlaceIs
<1> QED
  BY <1>1, <1>2 DEF Upto

LEMMA MappedStep ==
  ASSUME NEW style, IsStyle(style), NEW k \in DOMAIN style.columns
  PROVE  /\ style.columns[k] \notin Role => Mapped(style, k) = Mapped(style, k - 1)
         /\ style.columns[k] \in Role =>
              /\ Mapped(style, k) = [Mapped(style, k - 1) EXCEPT ![style.columns[k]] = k]
              /\ Mapped(style, k - 1)[style.columns[k]] = 0
<1> DEFINE r == style.columns[k]
<1>1. \A role \in Role : Upto(style, role, k) = IF r = role THEN k ELSE Upto(style, role, k - 1)
  BY UptoStep
<1>2. \A role \in Role : r = role => Upto(style, role, k - 1) = 0
  BY UptoStep
<1>3. Role = {"date", "payee", "debit", "credit", "amount"}
  BY DEF Role
<1> HIDE DEF r
<1>4. CASE r \notin Role
  <2>1. \A role \in Role : Upto(style, role, k) = Upto(style, role, k - 1)
    BY <1>1, <1>4
  <2> QED
    BY <1>3, <1>4, <2>1 DEF Mapped, Guess, Mapping, r
<1>5. CASE r \in Role
  <2>1. Mapped(style, k - 1)[r] = Upto(style, r, k - 1)
    BY <1>3, <1>5 DEF Mapped, Guess, Mapping
  <2>2. Mapped(style, k) = [Mapped(style, k - 1) EXCEPT ![r] = k]
    <3>1. CASE r = "date"
      <4>1. Upto(style, "date", k) = k
        BY <1>1, <1>3, <3>1
      <4>2. \A role \in {"payee", "debit", "credit", "amount"} :
              Upto(style, role, k) = Upto(style, role, k - 1)
        BY <1>1, <1>3, <3>1
      <4>3. Mapped(style, k) = [Mapped(style, k - 1) EXCEPT !.date = k]
        BY <4>1, <4>2, GuessIs DEF Mapped
      <4> QED
        BY <3>1, <4>3
    <3>2. CASE r = "payee"
      <4>1. Upto(style, "payee", k) = k
        BY <1>1, <1>3, <3>2
      <4>2. \A role \in {"date", "debit", "credit", "amount"} :
              Upto(style, role, k) = Upto(style, role, k - 1)
        BY <1>1, <1>3, <3>2
      <4>3. Mapped(style, k) = [Mapped(style, k - 1) EXCEPT !.payee = k]
        BY <4>1, <4>2, GuessIs DEF Mapped
      <4> QED
        BY <3>2, <4>3
    <3>3. CASE r = "debit"
      <4>1. Upto(style, "debit", k) = k
        BY <1>1, <1>3, <3>3
      <4>2. \A role \in {"date", "payee", "credit", "amount"} :
              Upto(style, role, k) = Upto(style, role, k - 1)
        BY <1>1, <1>3, <3>3
      <4>3. Mapped(style, k) = [Mapped(style, k - 1) EXCEPT !.debit = k]
        BY <4>1, <4>2, GuessIs DEF Mapped
      <4> QED
        BY <3>3, <4>3
    <3>4. CASE r = "credit"
      <4>1. Upto(style, "credit", k) = k
        BY <1>1, <1>3, <3>4
      <4>2. \A role \in {"date", "payee", "debit", "amount"} :
              Upto(style, role, k) = Upto(style, role, k - 1)
        BY <1>1, <1>3, <3>4
      <4>3. Mapped(style, k) = [Mapped(style, k - 1) EXCEPT !.credit = k]
        BY <4>1, <4>2, GuessIs DEF Mapped
      <4> QED
        BY <3>4, <4>3
    <3>5. CASE r = "amount"
      <4>1. Upto(style, "amount", k) = k
        BY <1>1, <1>3, <3>5
      <4>2. \A role \in {"date", "payee", "debit", "credit"} :
              Upto(style, role, k) = Upto(style, role, k - 1)
        BY <1>1, <1>3, <3>5
      <4>3. Mapped(style, k) = [Mapped(style, k - 1) EXCEPT !.amount = k]
        BY <4>1, <4>2, GuessIs DEF Mapped
      <4> QED
        BY <3>5, <4>3
    <3> QED
      BY <1>3, <1>5, <3>1, <3>2, <3>3, <3>4, <3>5
  <2> QED
    BY <1>2, <1>5, <2>1, <2>2 DEF r
<1> QED
  BY <1>4, <1>5

LEMMA MappedNone ==
  ASSUME NEW style, IsStyle(style)
  PROVE  Mapped(style, 0) = Unmapped
<1>1. \A role \in Role : Upto(style, role, 0) = 0
  BY PlaceIs DEF Upto
<1> QED
  BY <1>1 DEF Mapped, Guess, Mapping, Unmapped, Role

(* A header whose names tell the columns is mapped column by column. *)
LEMMA Named ==
  ASSUME NEW style, IsStyle(style), style.header # <<>>, WellNamed(style)
  PROVE  ByName(style.header) = Mapped(style, Len(style.columns))
<1> DEFINE header == style.header
           L == Len(header)
           take(m, k) ==
             LET fits == {p \in DOMAIN Priority : m[Priority[p]] = 0 /\ Names(header[k], Priority[p])}
             IN IF fits = {} THEN m ELSE [m EXCEPT ![Priority[Min(fits)]] = k]
           Step(f, k) == IF k = 0 THEN Unmapped ELSE take(f[k - 1], k)
           Found == CHOOSE f : f = [k \in 0..L |-> Step(f, k)]
<1>1. /\ L = Len(style.columns) /\ L \in Nat /\ DOMAIN style.columns = 1..L
      /\ DOMAIN header = 1..L /\ \A k \in 1..L : header[k] \in Text
  BY StyleIs DEF IsStyle
<1>2. ASSUME NEW k \in 1..L PROVE Mapped(style, k) = take(Mapped(style, k - 1), k)
  <2> DEFINE m == Mapped(style, k - 1)
             named == {p \in DOMAIN Priority : Priority[p] \in header[k].roles}
             fits == {p \in DOMAIN Priority : m[Priority[p]] = 0 /\ Names(header[k], Priority[p])}
  <2>1. header[k].kind = "text" /\ k \in DOMAIN style.columns /\ k \in DOMAIN header
    BY <1>1 DEF Text
  <2>2. fits = {p \in named : m[Priority[p]] = 0}
    BY <2>1 DEF Names
  <2>3. named \subseteq 1..5
    BY DEF Priority
  <2>4. IF named = {} THEN style.columns[k] \notin Role
        ELSE Priority[Min(named)] = style.columns[k]
    BY <2>1 DEF WellNamed
  <2>5. CASE named = {}
    BY <2>1, <2>2, <2>4, <2>5, MappedStep
  <2>6. CASE named # {}
    <3> DEFINE q == Min(named)
    <3>1. \E x \in named : \A y \in named : x <= y
      <4> HIDE DEF named
      <4>1. named \in SUBSET Nat
        BY <2>3
      <4> QED
        BY <2>6, <4>1, Least
    <3>2. q \in named /\ \A y \in named : q <= y
      <4> HIDE DEF named
      <4> QED
        BY <3>1 DEF Min
    <3>3. Priority[q] \in Role /\ Priority[q] = style.columns[k]
      <4>1. \A p \in 1..5 : Priority[p] \in Role
        BY DEF Priority, Role
      <4> QED
        BY <2>3, <2>4, <2>6, <3>2, <4>1
    <3>9. named \in SUBSET Nat /\ fits \in SUBSET Nat
      BY <2>2, <2>3
    <3> HIDE DEF q, m, named, fits
    <3>4. m[style.columns[k]] = 0 /\ Mapped(style, k) = [m EXCEPT ![style.columns[k]] = k]
      BY <2>1, <3>3, MappedStep DEF m
    <3>5. q \in fits /\ \A y \in fits : q <= y
      BY <2>2, <3>2, <3>3, <3>4
    <3>6. Min(fits) = q
      BY <3>5, <3>9, MinIs
    <3>7. take(m, k) = [m EXCEPT ![Priority[Min(fits)]] = k]
      BY <3>5 DEF fits
    <3> QED
      BY <3>3, <3>4, <3>6, <3>7 DEF m
  <2> QED
    BY <2>5, <2>6
<1>3. Mapped(style, 0) = Unmapped
  BY MappedNone
<1> DEFINE f == [k \in 0..L |-> Mapped(style, k)]
<1> HIDE DEF take, L
<1>4. f = [k \in 0..L |-> Step(f, k)]
  <2> SUFFICES ASSUME NEW k \in 0..L PROVE f[k] = Step(f, k)
    OBVIOUS
  <2>1. CASE k = 0
    BY <1>3, <2>1
  <2>2. CASE k # 0
    <3>1. k \in 1..L /\ k - 1 \in 0..L
      BY <1>1, <2>2
    <3> QED
      BY <1>2, <2>2, <3>1
  <2> QED
    BY <2>1, <2>2
<1>5. Found = [k \in 0..L |-> Step(Found, k)]
  <2> HIDE DEF Step, f
  <2> QED
    BY <1>4, Zenon
<1>6. ByName(header) = Found[L]
  BY Zenon DEF ByName, take, L
<1> HIDE DEF Found, f
<1> DEFINE T == {k \in 0..L : Found[k] = Mapped(style, k)}
<1>7. 0 \in T
  <2>1. 0 \in 0..L
    BY <1>1
  <2> QED
    BY <1>3, <1>5, <2>1
<1>8. ASSUME NEW k \in 1..L, k - 1 \in T PROVE k \in T
  <2>1. k \in 0..L /\ k # 0
    BY <1>1
  <2>2. Found[k] = take(Found[k - 1], k)
    BY <1>5, <2>1
  <2> QED
    BY <1>2, <1>8, <2>1, <2>2
<1> HIDE DEF T
<1>9. 0..L \subseteq T
  BY <1>1, <1>7, <1>8, Up
<1>10. L \in T
  BY <1>1, <1>9
<1> QED
  BY <1>1, <1>6, <1>10 DEF T

-----------------------------------------------------------------------------
(* Pass 2. *)

(* What the cells of a column look like, counted. *)
LEMMA ProbeDates ==
  ASSUME NEW m, m.date = 0, NEW sample, IsFiniteSet(DOMAIN sample), DOMAIN sample # {}, NEW k,
         \A n \in DOMAIN sample : /\ ~IsBlank(CellAt(sample[n], k))
                                  /\ AnyDate(sample[n][k])
  PROVE  Probe(m, sample, k) = [m EXCEPT !.date = k]
<1> DEFINE cells == {n \in DOMAIN sample : ~IsBlank(CellAt(sample[n], k))}
           inDates == {n \in cells : AnyDate(sample[n][k])}
           inMoney == {n \in cells \ inDates : ParseAmount(sample[n][k]) # None}
           dates == Cardinality(inDates)
           amounts == Cardinality(inMoney)
           texts == Cardinality(cells) - dates - amounts
<1>1. cells = DOMAIN sample /\ inDates = DOMAIN sample /\ inMoney = {}
  OBVIOUS
<1>2. Cardinality(DOMAIN sample) \in Nat \ {0} /\ Cardinality({}) = 0
  BY FS_EmptySet, FS_CardinalityType
<1>3. dates > 0 /\ dates >= amounts /\ dates >= texts
  <2>1. dates = Cardinality(DOMAIN sample) /\ amounts = 0 /\ texts = dates - dates - 0
    BY <1>1, <1>2
  <2> HIDE DEF dates, amounts, texts
  <2> QED
    BY <1>2, <2>1
<1> HIDE DEF cells, inDates, inMoney
<1>4. Probe(m, sample, k) = [m EXCEPT !.date = k]
  <2> HIDE DEF dates, amounts, texts
  <2> QED
    BY <1>3 DEF Probe, cells, inDates, inMoney, dates, amounts, texts
<1> QED
  BY <1>4

LEMMA ProbeMoney ==
  ASSUME NEW m, NEW sample, IsFiniteSet(DOMAIN sample), DOMAIN sample # {}, NEW k,
         \A n \in DOMAIN sample : /\ ~IsBlank(CellAt(sample[n], k))
                                  /\ ~AnyDate(sample[n][k]) /\ ParseAmount(sample[n][k]) # None
  PROVE  Probe(m, sample, k) = IF m.amount = 0 /\ m.debit = 0 /\ k # m.date
                                 THEN [m EXCEPT !.amount = k] ELSE m
<1> DEFINE cells == {n \in DOMAIN sample : ~IsBlank(CellAt(sample[n], k))}
           inDates == {n \in cells : AnyDate(sample[n][k])}
           inMoney == {n \in cells \ inDates : ParseAmount(sample[n][k]) # None}
           dates == Cardinality(inDates)
           amounts == Cardinality(inMoney)
           texts == Cardinality(cells) - dates - amounts
<1>1. cells = DOMAIN sample /\ inDates = {} /\ inMoney = DOMAIN sample
  OBVIOUS
<1>2. Cardinality(DOMAIN sample) \in Nat \ {0} /\ Cardinality({}) = 0
  BY FS_EmptySet, FS_CardinalityType
<1>3. dates = 0 /\ amounts \in Nat /\ amounts > 0 /\ texts = 0
  <2>1. dates = 0 /\ amounts = Cardinality(DOMAIN sample) /\ texts = amounts - 0 - amounts
    BY <1>1, <1>2
  <2> HIDE DEF dates, amounts, texts
  <2> QED
    BY <1>2, <2>1
<1> HIDE DEF cells, inDates, inMoney
<1>4. Probe(m, sample, k) = IF m.amount = 0 /\ m.debit = 0 /\ k # m.date
                              THEN [m EXCEPT !.amount = k] ELSE m
  <2> HIDE DEF dates, amounts, texts
  <2> QED
    BY <1>3 DEF Probe, cells, inDates, inMoney, dates, amounts, texts
<1> QED
  BY <1>4

LEMMA ProbeTexts ==
  ASSUME NEW m, NEW sample, IsFiniteSet(DOMAIN sample), NEW k,
         \A n \in DOMAIN sample : \/ IsBlank(CellAt(sample[n], k))
                                  \/ ~AnyDate(sample[n][k]) /\ ParseAmount(sample[n][k]) = None,
         \E n \in DOMAIN sample : ~IsBlank(CellAt(sample[n], k))
  PROVE  Probe(m, sample, k) = IF m.payee = 0 /\ k # m.date THEN [m EXCEPT !.payee = k] ELSE m
<1> DEFINE cells == {n \in DOMAIN sample : ~IsBlank(CellAt(sample[n], k))}
           inDates == {n \in cells : AnyDate(sample[n][k])}
           inMoney == {n \in cells \ inDates : ParseAmount(sample[n][k]) # None}
           dates == Cardinality(inDates)
           amounts == Cardinality(inMoney)
           texts == Cardinality(cells) - dates - amounts
<1>1. cells \subseteq DOMAIN sample /\ cells # {} /\ inDates = {} /\ inMoney = {}
  OBVIOUS
<1>2. Cardinality(cells) \in Nat \ {0} /\ Cardinality({}) = 0
  <2> HIDE DEF cells
  <2>1. IsFiniteSet(cells)
    BY <1>1, FS_Subset
  <2> QED
    BY <1>1, <2>1, FS_EmptySet, FS_CardinalityType
<1>3. dates = 0 /\ amounts = 0 /\ texts > 0
  <2>1. dates = 0 /\ amounts = 0 /\ texts = Cardinality(cells) - 0 - 0
    BY <1>1, <1>2
  <2> HIDE DEF dates, amounts, texts
  <2> QED
    BY <1>2, <2>1
<1> HIDE DEF cells, inDates, inMoney
<1>4. Probe(m, sample, k) = IF m.payee = 0 /\ k # m.date THEN [m EXCEPT !.payee = k] ELSE m
  <2> HIDE DEF dates, amounts, texts
  <2> QED
    BY <1>3 DEF Probe, cells, inDates, inMoney, dates, amounts, texts
<1> QED
  BY <1>4

Sample(file) == FirstOf(SampleRows, Lines(file))

LEMMA LineIs ==
  ASSUME NEW style, IsStyle(style), NEW entry
  PROVE  /\ DOMAIN Line(style, entry) = DOMAIN style.columns
         /\ Len(Line(style, entry)) = Len(style.columns)
         /\ \A k \in DOMAIN style.columns :
              CellAt(Line(style, entry), k) = WriteCell(style, entry, style.columns[k])
<1>1. Len(style.columns) \in Nat /\ DOMAIN style.columns = 1..Len(style.columns)
  BY StyleIs
<1> DEFINE L == Len(style.columns)
<1> HIDE DEF L
<1>2. Line(style, entry) = [k \in 1..L |-> WriteCell(style, entry, style.columns[k])]
  BY <1>1 DEF Line, L
<1>3. L \in Nat
  BY <1>1 DEF L
<1>4. Len(Line(style, entry)) = L
  BY <1>2, <1>3
<1> QED
  BY <1>1, <1>2, <1>4 DEF CellAt, L

LEMMA SampleIs ==
  ASSUME NEW file, IsExport(file)
  PROVE  LET N == MinOf(SampleRows, Len(file.statement))
         IN /\ N \in Nat \ {0} /\ DOMAIN Sample(file) = 1..N
            /\ 1..N \subseteq DOMAIN file.statement
            /\ \A n \in 1..N : Sample(file)[n] = Line(file.style, file.statement[n])
<1> DEFINE N == MinOf(SampleRows, Len(file.statement))
           lines == Lines(file)
<1>1. IsStyle(file.style) /\ IsStatement(file.statement)
  BY DEF IsExport
<1>2. /\ Len(file.statement) \in Nat \ {0} /\ DOMAIN file.statement = 1..Len(file.statement)
  BY <1>1, StatementIs
<1>3. N \in Nat \ {0} /\ N <= Len(file.statement)
  BY <1>2, CsvAssumption DEF MinOf
<1>4. /\ lines = [n \in 1..Len(file.statement) |-> Line(file.style, file.statement[n])]
      /\ Len(lines) = Len(file.statement)
  BY <1>2 DEF Lines
<1>5. Sample(file) = SubSeq(lines, 1, N)
  BY <1>4 DEF Sample, FirstOf
<1> HIDE DEF N, lines
<1>6. SubSeq(lines, 1, N) = [n \in 1..N |-> lines[n]]
  BY <1>3 DEF SubSeq
<1>7. \A n \in 1..N : n \in 1..Len(file.statement)
  BY <1>2, <1>3
<1> QED
  BY <1>2, <1>3, <1>4, <1>5, <1>6, <1>7 DEF N

(* Column by column, pass 2 goes from one mapping to the next. *)
LEMMA Valued ==
  ASSUME NEW file, IsExport(file), NEW G,
         \A k \in 1..Len(file.style.columns) : Probe(G[k - 1], Sample(file), k) = G[k]
  PROVE  ByValue(G[0], Sample(file)) = G[Len(file.style.columns)]
<1> DEFINE L == Len(file.style.columns)
           sample == Sample(file)
           width == CHOOSE w \in {Len(sample[n]) : n \in DOMAIN sample} :
                      \A n \in DOMAIN sample : Len(sample[n]) <= w
           Step(f, k) == IF k = 0 THEN G[0] ELSE Probe(f[k - 1], sample, k)
           Found == CHOOSE f : f = [k \in 0..L |-> Step(f, k)]
           At(w) == LET probed[k \in 0..w] == IF k = 0 THEN G[0] ELSE Probe(probed[k - 1], sample, k)
                    IN probed[w]
<1>1. L \in Nat
  BY StyleIs DEF IsExport
<1>2. \A n \in DOMAIN sample : Len(sample[n]) = L
  BY SampleIs, LineIs DEF IsExport
<1>3. DOMAIN sample # {}
  <2>1. 1 \in 1..MinOf(SampleRows, Len(file.statement))
    BY SampleIs
  <2> QED
    BY <2>1, SampleIs
<1> HIDE DEF L, sample
<1>4. width = L
  <2>1. {Len(sample[n]) : n \in DOMAIN sample} = {L}
    BY <1>2, <1>3
  <2>2. \A n \in DOMAIN sample : Len(sample[n]) <= L
    BY <1>1, <1>2
  <2> QED
    BY <2>1, <2>2
<1> DEFINE f == [k \in 0..L |-> G[k]]
<1>5. f = [k \in 0..L |-> Step(f, k)]
  <2> SUFFICES ASSUME NEW k \in 0..L, k # 0 PROVE f[k] = Step(f, k)
    OBVIOUS
  <2>1. k \in 1..L /\ k - 1 \in 0..L
    BY <1>1
  <2> QED
    BY <2>1 DEF L, sample
<1>6. Found = [k \in 0..L |-> Step(Found, k)]
  <2> HIDE DEF Step, f
  <2> QED
    BY <1>5, Zenon
<1>7. ByValue(G[0], sample) = Found[L]
  <2>1. ByValue(G[0], sample) = At(width)
    BY DEF ByValue
  <2>2. At(L) = Found[L]
    BY Zenon
  <2> HIDE DEF At, width, Found
  <2> QED
    BY <1>4, <2>1, <2>2
<1> HIDE DEF Found, f
<1> DEFINE T == {k \in 0..L : Found[k] = G[k]}
<1>8. 0 \in T
  <2>1. 0 \in 0..L
    BY <1>1
  <2> QED
    BY <1>6, <2>1
<1>9. ASSUME NEW k \in 1..L, k - 1 \in T PROVE k \in T
  <2>1. k \in 0..L /\ k # 0
    BY <1>1
  <2>2. Found[k] = Probe(Found[k - 1], sample, k)
    BY <1>6, <2>1
  <2>3. Probe(G[k - 1], sample, k) = G[k]
    BY DEF L, sample
  <2> QED
    BY <1>9, <2>1, <2>2, <2>3
<1> HIDE DEF T
<1>10. 0..L \subseteq T
  BY <1>1, <1>8, <1>9, Up
<1>11. L \in T
  BY <1>1, <1>10
<1> QED
  BY <1>7, <1>11 DEF T, L, sample

LEMMA Probed ==
  ASSUME NEW file, IsExport(file), file.style.header = <<>>, ColumnsTold(file),
         NEW k \in 1..Len(file.style.columns)
  PROVE  Probe(Mapped(file.style, k - 1), Sample(file), k) = Mapped(file.style, k)
<1> DEFINE style == file.style
           c == style.columns[k]
           sample == Sample(file)
           entry(n) == file.statement[n]
           m == Mapped(style, k - 1)
<1>1. IsStyle(style) /\ IsStatement(file.statement)
  BY DEF IsExport
<1>2. k \in DOMAIN style.columns /\ c \in Column
  BY <1>1, StyleIs
<1>3. /\ DOMAIN sample # {} /\ IsFiniteSet(DOMAIN sample)
      /\ \A n \in DOMAIN sample :
           /\ n \in DOMAIN file.statement /\ sample[n] = Line(style, entry(n))
  <2>1. PICK N \in Nat \ {0} : /\ DOMAIN sample = 1..N /\ 1..N \subseteq DOMAIN file.statement
                               /\ \A n \in 1..N : sample[n] = Line(style, entry(n))
    BY SampleIs
  <2>2. IsFiniteSet(1..N)
    BY FS_Interval
  <2>3. 1 \in 1..N
    OBVIOUS
  <2> HIDE DEF sample, entry
  <2> QED
    BY <2>1, <2>2, <2>3
<1>4. \A n \in DOMAIN sample :
        /\ CellAt(sample[n], k) = WriteCell(style, entry(n), c)
        /\ sample[n][k] = WriteCell(style, entry(n), c)
  BY <1>1, <1>2, <1>3, LineIs DEF CellAt
<1>5. /\ ~Occurs(style, "debit") /\ ~Occurs(style, "credit") /\ Occurs(style, "amount")
      /\ ~Precedes(style, "balance", "amount") /\ ~Precedes(style, "other", "payee")
      /\ \E n \in DOMAIN sample : entry(n).payee # Blank
  <2>1. ~Occurs(style, "debit") /\ ~Occurs(style, "credit") /\ Occurs(style, "amount")
    <3>1. ~Occurs(style, "debit") /\ (Occurs(style, "debit") = Occurs(style, "credit"))
      BY <1>1 DEF ColumnsTold, IsStyle
    <3>2. Occurs(style, "amount") # Occurs(style, "debit")
      BY <1>1 DEF IsStyle
    <3> QED
      BY <3>1, <3>2 DEF Occurs
  <2>2. ~Precedes(style, "balance", "amount") /\ ~Precedes(style, "other", "payee")
    BY DEF ColumnsTold
  <2>3. \E n \in 1..MinOf(SampleRows, Len(file.statement)) : file.statement[n].payee # Blank
    BY DEF ColumnsTold
  <2>4. DOMAIN sample = 1..MinOf(SampleRows, Len(file.statement))
    BY SampleIs
  <2> QED
    BY <2>1, <2>2, <2>3, <2>4
<1>6. /\ m.date = Upto(style, "date", k - 1) /\ m.payee = Upto(style, "payee", k - 1)
      /\ m.amount = Upto(style, "amount", k - 1) /\ m.debit = Upto(style, "debit", k - 1)
  BY GuessIs DEF Mapped
<1>7. Upto(style, "debit", k - 1) = 0 /\ Upto(style, "date", k - 1) # k
  <2>1. Place(style, "debit") = 0
    BY <1>1, <1>5, PlaceIs DEF Role
  <2>2. Upto(style, "date", k - 1) \in 0..(k - 1)
    BY <1>1, <1>2, UptoStep DEF Role
  <2> QED
    BY <2>1, <2>2 DEF Upto
<1>8. /\ c \notin Role => Mapped(style, k) = m
      /\ c \in Role => m[c] = 0 /\ Mapped(style, k) = [m EXCEPT ![c] = k]
  BY <1>1, <1>2, MappedStep
<1>9. \A n \in DOMAIN sample :
        /\ entry(n).date \in Nat \X Nat \X Nat /\ IsDay(entry(n).date)
        /\ entry(n).amount \in Int /\ entry(n).payee \in {Blank} \cup Text
  BY <1>1, <1>3, EntryIs
<1>10. c # "debit" /\ c # "credit"
  BY <1>2, <1>5 DEF Occurs
<1> HIDE DEF m, sample, entry
<1>11. CASE c = "date"
  <2>1. \A n \in DOMAIN sample : ~IsBlank(CellAt(sample[n], k)) /\ AnyDate(sample[n][k])
    <3> SUFFICES ASSUME NEW n \in DOMAIN sample
                 PROVE  ~IsBlank(CellAt(sample[n], k)) /\ AnyDate(sample[n][k])
      OBVIOUS
    <3>1. WriteCell(style, entry(n), c) = WriteDate(style.layout, entry(n).date)
      BY <1>11 DEF WriteCell
    <3>2. AnyDate(WriteDate(style.layout, entry(n).date))
      BY <1>1, <1>9, StyleIs, DayIsDate
    <3>3. ~IsBlank(WriteDate(style.layout, entry(n).date))
      BY DEF WriteDate, IsBlank
    <3> QED
      BY <1>4, <3>1, <3>2, <3>3
  <2>2. m.date = 0 /\ Mapped(style, k) = [m EXCEPT !.date = k]
    BY <1>8, <1>11 DEF Role
  <2> HIDE DEF c
  <2>3. Probe(m, sample, k) = [m EXCEPT !.date = k]
    BY <1>3, <2>1, <2>2, ProbeDates
  <2> QED
    BY <2>2, <2>3 DEF m, sample
<1>12. CASE c = "amount" \/ c = "balance"
  <2>1. \A n \in DOMAIN sample : /\ ~IsBlank(CellAt(sample[n], k))
                                 /\ ~AnyDate(sample[n][k]) /\ ParseAmount(sample[n][k]) # None
    <3> SUFFICES ASSUME NEW n \in DOMAIN sample
                 PROVE  /\ ~IsBlank(CellAt(sample[n], k))
                        /\ ~AnyDate(sample[n][k]) /\ ParseAmount(sample[n][k]) # None
      OBVIOUS
    <3>1. PICK cents \in Int : WriteCell(style, entry(n), c) = WriteAmount(style, cents)
      <4>1. Signed(style, entry(n)) \in Int /\ 100000 \in Int
        BY <1>9 DEF Signed
      <4>2. \/ WriteCell(style, entry(n), c) = WriteAmount(style, Signed(style, entry(n)))
            \/ WriteCell(style, entry(n), c) = WriteAmount(style, 100000)
        BY <1>12 DEF WriteCell
      <4> QED
        BY <4>1, <4>2
    <3>2. /\ WriteAmount(style, cents).kind = "money"
          /\ ParseAmount(WriteAmount(style, cents)) \in Int
      BY <1>1, StyleIs, AmountLooks
    <3> QED
      BY <1>4, <3>1, <3>2, MoneyLooks, CsvAssumption
  <2>2. CASE c = "amount"
    <3>1. m.amount = 0 /\ Mapped(style, k) = [m EXCEPT !.amount = k]
      BY <1>8, <2>2 DEF Role
    <3> HIDE DEF c
    <3>2. Probe(m, sample, k) = [m EXCEPT !.amount = k]
      BY <1>3, <1>6, <1>7, <2>1, <3>1, ProbeMoney
    <3> QED
      BY <3>1, <3>2 DEF m, sample
  <2>3. CASE c = "balance"
    <3>1. Place(style, "amount") # 0 /\ Place(style, "amount") \in 0..Len(style.columns)
      BY <1>1, <1>5, PlaceIs DEF Role
    <3>2. Place(style, "amount") \in DOMAIN style.columns
      BY <1>1, <3>1, StyleIs
    <3>3. style.columns[Place(style, "amount")] = "amount"
      BY <1>1, <3>2, PlaceIs DEF Role
    <3>4. ~(k < Place(style, "amount")) /\ k # Place(style, "amount")
      BY <1>2, <1>5, <2>3, <3>2, <3>3 DEF Precedes
    <3>5. Upto(style, "amount", k - 1) # 0
      BY <3>1, <3>4 DEF Upto
    <3>6. Mapped(style, k) = m
      BY <1>8, <2>3 DEF Role
    <3> HIDE DEF c
    <3>7. Probe(m, sample, k) = m
      BY <1>3, <1>6, <2>1, <3>5, ProbeMoney
    <3> QED
      BY <3>6, <3>7 DEF m, sample
  <2> QED
    BY <1>12, <2>2, <2>3
<1>13. CASE c = "payee" \/ c = "other"
  <2>1. \A n \in DOMAIN sample :
          WriteCell(style, entry(n), c) = Blank \/ WriteCell(style, entry(n), c).kind = "text"
    <3>1. Heading("other", {}).kind = "text"
      BY DEF Heading
    <3> QED
      BY <1>9, <1>13, <3>1, TextIs DEF WriteCell
  <2>2. \A n \in DOMAIN sample : \/ IsBlank(CellAt(sample[n], k))
                                 \/ ~AnyDate(sample[n][k]) /\ ParseAmount(sample[n][k]) = None
    BY <1>4, <2>1, TextLooks, BlankLooks
  <2>3. \E n \in DOMAIN sample : ~IsBlank(CellAt(sample[n], k))
    <3>1. PICK n \in DOMAIN sample : entry(n).payee # Blank
      BY <1>5
    <3>2. WriteCell(style, entry(n), c).kind = "text"
      <4>1. CASE c = "payee"
        BY <1>9, <3>1, <4>1, TextIs DEF WriteCell
      <4>2. CASE c = "other"
        BY <4>2 DEF WriteCell, Heading
      <4> QED
        BY <1>13, <4>1, <4>2
    <3> QED
      BY <1>4, <3>2, TextLooks
  <2>4. CASE c = "payee"
    <3>1. m.payee = 0 /\ Mapped(style, k) = [m EXCEPT !.payee = k]
      BY <1>8, <2>4 DEF Role
    <3> HIDE DEF c
    <3>2. Probe(m, sample, k) = [m EXCEPT !.payee = k]
      BY <1>3, <1>6, <1>7, <2>2, <2>3, <3>1, ProbeTexts
    <3> QED
      BY <3>1, <3>2 DEF m, sample
  <2>5. CASE c = "other"
    <3>1. Place(style, "payee") # 0 /\ Place(style, "payee") \in 0..Len(style.columns)
      BY <1>1, PlaceIs DEF Role, IsStyle
    <3>2. Place(style, "payee") \in DOMAIN style.columns
      BY <1>1, <3>1, StyleIs
    <3>3. style.columns[Place(style, "payee")] = "payee"
      BY <1>1, <3>2, PlaceIs DEF Role
    <3>4. ~(k < Place(style, "payee")) /\ k # Place(style, "payee")
      BY <1>2, <1>5, <2>5, <3>2, <3>3 DEF Precedes
    <3>5. Upto(style, "payee", k - 1) # 0
      BY <3>1, <3>4 DEF Upto
    <3>6. Mapped(style, k) = m
      BY <1>8, <2>5 DEF Role
    <3> HIDE DEF c
    <3>7. Probe(m, sample, k) = m
      BY <1>3, <1>6, <2>2, <2>3, <3>5, ProbeTexts
    <3> QED
      BY <3>6, <3>7 DEF m, sample
  <2> QED
    BY <1>13, <2>4, <2>5
<1> QED
  BY <1>2, <1>10, <1>11, <1>12, <1>13 DEF Column, Role

LEMMA NamedNone == ByName(<<>>) = Unmapped
<1> DEFINE take(m, k) ==
             LET fits == {p \in DOMAIN Priority : m[Priority[p]] = 0 /\ Names(<<>>[k], Priority[p])}
             IN IF fits = {} THEN m ELSE [m EXCEPT ![Priority[Min(fits)]] = k]
           L == Len(<<>>)
           Step(f, k) == IF k = 0 THEN Unmapped ELSE take(f[k - 1], k)
           Found == CHOOSE f : f = [k \in 0..L |-> Step(f, k)]
<1>1. L = 0
  OBVIOUS
<1> HIDE DEF take, L
<1>2. 0 \in 0..L /\ \A k \in 0..L : k = 0
  BY <1>1
<1> DEFINE f == [k \in 0..L |-> Unmapped]
<1>3. f = [k \in 0..L |-> Step(f, k)]
  BY <1>2
<1>4. Found = [k \in 0..L |-> Step(Found, k)]
  <2> HIDE DEF Step, f
  <2> QED
    BY <1>3, Zenon
<1>5. ByName(<<>>) = Found[L]
  BY Zenon DEF ByName, take, L
<1> HIDE DEF Found
<1> QED
  BY <1>1, <1>2, <1>4, <1>5

(* Where columns can be told, every role is guessed to be where it is. *)
LEMMA ColumnsGuessed ==
  ASSUME NEW file, IsExport(file), ColumnsTold(file)
  PROVE  ByValue(ByName(file.style.header), Sample(file))
           = Mapped(file.style, Len(file.style.columns))
<1> DEFINE style == file.style
           L == Len(style.columns)
           M == Mapped(style, L)
<1>1. IsStyle(style) /\ L \in Nat
  BY StyleIs DEF IsExport
<1>2. CASE style.header # <<>>
  <2>1. ByName(style.header) = M
    BY <1>1, <1>2, Named DEF ColumnsTold
  <2>2. \A role \in Role : Upto(style, role, L) = Place(style, role)
    BY <1>1, PlaceIs DEF Upto
  <2>3. /\ M.date = Place(style, "date") /\ M.payee = Place(style, "payee")
        /\ M.debit = Place(style, "debit") /\ M.amount = Place(style, "amount")
    BY <2>2, GuessIs DEF Mapped, Role
  <2>4. M.date # 0 /\ M.payee # 0 /\ (M.amount # 0 \/ M.debit # 0)
    <3>1. Occurs(style, "date") /\ Occurs(style, "payee")
      BY <1>1 DEF IsStyle
    <3>2. Occurs(style, "amount") \/ Occurs(style, "debit")
      BY <1>1 DEF IsStyle, Occurs
    <3> QED
      BY <1>1, <2>3, <3>1, <3>2, PlaceIs DEF Role
  <2> HIDE DEF M
  <2> DEFINE G == [k \in 0..L |-> M]
  <2>5. ASSUME NEW k \in 1..L PROVE Probe(G[k - 1], Sample(file), k) = G[k]
    <3>1. k - 1 \in 0..L /\ k \in 0..L
      BY <1>1
    <3> QED
      BY <2>4, <3>1 DEF Probe
  <2>6. G[0] = M /\ G[L] = M
    BY <1>1
  <2> HIDE DEF G
  <2> QED
    BY <2>1, <2>5, <2>6, Valued DEF M
<1>3. CASE style.header = <<>>
  <2> DEFINE G == [k \in 0..L |-> Mapped(style, k)]
  <2>1. ByName(style.header) = Mapped(style, 0)
    BY <1>1, <1>3, NamedNone, MappedNone
  <2>2. ASSUME NEW k \in 1..L PROVE Probe(G[k - 1], Sample(file), k) = G[k]
    <3>1. k - 1 \in 0..L /\ k \in 0..L
      BY <1>1
    <3> QED
      BY <1>3, <3>1, Probed
  <2>3. G[0] = Mapped(style, 0) /\ G[L] = Mapped(style, L)
    BY <1>1
  <2> HIDE DEF G
  <2> QED
    BY <2>1, <2>2, <2>3, Valued
<1> QED
  BY <1>2, <1>3

-----------------------------------------------------------------------------
(* The date format. *)

Fits(file, k) ==
  \A n \in 1..MinOf(SampleDates, Len(file.statement)) :
    ParseDate(DateFormats[k], WriteDate(file.style.layout, file.statement[n].date)) # None

LEMMA Narrowed ==
  ASSUME NEW date \in Nat \X Nat \X Nat, IsDay(date), NEW s \in 1..12, NEW left \in SUBSET (1..12),
         s \in left
  PROVE  LET cell == WriteDate(DateFormats[s], date)
         IN Narrow(left, cell) = {k \in left : ParseDate(DateFormats[k], cell) # None}
<1> DEFINE cell == WriteDate(DateFormats[s], date)
           read(k) == ParseDate(DateFormats[k], cell)
           fits(k) == IF read(k) = None THEN FALSE ELSE read(k)[1] > 1900
           still == {k \in left : fits(k)}
<1>1. ASSUME NEW k \in left, read(k) # None PROVE read(k)[1] > 1900
  <2>1. cell.year = date[1]
    BY DEF WriteDate
  <2> HIDE DEF cell
  <2>2. read(k)[1] = cell.year
    BY <1>1 DEF ParseDate
  <2> QED
    BY <2>1, <2>2 DEF IsDay
<1>2. still = {k \in left : read(k) # None}
  <2>1. \A k \in left : fits(k) <=> read(k) # None
    <3> HIDE DEF read
    <3> QED
      BY <1>1
  <2> HIDE DEF fits, read
  <2> QED
    BY <2>1
<1>3. read(s) = date /\ date # None
  BY DayReads, CsvAssumption DEF WriteDate
<1>4. s \in still
  <2> HIDE DEF read
  <2> QED
    BY <1>2, <1>3
<1>5. Narrow(left, cell) = IF still = {} THEN left ELSE still
  BY DEF Narrow
<1> HIDE DEF still
<1> QED
  BY <1>2, <1>4, <1>5

(* The first layout that fits each cell of the sample is taken. *)
LEMMA FormatGuessed ==
  ASSUME NEW file, IsExport(file), NEW s \in 1..12, file.style.layout = DateFormats[s]
  PROVE  LET parsed == [headers |-> file.style.header, records |-> Lines(file)]
         IN \E g \in 1..s : /\ GuessDateFormat(parsed, Place(file.style, "date")) = DateFormats[g]
                            /\ Fits(file, g) /\ \A k \in 1..12 : Fits(file, k) => g <= k
<1> DEFINE style == file.style
           parsed == [headers |-> style.header, records |-> Lines(file)]
           column == Place(style, "date")
           L == Len(file.statement)
           cell(n) == WriteDate(DateFormats[s], file.statement[n].date)
           fits(k, n) == ParseDate(DateFormats[k], cell(n)) # None
           Step(f, n) == IF n = 0 THEN [left |-> DOMAIN DateFormats, sampled |-> 0]
                         ELSE IF IsBlank(CellAt(parsed.records[n], column)) \/ f[n - 1].sampled = SampleDates
                           THEN f[n - 1]
                           ELSE [left |-> Narrow(f[n - 1].left, CellAt(parsed.records[n], column)),
                                 sampled |-> f[n - 1].sampled + 1]
           M == Len(parsed.records)
           Found == CHOOSE f : f = [n \in 0..M |-> Step(f, n)]
           Left(n) == {k \in 1..12 : \A i \in 1..MinOf(SampleDates, n) : fits(k, i)}
           Seen(n) == [left |-> Left(n), sampled |-> MinOf(SampleDates, n)]
<1>1. IsStyle(style) /\ IsStatement(file.statement)
  BY DEF IsExport
<1>2. L \in Nat \ {0} /\ DOMAIN file.statement = 1..L /\ M = L
  BY <1>1, StatementIs DEF Lines
<1>3. \A n \in 1..L : /\ CellAt(parsed.records[n], column) = cell(n) /\ ~IsBlank(cell(n))
                      /\ file.statement[n].date \in Nat \X Nat \X Nat
                      /\ IsDay(file.statement[n].date)
  <2> SUFFICES ASSUME NEW n \in 1..L
               PROVE  /\ CellAt(parsed.records[n], column) = cell(n) /\ ~IsBlank(cell(n))
                      /\ file.statement[n].date \in Nat \X Nat \X Nat
                      /\ IsDay(file.statement[n].date)
    OBVIOUS
  <2>1. n \in DOMAIN file.statement
    BY <1>2
  <2>2. column \in DOMAIN style.columns /\ style.columns[column] = "date"
    <3>1. Occurs(style, "date") /\ "date" \in Role
      BY <1>1 DEF IsStyle, Role
    <3> QED
      BY <1>1, <3>1, PlaceIs, StyleIs
  <2>3. CellAt(Line(style, file.statement[n]), column) = cell(n)
    BY <1>1, <2>2, LineIs DEF WriteCell
  <2>4. parsed.records[n] = Line(style, file.statement[n])
    BY <2>1 DEF Lines
  <2>5. ~IsBlank(cell(n))
    BY DEF WriteDate, IsBlank
  <2> QED
    BY <1>1, <2>1, <2>3, <2>4, <2>5, EntryIs
<1>4. GuessDateFormat(parsed, column) = DateFormats[Min(Found[M].left)]
  BY Zenon DEF GuessDateFormat
<1> HIDE DEF L, M, parsed, column, cell
<1>5. SampleDates \in Nat \ {0}
  BY CsvAssumption
<1>6. \A n \in 1..L : fits(s, n)
  <2> SUFFICES ASSUME NEW n \in 1..L PROVE fits(s, n)
    OBVIOUS
  <2>1. DateFormats[s].padded => WriteDate(DateFormats[s], file.statement[n].date).padded
    BY DEF WriteDate
  <2>2. ParseDate(DateFormats[s], cell(n)) = file.statement[n].date
    BY <1>3, <2>1, DayReads DEF cell
  <2> QED
    BY <1>3, <2>2, CsvAssumption
<1>7. \A n \in 0..L : s \in Left(n)
  <2> SUFFICES ASSUME NEW n \in 0..L, NEW i \in 1..MinOf(SampleDates, n) PROVE fits(s, i)
    OBVIOUS
  <2>1. i \in 1..L
    BY <1>2, <1>5 DEF MinOf
  <2> QED
    BY <1>6, <2>1
<1>8. \A n \in 1..L : \A left \in SUBSET (1..12) :
        s \in left => Narrow(left, cell(n)) = {k \in left : fits(k, n)}
  BY <1>3, Narrowed DEF cell
<1> HIDE DEF fits
<1>9. ASSUME NEW n \in 1..L
      PROVE  Seen(n) = IF MinOf(SampleDates, n - 1) = SampleDates THEN Seen(n - 1)
                       ELSE [left |-> Narrow(Left(n - 1), cell(n)),
                             sampled |-> MinOf(SampleDates, n - 1) + 1]
  <2>1. n \in Nat /\ n >= 1 /\ n - 1 \in 0..L
    BY <1>2
  <2>2. CASE MinOf(SampleDates, n - 1) = SampleDates
    <3>1. MinOf(SampleDates, n) = SampleDates
      BY <1>5, <2>1, <2>2 DEF MinOf
    <3> QED
      BY <2>2, <3>1
  <2>3. CASE MinOf(SampleDates, n - 1) # SampleDates
    <3>1. MinOf(SampleDates, n - 1) = n - 1 /\ MinOf(SampleDates, n) = n
      BY <1>5, <2>1, <2>3 DEF MinOf
    <3>2. Narrow(Left(n - 1), cell(n)) = {k \in Left(n - 1) : fits(k, n)}
      <4>1. s \in Left(n - 1) /\ Left(n - 1) \in SUBSET (1..12)
        BY <1>7, <2>1
      <4> HIDE DEF Left
      <4> QED
        BY <1>8, <4>1
    <3>3. {k \in Left(n - 1) : fits(k, n)} = Left(n)
      <4>1. \A i : i \in 1..n <=> i \in 1..(n - 1) \/ i = n
        BY <2>1
      <4> QED
        BY <3>1, <4>1
    <3>4. (n - 1) + 1 = n
      BY <2>1
    <3> QED
      BY <2>3, <3>1, <3>2, <3>3, <3>4
  <2> QED
    BY <2>2, <2>3
<1>10. Seen(0) = [left |-> DOMAIN DateFormats, sampled |-> 0]
  <2>1. MinOf(SampleDates, 0) = 0
    BY <1>5 DEF MinOf
  <2>2. Left(0) = 1..12
    BY <2>1
  <2> QED
    BY <2>1, <2>2, LayoutsAre
<1> DEFINE f == [n \in 0..M |-> Seen(n)]
<1>11. \A n \in 0..L : Seen(n).sampled = MinOf(SampleDates, n) /\ Seen(n).left = Left(n)
  OBVIOUS
<1> HIDE DEF Seen
<1>12. f = [n \in 0..M |-> Step(f, n)]
  <2> SUFFICES ASSUME NEW n \in 0..M PROVE f[n] = Step(f, n)
    OBVIOUS
  <2>1. CASE n = 0
    BY <1>10, <2>1
  <2>2. CASE n # 0
    <3>1. n \in 1..L /\ n - 1 \in 0..L
      BY <1>2, <2>2
    <3>2. f[n - 1] = Seen(n - 1)
      BY <1>2, <3>1
    <3> HIDE DEF Left
    <3> QED
      BY <1>3, <1>9, <1>11, <2>2, <3>1, <3>2
  <2> QED
    BY <2>1, <2>2
<1>13. Found = [n \in 0..M |-> Step(Found, n)]
  <2> HIDE DEF Step, f
  <2> QED
    BY <1>12, Zenon
<1> HIDE DEF Found, f
<1> DEFINE T == {n \in 0..M : Found[n] = Seen(n)}
<1>14. 0 \in T
  <2>1. 0 \in 0..M
    BY <1>2
  <2> QED
    BY <1>10, <1>13, <2>1
<1>15. ASSUME NEW n \in 1..M, n - 1 \in T PROVE n \in T
  <2>1. n \in 0..M /\ n # 0 /\ n \in 1..L /\ n - 1 \in 0..L
    BY <1>2
  <2>2. Found[n - 1] = Seen(n - 1)
    BY <1>15
  <2>3. Found[n] = Step(Found, n)
    <3> HIDE DEF Step
    <3> QED
      BY <1>13, <2>1
  <2> HIDE DEF Left
  <2>4. Step(Found, n) = Seen(n)
    BY <1>3, <1>9, <1>11, <2>1, <2>2
  <2> QED
    BY <2>1, <2>3, <2>4
<1> HIDE DEF T
<1>16. 0..M \subseteq T
  BY <1>2, <1>14, <1>15, Up
<1>17. Found[M].left = Left(L)
  <2>1. M \in T
    BY <1>2, <1>16
  <2> HIDE DEF Left
  <2> QED
    BY <1>2, <1>11, <2>1 DEF T
<1>18. \A k \in 1..12 : k \in Left(L) <=> Fits(file, k)
  BY DEF Fits, fits, cell, L
<1>19. \E g \in Left(L) : \A k \in Left(L) : g <= k
  <2>1. Left(L) \in SUBSET Nat
    OBVIOUS
  <2> HIDE DEF Left
  <2>2. L \in 0..L
    BY <1>2
  <2>3. Left(L) # {}
    BY <1>7, <2>2
  <2> QED
    BY <2>1, <2>3, Least
<1>20. PICK g \in Left(L) : \A k \in Left(L) : g <= k
  BY <1>19
<1>21. Min(Left(L)) = g
  <2>1. Left(L) \in SUBSET Nat
    OBVIOUS
  <2> HIDE DEF Left
  <2> QED
    BY <1>20, <2>1, MinIs
<1>22. g \in 1..12 /\ g <= s
  BY <1>2, <1>7, <1>20
<1> HIDE DEF Left
<1>23. GuessDateFormat(parsed, column) = DateFormats[g]
  BY <1>4, <1>17, <1>21
<1>24. Fits(file, g) /\ \A k \in 1..12 : Fits(file, k) => g <= k
  BY <1>18, <1>20, <1>22
<1>25. g \in 1..s
  BY <1>22
<1> QED
  BY <1>23, <1>24, <1>25 DEF parsed, column

(* The layout that is guessed has the style's shape and, where day and      *)
(* month can be told, its order of them; then it asks for padding only if   *)
(* the style pads, or if no date of the sample shows that it does not.      *)
LEMMA FormatTold ==
  ASSUME NEW file, IsExport(file)
  PROVE  LET parsed == [headers |-> file.style.header, records |-> Lines(file)]
             layout == GuessDateFormat(parsed, Place(file.style, "date"))
         IN /\ layout \in Range(DateFormats)
            /\ layout.shape = file.style.layout.shape
            /\ layout.dayFirst \in BOOLEAN /\ file.style.layout.dayFirst \in BOOLEAN
            /\ OrderTold(file) => layout.dayFirst = file.style.layout.dayFirst
            /\ OrderTold(file) /\ WidthTold(file) /\ layout.padded => file.style.layout.padded
<1> DEFINE parsed == [headers |-> file.style.header, records |-> Lines(file)]
           guess == GuessDateFormat(parsed, Place(file.style, "date"))
           style == file.style
           N == MinOf(SampleDates, Len(file.statement))
           date(n) == file.statement[n].date
           cell(n) == WriteDate(style.layout, date(n))
<1>1. IsStyle(style) /\ IsStatement(file.statement)
  BY DEF IsExport
<1>2. PICK s \in 1..12 : style.layout = DateFormats[s]
  <2>1. style.layout \in Range(DateFormats)
    BY <1>1, StyleIs
  <2> QED
    BY <2>1, LayoutsAre DEF Range
<1>3. PICK g \in 1..s : /\ guess = DateFormats[g] /\ Fits(file, g)
                        /\ \A k \in 1..12 : Fits(file, k) => g <= k
  BY <1>2, FormatGuessed
<1>4. g \in 1..12 /\ g \in DOMAIN DateFormats
  BY LayoutsAre
<1>5. /\ N \in Nat \ {0}
      /\ \A n \in 1..N : date(n) \in Nat \X Nat \X Nat /\ IsDay(date(n))
  <2>1. Len(file.statement) \in Nat \ {0} /\ DOMAIN file.statement = 1..Len(file.statement)
    BY <1>1, StatementIs
  <2>2. N \in Nat \ {0} /\ N <= Len(file.statement)
    BY <2>1, CsvAssumption DEF MinOf
  <2>3. 1..N \subseteq DOMAIN file.statement
    <3> HIDE DEF N
    <3> QED
      BY <2>1, <2>2
  <2> QED
    BY <1>1, <2>2, <2>3, EntryIs
<1>6. SampledDates(file) = {date(n) : n \in 1..N}
  BY DEF SampledDates
<1> HIDE DEF guess, N, date
<1>7. \A k \in 1..12 : Fits(file, k) <=> \A n \in 1..N : ParseDate(DateFormats[k], cell(n)) # None
  BY DEF Fits, N, date
<1>8. \A n \in 1..N :
        /\ guess.shape = style.layout.shape
        /\ guess.padded => cell(n).padded
        /\ guess.dayFirst \in BOOLEAN /\ style.layout.dayFirst \in BOOLEAN
             /\ guess.dayFirst # style.layout.dayFirst => date(n)[3] \in 1..12
  BY <1>3, <1>4, <1>5, <1>7, DayRead
<1>9. guess.shape = style.layout.shape
  <2>1. 1 \in 1..N
    BY <1>5
  <2> QED
    BY <1>8, <2>1
<1>10. /\ guess \in Range(DateFormats)
       /\ guess.dayFirst \in BOOLEAN /\ style.layout.dayFirst \in BOOLEAN
  <2>1. guess \in Range(DateFormats)
    BY <1>3, <1>4 DEF Range
  <2> QED
    BY <1>2, <1>3, <1>4, <2>1, LayoutsOrder
<1>11. /\ OrderTold(file) => guess.dayFirst = style.layout.dayFirst
       /\ OrderTold(file) /\ WidthTold(file) /\ guess.padded => style.layout.padded
  <2>2. CASE g = s
    BY <1>2, <1>3, <2>2
  <2>3. CASE g < s
    <3>1. \/ /\ guess.shape \in {"a/b/y", "a-b-y"}
             /\ guess.dayFirst = FALSE /\ style.layout.dayFirst = TRUE
          \/ /\ guess.shape = "a/b/y" /\ guess.dayFirst = style.layout.dayFirst
             /\ guess.padded = TRUE /\ style.layout.padded = FALSE
          \/ g = 4 /\ s = 5
      BY <1>2, <1>3, <1>4, <1>9, <2>3, LayoutsAlike
    <3>2. CASE /\ guess.shape \in {"a/b/y", "a-b-y"}
               /\ guess.dayFirst = FALSE /\ style.layout.dayFirst = TRUE
      <4>1. ASSUME OrderTold(file) PROVE FALSE
        <5>1. PICK n \in 1..N : date(n)[3] > 12
          BY <1>6, <1>9, <3>2, <4>1 DEF OrderTold
        <5>2. date(n)[3] \in 1..12
          BY <1>8, <3>2, <5>1
        <5> QED
          BY <5>1, <5>2
      <4> QED
        BY <4>1
    <3>3. CASE /\ guess.shape = "a/b/y" /\ guess.dayFirst = style.layout.dayFirst
               /\ guess.padded = TRUE /\ style.layout.padded = FALSE
      <4>1. ASSUME WidthTold(file) PROVE FALSE
        <5>1. PICK n \in 1..N : date(n)[2] < 10 \/ date(n)[3] < 10
          BY <1>6, <1>9, <3>3, <4>1 DEF WidthTold
        <5>2. cell(n).padded
          BY <1>8, <3>3
        <5>3. date(n)[2] \in Nat /\ date(n)[3] \in Nat
          BY <1>5
        <5>4. ~cell(n).padded
          <6>1. style.layout.shape \notin {"Mon_d_y", "d_Mon_y"}
            BY <1>9, <3>3
          <6>2. ~(/\ date(n)[3] >= 10
                  /\ date(n)[2] >= 10 \/ style.layout.shape \in {"Mon_d_y", "d_Mon_y"})
            BY <5>1, <5>3, <6>1
          <6>3. cell(n).padded = (style.layout.padded \/
                  (/\ date(n)[3] >= 10
                   /\ date(n)[2] >= 10 \/ style.layout.shape \in {"Mon_d_y", "d_Mon_y"}))
            BY DEF WriteDate
          <6> QED
            BY <3>3, <6>2, <6>3
        <5> QED
          BY <5>2, <5>4
      <4> QED
        BY <3>3, <4>1
    <3>4. CASE g = 4 /\ s = 5
      <4>1. /\ style.layout = Layout("a/b/y", FALSE, FALSE)
            /\ guess = Layout("a/b/y", TRUE, TRUE)
        BY <1>2, <1>3, <3>4, LayoutsAre
      <4>2. ASSUME NEW n \in 1..N PROVE ParseDate(DateFormats[3], cell(n)) # None
        <5>1. /\ DateFormats[3].shape = style.layout.shape
              /\ DateFormats[3].dayFirst = style.layout.dayFirst
          BY <4>1, LayoutsAre DEF Layout
        <5>2. cell(n).padded
          BY <1>8, <4>1 DEF Layout
        <5>3. ParseDate(DateFormats[3], cell(n)) = date(n)
          BY <1>5, <5>1, <5>2, DayReads
        <5> QED
          BY <1>5, <5>3, CsvAssumption
      <4>3. Fits(file, 3)
        BY <1>7, <4>2
      <4> QED
        BY <1>3, <3>4, <4>3
    <3> QED
      BY <3>1, <3>2, <3>3, <3>4
  <2>4. g = s \/ g < s
    OBVIOUS
  <2> QED
    BY <2>2, <2>3, <2>4
<1> QED
  BY <1>9, <1>10, <1>11 DEF guess

-----------------------------------------------------------------------------
(* Rows. *)

LEMMA AbsIs ==
  ASSUME NEW n \in Int, -Half < n, n < Half
  PROVE  Abs64(n) = Size(n) /\ Wrap(-Size(n)) = -Size(n)
<1>1. Half \in Int
  BY CsvAssumption DEF Half
<1>2. Within(-n) /\ Within(-Size(n)) /\ -n \in Int
  BY <1>1 DEF Within, Size
<1> QED
  BY <1>2, WrapIs DEF Abs64, Size

(* Read by a mapping that has the roles where they are, and a layout of the *)
(* style's shape, a record is the entry it stands for, up to the order of   *)
(* day and month and the factor of its amount; or it is refused: for a date *)
(* that is none in this order or is not padded, or for an amount of nothing. *)
LEMMA RowReads ==
  ASSUME NEW style, IsStyle(style),
         NEW entry, entry = [date |-> entry.date, amount |-> entry.amount, payee |-> entry.payee],
         entry.date \in Nat \X Nat \X Nat, IsDay(entry.date), entry.amount \in Int,
         -Half < Scale(style) * entry.amount, Scale(style) * entry.amount < Half,
         NEW mapping,
         \A role \in Role : mapping[role] = Place(style, role),
         mapping.split = Occurs(style, "debit"), mapping.invert = FALSE,
         mapping.format # None,
         mapping.format.shape = style.layout.shape,
         mapping.format.dayFirst \in BOOLEAN, style.layout.dayFirst \in BOOLEAN
  PROVE  LET row == NormalizeRow(Line(style, entry), mapping)
             read(date) == [date |-> date, amount |-> Factor(style) * entry.amount,
                            payee |-> entry.payee]
         IN /\ row \in {None, read(entry.date), read(Swapped(entry.date))}
            /\ mapping.format.dayFirst = style.layout.dayFirst =>
                 row \in {None, read(entry.date)}
            /\ /\ mapping.format.dayFirst = style.layout.dayFirst
               /\ mapping.format.padded => style.layout.padded
               /\ entry.amount # 0
               => row = read(entry.date)
<1> DEFINE cell(role) == CellAt(Line(style, entry), mapping[role])
           date == ParseDate(mapping.format, cell("date"))
           amount == IF mapping.split
                       THEN SplitAmount(ParseAmount(cell("debit")), ParseAmount(cell("credit")))
                       ELSE SignedAmount(ParseAmount(cell("amount")), mapping.invert)
<1>1. NormalizeRow(Line(style, entry), mapping) =
        IF date = None \/ amount = None THEN None
        ELSE [date |-> date, amount |-> amount, payee |-> cell("payee")]
  BY DEF NormalizeRow
<1>2. ASSUME NEW role \in Role, Occurs(style, role)
      PROVE  cell(role) = WriteCell(style, entry, role)
  <2>1. Place(style, role) \in DOMAIN style.columns
    BY <1>2, PlaceIs, StyleIs
  <2>2. style.columns[Place(style, role)] = role
    BY <2>1, PlaceIs
  <2> QED
    BY <2>1, <2>2, LineIs
<1>3. Occurs(style, "date") /\ Occurs(style, "payee")
  BY DEF IsStyle
<1>4. /\ Occurs(style, "debit") \in BOOLEAN /\ Occurs(style, "credit") = Occurs(style, "debit")
      /\ Occurs(style, "amount") = ~Occurs(style, "debit")
  BY DEF IsStyle, Occurs
<1>5. /\ "date" \in Role /\ "payee" \in Role /\ "debit" \in Role /\ "credit" \in Role
      /\ "amount" \in Role
  BY DEF Role
<1>6. cell("payee") = entry.payee
  BY <1>2, <1>3, <1>5 DEF WriteCell
<1>7. /\ date \in {None, entry.date, Swapped(entry.date)}
      /\ mapping.format.dayFirst = style.layout.dayFirst => date \in {None, entry.date}
      /\ /\ mapping.format.dayFirst = style.layout.dayFirst
         /\ mapping.format.padded => style.layout.padded
         => date = entry.date
  <2>1. cell("date") = WriteDate(style.layout, entry.date)
    BY <1>2, <1>3, <1>5 DEF WriteCell
  <2>2. date # None =>
          IF mapping.format.dayFirst = style.layout.dayFirst THEN date = entry.date
          ELSE date = Swapped(entry.date)
    BY <2>1, DayRead
  <2>3. ASSUME mapping.format.dayFirst = style.layout.dayFirst,
               mapping.format.padded => style.layout.padded
        PROVE  date = entry.date
    <3>1. style.layout.padded => WriteDate(style.layout, entry.date).padded
      BY DEF WriteDate
    <3> QED
      BY <2>1, <2>3, <3>1, DayReads
  <2> QED
    BY <2>2, <2>3
<1>8. amount = IF entry.amount = 0 THEN None ELSE Factor(style) * entry.amount
  <2> DEFINE cents == entry.amount
             worth == Scale(style) * cents
             out == Signed(style, entry)
             paid == Scale(style) * out
  <2>1. /\ worth \in Int /\ Scale(style) * (-cents) = -worth
        /\ worth < 0 <=> cents < 0
        /\ worth = 0 <=> cents = 0
    BY ScaleIs
  <2>2. /\ out = IF style.outPositive THEN -cents ELSE cents
        /\ out \in Int
    BY DEF Signed
  <2>3. /\ paid = IF style.outPositive THEN -worth ELSE worth
        /\ -Half < worth /\ worth < Half /\ Half \in Int /\ None \notin Int
    BY <2>1, <2>2, CsvAssumption DEF Half
  <2> HIDE DEF worth, paid, out, cents
  <2>4. paid \in Int /\ -Half < paid /\ paid < Half
    BY <2>1, <2>3
  <2>5. ParseAmount(WriteAmount(style, out)) = paid
    BY <2>2, <2>4, StyleIs, AmountReads DEF paid
  <2>6. ParseAmount(WriteAmount(style, cents)) = worth
    BY <2>3, StyleIs, AmountReads DEF worth, cents
  <2>7. ParseAmount(Blank) = None
    BY BlankLooks
  <2>8. /\ Factor(style) * cents = IF SignsTold(style) THEN worth ELSE -worth
        /\ SignsTold(style) = (~style.outPositive \/ Occurs(style, "debit"))
        /\ cents \in Int
    <3>1. CASE style.decimals = "comma"
      BY <3>1 DEF Factor, worth, Scale, SignsTold, cents
    <3>2. CASE style.decimals # "comma"
      BY <3>2 DEF Factor, worth, Scale, SignsTold, cents
    <3> QED
      BY <3>1, <3>2
  <2>9. CASE Occurs(style, "debit")
    <3>1. /\ cell("debit") = IF cents < 0 THEN WriteAmount(style, out) ELSE Blank
          /\ cell("credit") = IF cents > 0 THEN WriteAmount(style, cents) ELSE Blank
      BY <1>2, <1>4, <1>5, <2>9 DEF WriteCell, cents, out
    <3>2. amount = SplitAmount(ParseAmount(cell("debit")), ParseAmount(cell("credit")))
      BY <2>9
    <3>3. Factor(style) * cents = worth
      BY <2>8, <2>9
    <3> HIDE DEF cell, amount
    <3>4. CASE cents < 0
      <4>1. ParseAmount(cell("debit")) = paid
        BY <2>5, <3>1, <3>4
      <4>2. Abs64(paid) = Size(paid) /\ Wrap(-Size(paid)) = -Size(paid)
        BY <2>4, AbsIs
      <4>3. Size(paid) = -worth
        BY <2>1, <2>3, <3>4 DEF Size
      <4>4. paid # 0 /\ paid # None
        BY <2>1, <2>3, <2>4, <3>4
      <4>5. amount = -Size(paid)
        BY <3>2, <4>1, <4>2, <4>4 DEF SplitAmount
      <4> QED
        BY <2>1, <3>3, <3>4, <4>3, <4>5 DEF cents
    <3>5. CASE cents > 0
      <4>1. ParseAmount(cell("debit")) = None /\ ParseAmount(cell("credit")) = worth
        BY <2>6, <2>7, <2>8, <3>1, <3>5
      <4>2. ~(worth < 0) /\ worth # 0 /\ worth # None
        BY <2>1, <2>3, <2>8, <3>5
      <4>3. Abs64(worth) = worth
        BY <4>2 DEF Abs64
      <4>4. amount = worth
        BY <3>2, <4>1, <4>2, <4>3 DEF SplitAmount
      <4> QED
        BY <3>3, <3>5, <4>4 DEF cents
    <3>6. CASE cents = 0
      <4>1. ParseAmount(cell("debit")) = None /\ ParseAmount(cell("credit")) = None
        BY <2>7, <3>1, <3>6
      <4>2. amount = None
        BY <3>2, <4>1 DEF SplitAmount
      <4> QED
        BY <3>6, <4>2 DEF cents
    <3> QED
      BY <2>8, <3>4, <3>5, <3>6
  <2>10. CASE ~Occurs(style, "debit")
    <3>1. cell("amount") = WriteAmount(style, out)
      <4>1. Occurs(style, "amount")
        BY <1>4, <2>10 DEF Occurs
      <4> QED
        BY <1>2, <1>5, <4>1 DEF WriteCell, out
    <3>2. amount = SignedAmount(paid, FALSE)
      BY <2>5, <2>10, <3>1
    <3>3. paid = Factor(style) * cents
      BY <2>3, <2>8, <2>10, StyleIs
    <3>4. paid # None /\ (paid = 0 <=> cents = 0)
      BY <2>1, <2>3, <2>4
    <3> HIDE DEF amount
    <3> QED
      BY <3>2, <3>3, <3>4 DEF SignedAmount, cents
  <2> QED
    BY <2>9, <2>10
<1>9. entry.date # None /\ Swapped(entry.date) # None
  BY CsvAssumption DEF Swapped
<1>10. Factor(style) * entry.amount # None
  <2>1. Factor(style) \in Int
    BY DEF Factor, Scale
  <2>2. Factor(style) * entry.amount \in Int
    BY <2>1
  <2> QED
    BY <2>2, CsvAssumption
<1> HIDE DEF cell, date, amount
<1> QED
  BY <1>1, <1>6, <1>7, <1>8, <1>9, <1>10

-----------------------------------------------------------------------------
(* What is guessed, and what is read by it. *)

LEMMA MappingGuessed ==
  ASSUME NEW file, IsExport(file), ColumnsTold(file)
  PROVE  LET mapping == GuessMapping(Parse(file.upload))
             style == file.style
         IN /\ \A role \in Role : mapping[role] = Place(style, role)
            /\ mapping.split = Occurs(style, "debit") /\ mapping.invert = FALSE
            /\ mapping.format # None
            /\ mapping.format.shape = style.layout.shape
            /\ mapping.format.dayFirst \in BOOLEAN /\ style.layout.dayFirst \in BOOLEAN
            /\ OrderTold(file) => mapping.format.dayFirst = style.layout.dayFirst
            /\ OrderTold(file) /\ WidthTold(file) /\ mapping.format.padded => style.layout.padded
<1> DEFINE style == file.style
           parsed == [headers |-> style.header, records |-> Lines(file)]
           L == Len(style.columns)
           m == Mapped(style, L)
           P(role) == Place(style, role)
           layout == GuessDateFormat(parsed, P("date"))
           split == Occurs(style, "debit")
           mapping == GuessMapping(Parse(file.upload))
<1>1. IsStyle(style) /\ L \in Nat
  BY StyleIs DEF IsExport
<1>2. Parse(file.upload) = parsed
  BY ExportParses
<1>3. ByValue(ByName(parsed.headers), FirstOf(SampleRows, parsed.records)) = m
  BY ColumnsGuessed DEF Sample
<1>4. \A role \in Role : Upto(style, role, L) = P(role)
  BY <1>1, PlaceIs DEF Upto
<1>5. m = Guess(P("date"), P("payee"), P("debit"), P("credit"), P("amount"))
  BY <1>4 DEF Mapped, Role
<1>6. /\ m.date = P("date") /\ m.payee = P("payee") /\ m.debit = P("debit")
      /\ m.credit = P("credit") /\ m.amount = P("amount")
  BY <1>5, GuessIs
<1>7. /\ m.date # 0 /\ (m.debit # 0 <=> split) /\ (m.credit # 0 <=> split)
  <2>1. Occurs(style, "date") /\ (Occurs(style, "credit") <=> Occurs(style, "debit"))
    BY <1>1 DEF IsStyle, Occurs
  <2> QED
    BY <1>1, <1>6, <2>1, PlaceIs DEF Role
<1>8. /\ layout \in Range(DateFormats)
      /\ layout.shape = style.layout.shape
      /\ layout.dayFirst \in BOOLEAN /\ style.layout.dayFirst \in BOOLEAN
      /\ OrderTold(file) => layout.dayFirst = style.layout.dayFirst
      /\ OrderTold(file) /\ WidthTold(file) /\ layout.padded => style.layout.padded
  BY FormatTold
<1>9. layout # None
  BY <1>8, LayoutAssumption DEF Range
<1> HIDE DEF parsed, m, layout, P
<1>10. mapping = [m EXCEPT !.split = m.debit # 0 /\ m.credit # 0,
                           !.format = IF m.date = 0 THEN None ELSE GuessDateFormat(parsed, m.date)]
  BY <1>2, <1>3 DEF GuessMapping
<1>11. (m.debit # 0 /\ m.credit # 0) = split
  BY <1>7 DEF Occurs
<1>12. GuessDateFormat(parsed, m.date) = layout
  BY <1>6 DEF layout
<1> HIDE DEF split
<1>13. mapping = [m EXCEPT !.split = split, !.format = layout]
  BY <1>7, <1>10, <1>11, <1>12
<1> DEFINE no == FALSE
<1>14. mapping = Mapping(P("date"), P("payee"), P("debit"), P("credit"), P("amount"),
                         layout, split, no)
  <2>1. m = Mapping(P("date"), P("payee"), P("debit"), P("credit"), P("amount"), None, no, no)
    BY <1>5 DEF Guess
  <2> HIDE DEF no, mapping
  <2> QED
    BY <1>13, <2>1, MappingIs DEF Mapping
<1>15. /\ mapping.date = P("date") /\ mapping.payee = P("payee") /\ mapping.debit = P("debit")
       /\ mapping.credit = P("credit") /\ mapping.amount = P("amount")
       /\ mapping.format = layout /\ mapping.split = split /\ mapping.invert = no
  <2> HIDE DEF no, mapping
  <2> QED
    BY <1>14, MappingIs
<1> HIDE DEF mapping
<1>16. \A role \in Role : mapping[role] = P(role)
  BY <1>15 DEF Role
<1> QED
  BY <1>8, <1>9, <1>15, <1>16 DEF mapping, P, split

LEMMA ExportReads ==
  ASSUME NEW file, IsExport(file), InWidth(file), NEW mapping,
         \A role \in Role : mapping[role] = Place(file.style, role),
         mapping.split = Occurs(file.style, "debit"), mapping.invert = FALSE,
         mapping.format # None,
         mapping.format.shape = file.style.layout.shape,
         mapping.format.dayFirst \in BOOLEAN, file.style.layout.dayFirst \in BOOLEAN
  PROVE  LET rows == Normalize(Parse(file.upload), mapping)
             statement == file.statement
             read(entry, date) == [date |-> date, amount |-> Factor(file.style) * entry.amount,
                                   payee |-> entry.payee]
         IN /\ DOMAIN rows = DOMAIN statement
            /\ \A n \in DOMAIN statement :
                 LET entry == statement[n]
                 IN /\ rows[n] \in {None, read(entry, entry.date), read(entry, Swapped(entry.date))}
                    /\ mapping.format.dayFirst = file.style.layout.dayFirst =>
                         rows[n] \in {None, read(entry, entry.date)}
                    /\ /\ mapping.format.dayFirst = file.style.layout.dayFirst
                       /\ mapping.format.padded => file.style.layout.padded
                       /\ Pays(file)
                       => rows[n] = read(entry, entry.date)
<1> DEFINE rows == Normalize(Parse(file.upload), mapping)
           statement == file.statement
           read(entry, date) == [date |-> date, amount |-> Factor(file.style) * entry.amount,
                                 payee |-> entry.payee]
           Read(n) ==
             LET entry == statement[n]
             IN /\ rows[n] \in {None, read(entry, entry.date), read(entry, Swapped(entry.date))}
                /\ mapping.format.dayFirst = file.style.layout.dayFirst =>
                     rows[n] \in {None, read(entry, entry.date)}
                /\ /\ mapping.format.dayFirst = file.style.layout.dayFirst
                   /\ mapping.format.padded => file.style.layout.padded
                   /\ Pays(file)
                   => rows[n] = read(entry, entry.date)
<1>1. IsStyle(file.style) /\ IsStatement(statement)
  BY DEF IsExport
<1>2. Parse(file.upload).records = Lines(file)
  <2>1. Parse(file.upload) = [headers |-> file.style.header, records |-> Lines(file)]
    BY ExportParses
  <2> QED
    BY <2>1
<1>3. DOMAIN rows = DOMAIN statement
  BY <1>2 DEF Normalize, Lines
<1>4. ASSUME NEW n \in DOMAIN statement PROVE Read(n)
  <2> DEFINE entry == statement[n]
  <2>1. /\ entry = [date |-> entry.date, amount |-> entry.amount, payee |-> entry.payee]
        /\ entry.date \in Nat \X Nat \X Nat /\ IsDay(entry.date) /\ entry.amount \in Int
    BY <1>1, EntryIs
  <2>2. -Half < Scale(file.style) * entry.amount /\ Scale(file.style) * entry.amount < Half
    BY DEF InWidth, Half
  <2>3. Pays(file) => entry.amount # 0
    BY DEF Pays
  <2>4. rows[n] = NormalizeRow(Line(file.style, entry), mapping)
    BY <1>2 DEF Normalize, Lines
  <2> HIDE DEF entry, rows
  <2>5. /\ rows[n] \in {None, read(entry, entry.date), read(entry, Swapped(entry.date))}
        /\ mapping.format.dayFirst = file.style.layout.dayFirst =>
             rows[n] \in {None, read(entry, entry.date)}
        /\ /\ mapping.format.dayFirst = file.style.layout.dayFirst
           /\ mapping.format.padded => file.style.layout.padded
           /\ entry.amount # 0
           => rows[n] = read(entry, entry.date)
    <3>1. LET row == NormalizeRow(Line(file.style, entry), mapping)
          IN /\ row \in {None, read(entry, entry.date), read(entry, Swapped(entry.date))}
             /\ mapping.format.dayFirst = file.style.layout.dayFirst =>
                  row \in {None, read(entry, entry.date)}
             /\ /\ mapping.format.dayFirst = file.style.layout.dayFirst
                /\ mapping.format.padded => file.style.layout.padded
                /\ entry.amount # 0
                => row = read(entry, entry.date)
      BY <1>1, <2>1, <2>2, RowReads
    <3> HIDE DEF read
    <3> QED
      BY <2>4, <3>1
  <2> QED
    BY <2>3, <2>5 DEF entry, rows
<1> QED
  BY <1>3, <1>4

(* An export in which columns, signs and the order and width of dates can be *)
(* told is read as the bank meant it, with no more than a look at it         *)
(* (GuessMapping and Normalize in csvimport.go).                             *)
THEOREM GuessReads ==
  ASSUME NEW file, IsExport(file), Legible(file), WidthTold(file)
  PROVE  LET parsed == Parse(file.upload)
         IN Normalize(parsed, GuessMapping(parsed)) = file.statement
<1> DEFINE mapping == GuessMapping(Parse(file.upload))
           rows == Normalize(Parse(file.upload), mapping)
           statement == file.statement
           read(entry) == [date |-> entry.date, amount |-> Factor(file.style) * entry.amount,
                           payee |-> entry.payee]
<1>1. /\ InWidth(file) /\ Pays(file) /\ ColumnsTold(file) /\ OrderTold(file)
      /\ SignsTold(file.style) /\ file.style.decimals = "point"
  BY DEF Legible
<1>2. /\ \A role \in Role : mapping[role] = Place(file.style, role)
      /\ mapping.split = Occurs(file.style, "debit") /\ mapping.invert = FALSE
      /\ mapping.format # None
      /\ mapping.format.shape = file.style.layout.shape
      /\ mapping.format.dayFirst \in BOOLEAN /\ file.style.layout.dayFirst \in BOOLEAN
      /\ mapping.format.dayFirst = file.style.layout.dayFirst
      /\ mapping.format.padded => file.style.layout.padded
  BY <1>1, MappingGuessed
<1> HIDE DEF mapping
<1>3. /\ DOMAIN rows = DOMAIN statement
      /\ \A n \in DOMAIN statement : rows[n] = read(statement[n])
  BY <1>1, <1>2, ExportReads
<1> HIDE DEF rows
<1>4. ASSUME NEW n \in DOMAIN statement PROVE rows[n] = statement[n]
  <2>1. /\ statement[n] = [date |-> statement[n].date, amount |-> statement[n].amount,
                           payee |-> statement[n].payee]
        /\ statement[n].amount \in Int
    BY EntryIs DEF IsExport
  <2>2. Factor(file.style) = 1
    BY <1>1 DEF Factor, Scale
  <2>3. Factor(file.style) * statement[n].amount = statement[n].amount
    BY <2>1, <2>2
  <2>4. read(statement[n]) = statement[n]
    BY <2>1, <2>3
  <2> QED
    BY <1>3, <2>4
<1>5. rows = [n \in DOMAIN rows |-> rows[n]]
  BY DEF rows, Normalize
<1>6. statement = [n \in DOMAIN statement |-> statement[n]]
  BY DEF IsExport, IsStatement
<1> HIDE DEF statement, read
<1>7. rows = statement
  BY <1>3, <1>4, <1>5, <1>6
<1> QED
  BY <1>7 DEF rows, statement, mapping

(* What is guessed of one export, whose columns can be told, makes of an    *)
(* entry of another of its style what the first left open, or refuses it.   *)
THEOREM StyleReads ==
  ASSUME NEW first, IsExport(first), ColumnsTold(first),
         NEW file, IsExport(file), file.style = first.style, InWidth(file)
  PROVE  LET rows == Normalize(Parse(file.upload), GuessMapping(Parse(first.upload)))
         IN /\ DOMAIN rows = DOMAIN file.statement
            /\ \A n \in DOMAIN rows : rows[n] \in {None} \cup TakenFor(first, file.statement[n])
<1> DEFINE mapping == GuessMapping(Parse(first.upload))
           rows == Normalize(Parse(file.upload), mapping)
           read(entry, date) == [date |-> date, amount |-> Factor(file.style) * entry.amount,
                                 payee |-> entry.payee]
<1>1. /\ \A role \in Role : mapping[role] = Place(file.style, role)
      /\ mapping.split = Occurs(file.style, "debit") /\ mapping.invert = FALSE
      /\ mapping.format # None
      /\ mapping.format.shape = file.style.layout.shape
      /\ mapping.format.dayFirst \in BOOLEAN /\ file.style.layout.dayFirst \in BOOLEAN
      /\ OrderTold(first) => mapping.format.dayFirst = file.style.layout.dayFirst
  BY MappingGuessed
<1> HIDE DEF mapping
<1>2. /\ DOMAIN rows = DOMAIN file.statement
      /\ \A n \in DOMAIN file.statement :
           LET entry == file.statement[n]
           IN /\ rows[n] \in {None, read(entry, entry.date), read(entry, Swapped(entry.date))}
              /\ mapping.format.dayFirst = file.style.layout.dayFirst =>
                   rows[n] \in {None, read(entry, entry.date)}
  BY <1>1, ExportReads
<1> HIDE DEF rows
<1>3. ASSUME NEW n \in DOMAIN rows
      PROVE  rows[n] \in {None} \cup TakenFor(first, file.statement[n])
  <2> DEFINE entry == file.statement[n]
             dates == {entry.date} \cup (IF OrderTold(first) THEN {} ELSE {Swapped(entry.date)})
  <2>1. TakenFor(first, entry) = {read(entry, date) : date \in dates}
    BY DEF TakenFor
  <2>2. /\ rows[n] \in {None, read(entry, entry.date), read(entry, Swapped(entry.date))}
        /\ OrderTold(first) => rows[n] \in {None, read(entry, entry.date)}
    BY <1>1, <1>2, <1>3
  <2>3. rows[n] = None \/ \E date \in dates : rows[n] = read(entry, date)
    BY <2>2
  <2> HIDE DEF entry, dates, read
  <2> QED
    BY <2>1, <2>3 DEF entry
<1> QED
  BY <1>2, <1>3 DEF rows, mapping
=============================================================================
