--------------------------- MODULE ReportsProofs ---------------------------
(***************************************************************************)
(* Proofs about what the reports of one database tell together.            *)
(*                                                                         *)
(* A sum over a finite set does not depend on the order in which the       *)
(* elements are taken, can be regrouped and taken through a bijection: this *)
(* is proved first, for SumFunction and any function to the integers.      *)
(***************************************************************************)
EXTENDS Reports, FiniteSetTheorems, SequenceTheorems, TLAPS

-----------------------------------------------------------------------------
(* Induction: over the naturals, and over the subsets of a finite set.      *)

LEMMA Least ==
  ASSUME NEW T \in SUBSET Nat, T # {}
  PROVE  \E n \in T : \A m \in T : n <= m
<1>1. IsWellFoundedOn(OpToRel(<, Nat), Nat)
  BY NatLessThanWellFounded
<1>2. PICK n \in T : \A m \in T : ~(<<m, n>> \in OpToRel(<, Nat))
  BY <1>1, WFMin
<1>3. ASSUME NEW m \in T PROVE n <= m
  <2>1. <<m, n>> \in Nat \X Nat /\ ~(m < n)
    BY <1>2 DEF OpToRel
  <2> QED
    BY <2>1
<1> QED
  BY <1>3

LEMMA MinimalSet ==
  ASSUME NEW S, IsFiniteSet(S), NEW T \in SUBSET (SUBSET S), T # {}
  PROVE  \E s \in T : \A x \in s : s \ {x} \notin T
<1>1. FiniteSubsetsOf(S) = SUBSET S
  BY FS_FiniteSubsetsOfFinite
<1>2. IsWellFoundedOn(StrictSubsetOrdering(S), FiniteSubsetsOf(S))
  BY FS_StrictSubsetOrderingWellFounded
<1>3. IsWellFoundedOn(StrictSubsetOrdering(S), SUBSET S)
  BY <1>1, <1>2
<1>4. PICK s \in T : \A t \in T : ~(<<t, s>> \in StrictSubsetOrdering(S))
  BY <1>3, WFMin
<1>5. ASSUME NEW x \in s PROVE s \ {x} \notin T
  <2> SUFFICES ASSUME s \ {x} \in T PROVE FALSE
    OBVIOUS
  <2> DEFINE p == <<s \ {x}, s>>
  <2>1. p \in (SUBSET S) \X (SUBSET S) /\ p[1] \subseteq p[2] /\ p[1] # p[2]
    OBVIOUS
  <2>2. p \in StrictSubsetOrdering(S)
    <3> HIDE DEF p
    <3> QED BY <2>1 DEF StrictSubsetOrdering
  <2> QED
    BY <1>4, <2>2
<1> QED
  BY <1>5

LEMMA SubsetInduction ==
  ASSUME NEW S, IsFiniteSet(S), NEW P \in SUBSET (SUBSET S), {} \in P,
         \A T \in SUBSET S : \A x \in T : T \ {x} \in P => T \in P
  PROVE  P = SUBSET S
<1> DEFINE Bad == (SUBSET S) \ P
<1> SUFFICES ASSUME Bad # {} PROVE FALSE
  OBVIOUS
<1>1. PICK s \in Bad : \A x \in s : s \ {x} \notin Bad
  <2> Bad \subseteq SUBSET S
    OBVIOUS
  <2> HIDE DEF Bad
  <2> QED BY MinimalSet
<1>2. s # {}
  BY <1>1
<1>3. PICK x \in s : TRUE
  BY <1>2
<1> QED
  BY <1>1, <1>3

-----------------------------------------------------------------------------
(* SumFunction follows the equation of its fold. *)

One(s) == CHOOSE x \in s : TRUE

Follows(g, v, s) == g[s] = IF s = {} THEN 0 ELSE v[One(s)] + g[s \ {One(s)}]

Sums(g, S, v) == g = [s \in SUBSET S |-> IF s = {} THEN 0 ELSE v[One(s)] + g[s \ {One(s)}]]

LEMMA SumLayers ==
  ASSUME NEW S, IsFiniteSet(S), NEW v \in [S -> Int], NEW n \in Nat
  PROVE  \E g \in [SUBSET S -> Int] :
           \A s \in SUBSET S : Cardinality(s) <= n => Follows(g, v, s)
<1> DEFINE Fails == {m \in Nat : ~ \E g \in [SUBSET S -> Int] :
                      \A s \in SUBSET S : Cardinality(s) <= m => Follows(g, v, s)}
<1> SUFFICES ASSUME Fails # {} PROVE FALSE
  OBVIOUS
<1>1. PICK m \in Fails : \A k \in Fails : m <= k
  <2> Fails \in SUBSET Nat
    OBVIOUS
  <2> HIDE DEF Fails
  <2> QED BY Least
<1>c. \A s \in SUBSET S : Cardinality(s) \in Nat /\ (Cardinality(s) = 0 <=> s = {}) /\ (s # {} => One(s) \in s)
            /\ Cardinality(s \ {One(s)}) = IF s = {} THEN 0 ELSE Cardinality(s) - 1
  BY FS_Subset, FS_CardinalityType, FS_EmptySet, FS_RemoveElement DEF One
<1>2. CASE m = 0
  <2> DEFINE g == [s \in SUBSET S |-> 0]
  <2>1. g \in [SUBSET S -> Int]
    OBVIOUS
  <2>2. \A s \in SUBSET S : Cardinality(s) <= 0 => Follows(g, v, s)
    <3> SUFFICES ASSUME NEW s \in SUBSET S, Cardinality(s) <= 0 PROVE Follows(g, v, s)
      OBVIOUS
    <3>1. s = {}
      <4>1. Cardinality(s) \in Nat /\ (Cardinality(s) = 0 <=> s = {})
        <5> HIDE DEF Fails, g
        <5> QED BY <1>c
      <4>2. Cardinality(s) <= 0
        OBVIOUS
      <4> QED BY ONLY <4>1, <4>2, SMT
    <3> QED
      BY <3>1 DEF Follows
  <2> QED
    BY <1>2, <2>1, <2>2
<1>3. CASE m # 0
  <2>0. m \in Nat /\ m - 1 \in Nat
    BY <1>3
  <2>1. PICK g \in [SUBSET S -> Int] :
          \A s \in SUBSET S : Cardinality(s) <= m - 1 => Follows(g, v, s)
    <3>1. m - 1 \notin Fails
      <4> HIDE DEF Fails
      <4> QED BY <1>1, <2>0
    <3> QED
      BY <3>1, <2>0
  <2> DEFINE h == [s \in SUBSET S |-> IF Cardinality(s) <= m - 1 THEN g[s] ELSE v[One(s)] + g[s \ {One(s)}]]
  <2>2. h \in [SUBSET S -> Int]
    BY <1>c, <2>0
  <2>3. ASSUME NEW s \in SUBSET S, Cardinality(s) <= m PROVE Follows(h, v, s)
    <3>1. CASE Cardinality(s) <= m - 1
      BY <3>1, <2>1, <1>c, <2>0 DEF Follows
    <3>2. CASE ~(Cardinality(s) <= m - 1)
      <4>1. s # {} /\ Cardinality(s \ {One(s)}) <= m - 1
        <5> HIDE DEF Fails, h
        <5> QED BY <3>2, <1>c, <2>0, <2>3
      <4> QED
        BY <3>2, <4>1 DEF Follows
    <3> QED
      BY <3>1, <3>2
  <2> QED
    BY <2>0, <2>2, <2>3
<1> QED
  BY <1>2, <1>3

LEMMA SumsExist ==
  ASSUME NEW S, IsFiniteSet(S), NEW v \in [S -> Int]
  PROVE  \E g \in [SUBSET S -> Int] : Sums(g, S, v)
<1>1. PICK g \in [SUBSET S -> Int] :
         \A s \in SUBSET S : Cardinality(s) <= Cardinality(S) => Follows(g, v, s)
  <2>1. Cardinality(S) \in Nat
    BY FS_CardinalityType
  <2>2. \A n \in Nat : \E g \in [SUBSET S -> Int] :
           \A s \in SUBSET S : Cardinality(s) <= n => Follows(g, v, s)
    BY SumLayers
  <2> QED
    BY ONLY <2>1, <2>2
<1>2. \A s \in SUBSET S : Follows(g, v, s)
  BY <1>1, FS_Subset
<1> QED
  BY <1>2 DEF Follows, Sums

LEMMA SumIs ==
  ASSUME NEW S, IsFiniteSet(S), NEW v \in [S -> Int],
         NEW g \in [SUBSET S -> Int], Sums(g, S, v)
  PROVE  SumFunction(v) = g[S]
<1> DEFINE h == CHOOSE f : Sums(f, S, v)
<1>1. Sums(h, S, v)
  OBVIOUS
<1>2. SumFunction(v) = h[S]
  BY DEF SumFunction, SumFunctionOnSet, FoldFunctionOnSet, MapThenFoldSet, One, Sums
<1> DEFINE T == {s \in SUBSET S : h[s] # g[s]}
<1> HIDE DEF h
<1>3. T = {}
  <2> SUFFICES ASSUME T # {} PROVE FALSE
    OBVIOUS
  <2>1. PICK s \in T : \A x \in s : s \ {x} \notin T
    <3>1. T \subseteq SUBSET S
      OBVIOUS
    <3> HIDE DEF T
    <3> QED BY <3>1, MinimalSet
  <2>2. s # {} => One(s) \in s
    BY DEF One
  <2> QED
    BY <1>1, <2>1, <2>2 DEF Sums
<1> QED
  BY <1>2, <1>3

LEMMA SumOfPart ==
  ASSUME NEW S, IsFiniteSet(S), NEW v \in [S -> Int],
         NEW g \in [SUBSET S -> Int], Sums(g, S, v), NEW T \in SUBSET S
  PROVE  SumFunction(Restrict(v, T)) = g[T]
<1> DEFINE w == Restrict(v, T)
           h == Restrict(g, SUBSET T)
<1>1. w \in [T -> Int] /\ h \in [SUBSET T -> Int] /\ IsFiniteSet(T)
  BY FS_Subset DEF Restrict
<1>2. \A s \in SUBSET T : s # {} => One(s) \in s
  BY DEF One
<1>3. h = [s \in SUBSET T |-> IF s = {} THEN 0 ELSE w[One(s)] + h[s \ {One(s)}]]
  BY <1>2 DEF Sums, Restrict
<1>4. h[T] = g[T]
  BY DEF Restrict
<1>5. Sums(h, T, w)
  <2> HIDE DEF w, h
  <2> QED BY <1>3 DEF Sums
<1> HIDE DEF w, h
<1>6. SumFunction(w) = h[T]
  BY <1>1, <1>5, SumIs
<1> QED
  BY <1>4, <1>6 DEF w

(* What is known of a sum over a finite set: it can be taken apart at any element. *)
Adds(g, S, v) ==
  /\ g \in [SUBSET S -> Int]
  /\ \A T \in SUBSET S : g[T] = SumFunction(Restrict(v, T))
  /\ SumFunction(v) = g[S]
  /\ g[{}] = 0
  /\ \A T \in SUBSET S : \A x \in T : g[T] = v[x] + g[T \ {x}]

LEMMA SumAdds ==
  ASSUME NEW S, IsFiniteSet(S), NEW v \in [S -> Int]
  PROVE  \E g : Adds(g, S, v)
<1>1. PICK g \in [SUBSET S -> Int] : Sums(g, S, v)
  BY SumsExist
<1>2. \A T \in SUBSET S : g[T] = SumFunction(Restrict(v, T))
  <2> SUFFICES ASSUME NEW T \in SUBSET S PROVE g[T] = SumFunction(Restrict(v, T))
    OBVIOUS
  <2> QED BY <1>1, SumOfPart
<1>3. SumFunction(v) = g[S]
  BY <1>1, SumIs
<1>4. g[{}] = 0
  BY <1>1 DEF Sums
<1> DEFINE P == {T \in SUBSET S : \A x \in T : g[T] = v[x] + g[T \ {x}]}
<1>5. ASSUME NEW T \in SUBSET S, \A y \in T : T \ {y} \in P, NEW x \in T
      PROVE  g[T] = v[x] + g[T \ {x}]
  <2> DEFINE y == One(T)
  <2>1. y \in T /\ g[T] = v[y] + g[T \ {y}]
    BY <1>1, <1>5 DEF Sums, One
  <2> HIDE DEF y
  <2>2. CASE x # y
    <3>1. g[T \ {y}] = v[x] + g[(T \ {y}) \ {x}]
      BY <1>5, <2>1, <2>2
    <3>2. g[T \ {x}] = v[y] + g[(T \ {x}) \ {y}]
      BY <1>5, <2>1, <2>2
    <3>3. (T \ {y}) \ {x} = (T \ {x}) \ {y}
      OBVIOUS
    <3>4. g[(T \ {x}) \ {y}] \in Int /\ v[x] \in Int /\ v[y] \in Int
      <4>1. (T \ {x}) \ {y} \in SUBSET S
        OBVIOUS
      <4> QED BY <4>1, <2>1
    <3>5. g[T \ {y}] = v[x] + g[(T \ {x}) \ {y}]
      BY <3>1, <3>3
    <3> DEFINE r == g[(T \ {x}) \ {y}]
    <3>6. r \in Int /\ g[T] = v[y] + (v[x] + r) /\ g[T \ {x}] = v[y] + r
      BY <2>1, <3>2, <3>4, <3>5
    <3> HIDE DEF r, P
    <3> QED
      BY <3>4, <3>6
  <2> QED
    BY <2>1, <2>2
<1>6. P = SUBSET S
  <2> DEFINE Bad == (SUBSET S) \ P
  <2> SUFFICES ASSUME Bad # {} PROVE FALSE
    OBVIOUS
  <2>1. PICK T \in Bad : \A x \in T : T \ {x} \notin Bad
    <3>1. Bad \subseteq SUBSET S
      OBVIOUS
    <3> HIDE DEF Bad
    <3> QED BY <3>1, MinimalSet
  <2>2. \A x \in T : T \ {x} \in P
    BY <2>1
  <2> QED
    BY <1>5, <2>1, <2>2
<1> QED
  BY <1>2, <1>3, <1>4, <1>6 DEF Adds

LEMMA SumType ==
  ASSUME NEW S, IsFiniteSet(S), NEW v \in [S -> Int]
  PROVE  SumFunction(v) \in Int
<1>1. PICK g : Adds(g, S, v)
  BY SumAdds
<1> QED
  BY <1>1 DEF Adds

LEMMA SumEmpty ==
  ASSUME NEW v \in [{} -> Int]
  PROVE  SumFunction(v) = 0
<1>1. IsFiniteSet({})
  BY FS_EmptySet
<1>2. PICK g : Adds(g, {}, v)
  BY <1>1, SumAdds
<1> QED
  BY <1>2 DEF Adds

LEMMA SumRemove ==
  ASSUME NEW S, IsFiniteSet(S), NEW v \in [S -> Int], NEW x \in S
  PROVE  SumFunction(v) = v[x] + SumFunction(Restrict(v, S \ {x}))
<1>1. PICK g : Adds(g, S, v)
  BY SumAdds
<1>2. g[S] = v[x] + g[S \ {x}] /\ g[S \ {x}] = SumFunction(Restrict(v, S \ {x}))
  BY <1>1 DEF Adds
<1> QED
  BY <1>1, <1>2 DEF Adds

LEMMA SumSplit ==
  ASSUME NEW S, IsFiniteSet(S), NEW v \in [S -> Int], NEW A \in SUBSET S
  PROVE  SumFunction(v) = SumFunction(Restrict(v, A)) + SumFunction(Restrict(v, S \ A))
<1>1. PICK g : Adds(g, S, v)
  BY SumAdds
<1> DEFINE P == {T \in SUBSET S : g[T] = g[T \cap A] + g[T \ A]}
<1>2. {} \in P
  BY <1>1 DEF Adds
<1>3. ASSUME NEW T \in SUBSET S, NEW x \in T, T \ {x} \in P
      PROVE  T \in P
  <2>1. g[T] = v[x] + g[T \ {x}]
    BY <1>1 DEF Adds
  <2>2. g[T \ {x}] = g[(T \ {x}) \cap A] + g[(T \ {x}) \ A]
    BY <1>3
  <2>3. v[x] \in Int /\ g[(T \ {x}) \cap A] \in Int /\ g[(T \ {x}) \ A] \in Int
    <3>1. (T \ {x}) \cap A \in SUBSET S /\ (T \ {x}) \ A \in SUBSET S
      OBVIOUS
    <3> QED BY <1>1, <3>1 DEF Adds
  <2>4. CASE x \in A
    <3>1. (T \ {x}) \ A = T \ A /\ (T \ {x}) \cap A = (T \cap A) \ {x}
      BY <2>4
    <3>2. g[T \cap A] = v[x] + g[(T \cap A) \ {x}]
      BY <1>1, <2>4 DEF Adds
    <3>3. g[(T \ {x}) \ A] = g[T \ A] /\ g[(T \cap A) \ {x}] = g[(T \ {x}) \cap A]
      BY <3>1
    <3>4. g[T] = g[T \cap A] + g[T \ A]
      BY ONLY <2>1, <2>2, <2>3, <3>2, <3>3, SMT
    <3> QED
      BY <3>4
  <2>5. CASE x \notin A
    <3>1. (T \ {x}) \ A = (T \ A) \ {x} /\ (T \ {x}) \cap A = T \cap A
      BY <2>5
    <3>2. g[T \ A] = v[x] + g[(T \ A) \ {x}]
      BY <1>1, <2>5 DEF Adds
    <3>3. g[(T \ {x}) \cap A] = g[T \cap A] /\ g[(T \ A) \ {x}] = g[(T \ {x}) \ A]
      BY <3>1
    <3>4. g[T] = g[T \cap A] + g[T \ A]
      BY ONLY <2>1, <2>2, <2>3, <3>2, <3>3, SMT
    <3> QED
      BY <3>4
  <2> QED
    BY <2>4, <2>5
<1>4. P = SUBSET S
  <2>1. P \subseteq SUBSET S
    OBVIOUS
  <2> HIDE DEF P
  <2> QED BY <1>2, <1>3, <2>1, SubsetInduction
<1>5. g[S] = g[S \cap A] + g[S \ A] /\ S \cap A = A
  BY <1>4
<1> QED
  BY <1>1, <1>5 DEF Adds

-----------------------------------------------------------------------------
(* The algebra of sums. *)

LEMMA SumZero ==
  ASSUME NEW S, IsFiniteSet(S), NEW v \in [S -> Int], \A x \in S : v[x] = 0
  PROVE  SumFunction(v) = 0
<1>1. PICK g : Adds(g, S, v)
  BY SumAdds
<1> DEFINE P == {T \in SUBSET S : g[T] = 0}
<1>2. {} \in P
  BY <1>1 DEF Adds
<1>3. ASSUME NEW T \in SUBSET S, NEW x \in T, T \ {x} \in P
      PROVE  T \in P
  <2>1. g[T] = v[x] + g[T \ {x}] /\ g[T \ {x}] = 0 /\ v[x] = 0
    BY <1>1, <1>3 DEF Adds
  <2> QED
    BY <2>1
<1>4. P = SUBSET S
  <2>1. P \subseteq SUBSET S
    OBVIOUS
  <2> HIDE DEF P
  <2> QED BY <1>2, <1>3, <2>1, SubsetInduction
<1> QED
  BY <1>1, <1>4 DEF Adds

LEMMA SumPlus ==
  ASSUME NEW S, IsFiniteSet(S), NEW v \in [S -> Int], NEW w \in [S -> Int]
  PROVE  SumFunction([x \in S |-> v[x] + w[x]]) = SumFunction(v) + SumFunction(w)
<1> DEFINE u == [x \in S |-> v[x] + w[x]]
<1>1. u \in [S -> Int] /\ \A x \in S : u[x] = v[x] + w[x]
  OBVIOUS
<1> HIDE DEF u
<1>2. PICK f : Adds(f, S, u)
  BY <1>1, SumAdds
<1>3. PICK g : Adds(g, S, v)
  BY SumAdds
<1>4. PICK h : Adds(h, S, w)
  BY SumAdds
<1> DEFINE P == {T \in SUBSET S : f[T] = g[T] + h[T]}
<1>5. {} \in P
  BY <1>2, <1>3, <1>4 DEF Adds
<1>6. ASSUME NEW T \in SUBSET S, NEW x \in T, T \ {x} \in P
      PROVE  T \in P
  <2>1. /\ f[T] = u[x] + f[T \ {x}] /\ g[T] = v[x] + g[T \ {x}] /\ h[T] = w[x] + h[T \ {x}]
        /\ g[T \ {x}] \in Int /\ h[T \ {x}] \in Int
    <3>1. T \ {x} \in SUBSET S
      OBVIOUS
    <3> QED BY <3>1, <1>2, <1>3, <1>4 DEF Adds
  <2>2. f[T \ {x}] = g[T \ {x}] + h[T \ {x}] /\ u[x] = v[x] + w[x] /\ v[x] \in Int /\ w[x] \in Int
    BY <1>1, <1>6
  <2>3. f[T] = g[T] + h[T]
    BY ONLY <2>1, <2>2, SMT
  <2> QED
    BY <2>3
<1>7. P = SUBSET S
  <2>1. P \subseteq SUBSET S
    OBVIOUS
  <2> HIDE DEF P
  <2> QED BY <1>5, <1>6, <2>1, SubsetInduction
<1>8. f[S] = g[S] + h[S]
  BY <1>7
<1> QED
  BY <1>2, <1>3, <1>4, <1>8 DEF Adds, u

LEMMA SumMinus ==
  ASSUME NEW S, IsFiniteSet(S), NEW v \in [S -> Int]
  PROVE  SumFunction([x \in S |-> -v[x]]) = -SumFunction(v)
<1> DEFINE w == [x \in S |-> -v[x]]
           z == [x \in S |-> v[x] + w[x]]
<1>1. w \in [S -> Int] /\ z \in [S -> Int] /\ \A x \in S : z[x] = 0
  OBVIOUS
<1>2. SumFunction(z) = 0
  <2> HIDE DEF z
  <2> QED BY <1>1, SumZero
<1>3. SumFunction(z) = SumFunction(v) + SumFunction(w)
  <2> HIDE DEF w
  <2> QED BY <1>1, SumPlus
<1>4. SumFunction(v) \in Int /\ SumFunction(w) \in Int
  <2> HIDE DEF w
  <2> QED BY <1>1, SumType
<1> HIDE DEF w, z
<1>5. SumFunction(w) = -SumFunction(v)
  BY <1>2, <1>3, <1>4
<1> QED
  BY <1>5 DEF w

LEMMA SumPositive ==
  ASSUME NEW S, IsFiniteSet(S), S # {}, NEW v \in [S -> Int], \A x \in S : v[x] > 0
  PROVE  SumFunction(v) > 0
<1>1. PICK g : Adds(g, S, v)
  BY SumAdds
<1> DEFINE P == {T \in SUBSET S : g[T] >= 0 /\ (T # {} => g[T] > 0)}
<1>2. {} \in P
  BY <1>1 DEF Adds
<1>3. ASSUME NEW T \in SUBSET S, NEW x \in T, T \ {x} \in P
      PROVE  T \in P
  <2>1. g[T] = v[x] + g[T \ {x}] /\ g[T \ {x}] >= 0 /\ v[x] > 0 /\ v[x] \in Int
    BY <1>1, <1>3 DEF Adds
  <2>2. g[T \ {x}] \in Int
    <3>1. T \ {x} \in SUBSET S
      OBVIOUS
    <3> QED BY <3>1, <1>1 DEF Adds
  <2>3. g[T] > 0 /\ g[T] >= 0
    BY <2>1, <2>2
  <2> QED
    BY <2>3
<1>4. P = SUBSET S
  <2>1. P \subseteq SUBSET S
    OBVIOUS
  <2> HIDE DEF P
  <2> QED BY <1>2, <1>3, <2>1, SubsetInduction
<1>5. g[S] > 0
  BY <1>4
<1> QED
  BY <1>1, <1>5 DEF Adds

(* Only what is not zero counts. *)
LEMMA SumSupport ==
  ASSUME NEW S, IsFiniteSet(S), NEW v \in [S -> Int], NEW A \in SUBSET S,
         \A x \in S \ A : v[x] = 0
  PROVE  SumFunction(v) = SumFunction(Restrict(v, A))
<1> DEFINE w == Restrict(v, S \ A)
           r == Restrict(v, A)
<1>1. w \in [S \ A -> Int] /\ r \in [A -> Int] /\ \A x \in S \ A : w[x] = 0
  BY DEF Restrict
<1>2. IsFiniteSet(S \ A) /\ IsFiniteSet(A)
  BY FS_Subset
<1>3. SumFunction(v) = SumFunction(r) + SumFunction(w)
  BY SumSplit
<1> HIDE DEF w, r
<1>4. SumFunction(w) = 0 /\ SumFunction(r) \in Int
  BY <1>1, <1>2, SumZero, SumType
<1>5. SumFunction(v) = SumFunction(r)
  BY <1>3, <1>4
<1> QED
  BY <1>5 DEF r

LEMMA SumSingle ==
  ASSUME NEW x, NEW v \in [{x} -> Int]
  PROVE  SumFunction(v) = v[x]
<1> DEFINE r == Restrict(v, {x} \ {x})
<1>1. IsFiniteSet({x}) /\ r \in [{} -> Int]
  BY FS_Singleton DEF Restrict
<1>2. SumFunction(v) = v[x] + SumFunction(r)
  BY <1>1, SumRemove
<1> HIDE DEF r
<1>3. SumFunction(r) = 0 /\ v[x] \in Int
  BY <1>1, SumEmpty
<1> QED
  BY <1>2, <1>3

(* Each element of T is f[x] for one x in S. *)
OneToOne(f, S, T) ==
  /\ f \in [S -> T]
  /\ \A x, y \in S : f[x] = f[y] => x = y
  /\ \A y \in T : \E x \in S : f[x] = y

LEMMA OneToOneFinite ==
  ASSUME NEW S, NEW T, IsFiniteSet(S), NEW f, OneToOne(f, S, T)
  PROVE  IsFiniteSet(T) /\ Cardinality(T) = Cardinality(S)
<1>1. f \in Bijection(S, T)
  BY DEF OneToOne, Bijection, Injection, Surjection, IsInjective
<1>2. ExistsBijection(S, T)
  BY <1>1 DEF ExistsBijection
<1> QED
  BY <1>2, FS_Bijection

(* A sum is the same under other names. *)
LEMMA SumRenamed ==
  ASSUME NEW S, NEW T, IsFiniteSet(S), NEW f, OneToOne(f, S, T), NEW v \in [T -> Int]
  PROVE  SumFunction([x \in S |-> v[f[x]]]) = SumFunction(v)
<1> DEFINE w == [x \in S |-> v[f[x]]]
           Im(A) == {f[x] : x \in A}
<1>1. w \in [S -> Int] /\ \A x \in S : w[x] = v[f[x]]
  BY DEF OneToOne
<1> HIDE DEF w
<1>2. IsFiniteSet(T)
  BY OneToOneFinite
<1>3. PICK g : Adds(g, S, w)
  BY <1>1, SumAdds
<1>4. PICK h : Adds(h, T, v)
  BY <1>2, SumAdds
<1> DEFINE P == {A \in SUBSET S : g[A] = h[Im(A)]}
<1>5. {} \in P
  <2>1. Im({}) = {}
    OBVIOUS
  <2>2. g[{}] = 0 /\ h[{}] = 0
    BY <1>3, <1>4 DEF Adds
  <2> QED BY <2>1, <2>2
<1>6. ASSUME NEW A \in SUBSET S, NEW x \in A, A \ {x} \in P
      PROVE  A \in P
  <2>1. g[A] = w[x] + g[A \ {x}]
    BY <1>3 DEF Adds
  <2>2. Im(A) \in SUBSET T /\ f[x] \in Im(A)
    BY DEF OneToOne
  <2>3. h[Im(A)] = v[f[x]] + h[Im(A) \ {f[x]}]
    <3> HIDE DEF Im
    <3> QED BY <1>4, <2>2 DEF Adds
  <2>4. Im(A \ {x}) = Im(A) \ {f[x]}
    BY DEF OneToOne
  <2>5. g[A \ {x}] = h[Im(A \ {x})]
    BY <1>6
  <2>6. g[A] = h[Im(A)]
    <3> HIDE DEF Im, P
    <3> QED BY <1>1, <2>1, <2>3, <2>4, <2>5
  <2> QED
    BY <2>6
<1>7. P = SUBSET S
  <2>1. P \subseteq SUBSET S
    OBVIOUS
  <2> HIDE DEF P
  <2> QED BY <1>5, <1>6, <2>1, SubsetInduction
<1>8. g[S] = h[Im(S)]
  BY <1>7
<1>9. Im(S) = T
  BY DEF OneToOne
<1> HIDE DEF Im, P
<1>10. SumFunction(w) = SumFunction(v)
  BY <1>3, <1>4, <1>8, <1>9 DEF Adds
<1> QED
  BY <1>10 DEF w

(* The elements of S that c sends to k. *)
Class(c, S, k) == {x \in S : c[x] = k}

(* A sum can be taken group by group. *)
LEMMA SumGrouped ==
  ASSUME NEW S, IsFiniteSet(S), NEW v \in [S -> Int], NEW K, IsFiniteSet(K), NEW c \in [S -> K]
  PROVE  SumFunction(v) = SumFunction([k \in K |-> SumFunction(Restrict(v, Class(c, S, k)))])
<1> DEFINE w == [k \in K |-> SumFunction(Restrict(v, Class(c, S, k)))]
           Of(L) == {x \in S : c[x] \in L}
<1>1. PICK g : Adds(g, S, v)
  BY SumAdds
<1>2. \A k \in K : Class(c, S, k) \in SUBSET S /\ w[k] = g[Class(c, S, k)] /\ w[k] \in Int
  <2> SUFFICES ASSUME NEW k \in K
               PROVE  Class(c, S, k) \in SUBSET S /\ w[k] = g[Class(c, S, k)] /\ w[k] \in Int
    OBVIOUS
  <2>1. Class(c, S, k) \in SUBSET S
    BY DEF Class
  <2>2. SumFunction(Restrict(v, Class(c, S, k))) = g[Class(c, S, k)] /\ g[Class(c, S, k)] \in Int
    BY <1>1, <2>1 DEF Adds
  <2> QED BY <2>1, <2>2
<1>3. w \in [K -> Int]
  BY <1>2
<1> HIDE DEF w
<1>4. PICK h : Adds(h, K, w)
  BY <1>3, SumAdds
<1> DEFINE P == {L \in SUBSET K : h[L] = g[Of(L)]}
<1>5. {} \in P
  <2>1. Of({}) = {}
    OBVIOUS
  <2>2. g[{}] = 0 /\ h[{}] = 0
    BY <1>1, <1>4 DEF Adds
  <2> QED BY <2>1, <2>2
<1>6. ASSUME NEW L \in SUBSET K, NEW k \in L, L \ {k} \in P
      PROVE  L \in P
  <2> DEFINE A == Of(L)
             B == Class(c, S, k)
  <2>1. h[L] = w[k] + h[L \ {k}]
    BY <1>4 DEF Adds
  <2>2. h[L \ {k}] = g[Of(L \ {k})]
    BY <1>6
  <2>3. A \in SUBSET S /\ B \in SUBSET A /\ Of(L \ {k}) = A \ B
    BY DEF Class
  <2>4. g[A] = g[B] + g[A \ B]
    <3> DEFINE u == Restrict(v, A)
    <3>1. IsFiniteSet(A) /\ u \in [A -> Int]
      BY <2>3, FS_Subset DEF Restrict
    <3>2. SumFunction(u) = SumFunction(Restrict(u, B)) + SumFunction(Restrict(u, A \ B))
      <4> HIDE DEF A, B, u
      <4> QED BY <2>3, <3>1, SumSplit
    <3>3. Restrict(u, B) = Restrict(v, B) /\ Restrict(u, A \ B) = Restrict(v, A \ B)
      <4> HIDE DEF A, B
      <4> QED BY <2>3 DEF Restrict
    <3>4. /\ SumFunction(u) = g[A] /\ SumFunction(Restrict(v, B)) = g[B]
          /\ SumFunction(Restrict(v, A \ B)) = g[A \ B]
      <4> HIDE DEF A, B
      <4>1. B \in SUBSET S /\ A \ B \in SUBSET S
        BY <2>3
      <4> QED BY <1>1, <2>3, <4>1 DEF Adds
    <3> HIDE DEF A, B, u
    <3> QED BY <3>2, <3>3, <3>4
  <2>5. h[L] = g[A]
    <3>1. w[k] = g[B]
      BY <1>2
    <3>2. h[L \ {k}] = g[A \ B]
      <4> HIDE DEF A, B, P, Of
      <4> QED BY <2>2, <2>3
    <3> HIDE DEF A, B, P, Of
    <3> QED BY <2>1, <2>4, <3>1, <3>2
  <2> QED
    BY <2>5
<1>7. P = SUBSET K
  <2>1. P \subseteq SUBSET K
    OBVIOUS
  <2> HIDE DEF P
  <2> QED BY <1>5, <1>6, <2>1, SubsetInduction
<1>8. h[K] = g[Of(K)]
  BY <1>7
<1>9. Of(K) = S
  OBVIOUS
<1> HIDE DEF Of, P
<1>10. SumFunction(v) = SumFunction(w)
  BY <1>1, <1>4, <1>8, <1>9 DEF Adds
<1> QED
  BY <1>10 DEF w

(* What comes in pairs of opposite value adds up to nothing. *)
LEMMA SumPaired ==
  ASSUME NEW S, IsFiniteSet(S), NEW v \in [S -> Int], NEW p, OneToOne(p, S, S),
         \A x \in S : v[p[x]] = -v[x]
  PROVE  SumFunction(v) = 0
<1> DEFINE w == [x \in S |-> v[p[x]]]
           m == [x \in S |-> -v[x]]
<1>1. w = m
  OBVIOUS
<1>2. SumFunction(w) = SumFunction(v)
  BY SumRenamed
<1>3. SumFunction(m) = -SumFunction(v)
  BY SumMinus
<1>4. SumFunction(v) \in Int
  BY SumType
<1> HIDE DEF w, m
<1> QED
  BY <1>1, <1>2, <1>3, <1>4

-----------------------------------------------------------------------------
(* The tables, and the money of some rows. *)

LEMMA Tables ==
  ASSUME NEW d, Consistent(d)
  PROVE  /\ d.accounts \subseteq Account /\ IsFiniteSet(d.accounts)
         /\ d.categories \subseteq Category
         /\ d.transactions \subseteq Transaction /\ IsFiniteSet(d.transactions)
         /\ d.snapshots \subseteq Snapshot /\ IsFiniteSet(d.snapshots)
         /\ DOMAIN d = {"accounts", "categories", "batches", "transactions", "snapshots"}
<1>1. d \in Database /\ \A table \in DOMAIN d : IsFiniteSet(d[table])
  BY DEF Consistent
<1> QED
  BY <1>1 DEF Database

Earned(t) == IF t.amount > 0 THEN t.amount ELSE 0

Spent(t) == IF t.amount < 0 THEN -t.amount ELSE 0

LEMMA MoneyIs ==
  ASSUME NEW R, R \subseteq Transaction, IsFiniteSet(R)
  PROVE  /\ Inflow(R) = SumFunction([t \in R |-> Earned(t)]) /\ Inflow(R) \in Int
         /\ Outflow(R) = SumFunction([t \in R |-> Spent(t)]) /\ Outflow(R) \in Int
         /\ AmountOf(R) = Inflow(R) - Outflow(R) /\ AmountOf(R) \in Int
<1> DEFINE e == [t \in R |-> Earned(t)]
           s == [t \in R |-> Spent(t)]
           m == [t \in R |-> -s[t]]
           In == {t \in R : t.amount > 0}
           Out == {t \in R : t.amount < 0}
<1>1. \A t \in R : t.amount \in Int /\ Earned(t) \in Int /\ Spent(t) \in Int
  BY DEF Transaction, Earned, Spent
<1>2. e \in [R -> Int] /\ s \in [R -> Int] /\ m \in [R -> Int]
  BY <1>1
<1>3. Inflow(R) = SumFunction(e)
  <2>1. Restrict(e, In) = [t \in In |-> t.amount]
    BY DEF Restrict, Earned
  <2>2. In \in SUBSET R /\ \A t \in R \ In : e[t] = 0
    BY DEF Earned
  <2>3. SumFunction(e) = SumFunction(Restrict(e, In))
    <3> HIDE DEF e, In
    <3> QED BY <1>2, <2>2, SumSupport
  <2> QED
    BY <2>1, <2>3 DEF Inflow, AmountOf
<1>4. SumFunction(e) \in Int /\ SumFunction(s) \in Int
  <2> HIDE DEF e, s
  <2> QED BY <1>2, SumType
<1>5. SumFunction(m) = -SumFunction(s)
  <2> HIDE DEF s
  <2> QED BY <1>2, SumMinus
<1>6. Outflow(R) = SumFunction(s)
  <2>1. Restrict(m, Out) = [t \in Out |-> t.amount]
    <3>1. \A t \in Out : -(-t.amount) = t.amount
      BY <1>1
    <3> QED BY <3>1 DEF Restrict, Spent
  <2>2. Out \in SUBSET R /\ \A t \in R \ Out : m[t] = 0
    <3>1. \A t \in R \ Out : Spent(t) = 0
      BY DEF Spent
    <3>2. \A t \in R \ Out : s[t] = 0
      BY <3>1
    <3> HIDE DEF s
    <3> QED BY <3>2
  <2>3. SumFunction(m) = SumFunction(Restrict(m, Out))
    <3> HIDE DEF m, Out
    <3> QED BY <1>2, <2>2, SumSupport
  <2>4. Outflow(R) = -SumFunction(m)
    BY <2>1, <2>3 DEF Outflow, AmountOf
  <2> HIDE DEF m, s
  <2> QED
    BY <1>4, <1>5, <2>4
<1>7. AmountOf(R) = SumFunction(e) + SumFunction(m)
  <2>1. [t \in R |-> e[t] + m[t]] = [t \in R |-> t.amount]
    <3>1. \A t \in R : e[t] + m[t] = t.amount
      BY <1>1 DEF Earned, Spent
    <3> HIDE DEF e, m
    <3> QED BY <3>1
  <2>2. SumFunction([t \in R |-> e[t] + m[t]]) = SumFunction(e) + SumFunction(m)
    <3> HIDE DEF e, m
    <3> QED BY <1>2, SumPlus
  <2> QED
    BY <2>1, <2>2 DEF AmountOf
<1> HIDE DEF e, s, m
<1>8. AmountOf(R) = Inflow(R) - Outflow(R) /\ AmountOf(R) \in Int /\ Inflow(R) \in Int /\ Outflow(R) \in Int
  BY <1>3, <1>4, <1>5, <1>6, <1>7
<1> QED
  BY <1>3, <1>6, <1>8 DEF e, s

LEMMA MoneyOfNone ==
  Inflow({}) = 0 /\ Outflow({}) = 0 /\ AmountOf({}) = 0
<1>1. \A r \in SUBSET {} : SumFunction([t \in r |-> t.amount]) = 0
  <2> SUFFICES ASSUME NEW r \in SUBSET {} PROVE SumFunction([t \in r |-> t.amount]) = 0
    OBVIOUS
  <2> DEFINE v == [t \in r |-> t.amount]
  <2>1. v \in [{} -> Int]
    OBVIOUS
  <2> HIDE DEF v
  <2>2. SumFunction(v) = 0
    BY <2>1, SumEmpty
  <2> QED
    BY <2>2 DEF v
<1>2. AmountOf({}) = 0 /\ AmountOf({t \in {} : t.amount > 0}) = 0 /\ AmountOf({t \in {} : t.amount < 0}) = 0
  BY <1>1 DEF AmountOf
<1> QED
  BY <1>2 DEF Inflow, Outflow

LEMMA MoneyGrouped ==
  ASSUME NEW R, R \subseteq Transaction, IsFiniteSet(R),
         NEW K, IsFiniteSet(K), NEW c \in [R -> K]
  PROVE  /\ Inflow(R) = SumFunction([k \in K |-> Inflow(Class(c, R, k))])
         /\ Outflow(R) = SumFunction([k \in K |-> Outflow(Class(c, R, k))])
         /\ AmountOf(R) = SumFunction([k \in K |-> AmountOf(Class(c, R, k))])
<1>1. \A t \in R : t.amount \in Int /\ Earned(t) \in Int /\ Spent(t) \in Int
  BY DEF Transaction, Earned, Spent
<1>2. \A k \in K : Class(c, R, k) \subseteq R /\ IsFiniteSet(Class(c, R, k))
  BY FS_Subset DEF Class
<1>3. \A k \in K : /\ Inflow(Class(c, R, k)) = SumFunction([t \in Class(c, R, k) |-> Earned(t)])
                   /\ Outflow(Class(c, R, k)) = SumFunction([t \in Class(c, R, k) |-> Spent(t)])
  BY <1>2, MoneyIs
<1>4. Inflow(R) = SumFunction([k \in K |-> Inflow(Class(c, R, k))])
  <2> DEFINE e == [t \in R |-> Earned(t)]
  <2>1. e \in [R -> Int]
    BY <1>1
  <2>2. \A k \in K : Restrict(e, Class(c, R, k)) = [t \in Class(c, R, k) |-> Earned(t)]
    BY <1>2 DEF Restrict
  <2>3. SumFunction(e) = SumFunction([k \in K |-> SumFunction(Restrict(e, Class(c, R, k)))])
    <3> HIDE DEF e
    <3> QED BY <2>1, SumGrouped
  <2>4. Inflow(R) = SumFunction(e)
    BY MoneyIs
  <2>5. [k \in K |-> SumFunction(Restrict(e, Class(c, R, k)))] = [k \in K |-> Inflow(Class(c, R, k))]
    <3> HIDE DEF e
    <3> QED BY <1>3, <2>2
  <2> QED
    BY <2>3, <2>4, <2>5
<1>5. Outflow(R) = SumFunction([k \in K |-> Outflow(Class(c, R, k))])
  <2> DEFINE s == [t \in R |-> Spent(t)]
  <2>1. s \in [R -> Int]
    BY <1>1
  <2>2. \A k \in K : Restrict(s, Class(c, R, k)) = [t \in Class(c, R, k) |-> Spent(t)]
    BY <1>2 DEF Restrict
  <2>3. SumFunction(s) = SumFunction([k \in K |-> SumFunction(Restrict(s, Class(c, R, k)))])
    <3> HIDE DEF s
    <3> QED BY <2>1, SumGrouped
  <2>4. Outflow(R) = SumFunction(s)
    BY MoneyIs
  <2>5. [k \in K |-> SumFunction(Restrict(s, Class(c, R, k)))] = [k \in K |-> Outflow(Class(c, R, k))]
    <3> HIDE DEF s
    <3> QED BY <1>3, <2>2
  <2> QED
    BY <2>3, <2>4, <2>5
<1>6. AmountOf(R) = SumFunction([k \in K |-> AmountOf(Class(c, R, k))])
  <2> DEFINE a == [t \in R |-> t.amount]
  <2>1. a \in [R -> Int]
    BY <1>1
  <2>2. \A k \in K : Restrict(a, Class(c, R, k)) = [t \in Class(c, R, k) |-> t.amount]
    BY <1>2 DEF Restrict
  <2>3. SumFunction(a) = SumFunction([k \in K |-> SumFunction(Restrict(a, Class(c, R, k)))])
    <3> HIDE DEF a
    <3> QED BY <2>1, SumGrouped
  <2>4. [k \in K |-> SumFunction(Restrict(a, Class(c, R, k)))] = [k \in K |-> AmountOf(Class(c, R, k))]
    <3> HIDE DEF a
    <3> QED BY <2>2 DEF AmountOf
  <2> QED
    BY <2>3, <2>4 DEF AmountOf
<1> QED
  BY <1>4, <1>5, <1>6

-----------------------------------------------------------------------------
(* The rows of a range, by category and by month. *)

LEMMA FlowRowsType ==
  ASSUME NEW d, Consistent(d), NEW u, NEW from, NEW to
  PROVE  /\ FlowRows(d, u, from, to) \subseteq d.transactions
         /\ FlowRows(d, u, from, to) \subseteq Transaction
         /\ IsFiniteSet(FlowRows(d, u, from, to))
<1>1. FlowRows(d, u, from, to) \subseteq d.transactions
  BY DEF FlowRows
<1> QED
  BY <1>1, Tables, FS_Subset

(* The dashboard's count of rows without a category is the number of rows   *)
(* that the list filtered for them shows, in whatever consistent books.      *)
THEOREM UncategorizedAreListed ==
  ASSUME NEW d, Consistent(d)
  PROVE  UncategorizedListedIn(d)
<1> SUFFICES ASSUME NEW u \in User, NEW range \in Ranges
             PROVE  {t \in FlowRows(d, u, range[1], range[2]) : t.category = NULL}
                      = Matching(d, u, [NoFilter EXCEPT !.from = range[1], !.to = range[2],
                                                        !.uncategorized = TRUE])
  BY DEF UncategorizedListedIn, ReportSummary
<1>1. range[1] # NULL /\ range[2] # NULL
  BY ReportsAssumption DEF Ranges
<1>2. \A t \in d.transactions : t.payee \in Payee
  BY Tables DEF Transaction
<1> DEFINE filter == [NoFilter EXCEPT !.from = range[1], !.to = range[2], !.uncategorized = TRUE]
<1>3. /\ filter.from = range[1] /\ filter.to = range[2] /\ filter.uncategorized
      /\ filter.account = NULL /\ filter.category = NULL /\ filter.payees = Payee
  BY DEF NoFilter
<1> HIDE DEF filter
<1>4. {t \in FlowRows(d, u, range[1], range[2]) : t.category = NULL} = Matching(d, u, filter)
  BY <1>1, <1>2, <1>3 DEF FlowRows, Matching
<1> QED
  BY <1>4 DEF filter

(* The row of Grouped for one category. *)
TotalOf(d, rows, id) ==
  LET of == {t \in rows : t.category = id}
      joined == {c \in d.categories : c.id = id}
  IN [category |-> id,
      name |-> IF joined = {} THEN "Uncategorized" ELSE (CHOOSE c \in joined : TRUE).name,
      kind |-> IF joined = {} THEN NULL ELSE (CHOOSE c \in joined : TRUE).kind,
      inflow |-> Inflow(of), outflow |-> Outflow(of)]

CategoriesOf(rows) == {t.category : t \in rows}

In(rows) == SumFunction([row \in rows |-> row.inflow])

Out(rows) == SumFunction([row \in rows |-> row.outflow])

Of(id, rows) == {row \in rows : row.category = id}

LEMMA GroupedIs ==
  ASSUME NEW d, NEW R
  PROVE  Grouped(d, R) = {TotalOf(d, R, id) : id \in CategoriesOf(R)}
BY DEF Grouped, TotalOf, CategoriesOf

LEMMA CategoriesFinite ==
  ASSUME NEW R, IsFiniteSet(R)
  PROVE  IsFiniteSet(CategoriesOf(R))
<1> DEFINE c == [t \in R |-> t.category]
<1>1. c \in Surjection(R, CategoriesOf(R))
  BY DEF Surjection, CategoriesOf
<1> HIDE DEF c
<1> QED
  BY <1>1, FS_Surjection

LEMMA TotalOfIs ==
  ASSUME NEW d, NEW R, R \subseteq Transaction, IsFiniteSet(R), NEW id
  PROVE  /\ TotalOf(d, R, id).category = id
         /\ TotalOf(d, R, id).inflow = Inflow({t \in R : t.category = id})
         /\ TotalOf(d, R, id).outflow = Outflow({t \in R : t.category = id})
         /\ TotalOf(d, R, id).inflow \in Int /\ TotalOf(d, R, id).outflow \in Int
<1>1. {t \in R : t.category = id} \subseteq Transaction /\ IsFiniteSet({t \in R : t.category = id})
  BY FS_Subset
<1>2. Inflow({t \in R : t.category = id}) \in Int /\ Outflow({t \in R : t.category = id}) \in Int
  BY <1>1, MoneyIs
<1> QED
  BY <1>2 DEF TotalOf

(* The totals of some rows add up to the rows. *)
LEMMA TotalsAddUp ==
  ASSUME NEW d, NEW R, R \subseteq Transaction, IsFiniteSet(R)
  PROVE  /\ IsFiniteSet(Grouped(d, R))
         /\ In(Grouped(d, R)) = Inflow(R) /\ Out(Grouped(d, R)) = Outflow(R)
<1> DEFINE K == CategoriesOf(R)
           G == Grouped(d, R)
           f == [id \in K |-> TotalOf(d, R, id)]
           c == [t \in R |-> t.category]
           i == [row \in G |-> row.inflow]
           o == [row \in G |-> row.outflow]
<1>1. IsFiniteSet(K)
  BY CategoriesFinite
<1>2. OneToOne(f, K, G)
  <2>1. \A id \in K : f[id] \in G /\ f[id].category = id
    <3>1. \A id \in K : TotalOf(d, R, id).category = id
      BY DEF TotalOf
    <3> QED BY <3>1, GroupedIs
  <2>2. \A row \in G : \E id \in K : f[id] = row
    BY GroupedIs
  <2>3. \A x, y \in K : f[x] = f[y] => x = y
    <3> HIDE DEF f, K
    <3> QED BY <2>1
  <2>4. f \in [K -> G]
    <3>1. f = [id \in K |-> f[id]]
      OBVIOUS
    <3> HIDE DEF f, K, G
    <3> QED BY <2>1, <3>1
  <2> HIDE DEF f, K, G
  <2> QED BY <2>2, <2>3, <2>4 DEF OneToOne
<1>3. c \in [R -> K] /\ \A id \in K : Class(c, R, id) = {t \in R : t.category = id}
  BY DEF Class, CategoriesOf
<1>4. IsFiniteSet(G)
  <2> HIDE DEF f, K, G
  <2> QED BY <1>1, <1>2, OneToOneFinite
<1>5. i \in [G -> Int] /\ o \in [G -> Int]
  <2>1. \A id \in K : TotalOf(d, R, id).inflow \in Int /\ TotalOf(d, R, id).outflow \in Int
    <3> SUFFICES ASSUME NEW id \in K
                 PROVE  TotalOf(d, R, id).inflow \in Int /\ TotalOf(d, R, id).outflow \in Int
      OBVIOUS
    <3> QED BY TotalOfIs
  <2>2. \A row \in G : row.inflow \in Int /\ row.outflow \in Int
    <3> HIDE DEF K
    <3> QED BY <2>1, GroupedIs DEF K
  <2> HIDE DEF G
  <2> QED BY <2>2
<1>6. SumFunction([id \in K |-> i[f[id]]]) = SumFunction(i) /\ SumFunction([id \in K |-> o[f[id]]]) = SumFunction(o)
  <2> HIDE DEF f, K, G, i, o
  <2> QED BY <1>1, <1>2, <1>5, SumRenamed
<1>7. \A id \in K : i[f[id]] = Inflow(Class(c, R, id)) /\ o[f[id]] = Outflow(Class(c, R, id))
  <2> SUFFICES ASSUME NEW id \in K
               PROVE  i[f[id]] = Inflow(Class(c, R, id)) /\ o[f[id]] = Outflow(Class(c, R, id))
    OBVIOUS
  <2>1. f[id] \in G
    BY <1>2 DEF OneToOne
  <2>2. i[f[id]] = f[id].inflow /\ o[f[id]] = f[id].outflow
    <3> HIDE DEF f, K, G
    <3> QED BY <2>1
  <2>3. f[id].inflow = Inflow({t \in R : t.category = id}) /\ f[id].outflow = Outflow({t \in R : t.category = id})
    BY TotalOfIs
  <2>4. Class(c, R, id) = {t \in R : t.category = id}
    BY <1>3
  <2> HIDE DEF f, K, G, c, i, o
  <2> QED
    BY <2>2, <2>3, <2>4
<1>8. /\ [id \in K |-> i[f[id]]] = [id \in K |-> Inflow(Class(c, R, id))]
      /\ [id \in K |-> o[f[id]]] = [id \in K |-> Outflow(Class(c, R, id))]
  <2> HIDE DEF f, K, G, c, i, o
  <2> QED BY <1>7
<1>9. /\ Inflow(R) = SumFunction([id \in K |-> Inflow(Class(c, R, id))])
      /\ Outflow(R) = SumFunction([id \in K |-> Outflow(Class(c, R, id))])
      /\ AmountOf(R) = SumFunction([id \in K |-> AmountOf(Class(c, R, id))])
  <2>1. IsFiniteSet(K) /\ c \in [R -> K]
    BY <1>1, <1>3
  <2> HIDE DEF K, c
  <2> QED BY <2>1, MoneyGrouped
<1>10. In(G) = SumFunction(i) /\ Out(G) = SumFunction(o)
  BY DEF In, Out
<1> HIDE DEF f, K, c, i, o, G
<1>11. IsFiniteSet(G) /\ In(G) = Inflow(R) /\ Out(G) = Outflow(R)
  BY <1>4, <1>6, <1>8, <1>9, <1>10
<1> QED
  BY <1>11 DEF G

(* The total of one category, where it has rows and where it has none. *)
LEMMA OneTotal ==
  ASSUME NEW d, NEW R, R \subseteq Transaction, IsFiniteSet(R), NEW id
  PROVE  /\ In(Of(id, Grouped(d, R))) = Inflow({t \in R : t.category = id})
         /\ Out(Of(id, Grouped(d, R))) = Outflow({t \in R : t.category = id})
<1> DEFINE row == TotalOf(d, R, id)
           O == Of(id, Grouped(d, R))
           i == [r \in O |-> r.inflow]
           o == [r \in O |-> r.outflow]
<1>1. /\ row.inflow = Inflow({t \in R : t.category = id}) /\ row.outflow = Outflow({t \in R : t.category = id})
      /\ row.inflow \in Int /\ row.outflow \in Int
  BY TotalOfIs
<1>2. In(O) = SumFunction(i) /\ Out(O) = SumFunction(o)
  BY DEF In, Out
<1>3. CASE id \in CategoriesOf(R)
  <2>1. O = {row}
    <3>1. \A x \in CategoriesOf(R) : TotalOf(d, R, x).category = x
      BY DEF TotalOf
    <3> QED
      BY <1>3, <3>1, GroupedIs DEF Of
  <2>2. i \in [{row} -> Int] /\ o \in [{row} -> Int] /\ i[row] = row.inflow /\ o[row] = row.outflow
    <3> HIDE DEF O, row
    <3> QED BY <1>1, <2>1
  <2> HIDE DEF O, row, i, o
  <2>3. SumFunction(i) = row.inflow /\ SumFunction(o) = row.outflow
    BY <2>2, SumSingle
  <2> QED
    BY <1>1, <1>2, <2>3 DEF O
<1>4. CASE id \notin CategoriesOf(R)
  <2>1. O = {}
    <3>1. \A x \in CategoriesOf(R) : TotalOf(d, R, x).category = x
      BY DEF TotalOf
    <3> QED
      BY <1>4, <3>1, GroupedIs DEF Of
  <2>2. {t \in R : t.category = id} = {}
    BY <1>4 DEF CategoriesOf
  <2>3. i \in [{} -> Int] /\ o \in [{} -> Int]
    <3> HIDE DEF O
    <3> QED BY <2>1
  <2> HIDE DEF i, o, O
  <2>4. SumFunction(i) = 0 /\ SumFunction(o) = 0
    BY <2>3, SumEmpty
  <2> QED
    BY <1>2, <2>2, <2>4, MoneyOfNone DEF O
<1> QED
  BY <1>3, <1>4

(* Over any range, the summary is the sum of the categories' totals, and     *)
(* each of these is the sum of its months in Trends: three statements that   *)
(* group the same rows in three ways.                                        *)
THEOREM StatementsAgree ==
  ASSUME NEW d, Consistent(d)
  PROVE  ReportsAgreeIn(d)
<1> SUFFICES ASSUME NEW u \in User, NEW range \in Ranges
             PROVE  LET summary == ReportSummary(d, u, range[1], range[2])
                        totals == CategoryTotals(d, u, range[1], range[2])
                        months == Trends(d, u, range[1], range[2])
                    IN /\ summary.income = In(totals) /\ summary.expense = Out(totals)
                       /\ \A month \in months : \A row \in month.totals :
                            Of(row.category, totals) # {}
                       /\ \A row \in totals :
                            /\ row.inflow = SumFunction([m \in months |-> In(Of(row.category, m.totals))])
                            /\ row.outflow = SumFunction([m \in months |-> Out(Of(row.category, m.totals))])
  BY DEF ReportsAgreeIn, In, Out, Of
<1> DEFINE R == FlowRows(d, u, range[1], range[2])
           M == {MonthOf[t.date] : t \in R}
           P(m) == {t \in R : MonthOf[t.date] = m}
           f == [m \in M |-> [month |-> m, totals |-> Grouped(d, P(m))]]
           totals == CategoryTotals(d, u, range[1], range[2])
           months == Trends(d, u, range[1], range[2])
<1>1. R \subseteq Transaction /\ IsFiniteSet(R)
  BY FlowRowsType
<1>2. totals = Grouped(d, R) /\ months = {[month |-> m, totals |-> Grouped(d, P(m))] : m \in M}
  BY DEF CategoryTotals, Trends
<1>3. /\ ReportSummary(d, u, range[1], range[2]).income = Inflow(R)
      /\ ReportSummary(d, u, range[1], range[2]).expense = Outflow(R)
  BY DEF ReportSummary
<1>4. IsFiniteSet(M)
  <2> DEFINE g == [t \in R |-> MonthOf[t.date]]
  <2>1. g \in Surjection(R, M)
    BY DEF Surjection
  <2> HIDE DEF g, R, M
  <2> QED BY <1>1, <2>1, FS_Surjection
<1>5. \A m \in M : f[m] = [month |-> m, totals |-> Grouped(d, P(m))]
  OBVIOUS
<1>6. OneToOne(f, M, months)
  <2>1. f \in [M -> months] /\ \A row \in months : \E m \in M : f[m] = row
    BY <1>2
  <2>2. \A x, y \in M : f[x] = f[y] => x = y
    <3>1. \A m \in M : f[m].month = m
      BY <1>5
    <3> HIDE DEF f
    <3> QED BY <3>1
  <2> HIDE DEF f, months, M
  <2> QED BY <2>1, <2>2 DEF OneToOne
<1>7. ASSUME NEW month \in months, NEW row \in month.totals
      PROVE  Of(row.category, totals) # {}
  <2>1. PICK m \in M : month = [month |-> m, totals |-> Grouped(d, P(m))]
    BY <1>2
  <2>2. row \in Grouped(d, P(m))
    BY <2>1
  <2>3. PICK id \in CategoriesOf(P(m)) : row = TotalOf(d, P(m), id)
    <3> HIDE DEF P
    <3> QED BY <2>2, GroupedIs
  <2>4. id \in CategoriesOf(R) /\ row.category = id
    BY <2>3 DEF CategoriesOf, TotalOf
  <2>5. TotalOf(d, R, id) \in totals /\ TotalOf(d, R, id).category = id
    <3>1. TotalOf(d, R, id).category = id
      BY DEF TotalOf
    <3> HIDE DEF R, totals
    <3> QED BY <3>1, <2>4, <1>2, GroupedIs
  <2> QED
    BY <2>4, <2>5 DEF Of
<1>8. ASSUME NEW row \in totals
      PROVE  /\ row.inflow = SumFunction([m \in months |-> In(Of(row.category, m.totals))])
             /\ row.outflow = SumFunction([m \in months |-> Out(Of(row.category, m.totals))])
  <2>1. PICK id \in CategoriesOf(R) : row = TotalOf(d, R, id)
    <3> HIDE DEF R
    <3> QED BY <1>2, GroupedIs
  <2> DEFINE C == {t \in R : t.category = id}
             c == [t \in C |-> MonthOf[t.date]]
             i == [m \in months |-> In(Of(id, m.totals))]
             o == [m \in months |-> Out(Of(id, m.totals))]
  <2>2. row.category = id /\ row.inflow = Inflow(C) /\ row.outflow = Outflow(C)
    <3> HIDE DEF R
    <3> QED BY <2>1, <1>1, TotalOfIs
  <2>3. C \subseteq Transaction /\ IsFiniteSet(C) /\ c \in [C -> M]
    BY <1>1, FS_Subset
  <2>4. ASSUME NEW m \in M
        PROVE  /\ In(Of(id, f[m].totals)) = Inflow(Class(c, C, m)) /\ Inflow(Class(c, C, m)) \in Int
               /\ Out(Of(id, f[m].totals)) = Outflow(Class(c, C, m)) /\ Outflow(Class(c, C, m)) \in Int
    <3>1. f[m].totals = Grouped(d, P(m))
      BY <1>5
    <3>2. P(m) \subseteq Transaction /\ IsFiniteSet(P(m))
      BY <1>1, FS_Subset
    <3>3. Class(c, C, m) = {t \in P(m) : t.category = id}
      BY DEF Class
    <3>4. Class(c, C, m) \subseteq Transaction /\ IsFiniteSet(Class(c, C, m))
      BY <3>2, <3>3, FS_Subset
    <3> DEFINE Q == P(m)
    <3>5. /\ In(Of(id, Grouped(d, Q))) = Inflow({t \in Q : t.category = id})
          /\ Out(Of(id, Grouped(d, Q))) = Outflow({t \in Q : t.category = id})
      <4>1. Q \subseteq Transaction /\ IsFiniteSet(Q)
        BY <3>2
      <4> HIDE DEF Q
      <4> QED BY <4>1, OneTotal
    <3>6. Inflow(Class(c, C, m)) \in Int /\ Outflow(Class(c, C, m)) \in Int
      <4> HIDE DEF C, c
      <4> QED BY <3>4, MoneyIs
    <3> HIDE DEF P, C, c, f
    <3> QED
      BY <3>1, <3>3, <3>5, <3>6 DEF Q
  <2>5. /\ \A m \in M : i[f[m]] = Inflow(Class(c, C, m)) /\ o[f[m]] = Outflow(Class(c, C, m))
        /\ i \in [months -> Int] /\ o \in [months -> Int]
    <3>1. \A m \in M : f[m] \in months
      BY <1>6 DEF OneToOne
    <3>2. \A m \in M : i[f[m]] = In(Of(id, f[m].totals)) /\ o[f[m]] = Out(Of(id, f[m].totals))
      <4> HIDE DEF f, months, M
      <4> QED BY <3>1
    <3>3. \A x \in months : In(Of(id, x.totals)) \in Int /\ Out(Of(id, x.totals)) \in Int
      <4> HIDE DEF f, months, M, C, c, i, o
      <4> QED BY <2>4, <1>6 DEF OneToOne
    <3>4. i \in [months -> Int] /\ o \in [months -> Int]
      <4> HIDE DEF months, f, M, C, c
      <4> QED BY <3>3
    <3> HIDE DEF i, o, f, months, M, C, c
    <3> QED BY <2>4, <3>2, <3>4
  <2>6. /\ SumFunction([m \in M |-> i[f[m]]]) = SumFunction(i)
        /\ SumFunction([m \in M |-> o[f[m]]]) = SumFunction(o)
    <3> HIDE DEF i, o, f, months, M, C, c
    <3> QED BY <1>4, <1>6, <2>5, SumRenamed
  <2>7. /\ Inflow(C) = SumFunction([m \in M |-> Inflow(Class(c, C, m))])
        /\ Outflow(C) = SumFunction([m \in M |-> Outflow(Class(c, C, m))])
        /\ AmountOf(C) = SumFunction([m \in M |-> AmountOf(Class(c, C, m))])
    <3> HIDE DEF M, C, c
    <3> QED BY <1>4, <2>3, MoneyGrouped
  <2>8. /\ [m \in M |-> i[f[m]]] = [m \in M |-> Inflow(Class(c, C, m))]
        /\ [m \in M |-> o[f[m]]] = [m \in M |-> Outflow(Class(c, C, m))]
    <3> HIDE DEF i, o, f, months, M, C, c
    <3> QED BY <2>5
  <2>9. row.inflow = SumFunction(i) /\ row.outflow = SumFunction(o)
    <3> HIDE DEF i, o, f, months, M, C, c
    <3> QED BY <2>2, <2>6, <2>7, <2>8
  <2> QED
    BY <2>2, <2>9
<1> QED
  <2>1. In(totals) = Inflow(R) /\ Out(totals) = Outflow(R)
    <3> HIDE DEF R
    <3> QED BY <1>1, <1>2, TotalsAddUp
  <2> HIDE DEF totals, months, R
  <2> QED
    BY <1>3, <1>7, <1>8, <2>1 DEF totals, months

-----------------------------------------------------------------------------
(* Contributions: a pair of legs within a type cancels. *)

(* The other leg of a transfer, where there is one. *)
LEMMA PairsCancel ==
  ASSUME NEW d, Consistent(d), NEW W, W \subseteq d.transactions,
         \A t \in W : t.group # NULL,
         \A t \in W : \E leg \in W : leg # t /\ leg.group = t.group
  PROVE  AmountOf(W) = 0
<1> DEFINE p == [t \in W |-> CHOOSE leg \in W : leg # t /\ leg.group = t.group]
           v == [t \in W |-> t.amount]
<1>1. \A t \in W : p[t] \in W /\ p[t] # t /\ p[t].group = t.group
  OBVIOUS
<1>2. p \in [W -> W]
  <2>1. p = [t \in W |-> p[t]]
    OBVIOUS
  <2> HIDE DEF p
  <2> QED BY <1>1, <2>1
<1>3. IsFiniteSet(W) /\ v \in [W -> Int]
  BY Tables, FS_Subset DEF Transaction
<1> HIDE DEF p
<1>4. \A t \in W : /\ p[t].amount = -t.amount
                   /\ \A x \in W : x.group = t.group => x \in {t, p[t]}
  BY <1>1 DEF Consistent, OpposedIn
<1>5. \A t \in W : p[p[t]] = t
  BY <1>1, <1>4
<1>6. OneToOne(p, W, W)
  <2>1. \A x, y \in W : p[x] = p[y] => x = y
    BY <1>5
  <2>2. \A y \in W : \E x \in W : p[x] = y
    BY <1>1, <1>5
  <2> QED BY <1>2, <2>1, <2>2 DEF OneToOne
<1>7. \A t \in W : v[p[t]] = -v[t]
  BY <1>1, <1>4
<1>8. SumFunction(v) = 0
  <2> HIDE DEF v
  <2> QED BY <1>3, <1>6, <1>7, SumPaired
<1> QED
  BY <1>8 DEF AmountOf

LEMMA MoneySplit ==
  ASSUME NEW R, R \subseteq Transaction, IsFiniteSet(R), NEW A, A \subseteq R
  PROVE  AmountOf(R) = AmountOf(A) + AmountOf(R \ A)
<1> DEFINE v == [t \in R |-> t.amount]
<1>1. v \in [R -> Int]
  BY DEF Transaction
<1>2. SumFunction(v) = SumFunction(Restrict(v, A)) + SumFunction(Restrict(v, R \ A))
  <2> HIDE DEF v
  <2> QED BY <1>1, SumSplit
<1>3. Restrict(v, A) = [t \in A |-> t.amount] /\ Restrict(v, R \ A) = [t \in R \ A |-> t.amount]
  BY DEF Restrict
<1> QED
  BY <1>2, <1>3 DEF AmountOf

(* Over all years, what was put into a registered type less what was taken   *)
(* out is what the rows of its accounts add up to: only pairs of legs that    *)
(* cancel are left out, whatever was retyped, closed or erased.               *)
THEOREM ContributionsDoAddUp ==
  ASSUME NEW d, Consistent(d)
  PROVE  ContributionsAddUpIn(d)
<1> SUFFICES ASSUME NEW u \in User, NEW type \in Registered
             PROVE  AmountOf({t \in d.transactions : t.owner = u /\ TypeOf(d, t.account) = type})
                      = SumFunction([year \in {YearOf[t.date] : t \in d.transactions} |->
                                       Contributions(d, u, type, year).contributed
                                         - Contributions(d, u, type, year).withdrawn])
  BY DEF ContributionsAddUpIn
<1> DEFINE A == {t \in d.transactions : t.owner = u /\ TypeOf(d, t.account) = type}
           W == {t \in A : WithinType(d, t)}
           C == A \ W
           Y == {YearOf[t.date] : t \in d.transactions}
           c == [t \in C |-> YearOf[t.date]]
<1>1. /\ A \subseteq Transaction /\ IsFiniteSet(A) /\ C \subseteq Transaction /\ IsFiniteSet(C)
      /\ A \subseteq d.transactions /\ d.transactions \subseteq Transaction /\ IsFiniteSet(d.transactions)
  BY Tables, FS_Subset
<1>2. AmountOf(A) = AmountOf(W) + AmountOf(C)
  <2>1. W \subseteq A
    OBVIOUS
  <2> HIDE DEF A, W
  <2> QED BY <1>1, <2>1, MoneySplit
<1>3. AmountOf(W) = 0
  <2>1. W \subseteq d.transactions /\ \A t \in W : t.group # NULL
    BY DEF WithinType
  <2>2. ASSUME NEW t \in W
        PROVE  \E leg \in W : leg # t /\ leg.group = t.group
    <3>1. PICK leg \in d.transactions :
            /\ leg.group = t.group /\ leg.id # t.id
            /\ TypeOf(d, leg.account) = TypeOf(d, t.account)
      BY <2>2 DEF WithinType
    <3>2. leg # t /\ leg.owner = t.owner
      BY <2>1, <3>1 DEF Consistent, OpposedIn
    <3>3. WithinType(d, leg)
      BY <2>1, <3>1 DEF WithinType
    <3> QED
      BY <3>1, <3>2, <3>3
  <2> HIDE DEF W
  <2> QED BY <2>1, <2>2, PairsCancel
<1>4. IsFiniteSet(Y) /\ c \in [C -> Y]
  <2> DEFINE g == [t \in d.transactions |-> YearOf[t.date]]
  <2>1. g \in Surjection(d.transactions, Y)
    BY DEF Surjection
  <2>2. c \in [C -> Y]
    BY <1>1
  <2> HIDE DEF g, Y
  <2> QED BY <1>1, <2>1, <2>2, FS_Surjection
<1>5. /\ Inflow(C) = SumFunction([year \in Y |-> Inflow(Class(c, C, year))])
      /\ Outflow(C) = SumFunction([year \in Y |-> Outflow(Class(c, C, year))])
      /\ AmountOf(C) = SumFunction([year \in Y |-> AmountOf(Class(c, C, year))])
  <2> HIDE DEF C, Y, c
  <2> QED BY <1>1, <1>4, MoneyGrouped
<1>6. ASSUME NEW year \in Y
      PROVE  Contributions(d, u, type, year).contributed - Contributions(d, u, type, year).withdrawn
               = AmountOf(Class(c, C, year))
  <2> DEFINE B == Class(c, C, year)
  <2>1. B = {t \in d.transactions : /\ t.owner = u /\ TypeOf(d, t.account) = type
                                    /\ YearOf[t.date] = year
                                    /\ ~WithinType(d, t)}
    BY DEF Class
  <2>2. /\ Contributions(d, u, type, year).contributed = Inflow(B)
        /\ Contributions(d, u, type, year).withdrawn = Outflow(B)
    <3> HIDE DEF B
    <3> QED BY <2>1 DEF Contributions
  <2>3. B \subseteq Transaction /\ IsFiniteSet(B)
    BY <1>1, FS_Subset DEF Class
  <2> HIDE DEF B
  <2>4. AmountOf(B) = Inflow(B) - Outflow(B)
    BY <2>3, MoneyIs
  <2> QED
    BY <2>2, <2>4 DEF B
<1>7. [year \in Y |-> AmountOf(Class(c, C, year))]
        = [year \in Y |-> Contributions(d, u, type, year).contributed
                            - Contributions(d, u, type, year).withdrawn]
  <2> HIDE DEF Y, C, c
  <2> QED BY <1>6
<1>8. AmountOf(C) \in Int
  <2> HIDE DEF C
  <2> QED BY <1>1, MoneyIs
<1>9. AmountOf(A) = SumFunction([year \in Y |-> Contributions(d, u, type, year).contributed
                                                 - Contributions(d, u, type, year).withdrawn])
  <2> HIDE DEF A, W, C, Y, c
  <2> QED BY <1>2, <1>3, <1>5, <1>7, <1>8
<1> QED
  BY <1>9

-----------------------------------------------------------------------------
(* Balances. *)

LEMMA Calendar ==
  /\ \A date \in Date : MonthOf[date] \in Nat
  /\ \A range \in Ranges : range[1] \in Date /\ range[2] \in Date /\ range[1] <= range[2]
  /\ \A a, b \in Date : a <= b => MonthOf[a] <= MonthOf[b]
BY ReportsAssumption DEF Ranges

LEMMA LatestIs ==
  ASSUME NEW S, S \subseteq Snapshot, IsFiniteSet(S), S # {}
  PROVE  Latest(S) \in S /\ Latest(S).balance \in Int
<1> DEFINE P == {X \in SUBSET S : X # {} => \E s \in X : \A other \in X : other.asOf <= s.asOf}
<1>0. \A s \in S : s.asOf \in Nat
  BY ReportsAssumption DEF Snapshot
<1>1. {} \in P
  OBVIOUS
<1>2. ASSUME NEW X \in SUBSET S, NEW x \in X, X \ {x} \in P
      PROVE  X \in P
  <2>1. CASE X \ {x} = {}
    <3>1. X = {x} /\ x.asOf <= x.asOf
      BY <1>0, <2>1
    <3> QED BY <3>1
  <2>2. CASE X \ {x} # {}
    <3>1. PICK s \in X \ {x} : \A other \in X \ {x} : other.asOf <= s.asOf
      BY <1>2, <2>2
    <3>2. CASE s.asOf <= x.asOf
      <4>1. \A other \in X : other.asOf <= x.asOf
        BY <1>0, <3>1, <3>2
      <4> QED BY <4>1
    <3>3. CASE ~(s.asOf <= x.asOf)
      <4>1. \A other \in X : other.asOf <= s.asOf
        BY <1>0, <3>1, <3>3
      <4> QED BY <4>1
    <3> QED
      BY <3>2, <3>3
  <2> QED
    BY <2>1, <2>2
<1>3. P = SUBSET S
  <2>1. P \subseteq SUBSET S
    OBVIOUS
  <2> HIDE DEF P
  <2> QED BY <1>1, <1>2, <2>1, SubsetInduction
<1>4. \E s \in S : \A other \in S : other.asOf <= s.asOf
  BY <1>3
<1>5. Latest(S) \in S
  BY <1>4 DEF Latest
<1> QED
  BY <1>5 DEF Snapshot

SnapshotsOf(d, a) == {s \in d.snapshots : s.account = a.id}

LEMMA BalanceIs ==
  ASSUME NEW d, Consistent(d), NEW a \in d.accounts
  PROVE  /\ Balance(d, a) \in Int
         /\ a.type \in InvestmentTypes =>
              Balance(d, a) = IF SnapshotsOf(d, a) = {} THEN 0 ELSE Latest(SnapshotsOf(d, a)).balance
         /\ a.type \notin InvestmentTypes =>
              Balance(d, a) = a.opening + AmountOf({t \in d.transactions : t.account = a.id})
<1>1. SnapshotsOf(d, a) \subseteq Snapshot /\ IsFiniteSet(SnapshotsOf(d, a))
  BY Tables, FS_Subset DEF SnapshotsOf
<1>2. SnapshotsOf(d, a) # {} => Latest(SnapshotsOf(d, a)).balance \in Int
  BY <1>1, LatestIs
<1> DEFINE R == {t \in d.transactions : t.account = a.id}
<1>3. R \subseteq Transaction /\ IsFiniteSet(R) /\ a.opening \in Int
  BY Tables, FS_Subset DEF Account
<1>4. AmountOf(R) \in Int
  <2> HIDE DEF R
  <2> QED BY <1>3, MoneyIs
<1> QED
  BY <1>2, <1>3, <1>4 DEF Balance, SnapshotsOf

(* A sum over the rows of the accounts' list is a sum over the accounts. *)
LEMMA SumOfBalances ==
  ASSUME NEW d, Consistent(d), NEW L, L \subseteq d.accounts
  PROVE  /\ SumFunction([row \in {[account |-> a, balance |-> Balance(d, a)] : a \in L} |-> row.balance])
              = SumFunction([a \in L |-> Balance(d, a)])
         /\ IsFiniteSet(L) /\ [a \in L |-> Balance(d, a)] \in [L -> Int]
<1> DEFINE f == [a \in L |-> [account |-> a, balance |-> Balance(d, a)]]
           T == {[account |-> a, balance |-> Balance(d, a)] : a \in L}
           v == [row \in T |-> row.balance]
<1>1. IsFiniteSet(L)
  BY Tables, FS_Subset
<1>2. \A a \in L : f[a] \in T /\ f[a].account = a /\ f[a].balance = Balance(d, a)
  OBVIOUS
<1>3. OneToOne(f, L, T)
  <2>1. f \in [L -> T] /\ \A row \in T : \E a \in L : f[a] = row
    OBVIOUS
  <2>2. \A x, y \in L : f[x] = f[y] => x = y
    <3> HIDE DEF f
    <3> QED BY <1>2
  <2> HIDE DEF f, T
  <2> QED BY <2>1, <2>2 DEF OneToOne
<1>4. \A a \in L : Balance(d, a) \in Int
  BY BalanceIs
<1>5. v \in [T -> Int]
  BY <1>4
<1>6. \A a \in L : v[f[a]] = Balance(d, a)
  <2> HIDE DEF f, T
  <2> QED BY <1>2
<1>7. SumFunction([a \in L |-> v[f[a]]]) = SumFunction(v)
  <2> HIDE DEF f, T, v
  <2> QED BY <1>1, <1>3, <1>5, SumRenamed
<1>8. [a \in L |-> v[f[a]]] = [a \in L |-> Balance(d, a)]
  <2> HIDE DEF f, T, v
  <2> QED BY <1>6
<1> QED
  BY <1>1, <1>4, <1>7, <1>8

(* At the end of a range after which nothing was measured, the net worth that *)
(* is carried forward and the balances of the accounts' list agree, type by   *)
(* type.                                                                      *)
THEOREM NetWorthDoesMatch ==
  ASSUME NEW d, Consistent(d)
  PROVE  NetWorthMatchesAccountsIn(d)
<1> SUFFICES ASSUME NEW u \in User, NEW range \in Ranges,
                    \A s \in d.snapshots : MonthOf[s.asOf] <= MonthOf[range[2]],
                    NEW type \in InvestmentTypes
             PROVE  LET last == MonthOf[range[2]]
                        open == {row \in ListAccounts(d, u) : ~row.account.archived}
                        worth == {row \in NetWorth(d, u, range[1], range[2]) : row.month = last}
                    IN SumFunction([row \in {x \in worth : x.type = type} |-> row.total])
                         = SumFunction([row \in {x \in open : x.account.type = type} |-> row.balance])
  BY DEF NetWorthMatchesAccountsIn
<1> DEFINE last == MonthOf[range[2]]
           counted(m) == {a \in d.accounts : a.owner = u /\ ~a.archived /\ CarriedTo(d, a, m) # {}}
           worth(m, ty) == SumFunction([a \in {x \in counted(m) : x.type = ty} |->
                                          Latest(CarriedTo(d, a, m)).balance])
           Open == {a \in d.accounts : a.owner = u /\ ~a.archived /\ a.type = type}
           Seen == {a \in Open : SnapshotsOf(d, a) # {}}
           b == [a \in Open |-> Balance(d, a)]
           Left == {x \in {row \in NetWorth(d, u, range[1], range[2]) : row.month = last} : x.type = type}
           l == [row \in Left |-> row.total]
<1>1. last \in Nat /\ MonthOf[range[1]] \in Nat /\ last \in MonthOf[range[1]]..last
  <2>1. range[1] \in Date /\ range[2] \in Date /\ range[1] <= range[2]
    BY Calendar
  <2>2. last \in Nat /\ MonthOf[range[1]] \in Nat
    BY <2>1, Calendar
  <2>3. MonthOf[range[1]] <= last
    BY <2>1, Calendar
  <2> QED
    BY <2>2, <2>3
<1>2. \A a \in d.accounts : CarriedTo(d, a, last) = SnapshotsOf(d, a)
  <2>1. \A s \in d.snapshots : MonthOf[s.asOf] < last + 1
    <3>1. \A s \in d.snapshots : MonthOf[s.asOf] \in Nat
      <4>1. \A s \in d.snapshots : s.asOf \in Date
        BY Tables DEF Snapshot
      <4> QED BY <4>1, Calendar
    <3> QED BY <1>1, <3>1
  <2> QED
    BY <2>1 DEF CarriedTo, SnapshotsOf
<1>3. {x \in counted(last) : x.type = type} = Seen
  BY <1>2
<1>4. IsFiniteSet(Open) /\ b \in [Open -> Int] /\ Open \subseteq d.accounts
  <2>1. Open \subseteq d.accounts
    OBVIOUS
  <2> HIDE DEF Open
  <2> QED BY <2>1, SumOfBalances
<1>5. worth(last, type) = SumFunction(b)
  <2>1. Seen \in SUBSET Open /\ \A a \in Open : b[a] = Balance(d, a) /\ a.type \in InvestmentTypes
    OBVIOUS
  <2>2. \A a \in Open \ Seen : b[a] = 0
    BY <2>1, BalanceIs
  <2>3. SumFunction(b) = SumFunction(Restrict(b, Seen))
    <3> HIDE DEF b, Open, Seen
    <3> QED BY <1>4, <2>1, <2>2, SumSupport
  <2>4. \A a \in Seen : b[a] = Latest(CarriedTo(d, a, last)).balance
    BY <1>2, <2>1, BalanceIs
  <2>5. Restrict(b, Seen) = [a \in Seen |-> Latest(CarriedTo(d, a, last)).balance]
    <3> HIDE DEF b, Seen
    <3> QED BY <2>4 DEF Restrict
  <2> HIDE DEF b, Seen, counted, last
  <2> QED
    BY <1>3, <2>3, <2>5
<1>6. SumFunction([row \in {x \in {row \in ListAccounts(d, u) : ~row.account.archived} :
                              x.account.type = type} |-> row.balance]) = SumFunction(b)
  <2>1. {x \in {row \in ListAccounts(d, u) : ~row.account.archived} : x.account.type = type}
          = {[account |-> a, balance |-> Balance(d, a)] : a \in Open}
    BY DEF ListAccounts
  <2>2. SumFunction([row \in {[account |-> a, balance |-> Balance(d, a)] : a \in Open} |-> row.balance])
          = SumFunction([a \in Open |-> Balance(d, a)])
    <3> HIDE DEF Open
    <3> QED BY <1>4, SumOfBalances
  <2> QED
    BY <2>1, <2>2
<1>7. SumFunction(b) \in Int
  <2> HIDE DEF b
  <2> QED BY <1>4, SumType
<1>8. Left = {[month |-> last, type |-> type, total |-> worth(last, type)] : a \in Seen}
  <2>1. NetWorth(d, u, range[1], range[2])
          = UNION {{[month |-> m, type |-> ty, total |-> worth(m, ty)] :
                      ty \in {a.type : a \in counted(m)}} :
                   m \in MonthOf[range[1]]..last}
    BY DEF NetWorth
  <2> HIDE DEF worth, counted
  <2>2. Left = {[month |-> last, type |-> type, total |-> worth(last, type)] : a \in {x \in counted(last) : x.type = type}}
    BY <1>1, <2>1
  <2> QED
    BY <1>3, <2>2
<1>9. SumFunction(l) = SumFunction(b)
  <2> DEFINE row == [month |-> last, type |-> type, total |-> worth(last, type)]
  <2>1. CASE Seen # {}
    <3>1. Left = {row}
      <4> HIDE DEF Seen, Left, worth
      <4> QED BY <1>8, <2>1
    <3>2. row.total = SumFunction(b)
      BY <1>5
    <3>3. l = [x \in {row} |-> x.total]
      <4> HIDE DEF Left, row
      <4> QED BY <3>1
    <3> HIDE DEF row, l, b
    <3>4. l \in [{row} -> Int] /\ l[row] = row.total
      BY <1>7, <3>2, <3>3
    <3>5. SumFunction(l) = l[row]
      BY <3>4, SumSingle
    <3> QED
      BY <3>2, <3>4, <3>5
  <2>2. CASE Seen = {}
    <3>1. Left = {}
      <4> HIDE DEF Seen, Left, worth
      <4> QED BY <1>8, <2>2
    <3>2. l \in [{} -> Int]
      <4> HIDE DEF Left
      <4> QED BY <3>1
    <3>3. SumFunction(l) = 0
      <4> HIDE DEF l
      <4> QED BY <3>2, SumEmpty
    <3>4. \A a \in Open : b[a] = 0
      <4>1. \A a \in Open : a \in d.accounts /\ a.type \in InvestmentTypes /\ SnapshotsOf(d, a) = {} /\ b[a] = Balance(d, a)
        BY <2>2
      <4> HIDE DEF Open, b
      <4> QED BY <4>1, BalanceIs
    <3>5. SumFunction(b) = 0
      <4> HIDE DEF b, Open
      <4> QED BY <1>4, <3>4, SumZero
    <3> QED
      BY <3>3, <3>5
  <2> QED
    BY <2>1, <2>2
<1> QED
  BY <1>6, <1>9

-----------------------------------------------------------------------------
(* What a user's reports depend on. *)

Joined(d, id) == {c \in d.categories : c.id = id}

LEMMA GroupedSame ==
  ASSUME NEW d, NEW e, NEW R, \A t \in R : Joined(d, t.category) = Joined(e, t.category)
  PROVE  Grouped(d, R) = Grouped(e, R)
<1>1. \A id \in CategoriesOf(R) : Joined(d, id) = Joined(e, id)
  BY DEF CategoriesOf
<1>2. \A id \in CategoriesOf(R) : TotalOf(d, R, id) = TotalOf(e, R, id)
  BY <1>1 DEF TotalOf, Joined
<1> QED
  BY <1>2, GroupedIs

LEMMA FiguresSame ==
  ASSUME NEW d, NEW e, NEW u,
         \A range \in Ranges : FlowRows(d, u, range[1], range[2]) = FlowRows(e, u, range[1], range[2]),
         \A t \in d.transactions : t.owner = u /\ t.group = NULL =>
           Joined(d, t.category) = Joined(e, t.category)
  PROVE  Figures(d, u) = Figures(e, u)
<1>1. ASSUME NEW range \in Ranges
      PROVE  /\ ReportSummary(d, u, range[1], range[2]) = ReportSummary(e, u, range[1], range[2])
             /\ CategoryTotals(d, u, range[1], range[2]) = CategoryTotals(e, u, range[1], range[2])
             /\ Trends(d, u, range[1], range[2]) = Trends(e, u, range[1], range[2])
  <2> DEFINE R == FlowRows(d, u, range[1], range[2])
             P(m) == {t \in R : MonthOf[t.date] = m}
  <2>1. R = FlowRows(e, u, range[1], range[2])
    OBVIOUS
  <2>2. \A t \in R : Joined(d, t.category) = Joined(e, t.category)
    BY DEF FlowRows
  <2>3. Grouped(d, R) = Grouped(e, R)
    <3> HIDE DEF R
    <3> QED BY <2>2, GroupedSame
  <2>4. \A m : Grouped(d, P(m)) = Grouped(e, P(m))
    <3> SUFFICES ASSUME NEW m PROVE Grouped(d, P(m)) = Grouped(e, P(m))
      OBVIOUS
    <3>1. \A t \in P(m) : Joined(d, t.category) = Joined(e, t.category)
      BY <2>2
    <3> HIDE DEF P
    <3> QED BY <3>1, GroupedSame
  <2>5. ReportSummary(d, u, range[1], range[2]) = ReportSummary(e, u, range[1], range[2])
    BY <2>1 DEF ReportSummary
  <2>6. CategoryTotals(d, u, range[1], range[2]) = CategoryTotals(e, u, range[1], range[2])
    <3> HIDE DEF R
    <3> QED BY <2>1, <2>3 DEF CategoryTotals, R
  <2>7. Trends(d, u, range[1], range[2]) = Trends(e, u, range[1], range[2])
    <3>1. Trends(d, u, range[1], range[2])
            = {[month |-> m, totals |-> Grouped(d, P(m))] : m \in {MonthOf[t.date] : t \in R}}
      BY DEF Trends
    <3>2. Trends(e, u, range[1], range[2])
            = {[month |-> m, totals |-> Grouped(e, P(m))] : m \in {MonthOf[t.date] : t \in R}}
      BY <2>1 DEF Trends
    <3> HIDE DEF P, R
    <3> QED BY <2>4, <3>1, <3>2
  <2> QED
    BY <2>5, <2>6, <2>7
<1> QED
  BY <1>1 DEF Figures

LEMMA OwnRows ==
  ASSUME NEW d, NEW e, Consistent(d), Consistent(e), NEW u, Rows(d, u) = Rows(e, u)
  PROVE  /\ \A x : x.owner = u => (x \in d.accounts <=> x \in e.accounts)
         /\ \A x : x.owner = u => (x \in d.categories <=> x \in e.categories)
         /\ \A x : x.owner = u => (x \in d.transactions <=> x \in e.transactions)
         /\ \A x : x.owner = u => (x \in d.snapshots <=> x \in e.snapshots)
<1>1. \A name \in {"accounts", "categories", "transactions", "snapshots"} :
        {x \in d[name] : x.owner = u} = {x \in e[name] : x.owner = u}
  <2>1. /\ DOMAIN d = {"accounts", "categories", "batches", "transactions", "snapshots"}
        /\ DOMAIN e = {"accounts", "categories", "batches", "transactions", "snapshots"}
    BY Tables
  <2>2. \A name \in DOMAIN d : Rows(d, u)[name] = {x \in d[name] : x.owner = u}
    BY DEF Rows
  <2>3. \A name \in DOMAIN e : Rows(e, u)[name] = {x \in e[name] : x.owner = u}
    BY DEF Rows
  <2> QED
    BY <2>1, <2>2, <2>3
<1>2. \A name \in {"accounts", "categories", "transactions", "snapshots"} :
        \A x : x.owner = u => (x \in d[name] <=> x \in e[name])
  BY <1>1
<1> QED
  BY <1>2

(* Whatever other users have, a user's flows are the same. *)
LEMMA FiguresPrivate ==
  ASSUME NEW d, NEW e, Consistent(d), Consistent(e), NEW u, Rows(d, u) = Rows(e, u)
  PROVE  Figures(d, u) = Figures(e, u)
<1>1. \A range \in Ranges : FlowRows(d, u, range[1], range[2]) = FlowRows(e, u, range[1], range[2])
  <2>1. \A x : x.owner = u => (x \in d.transactions <=> x \in e.transactions)
    BY OwnRows
  <2> QED
    BY <2>1 DEF FlowRows
<1>2. ASSUME NEW t \in d.transactions, t.owner = u
      PROVE  Joined(d, t.category) = Joined(e, t.category)
  <2>1. t \in e.transactions
    BY <1>2, OwnRows
  <2>2. /\ \A c \in d.categories : c.id = t.category => c.owner = u
        /\ \A c \in e.categories : c.id = t.category => c.owner = u
    BY <1>2, <2>1 DEF Consistent, OwnersAgreeIn
  <2>3. \A c : c.owner = u => (c \in d.categories <=> c \in e.categories)
    BY OwnRows
  <2> QED
    BY <2>2, <2>3 DEF Joined
<1> QED
  BY <1>1, <1>2, FiguresSame

(* A user's rows are on accounts of the user, of one type. *)
LEMMA TypeOfIs ==
  ASSUME NEW d, Consistent(d), NEW t \in d.transactions
  PROVE  \E a \in d.accounts : /\ a.id = t.account /\ a.owner = t.owner
                               /\ TypeOf(d, t.account) = a.type
                               /\ \A b \in d.accounts : b.id = t.account => b = a
<1>1. PICK a \in d.accounts : a.id = t.account
  BY DEF Consistent, ReferencesLiveIn, AccountLive, Ids
<1>2. a.owner = t.owner
  BY <1>1 DEF Consistent, OwnersAgreeIn
<1>3. \A b \in d.accounts : b.id = t.account => b = a
  <2>1. "accounts" \in DOMAIN d
    BY Tables
  <2> QED BY <1>1, <2>1 DEF Consistent, KeysIn
<1>4. (CHOOSE b \in d.accounts : b.id = t.account) = a
  BY <1>1, <1>3
<1> QED
  BY <1>1, <1>2, <1>3, <1>4 DEF TypeOf

LEMMA TypeOfPrivate ==
  ASSUME NEW d, NEW e, Consistent(d), Consistent(e), NEW u, Rows(d, u) = Rows(e, u),
         NEW t \in d.transactions, t.owner = u
  PROVE  TypeOf(d, t.account) = TypeOf(e, t.account) /\ t \in e.transactions
<1>1. t \in e.transactions
  BY OwnRows
<1>2. PICK a \in d.accounts : a.id = t.account /\ a.owner = u /\ TypeOf(d, t.account) = a.type
  BY TypeOfIs
<1>3. PICK b \in e.accounts : /\ TypeOf(e, t.account) = b.type
                              /\ \A x \in e.accounts : x.id = t.account => x = b
  BY <1>1, TypeOfIs
<1>4. a \in e.accounts
  BY <1>2, OwnRows
<1> QED
  BY <1>1, <1>2, <1>3, <1>4

LEMMA WithinTypePrivate ==
  ASSUME NEW d, NEW e, Consistent(d), Consistent(e), NEW u, Rows(d, u) = Rows(e, u),
         NEW t \in d.transactions, t.owner = u, WithinType(d, t)
  PROVE  WithinType(e, t)
<1>1. PICK peer \in d.transactions :
        /\ t.group # NULL /\ peer.group = t.group /\ peer.id # t.id
        /\ TypeOf(d, peer.account) = TypeOf(d, t.account)
  BY DEF WithinType
<1>2. peer.owner = u
  BY <1>1 DEF Consistent, OpposedIn
<1>3. /\ TypeOf(d, peer.account) = TypeOf(e, peer.account) /\ peer \in e.transactions
      /\ TypeOf(d, t.account) = TypeOf(e, t.account)
  BY <1>2, TypeOfPrivate
<1> QED
  BY <1>1, <1>3 DEF WithinType

LEMMA StandingPrivate ==
  ASSUME NEW d, NEW e, Consistent(d), Consistent(e), NEW u, Rows(d, u) = Rows(e, u)
  PROVE  Standing(d, u) = Standing(e, u)
<1>1. {x \in d.accounts : x.owner = u} = {x \in e.accounts : x.owner = u}
  BY OwnRows
<1>2. ASSUME NEW a \in d.accounts, a.owner = u
      PROVE  /\ {s \in d.snapshots : s.account = a.id} = {s \in e.snapshots : s.account = a.id}
             /\ {t \in d.transactions : t.account = a.id} = {t \in e.transactions : t.account = a.id}
  <2>1. a \in e.accounts
    BY <1>2, OwnRows
  <2>2. /\ \A s \in d.snapshots : s.account = a.id => s.owner = u
        /\ \A s \in e.snapshots : s.account = a.id => s.owner = u
        /\ \A t \in d.transactions : t.account = a.id => t.owner = u
        /\ \A t \in e.transactions : t.account = a.id => t.owner = u
    BY <1>2, <2>1 DEF Consistent, OwnersAgreeIn
  <2>3. /\ \A x : x.owner = u => (x \in d.transactions <=> x \in e.transactions)
        /\ \A x : x.owner = u => (x \in d.snapshots <=> x \in e.snapshots)
    BY OwnRows
  <2> QED
    BY <2>2, <2>3
<1>3. ListAccounts(d, u) = ListAccounts(e, u)
  <2>1. \A a \in {x \in d.accounts : x.owner = u} : Balance(d, a) = Balance(e, a)
    BY <1>2 DEF Balance
  <2> QED
    BY <1>1, <2>1 DEF ListAccounts
<1>4. ASSUME NEW from, NEW to
      PROVE  NetWorth(d, u, from, to) = NetWorth(e, u, from, to)
  <2>1. \A m : \A a \in {x \in d.accounts : x.owner = u} : CarriedTo(d, a, m) = CarriedTo(e, a, m)
    <3> SUFFICES ASSUME NEW m, NEW a \in d.accounts, a.owner = u
                 PROVE  CarriedTo(d, a, m) = CarriedTo(e, a, m)
      OBVIOUS
    <3>1. \A s : s \in d.snapshots /\ s.account = a.id <=> s \in e.snapshots /\ s.account = a.id
      BY <1>2
    <3> QED
      BY <3>1 DEF CarriedTo
  <2> DEFINE counted(x, m) == {a \in x.accounts : a.owner = u /\ ~a.archived /\ CarriedTo(x, a, m) # {}}
             worth(x, m, type) == SumFunction([a \in {y \in counted(x, m) : y.type = type} |->
                                                 Latest(CarriedTo(x, a, m)).balance])
  <2>2. \A m : counted(d, m) = counted(e, m)
    BY <1>1, <2>1
  <2>3. \A m, type : worth(d, m, type) = worth(e, m, type)
    <3>1. \A m : \A a \in counted(d, m) : Latest(CarriedTo(d, a, m)) = Latest(CarriedTo(e, a, m))
      BY <2>1
    <3> HIDE DEF counted
    <3> QED BY <2>2, <3>1
  <2> DEFINE of(x, m) == {[month |-> m, type |-> type, total |-> worth(x, m, type)] :
                            type \in {a.type : a \in counted(x, m)}}
  <2>4. \A m : of(d, m) = of(e, m)
    <3> HIDE DEF counted, worth
    <3> QED BY <2>2, <2>3
  <2>5. /\ NetWorth(d, u, from, to) = UNION {of(d, m) : m \in MonthOf[from]..MonthOf[to]}
        /\ NetWorth(e, u, from, to) = UNION {of(e, m) : m \in MonthOf[from]..MonthOf[to]}
    BY DEF NetWorth
  <2> HIDE DEF of
  <2>6. {of(d, m) : m \in MonthOf[from]..MonthOf[to]} = {of(e, m) : m \in MonthOf[from]..MonthOf[to]}
    BY <2>4
  <2> QED
    BY <2>5, <2>6
<1>5. \A type, year : Contributions(d, u, type, year) = Contributions(e, u, type, year)
  <2> SUFFICES ASSUME NEW type, NEW year
               PROVE  Contributions(d, u, type, year) = Contributions(e, u, type, year)
    OBVIOUS
  <2>1. ASSUME NEW t, t.owner = u
        PROVE  (t \in d.transactions /\ TypeOf(d, t.account) = type /\ ~WithinType(d, t))
                 <=> (t \in e.transactions /\ TypeOf(e, t.account) = type /\ ~WithinType(e, t))
    <3>1. t \in d.transactions <=> t \in e.transactions
      BY <2>1, OwnRows
    <3>2. t \in d.transactions => TypeOf(d, t.account) = TypeOf(e, t.account)
      BY <2>1, TypeOfPrivate
    <3>3. t \in d.transactions => (WithinType(d, t) <=> WithinType(e, t))
      BY <2>1, <3>1, WithinTypePrivate
    <3> QED
      BY <3>1, <3>2, <3>3
  <2>2. {t \in d.transactions : /\ t.owner = u /\ TypeOf(d, t.account) = type
                                /\ YearOf[t.date] = year /\ ~WithinType(d, t)}
          = {t \in e.transactions : /\ t.owner = u /\ TypeOf(e, t.account) = type
                                    /\ YearOf[t.date] = year /\ ~WithinType(e, t)}
    BY <2>1
  <2> QED
    BY <2>2 DEF Contributions
<1> QED
  BY <1>3, <1>4, <1>5 DEF Standing

-----------------------------------------------------------------------------
(* Transfers are neutral. *)

LEMMA FlowsNeutral ==
  ASSUME NEW d, NEW e, NEW u, e.categories = d.categories,
         \A t \in SymDiff(d.transactions, e.transactions) : t.group # NULL
  PROVE  Figures(d, u) = Figures(e, u)
<1>1. \A t : t.group = NULL => (t \in d.transactions <=> t \in e.transactions)
  BY DEF SymDiff
<1>2. \A range \in Ranges : FlowRows(d, u, range[1], range[2]) = FlowRows(e, u, range[1], range[2])
  BY <1>1 DEF FlowRows
<1>3. \A id : Joined(d, id) = Joined(e, id)
  BY DEF Joined
<1> QED
  BY <1>2, <1>3, FiguresSame

CashAccounts(d, u) == {a \in d.accounts : a.owner = u /\ a.type \notin InvestmentTypes}

LEMMA CashIs ==
  ASSUME NEW d, Consistent(d), NEW u
  PROVE  /\ Cash(d, u) = SumFunction([a \in CashAccounts(d, u) |-> Balance(d, a)])
         /\ IsFiniteSet(CashAccounts(d, u))
         /\ [a \in CashAccounts(d, u) |-> Balance(d, a)] \in [CashAccounts(d, u) -> Int]
<1> DEFINE L == CashAccounts(d, u)
<1>1. L \subseteq d.accounts
  BY DEF CashAccounts
<1>2. {row \in ListAccounts(d, u) : row.account.type \notin InvestmentTypes}
        = {[account |-> a, balance |-> Balance(d, a)] : a \in L}
  BY DEF ListAccounts, CashAccounts
<1>3. /\ SumFunction([row \in {[account |-> a, balance |-> Balance(d, a)] : a \in L} |-> row.balance])
           = SumFunction([a \in L |-> Balance(d, a)])
      /\ IsFiniteSet(L) /\ [a \in L |-> Balance(d, a)] \in [L -> Int]
  <2> HIDE DEF L
  <2> QED BY <1>1, SumOfBalances
<1> QED
  BY <1>2, <1>3 DEF Cash

LEMMA CashNeutral ==
  ASSUME NEW d, NEW e, Consistent(d), Consistent(e), NEW u,
         e.accounts = d.accounts, d.transactions \subseteq e.transactions,
         \A t \in e.transactions \ d.transactions :
           /\ t.group # NULL /\ TypeOf(e, t.account) \notin InvestmentTypes
           /\ \E leg \in e.transactions \ d.transactions : leg # t /\ leg.group = t.group
  PROVE  Cash(e, u) = Cash(d, u)
<1> DEFINE L == CashAccounts(d, u)
           M == e.transactions \ d.transactions
           N == {t \in M : t.owner = u}
           New(a) == {t \in M : t.account = a.id}
           c == [t \in N |-> CHOOSE a \in L : a.id = t.account]
           b == [a \in L |-> Balance(d, a)]
           n == [a \in L |-> AmountOf(New(a))]
<1>1. /\ M \subseteq e.transactions /\ N \subseteq e.transactions /\ N \subseteq Transaction /\ IsFiniteSet(N)
      /\ L = CashAccounts(e, u)
  BY Tables, FS_Subset DEF CashAccounts
<1>2. AmountOf(N) = 0
  <2>1. \A t \in N : t.group # NULL
    OBVIOUS
  <2>2. ASSUME NEW t \in N
        PROVE  \E leg \in N : leg # t /\ leg.group = t.group
    <3>1. PICK leg \in M : leg # t /\ leg.group = t.group
      OBVIOUS
    <3>2. leg.owner = t.owner
      BY <2>1, <3>1 DEF Consistent, OpposedIn
    <3> QED
      BY <3>1, <3>2
  <2> HIDE DEF N
  <2> QED BY <1>1, <2>1, <2>2, PairsCancel
<1>3. ASSUME NEW t \in N
      PROVE  c[t] \in L /\ c[t].id = t.account
  <2>1. PICK a \in e.accounts : a.id = t.account /\ a.owner = t.owner /\ TypeOf(e, t.account) = a.type
    BY <1>1, TypeOfIs
  <2>2. a \in L
    BY <2>1 DEF CashAccounts
  <2> QED
    BY <2>1, <2>2
<1>4. c \in [N -> L]
  <2>1. c = [t \in N |-> c[t]]
    OBVIOUS
  <2> HIDE DEF c, N, L
  <2> QED BY <1>3, <2>1
<1>5. ASSUME NEW a \in L
      PROVE  Class(c, N, a) = New(a)
  <2>1. a \in e.accounts /\ a.owner = u /\ a \in d.accounts
    BY DEF CashAccounts
  <2>2. \A t \in New(a) : t \in N
    BY <2>1 DEF Consistent, OwnersAgreeIn
  <2>3. \A t \in N : c[t] = a <=> t.account = a.id
    <3>1. "accounts" \in DOMAIN d /\ \A x, y \in d.accounts : x.id = y.id => x = y
      BY Tables DEF Consistent, KeysIn
    <3>2. L \subseteq d.accounts
      BY DEF CashAccounts
    <3> HIDE DEF c, N, L
    <3> QED BY <1>3, <2>1, <3>1, <3>2
  <2> HIDE DEF c
  <2> QED
    BY <2>2, <2>3 DEF Class
<1>6. IsFiniteSet(L) /\ b \in [L -> Int]
  BY CashIs
<1>7. /\ Inflow(N) = SumFunction([a \in L |-> Inflow(Class(c, N, a))])
      /\ Outflow(N) = SumFunction([a \in L |-> Outflow(Class(c, N, a))])
      /\ AmountOf(N) = SumFunction([a \in L |-> AmountOf(Class(c, N, a))])
  <2>1. N \subseteq Transaction /\ IsFiniteSet(N) /\ IsFiniteSet(L) /\ c \in [N -> L]
    BY <1>1, <1>4, <1>6
  <2> HIDE DEF c, N, L
  <2> QED BY <2>1, MoneyGrouped
<1>8. SumFunction(n) = 0
  <2>1. n = [a \in L |-> AmountOf(Class(c, N, a))]
    <3> HIDE DEF c, N, L
    <3> QED BY <1>5
  <2> HIDE DEF n, c, N, L
  <2> QED BY <1>2, <1>7, <2>1
<1>9. ASSUME NEW a \in L
      PROVE  Balance(e, a) = b[a] + n[a] /\ n[a] \in Int
  <2> DEFINE E == {t \in e.transactions : t.account = a.id}
             D == {t \in d.transactions : t.account = a.id}
  <2>1. a \in d.accounts /\ a \in e.accounts /\ a.type \notin InvestmentTypes
    BY DEF CashAccounts
  <2>2. /\ E \subseteq Transaction /\ IsFiniteSet(E) /\ D \subseteq E /\ E \ D = New(a)
        /\ D \subseteq Transaction /\ IsFiniteSet(D)
        /\ New(a) \subseteq Transaction /\ IsFiniteSet(New(a))
    <3>1. E \subseteq Transaction /\ IsFiniteSet(E)
      BY Tables, FS_Subset
    <3>2. D \subseteq E /\ E \ D = New(a)
      OBVIOUS
    <3> HIDE DEF E, D, New
    <3> QED BY <3>1, <3>2, FS_Subset
  <2>3. AmountOf(E) = AmountOf(D) + AmountOf(E \ D)
    <3> HIDE DEF E, D
    <3> QED BY <2>2, MoneySplit
  <2>4. AmountOf(D) \in Int /\ AmountOf(New(a)) \in Int
    <3> HIDE DEF D, New
    <3> QED BY <2>2, MoneyIs
  <2>5. Balance(e, a) = a.opening + AmountOf(E) /\ Balance(d, a) = a.opening + AmountOf(D)
    BY <2>1, BalanceIs
  <2>6. a.opening \in Int
    BY <2>1, Tables DEF Account
  <2>7. b[a] = Balance(d, a) /\ n[a] = AmountOf(New(a))
    <3> HIDE DEF L, New
    <3> QED OBVIOUS
  <2>8. AmountOf(E) = AmountOf(D) + AmountOf(New(a))
    <3> HIDE DEF E, D, New
    <3> QED BY <2>2, <2>3
  <2> HIDE DEF E, D, New, b, n
  <2> QED
    BY <2>4, <2>5, <2>6, <2>7, <2>8
<1>10. n \in [L -> Int]
  <2>1. n = [a \in L |-> n[a]]
    OBVIOUS
  <2> HIDE DEF n, L, b
  <2> QED BY <1>9, <2>1
<1>11. SumFunction([a \in L |-> b[a] + n[a]]) = SumFunction(b) + SumFunction(n)
  <2> HIDE DEF b, n, L
  <2> QED BY <1>6, <1>10, SumPlus
<1>12. [a \in L |-> Balance(e, a)] = [a \in L |-> b[a] + n[a]]
  <2> HIDE DEF b, n, L
  <2> QED BY <1>9
<1>13. SumFunction(b) \in Int
  <2> HIDE DEF b, L
  <2> QED BY <1>6, SumType
<1>14. Cash(e, u) = SumFunction([a \in L |-> Balance(e, a)])
  BY <1>1, CashIs
<1>15. Cash(d, u) = SumFunction(b)
  BY CashIs
<1> HIDE DEF b, n, L
<1> QED
  BY <1>8, <1>11, <1>12, <1>13, <1>14, <1>15

-----------------------------------------------------------------------------
(* Flows in a sequence. *)

LEMMA SumNonNegative ==
  ASSUME NEW S, IsFiniteSet(S), NEW v \in [S -> Int], \A x \in S : v[x] > 0
  PROVE  SumFunction(v) >= 0
<1>1. CASE S = {}
  <2>1. v \in [{} -> Int]
    BY <1>1
  <2>2. SumFunction(v) = 0
    BY <2>1, SumEmpty
  <2> QED BY <2>2
<1>2. CASE S # {}
  <2>1. SumFunction(v) > 0 /\ SumFunction(v) \in Int
    BY <1>2, SumPositive, SumType
  <2> QED BY <2>1
<1> QED
  BY <1>1, <1>2

LEMMA SumPlusTwo ==
  ASSUME NEW S, IsFiniteSet(S), NEW v \in [S -> Int], NEW w \in [S -> Int], NEW z \in [S -> Int]
  PROVE  SumFunction([x \in S |-> v[x] + (w[x] + z[x])])
           = SumFunction(v) + SumFunction(w) + SumFunction(z)
<1> DEFINE y == [x \in S |-> w[x] + z[x]]
<1>1. y \in [S -> Int] /\ \A x \in S : y[x] = w[x] + z[x]
  OBVIOUS
<1>2. SumFunction(y) = SumFunction(w) + SumFunction(z)
  BY SumPlus
<1>3. [x \in S |-> v[x] + (w[x] + z[x])] = [x \in S |-> v[x] + y[x]]
  <2> HIDE DEF y
  <2> QED BY <1>1
<1>4. SumFunction([x \in S |-> v[x] + y[x]]) = SumFunction(v) + SumFunction(y)
  <2> HIDE DEF y
  <2> QED BY <1>1, SumPlus
<1>5. SumFunction(v) \in Int /\ SumFunction(w) \in Int /\ SumFunction(z) \in Int
  BY SumType
<1> HIDE DEF y
<1> QED
  BY <1>2, <1>3, <1>4, <1>5

(* What a set of flows adds up to. *)
SumOf(flows) == SumFunction([flow \in flows |-> flow.amount])

LEMMA SortedIs ==
  ASSUME NEW F, IsFiniteSet(F), NEW order \in Sorted(F)
  PROVE  /\ Cardinality(F) \in Nat /\ OneToOne(order, 1..Cardinality(F), F)
         /\ order \in Seq(F) /\ Len(order) = Cardinality(F)
<1> DEFINE n == Cardinality(F)
           D == 1..n
<1>1. n \in Nat
  BY FS_CardinalityType
<1>2. order \in [D -> F] /\ \A i, j \in D : i < j => order[i] # order[j]
  BY DEF Sorted
<1>3. \A i, j \in D : order[i] = order[j] => i = j
  <2>1. \A i, j \in D : i < j \/ j < i \/ i = j
    BY <1>1
  <2> HIDE DEF D
  <2> QED BY <1>2, <2>1
<1>4. order \in Injection(D, F)
  <2> HIDE DEF D
  <2> QED BY <1>2, <1>3 DEF Injection, IsInjective
<1>5. Cardinality(D) = n
  <2> HIDE DEF n
  <2> QED BY <1>1, FS_Interval
<1>6. order \in Surjection(D, F)
  <2> HIDE DEF D
  <2> QED BY <1>4, <1>5, FS_Injection
<1>7. OneToOne(order, D, F)
  <2> HIDE DEF D
  <2> QED BY <1>2, <1>3, <1>6 DEF OneToOne, Surjection
<1>8. order \in Seq(F) /\ Len(order) = n
  <2> HIDE DEF n
  <2> QED BY <1>1, <1>2
<1> QED
  BY <1>1, <1>7, <1>8

LEMMA SumOfSorted ==
  ASSUME NEW F, IsFiniteSet(F), \A flow \in F : flow.amount \in Int, NEW order \in Sorted(F)
  PROVE  SumOfFlows(order) = SumOf(F) /\ SumOf(F) \in Int
<1> DEFINE D == 1..Cardinality(F)
           v == [flow \in F |-> flow.amount]
<1>1. OneToOne(order, D, F) /\ DOMAIN order = D /\ IsFiniteSet(D)
  <2>1. OneToOne(order, D, F) /\ Cardinality(F) \in Nat
    BY SortedIs
  <2>2. IsFiniteSet(D)
    BY <2>1, FS_Interval
  <2> HIDE DEF D
  <2> QED BY <2>1, <2>2 DEF OneToOne
<1>2. v \in [F -> Int] /\ \A k \in D : v[order[k]] = order[k].amount
  <2> HIDE DEF D
  <2> QED BY <1>1 DEF OneToOne
<1>3. SumFunction([k \in D |-> v[order[k]]]) = SumFunction(v)
  <2> HIDE DEF D, v
  <2> QED BY <1>1, <1>2, SumRenamed
<1>4. [k \in D |-> v[order[k]]] = [k \in DOMAIN order |-> order[k].amount]
  <2> HIDE DEF D, v
  <2> QED BY <1>1, <1>2
<1>5. SumFunction(v) \in Int
  <2> HIDE DEF v
  <2> QED BY <1>2, SumType
<1> QED
  BY <1>3, <1>4, <1>5 DEF SumOfFlows, SumOf

LEMMA SumOfSeqType ==
  ASSUME NEW Q, \A q \in Q : q.amount \in Int, NEW s \in Seq(Q)
  PROVE  /\ SumOfFlows(s) \in Int
         /\ (\A q \in Q : q.amount > 0) /\ Len(s) > 0 => SumOfFlows(s) > 0
<1> DEFINE D == DOMAIN s
           v == [k \in D |-> s[k].amount]
<1>1. IsFiniteSet(D) /\ (Len(s) > 0 => D # {})
  <2>1. D = 1..Len(s) /\ Len(s) \in Nat
    OBVIOUS
  <2>2. IsFiniteSet(1..Len(s))
    BY <2>1, FS_Interval
  <2>3. Len(s) > 0 => 1 \in 1..Len(s)
    BY <2>1
  <2> HIDE DEF D
  <2> QED BY <2>1, <2>2, <2>3
<1>2. \A k \in D : s[k] \in Q
  OBVIOUS
<1>3. v \in [D -> Int] /\ \A k \in D : v[k] = s[k].amount
  <2> HIDE DEF D
  <2> QED BY <1>2
<1>4. SumOfFlows(s) = SumFunction(v)
  BY DEF SumOfFlows
<1>5. ASSUME \A q \in Q : q.amount > 0, Len(s) > 0
      PROVE  SumFunction(v) > 0
  <2>1. \A k \in D : v[k] > 0
    <3> HIDE DEF v, D
    <3> QED BY <1>2, <1>3, <1>5
  <2> HIDE DEF v, D
  <2> QED BY <1>1, <1>3, <1>5, <2>1, SumPositive
<1> HIDE DEF v, D
<1> QED
  BY <1>1, <1>3, <1>4, <1>5, SumType

LEMMA SumOfParts ==
  ASSUME NEW Q, \A q \in Q : q.amount \in Int, NEW s \in Seq(Q), NEW m \in 0..Len(s)
  PROVE  SumOfFlows(s) = SumOfFlows(SubSeq(s, 1, m)) + SumOfFlows(SubSeq(s, m + 1, Len(s)))
<1> DEFINE n == Len(s)
           D == 1..n
           A == 1..m
           B == 1..(n - m)
           v == [k \in D |-> s[k].amount]
           f == [k \in B |-> m + k]
           a == SubSeq(s, 1, m)
           b == SubSeq(s, m + 1, n)
<1>1. n \in Nat /\ m \in Nat /\ m <= n /\ DOMAIN s = D /\ \A k \in D : s[k] \in Q
  OBVIOUS
<1>2. DOMAIN a = A /\ \A k \in A : a[k] = s[k]
  <2>1. /\ a \in Seq(Q) /\ Len(a) = IF 1 <= m THEN m - 1 + 1 ELSE 0
        /\ \A k \in 1..(m - 1 + 1) : a[k] = s[1 + k - 1]
    <3>1. 1 \in Int /\ m \in Int /\ \A k \in 1..m : s[k] \in Q
      BY <1>1
    <3> QED BY <3>1, SubSeqProperties
  <2>2. Len(a) = m
    <3> HIDE DEF n, a
    <3> QED BY <1>1, <2>1
  <2>3. \A k \in A : a[k] = s[k]
    <3>1. \A k \in A : k \in 1..(m - 1 + 1) /\ 1 + k - 1 = k
      BY <1>1
    <3> HIDE DEF n, a
    <3> QED BY <2>1, <3>1
  <2> HIDE DEF a
  <2> QED BY <2>1, <2>2, <2>3
<1>3. DOMAIN b = B /\ \A k \in B : b[k] = s[m + k]
  <2>1. /\ b \in Seq(Q) /\ Len(b) = IF m + 1 <= n THEN n - (m + 1) + 1 ELSE 0
        /\ \A k \in 1..(n - (m + 1) + 1) : b[k] = s[(m + 1) + k - 1]
    <3>1. m + 1 \in Int /\ n \in Int /\ \A k \in (m + 1)..n : s[k] \in Q
      BY <1>1
    <3> QED BY <3>1, SubSeqProperties
  <2>2. Len(b) = n - m /\ n - m \in Nat
    <3> HIDE DEF n, b
    <3> QED BY <1>1, <2>1
  <2>3. \A k \in B : b[k] = s[m + k]
    <3>1. \A k \in B : k \in 1..(n - (m + 1) + 1) /\ (m + 1) + k - 1 = m + k
      BY <1>1
    <3> HIDE DEF n, b
    <3> QED BY <2>1, <3>1
  <2> HIDE DEF b, n
  <2> QED BY <2>1, <2>2, <2>3
<1>4. v \in [D -> Int] /\ IsFiniteSet(D) /\ A \in SUBSET D /\ IsFiniteSet(B)
  <2>1. IsFiniteSet(D) /\ IsFiniteSet(B)
    <3> HIDE DEF n
    <3> QED BY <1>1, FS_Interval
  <2>2. A \in SUBSET D
    <3> HIDE DEF n
    <3> QED BY <1>1
  <2>3. v \in [D -> Int]
    <3> HIDE DEF D
    <3> QED BY <1>1
  <2> QED BY <2>1, <2>2, <2>3
<1>5. SumFunction(v) = SumFunction(Restrict(v, A)) + SumFunction(Restrict(v, D \ A))
  <2> HIDE DEF v, D, A
  <2> QED BY <1>4, SumSplit
<1>6. Restrict(v, A) = [k \in DOMAIN a |-> a[k].amount]
  <2>1. \A k \in A : k \in D
    BY <1>4
  <2>2. \A k \in A : v[k] = s[k].amount
    <3> HIDE DEF D, A
    <3> QED BY <2>1
  <2> HIDE DEF v, D, A, a
  <2> QED BY <1>2, <2>2 DEF Restrict
<1>7. OneToOne(f, B, D \ A)
  <2> HIDE DEF n
  <2>1. f \in [B -> D \ A]
    BY <1>1
  <2>2. \A x, y \in B : f[x] = f[y] => x = y
    BY <1>1
  <2>3. \A y \in D \ A : \E x \in B : f[x] = y
    <3> SUFFICES ASSUME NEW y \in D \ A PROVE \E x \in B : f[x] = y
      OBVIOUS
    <3>1. y - m \in B /\ m + (y - m) = y
      BY <1>1
    <3>2. f[y - m] = y
      BY <3>1
    <3> QED BY <3>1, <3>2
  <2> HIDE DEF f, D, A, B
  <2> QED BY <2>1, <2>2, <2>3 DEF OneToOne
<1> DEFINE w == Restrict(v, D \ A)
<1>8. w \in [D \ A -> Int] /\ \A k \in D \ A : w[k] = s[k].amount
  <2>1. \A k \in D : v[k] = s[k].amount /\ v[k] \in Int
    <3>1. \A k \in D : v[k] = s[k].amount
      OBVIOUS
    <3> HIDE DEF D, v
    <3> QED BY <1>4, <3>1
  <2> HIDE DEF D, A, v
  <2> QED BY <2>1 DEF Restrict
<1>9. \A k \in B : w[f[k]] = b[k].amount
  <2>1. \A k \in B : f[k] \in D \ A /\ f[k] = m + k
    <3>1. \A k \in B : f[k] = m + k
      OBVIOUS
    <3> HIDE DEF f, B, D, A
    <3> QED BY <1>7, <3>1 DEF OneToOne
  <2> HIDE DEF w, f, B, D, A, b
  <2> QED BY <1>3, <1>8, <2>1
<1>10. SumFunction([k \in B |-> w[f[k]]]) = SumFunction(w)
  <2> HIDE DEF w, f, B, D, A
  <2> QED BY <1>4, <1>7, <1>8, SumRenamed
<1>11. [k \in B |-> w[f[k]]] = [k \in DOMAIN b |-> b[k].amount]
  <2> HIDE DEF w, f, B, b
  <2> QED BY <1>3, <1>9
<1>12. SumOfFlows(s) = SumFunction(v) /\ SumOfFlows(a) = SumFunction(Restrict(v, A)) /\ SumOfFlows(b) = SumFunction(w)
  <2>1. SumOfFlows(s) = SumFunction(v)
    BY <1>1 DEF SumOfFlows
  <2>2. SumOfFlows(a) = SumFunction(Restrict(v, A))
    <3> HIDE DEF a, v, A
    <3> QED BY <1>6 DEF SumOfFlows
  <2>3. SumOfFlows(b) = SumFunction(w)
    <3> HIDE DEF b, w, f, B
    <3> QED BY <1>10, <1>11 DEF SumOfFlows
  <2> QED BY <2>1, <2>2, <2>3
<1> HIDE DEF v, a, b, A
<1> QED
  BY <1>5, <1>12 DEF a, b

LEMMA SumOfAppend ==
  ASSUME NEW Q, \A q \in Q : q.amount \in Int, NEW s \in Seq(Q), NEW x \in Q
  PROVE  SumOfFlows(Append(s, x)) = SumOfFlows(s) + x.amount
<1> DEFINE n == Len(s)
           t == Append(s, x)
           D == 1..(n + 1)
           v == [k \in D |-> t[k].amount]
<1>1. /\ n \in Nat /\ t \in Seq(Q) /\ Len(t) = n + 1 /\ t[n + 1] = x /\ DOMAIN t = D
      /\ \A k \in 1..n : t[k] = s[k]
  BY AppendProperties
<1>2. v \in [D -> Int] /\ IsFiniteSet(D) /\ n + 1 \in D /\ D \ {n + 1} = 1..n
  <2>1. IsFiniteSet(D)
    <3> HIDE DEF n
    <3> QED BY <1>1, FS_Interval
  <2>2. n + 1 \in D /\ D \ {n + 1} = 1..n
    <3> HIDE DEF n
    <3> QED BY <1>1
  <2>3. \A k \in D : t[k] \in Q
    <3> HIDE DEF t, D
    <3> QED BY <1>1
  <2>4. v \in [D -> Int]
    <3> HIDE DEF t, D
    <3> QED BY <2>3
  <2> QED BY <2>1, <2>2, <2>4
<1>3. SumFunction(v) = v[n + 1] + SumFunction(Restrict(v, D \ {n + 1}))
  <2> HIDE DEF v, D, n
  <2> QED BY <1>2, SumRemove
<1>4. v[n + 1] = x.amount
  <2> HIDE DEF t, D
  <2> QED BY <1>1, <1>2
<1>5. Restrict(v, D \ {n + 1}) = [k \in DOMAIN s |-> s[k].amount]
  <2>1. DOMAIN s = D \ {n + 1}
    <3>1. DOMAIN s = 1..n
      OBVIOUS
    <3> HIDE DEF D, n
    <3> QED BY <1>2, <3>1
  <2>2. \A k \in D \ {n + 1} : v[k] = t[k].amount
    <3> HIDE DEF D, t
    <3> QED OBVIOUS
  <2>3. \A k \in D \ {n + 1} : v[k] = s[k].amount
    <3> HIDE DEF v, D, t
    <3> QED BY <1>1, <1>2, <2>2
  <2> HIDE DEF v, D
  <2> QED BY <2>1, <2>3 DEF Restrict
<1>6. SumOfFlows(t) = SumFunction(v) /\ SumOfFlows(s) = SumFunction(Restrict(v, D \ {n + 1}))
  <2>1. SumOfFlows(t) = SumFunction(v)
    <3> HIDE DEF t, D
    <3> QED BY <1>1 DEF SumOfFlows
  <2>2. SumOfFlows(s) = SumFunction(Restrict(v, D \ {n + 1}))
    <3> HIDE DEF v, D
    <3> QED BY <1>5 DEF SumOfFlows
  <2> QED BY <2>1, <2>2
<1>7. SumOfFlows(s) \in Int /\ x.amount \in Int
  BY SumOfSeqType
<1> HIDE DEF v, D, t, n
<1>8. SumOfFlows(t) = SumOfFlows(s) + x.amount
  BY <1>3, <1>4, <1>6, <1>7
<1> QED
  BY <1>8 DEF t

-----------------------------------------------------------------------------
(* The nodes that are shown, and the links between them. *)

Rest(order) ==
  [category |-> NULL, name |-> "Other",
   amount |-> SumOfFlows(SubSeq(order, MaxExpenseNodes + 1, Len(order)))]

LEMMA FoldedIs ==
  ASSUME NEW F, \A flow \in F : flow.amount \in Int, NEW order \in Seq(F)
  PROVE  /\ SumOfFlows(Folded(order)) = SumOfFlows(order) /\ SumOfFlows(order) \in Int
         /\ Folded(order) \in Seq(F \cup {Rest(order)})
         /\ Len(order) <= MaxExpenseNodes => Folded(order) = order
         /\ Len(order) > MaxExpenseNodes =>
              /\ Len(Folded(order)) = MaxExpenseNodes + 1
              /\ \A k \in 1..MaxExpenseNodes : Folded(order)[k] = order[k]
              /\ Folded(order)[MaxExpenseNodes + 1] = Rest(order)
         /\ (\A flow \in F : flow.amount > 0) /\ Len(order) > MaxExpenseNodes => Rest(order).amount > 0
<1> DEFINE n == Len(order)
           m == MaxExpenseNodes
           a == SubSeq(order, 1, m)
           b == SubSeq(order, m + 1, n)
           Q == F \cup {Rest(order)}
<1>1. n \in Nat /\ m \in Nat /\ \A k \in 1..n : order[k] \in F
  BY ReportsAssumption
<1>2. SumOfFlows(order) \in Int
  BY SumOfSeqType
<1>3. CASE n <= m
  <2>1. Folded(order) = order
    BY <1>3 DEF Folded
  <2>2. order \in Seq(Q)
    OBVIOUS
  <2>3. ~(n > m)
    <3> HIDE DEF n, m
    <3> QED BY <1>1, <1>3
  <2> QED
    BY <1>2, <2>1, <2>2, <2>3
<1>4. CASE ~(n <= m)
  <2>0. m < n
    <3> HIDE DEF n, m
    <3> QED BY <1>1, <1>4
  <2>1. Folded(order) = Append(a, Rest(order))
    BY <1>4, <2>0 DEF Folded, FirstFlows, Rest
  <2>2. a \in Seq(F) /\ Len(a) = m /\ \A k \in 1..m : a[k] = order[k]
    <3>1. /\ a \in Seq(F) /\ Len(a) = IF 1 <= m THEN m - 1 + 1 ELSE 0
          /\ \A k \in 1..(m - 1 + 1) : a[k] = order[1 + k - 1]
      <4>1. 1 \in Int /\ m \in Int /\ \A k \in 1..m : order[k] \in F
        <5> HIDE DEF n, m
        <5> QED BY <1>1, <2>0
      <4> HIDE DEF m
      <4> QED BY <4>1, SubSeqProperties
    <3>2. \A k \in 1..m : k \in 1..(m - 1 + 1) /\ 1 + k - 1 = k
      <4> HIDE DEF m
      <4> QED BY <1>1
    <3>3. Len(a) = m
      <4> HIDE DEF a, m
      <4> QED BY <1>1, <3>1
    <3> HIDE DEF a, m
    <3> QED BY <3>1, <3>2, <3>3
  <2>3. b \in Seq(F) /\ Len(b) > 0
    <3>1. /\ b \in Seq(F) /\ Len(b) = IF m + 1 <= n THEN n - (m + 1) + 1 ELSE 0
      <4>1. m + 1 \in Int /\ n \in Int /\ \A k \in (m + 1)..n : order[k] \in F
        <5> HIDE DEF n, m
        <5> QED BY <1>1
      <4> HIDE DEF m, n
      <4> QED BY <4>1, SubSeqProperties
    <3> HIDE DEF b, n, m
    <3> QED BY <1>1, <2>0, <3>1
  <2>4. SumOfFlows(a) \in Int /\ SumOfFlows(b) \in Int /\ Rest(order).amount = SumOfFlows(b)
        /\ ((\A flow \in F : flow.amount > 0) => SumOfFlows(b) > 0)
    <3>1. Rest(order).amount = SumOfFlows(b)
      BY DEF Rest
    <3> HIDE DEF a, b
    <3> QED BY <2>2, <2>3, <3>1, SumOfSeqType
  <2>5. SumOfFlows(order) = SumOfFlows(a) + SumOfFlows(b)
    <3>1. m \in 0..Len(order)
      <4>1. m \in 0..n
        <5> HIDE DEF m, n
        <5> QED BY <1>1, <2>0
      <4> QED BY <4>1
    <3> HIDE DEF m
    <3> QED BY <3>1, SumOfParts DEF m
  <2>6. \A q \in Q : q.amount \in Int
    <3> HIDE DEF b
    <3> QED BY <2>4
  <2>7. a \in Seq(Q) /\ Rest(order) \in Q
    <3> HIDE DEF a
    <3> QED BY <2>2
  <2>8. SumOfFlows(Append(a, Rest(order))) = SumOfFlows(a) + Rest(order).amount
    <3> HIDE DEF a, Q
    <3> QED BY <2>6, <2>7, SumOfAppend
  <2>9. /\ Append(a, Rest(order)) \in Seq(Q) /\ Len(Append(a, Rest(order))) = m + 1
        /\ \A k \in 1..m : Append(a, Rest(order))[k] = a[k]
        /\ Append(a, Rest(order))[m + 1] = Rest(order)
    <3> HIDE DEF a, Q
    <3> QED BY <2>2, <2>7, AppendProperties
  <2> HIDE DEF a, b
  <2> QED
    BY <1>2, <1>4, <2>0, <2>1, <2>2, <2>4, <2>5, <2>8, <2>9
<1> QED
  BY <1>3, <1>4

(* The nodes that reportSankey names. *)
Drawn == "From savings"

IncomeNode(name) == NodeName(name, "Uncategorized income")

ExpenseNode(name) == NodeName(name, "Uncategorized spending")

LEMMA Nodes ==
  /\ RemainderWords = {"Savings", Drawn}
  /\ Drawn # "Income" /\ Drawn # "Savings" /\ Drawn # "Other"
  /\ \A name : IncomeNode(name) = Drawn => name = Drawn
  /\ \A name : ExpenseNode(name) = "Savings" => name = "Savings"
<1>1. RemainderWords = {"Savings", Drawn}
  BY Zenon DEF RemainderWords, Drawn
<1>2. Drawn # "Income" /\ Drawn # "Savings" /\ Drawn # "Other"
  BY Zenon DEF Drawn
<1>3. ASSUME NEW name, IncomeNode(name) = Drawn
      PROVE  name = Drawn
  BY <1>3, Zenon DEF IncomeNode, NodeName, Drawn
<1>4. ASSUME NEW name, ExpenseNode(name) = "Savings"
      PROVE  name = "Savings"
  BY <1>4, Zenon DEF ExpenseNode, NodeName
<1> QED
  BY <1>1, <1>2, <1>3, <1>4

IncomeLink(flow) == Link(IncomeNode(flow.name), "Income", flow.amount)

ExpenseLink(flow) == Link("Income", ExpenseNode(flow.name), flow.amount)

(* The links of a diagram: the incomes, the expenses that are shown, and the *)
(* remainder.                                                                *)
Laid(links, in, shown, earned, spent, m, n) ==
  /\ m \in Nat /\ n \in Nat
  /\ earned = spent => DOMAIN links = 1..(m + n)
  /\ earned # spent => DOMAIN links = 1..(m + n + 1)
  /\ \A k \in 1..m : links[k] = IncomeLink(in[k])
  /\ \A k \in 1..n : links[m + k] = ExpenseLink(shown[k])
  /\ earned > spent => links[m + n + 1] = Link("Income", "Savings", earned - spent)
  /\ earned < spent => links[m + n + 1] = Link(Drawn, "Income", spent - earned)

LEMMA LinksAre ==
  ASSUME NEW P, NEW Q, NEW in \in Seq(P), NEW out, Folded(out) \in Seq(Q),
         SumOfFlows(in) \in Int, SumOfFlows(Folded(out)) \in Int
  PROVE  Laid(SankeyLinks(in, out), in, Folded(out), SumOfFlows(in), SumOfFlows(Folded(out)),
              Len(in), Len(Folded(out)))
<1> DEFINE links == SankeyLinks(in, out)
           shown == Folded(out)
           earned == SumOfFlows(in)
           spent == SumOfFlows(shown)
           m == Len(in)
           n == Len(shown)
           a == [k \in DOMAIN in |-> IncomeLink(in[k])]
           b == [k \in DOMAIN shown |-> ExpenseLink(shown[k])]
           up == Link("Income", "Savings", earned - spent)
           down == Link(Drawn, "Income", spent - earned)
           c == CASE earned > spent -> <<up>> [] earned < spent -> <<down>> [] OTHER -> <<>>
           S == {IncomeLink(in[k]) : k \in DOMAIN in} \cup {ExpenseLink(shown[k]) : k \in DOMAIN shown}
                  \cup {up, down}
<1>1. links = a \o b \o c
  BY Zenon DEF SankeyLinks, IncomeLink, ExpenseLink, IncomeNode, ExpenseNode, Drawn
<1>2. m \in Nat /\ DOMAIN in = 1..m /\ n \in Nat /\ DOMAIN shown = 1..n
  <2>1. m \in Nat /\ DOMAIN in = 1..m
    OBVIOUS
  <2> HIDE DEF shown
  <2> QED BY <2>1 DEF shown
<1>3. a \in Seq(S) /\ Len(a) = m /\ \A k \in 1..m : a[k] = IncomeLink(in[k])
  <2>1. a \in [1..m -> S] /\ DOMAIN a = 1..m
    <3> HIDE DEF up, down, shown
    <3> QED BY <1>2
  <2>2. \A k \in 1..m : a[k] = IncomeLink(in[k])
    <3> HIDE DEF m
    <3> QED BY <1>2
  <2> HIDE DEF a, S, m
  <2> QED BY <1>2, <2>1, <2>2
<1>4. b \in Seq(S) /\ Len(b) = n /\ \A k \in 1..n : b[k] = ExpenseLink(shown[k])
  <2>1. b \in [1..n -> S] /\ DOMAIN b = 1..n
    <3> HIDE DEF up, down, shown
    <3> QED BY <1>2
  <2>2. \A k \in 1..n : b[k] = ExpenseLink(shown[k])
    <3> HIDE DEF n, shown
    <3> QED BY <1>2
  <2> HIDE DEF b, S, n
  <2> QED BY <1>2, <2>1, <2>2
<1>5. /\ c \in Seq(S) /\ Len(c) = IF earned = spent THEN 0 ELSE 1
      /\ earned > spent => c[1] = up
      /\ earned < spent => c[1] = down
  <2>0. up \in S /\ down \in S /\ earned \in Int /\ spent \in Int
    OBVIOUS
  <2> HIDE DEF up, down, S, earned, spent
  <2>1. CASE earned > spent
    <3>1. c = <<up>> /\ earned # spent /\ ~(earned < spent)
      BY <2>0, <2>1
    <3> HIDE DEF c
    <3> QED BY <3>1, <2>0, <2>1
  <2>2. CASE earned < spent
    <3>1. c = <<down>> /\ earned # spent /\ ~(earned > spent)
      BY <2>0, <2>2
    <3> HIDE DEF c
    <3> QED BY <3>1, <2>0, <2>2
  <2>3. CASE ~(earned > spent) /\ ~(earned < spent)
    <3>1. c = <<>> /\ earned = spent
      BY <2>0, <2>3
    <3> HIDE DEF c
    <3> QED BY <3>1, <2>0, <2>3
  <2> QED
    BY <2>1, <2>2, <2>3
<1> HIDE DEF a, b, c, S, up, down, links, shown, earned, spent, m, n
<1>6. /\ a \o b \in Seq(S) /\ Len(a \o b) = m + n
      /\ \A i \in 1..(m + n) : (a \o b)[i] = IF i <= m THEN a[i] ELSE b[i - m]
  BY <1>3, <1>4, ConcatProperties
<1>7. /\ links \in Seq(S) /\ Len(links) = m + n + Len(c)
      /\ \A i \in 1..(m + n + Len(c)) : links[i] = IF i <= m + n THEN (a \o b)[i] ELSE c[i - (m + n)]
  <2>1. (a \o b) \o c = links
    BY <1>1
  <2>2. /\ (a \o b) \o c \in Seq(S) /\ Len((a \o b) \o c) = Len(a \o b) + Len(c)
        /\ \A i \in 1..(Len(a \o b) + Len(c)) :
             ((a \o b) \o c)[i] = IF i <= Len(a \o b) THEN (a \o b)[i] ELSE c[i - Len(a \o b)]
    BY <1>5, <1>6, ConcatProperties
  <2> QED
    BY <1>6, <2>1, <2>2
<1>8. DOMAIN links = 1..(IF earned = spent THEN m + n ELSE m + n + 1)
  <2>1. DOMAIN links = 1..(m + n + Len(c))
    BY <1>7
  <2>2. m + n + Len(c) = IF earned = spent THEN m + n ELSE m + n + 1
    BY <1>2, <1>5
  <2> QED BY <2>1, <2>2
<1>c. Len(c) \in Nat
  BY <1>5
<1>9. \A k \in 1..m : links[k] = IncomeLink(in[k])
  <2> SUFFICES ASSUME NEW k \in 1..m PROVE links[k] = IncomeLink(in[k])
    OBVIOUS
  <2>1. k \in 1..(m + n) /\ k \in 1..(m + n + Len(c)) /\ k <= m /\ k <= m + n
    BY <1>2, <1>c
  <2>2. links[k] = (a \o b)[k] /\ (a \o b)[k] = a[k]
    BY <2>1, <1>6, <1>7
  <2> QED
    BY <1>3, <2>2
<1>10. \A k \in 1..n : links[m + k] = ExpenseLink(shown[k])
  <2> SUFFICES ASSUME NEW k \in 1..n PROVE links[m + k] = ExpenseLink(shown[k])
    OBVIOUS
  <2>1. /\ m + k \in 1..(m + n) /\ m + k \in 1..(m + n + Len(c)) /\ ~(m + k <= m) /\ m + k <= m + n
        /\ (m + k) - m = k
    BY <1>2, <1>c
  <2>2. links[m + k] = (a \o b)[m + k] /\ (a \o b)[m + k] = b[(m + k) - m]
    BY <2>1, <1>6, <1>7
  <2> QED
    BY <1>4, <2>1, <2>2
<1>11. earned # spent => links[m + n + 1] = c[1]
  <2> SUFFICES ASSUME earned # spent PROVE links[m + n + 1] = c[1]
    OBVIOUS
  <2>1. m + n + 1 \in 1..(m + n + Len(c)) /\ ~(m + n + 1 <= m + n) /\ (m + n + 1) - (m + n) = 1
    BY <1>2, <1>5
  <2> QED
    BY <1>7, <2>1
<1>12. /\ earned > spent => links[m + n + 1] = up
       /\ earned < spent => links[m + n + 1] = down
  <2>1. earned \in Int /\ spent \in Int
    BY DEF earned, spent, shown
  <2> QED
    BY <1>5, <1>11, <2>1
<1>13. Laid(links, in, shown, earned, spent, m, n)
  BY <1>2, <1>8, <1>9, <1>10, <1>12 DEF Laid, up, down
<1> QED
  BY <1>13 DEF links, shown, earned, spent, m, n

-----------------------------------------------------------------------------
(* From the categories' totals to the flows of the diagram. *)

TotalRows(T) ==
  /\ IsFiniteSet(T)
  /\ \A row \in T : /\ row.inflow \in Int /\ row.inflow >= 0
                    /\ row.outflow \in Int /\ row.outflow >= 0
                    /\ row.kind \in {"income", "expense", NULL}
  /\ \A x, y \in T : x.category = y.category => x = y

LEMMA MoneyNonNegative ==
  ASSUME NEW R, R \subseteq Transaction, IsFiniteSet(R)
  PROVE  Inflow(R) >= 0 /\ Outflow(R) >= 0
<1>1. Inflow(R) >= 0
  <2> DEFINE A == {t \in R : t.amount > 0}
             v == [t \in A |-> t.amount]
  <2>1. v \in [A -> Int] /\ IsFiniteSet(A) /\ \A t \in A : v[t] > 0
    BY FS_Subset DEF Transaction
  <2>2. SumFunction(v) >= 0
    <3> HIDE DEF v, A
    <3> QED BY <2>1, SumNonNegative
  <2> QED
    BY <2>2 DEF Inflow, AmountOf
<1>2. Outflow(R) >= 0
  <2> DEFINE A == {t \in R : t.amount < 0}
             v == [t \in A |-> t.amount]
             w == [t \in A |-> -v[t]]
  <2>1. v \in [A -> Int] /\ IsFiniteSet(A)
    BY FS_Subset DEF Transaction
  <2>2. \A t \in A : v[t] \in Int /\ v[t] < 0
    BY DEF Transaction
  <2>3. w \in [A -> Int] /\ \A t \in A : w[t] > 0
    <3> HIDE DEF v, A
    <3> QED BY <2>2
  <2>4. SumFunction(w) >= 0
    <3> HIDE DEF w, A
    <3> QED BY <2>1, <2>3, SumNonNegative
  <2>5. SumFunction(w) = -SumFunction(v) /\ SumFunction(v) \in Int
    <3> HIDE DEF v, A
    <3> QED BY <2>1, SumMinus, SumType
  <2>6. Outflow(R) = -SumFunction(v)
    BY DEF Outflow, AmountOf
  <2> HIDE DEF v, w
  <2> QED
    BY <2>4, <2>5, <2>6
<1> QED
  BY <1>1, <1>2

LEMMA TotalsType ==
  ASSUME NEW d, Consistent(d), NEW R, R \subseteq Transaction, IsFiniteSet(R)
  PROVE  TotalRows(Grouped(d, R))
<1>1. IsFiniteSet(Grouped(d, R))
  BY TotalsAddUp
<1>2. ASSUME NEW id
      PROVE  LET row == TotalOf(d, R, id)
             IN /\ row.inflow \in Int /\ row.inflow >= 0
                /\ row.outflow \in Int /\ row.outflow >= 0
                /\ row.kind \in {"income", "expense", NULL}
  <2> DEFINE of == {t \in R : t.category = id}
  <2>1. of \subseteq Transaction /\ IsFiniteSet(of)
    BY FS_Subset
  <2>2. Inflow(of) \in Int /\ Inflow(of) >= 0 /\ Outflow(of) \in Int /\ Outflow(of) >= 0
    <3> HIDE DEF of
    <3> QED BY <2>1, MoneyIs, MoneyNonNegative
  <2>3. TotalOf(d, R, id).inflow = Inflow(of) /\ TotalOf(d, R, id).outflow = Outflow(of)
    BY DEF TotalOf
  <2>4. TotalOf(d, R, id).kind \in {"income", "expense", NULL}
    <3>1. \A c \in d.categories : c.kind \in {"income", "expense"}
      BY Tables, ReportsAssumption DEF Category
    <3>2. TotalOf(d, R, id).kind = IF Joined(d, id) = {} THEN NULL ELSE (CHOOSE c \in Joined(d, id) : TRUE).kind
      BY DEF TotalOf, Joined
    <3>3. Joined(d, id) # {} => (CHOOSE c \in Joined(d, id) : TRUE) \in d.categories
      BY DEF Joined
    <3> QED
      BY <3>1, <3>2, <3>3
  <2> HIDE DEF of
  <2> QED
    BY <2>2, <2>3, <2>4
<1>3. \A id : TotalOf(d, R, id).category = id
  BY DEF TotalOf
<1>4. Grouped(d, R) = {TotalOf(d, R, id) : id \in CategoriesOf(R)}
  BY GroupedIs
<1> QED
  BY <1>1, <1>2, <1>3, <1>4 DEF TotalRows

FlowsOf(T, g) == {Flow(row, g[row]) : row \in {x \in T : g[x] > 0}}

LEMMA FlowsAddUp ==
  ASSUME NEW T, TotalRows(T), NEW g \in [T -> Int], \A row \in T : g[row] >= 0
  PROVE  /\ IsFiniteSet(FlowsOf(T, g)) /\ SumOf(FlowsOf(T, g)) = SumFunction(g)
         /\ \A flow \in FlowsOf(T, g) :
              /\ flow.amount \in Int /\ flow.amount > 0
              /\ \E row \in T : flow = Flow(row, g[row]) /\ g[row] > 0
<1> DEFINE I == {x \in T : g[x] > 0}
           F == FlowsOf(T, g)
           f == [row \in I |-> Flow(row, g[row])]
           v == [flow \in F |-> flow.amount]
<1>1. IsFiniteSet(I) /\ I \in SUBSET T
  BY FS_Subset DEF TotalRows
<1>2. \A row \in I : f[row] \in F /\ f[row].category = row.category /\ f[row].amount = g[row]
  BY DEF FlowsOf, Flow
<1>3. OneToOne(f, I, F)
  <2>1. f \in [I -> F] /\ \A y \in F : \E row \in I : f[row] = y
    BY DEF FlowsOf
  <2>2. \A x, y \in I : f[x] = f[y] => x = y
    <3> HIDE DEF f, F
    <3> QED BY <1>1, <1>2 DEF TotalRows
  <2> HIDE DEF f, F, I
  <2> QED BY <2>1, <2>2 DEF OneToOne
<1>4. IsFiniteSet(F)
  <2> HIDE DEF f, F, I
  <2> QED BY <1>1, <1>3, OneToOneFinite
<1>5. \A flow \in F : /\ flow.amount \in Int /\ flow.amount > 0
                      /\ \E row \in T : flow = Flow(row, g[row]) /\ g[row] > 0
  BY DEF FlowsOf, Flow
<1>6. v \in [F -> Int] /\ \A row \in I : v[f[row]] = g[row]
  <2> HIDE DEF f, F, I
  <2> QED BY <1>2, <1>5
<1>7. SumFunction([row \in I |-> v[f[row]]]) = SumFunction(v)
  <2> HIDE DEF f, F, I, v
  <2> QED BY <1>1, <1>3, <1>6, SumRenamed
<1>8. SumFunction(g) = SumFunction(Restrict(g, I))
  <2>1. \A row \in T \ I : g[row] = 0
    OBVIOUS
  <2>2. IsFiniteSet(T)
    BY DEF TotalRows
  <2> HIDE DEF I
  <2> QED BY <1>1, <2>1, <2>2, SumSupport
<1>9. Restrict(g, I) = [row \in I |-> v[f[row]]]
  <2> HIDE DEF f, F, I, v
  <2> QED BY <1>6 DEF Restrict
<1>10. SumOf(F) = SumFunction(g)
  <2> HIDE DEF f, I, F
  <2> QED BY <1>7, <1>8, <1>9 DEF SumOf
<1> QED
  BY <1>4, <1>5, <1>10

Gain(row) ==
  IF row.kind = "income" THEN (IF row.inflow > row.outflow THEN row.inflow - row.outflow ELSE 0)
  ELSE IF row.kind = NULL THEN row.inflow ELSE 0

Loss(row) ==
  IF row.kind = "expense" THEN (IF row.outflow > row.inflow THEN row.outflow - row.inflow ELSE 0)
  ELSE IF row.kind = NULL THEN row.outflow ELSE 0

LEMMA NoKind == NULL # "income" /\ NULL # "expense"
BY ReportsAssumption

LEMMA FlowsAre ==
  ASSUME NEW T, TotalRows(T)
  PROVE  /\ [row \in T |-> Gain(row)] \in [T -> Int] /\ [row \in T |-> Loss(row)] \in [T -> Int]
         /\ \A row \in T : Gain(row) >= 0 /\ Loss(row) >= 0
         /\ IncomeFlows(T) = FlowsOf(T, [row \in T |-> Gain(row)])
         /\ ExpenseFlows(T) = FlowsOf(T, [row \in T |-> Loss(row)])
<1>1. \A row \in T : Gain(row) \in Int /\ Gain(row) >= 0 /\ Loss(row) \in Int /\ Loss(row) >= 0
  BY DEF TotalRows, Gain, Loss
<1>2. FlowsOf(T, [row \in T |-> Gain(row)]) = {Flow(row, Gain(row)) : row \in {x \in T : Gain(x) > 0}}
  BY DEF FlowsOf
<1>3. FlowsOf(T, [row \in T |-> Loss(row)]) = {Flow(row, Loss(row)) : row \in {x \in T : Loss(x) > 0}}
  BY DEF FlowsOf
<1>4. \A row \in T : \A x \in Int : Flow(row, x).amount = x
  BY DEF Flow
<1>5. \A row \in T : row.inflow \in Int /\ row.outflow \in Int
  BY DEF TotalRows
<1>6. IncomeFlows(T) = {Flow(row, Gain(row)) : row \in {x \in T : Gain(x) > 0}}
  <2>1. ASSUME NEW row \in T, row.kind = "income"
        PROVE  /\ Gain(row) > 0 <=> Flow(row, row.inflow - row.outflow).amount > 0
               /\ Gain(row) > 0 => Gain(row) = row.inflow - row.outflow
    <3>1. row.inflow \in Int /\ row.outflow \in Int /\ row.inflow - row.outflow \in Int
      BY <1>5
    <3> QED BY <1>4, <2>1, <3>1 DEF Gain
  <2>2. ASSUME NEW row \in T, row.kind = NULL
        PROVE  Gain(row) = row.inflow /\ Flow(row, row.inflow).amount = row.inflow
    BY <1>4, <1>5, <2>2, NoKind DEF Gain
  <2>3. ASSUME NEW row \in T, row.kind # "income", row.kind # NULL
        PROVE  ~(Gain(row) > 0)
    BY <2>3 DEF Gain
  <2>4. ASSUME NEW flow \in IncomeFlows(T)
        PROVE  \E row \in T : Gain(row) > 0 /\ flow = Flow(row, Gain(row))
    <3>1. flow.amount > 0 /\ \E row \in T : \/ row.kind = "income" /\ flow = Flow(row, row.inflow - row.outflow)
                                            \/ row.kind = NULL /\ flow = Flow(row, row.inflow)
      BY DEF IncomeFlows, Positive
    <3> QED
      BY <2>1, <2>2, <3>1
  <2>5. ASSUME NEW row \in T, Gain(row) > 0
        PROVE  Flow(row, Gain(row)) \in IncomeFlows(T)
    <3>1. CASE row.kind = "income"
      BY <2>1, <2>5, <3>1 DEF IncomeFlows, Positive
    <3>2. CASE row.kind = NULL
      BY <2>2, <2>5, <3>2 DEF IncomeFlows, Positive
    <3> QED
      BY <2>3, <2>5, <3>1, <3>2
  <2> QED
    BY <2>4, <2>5
<1>7. ExpenseFlows(T) = {Flow(row, Loss(row)) : row \in {x \in T : Loss(x) > 0}}
  <2>1. ASSUME NEW row \in T, row.kind = "expense"
        PROVE  /\ Loss(row) > 0 <=> Flow(row, row.outflow - row.inflow).amount > 0
               /\ Loss(row) > 0 => Loss(row) = row.outflow - row.inflow
    <3>1. row.inflow \in Int /\ row.outflow \in Int /\ row.outflow - row.inflow \in Int
      BY <1>5
    <3> QED BY <1>4, <2>1, <3>1 DEF Loss
  <2>2. ASSUME NEW row \in T, row.kind = NULL
        PROVE  Loss(row) = row.outflow /\ Flow(row, row.outflow).amount = row.outflow
    BY <1>4, <1>5, <2>2, NoKind DEF Loss
  <2>3. ASSUME NEW row \in T, row.kind # "expense", row.kind # NULL
        PROVE  ~(Loss(row) > 0)
    BY <2>3 DEF Loss
  <2>4. ASSUME NEW flow \in ExpenseFlows(T)
        PROVE  \E row \in T : Loss(row) > 0 /\ flow = Flow(row, Loss(row))
    <3>1. flow.amount > 0 /\ \E row \in T : \/ row.kind = "expense" /\ flow = Flow(row, row.outflow - row.inflow)
                                            \/ row.kind = NULL /\ flow = Flow(row, row.outflow)
      BY DEF ExpenseFlows, Positive
    <3> QED
      BY <2>1, <2>2, <3>1
  <2>5. ASSUME NEW row \in T, Loss(row) > 0
        PROVE  Flow(row, Loss(row)) \in ExpenseFlows(T)
    <3>1. CASE row.kind = "expense"
      BY <2>1, <2>5, <3>1 DEF ExpenseFlows, Positive
    <3>2. CASE row.kind = NULL
      BY <2>2, <2>5, <3>2 DEF ExpenseFlows, Positive
    <3> QED
      BY <2>3, <2>5, <3>1, <3>2
  <2> QED
    BY <2>4, <2>5
<1> QED
  BY <1>1, <1>2, <1>3, <1>6, <1>7

LEMMA NetOfFlows ==
  ASSUME NEW T, TotalRows(T)
  PROVE  /\ SumOf(IncomeFlows(T)) \in Int /\ SumOf(ExpenseFlows(T)) \in Int
         /\ SumOf(IncomeFlows(T)) - SumOf(ExpenseFlows(T)) = In(T) - Out(T) - Refunded(T) + PaidBack(T)
<1> DEFINE g == [row \in T |-> Gain(row)]
           l == [row \in T |-> Loss(row)]
           i == [row \in T |-> row.inflow]
           o == [row \in T |-> row.outflow]
           A == {x \in T : x.kind = "expense" /\ x.inflow > x.outflow}
           B == {x \in T : x.kind = "income" /\ x.outflow > x.inflow}
           r == [row \in T |-> IF row \in A THEN row.inflow - row.outflow ELSE 0]
           p == [row \in T |-> IF row \in B THEN row.outflow - row.inflow ELSE 0]
<1>1. IsFiniteSet(T) /\ \A row \in T : row.inflow \in Int /\ row.outflow \in Int
  BY DEF TotalRows
<1>2. /\ g \in [T -> Int] /\ l \in [T -> Int]
      /\ SumOf(IncomeFlows(T)) = SumFunction(g) /\ SumOf(ExpenseFlows(T)) = SumFunction(l)
  <2>1. /\ g \in [T -> Int] /\ l \in [T -> Int]
        /\ \A row \in T : g[row] >= 0 /\ l[row] >= 0
        /\ IncomeFlows(T) = FlowsOf(T, g) /\ ExpenseFlows(T) = FlowsOf(T, l)
    BY FlowsAre
  <2> HIDE DEF g, l
  <2> QED BY <2>1, FlowsAddUp
<1>3. i \in [T -> Int] /\ o \in [T -> Int] /\ In(T) = SumFunction(i) /\ Out(T) = SumFunction(o)
  BY <1>1 DEF In, Out
<1>4. r \in [T -> Int] /\ p \in [T -> Int]
  BY <1>1
<1>5. Refunded(T) = SumFunction(r)
  <2>1. A \in SUBSET T /\ \A row \in T \ A : r[row] = 0
    OBVIOUS
  <2>2. SumFunction(r) = SumFunction(Restrict(r, A))
    <3> HIDE DEF r, A
    <3> QED BY <1>1, <1>4, <2>1, SumSupport
  <2>3. Restrict(r, A) = [row \in A |-> row.inflow - row.outflow]
    BY DEF Restrict
  <2> QED
    BY <2>2, <2>3 DEF Refunded
<1>6. PaidBack(T) = SumFunction(p)
  <2>1. B \in SUBSET T /\ \A row \in T \ B : p[row] = 0
    OBVIOUS
  <2>2. SumFunction(p) = SumFunction(Restrict(p, B))
    <3> HIDE DEF p, B
    <3> QED BY <1>1, <1>4, <2>1, SumSupport
  <2>3. Restrict(p, B) = [row \in B |-> row.outflow - row.inflow]
    BY DEF Restrict
  <2> QED
    BY <2>2, <2>3 DEF PaidBack
<1>7. ASSUME NEW row \in T
      PROVE  g[row] + (o[row] + r[row]) = i[row] + (p[row] + l[row])
  <2>1. /\ g[row] = Gain(row) /\ l[row] = Loss(row) /\ i[row] = row.inflow /\ o[row] = row.outflow
        /\ r[row] = IF row.kind = "expense" /\ row.inflow > row.outflow THEN row.inflow - row.outflow ELSE 0
        /\ p[row] = IF row.kind = "income" /\ row.outflow > row.inflow THEN row.outflow - row.inflow ELSE 0
    OBVIOUS
  <2>2. row.inflow \in Int /\ row.outflow \in Int /\ row.kind \in {"income", "expense", NULL}
    BY DEF TotalRows
  <2> HIDE DEF g, l, i, o, r, p
  <2> QED
    BY <2>1, <2>2, NoKind DEF Gain, Loss
<1> HIDE DEF g, l, i, o, r, p
<1>8. SumFunction([row \in T |-> g[row] + (o[row] + r[row])]) = SumFunction(g) + SumFunction(o) + SumFunction(r)
  BY <1>1, <1>2, <1>3, <1>4, SumPlusTwo
<1>9. SumFunction([row \in T |-> i[row] + (p[row] + l[row])]) = SumFunction(i) + SumFunction(p) + SumFunction(l)
  BY <1>1, <1>2, <1>3, <1>4, SumPlusTwo
<1>10. [row \in T |-> g[row] + (o[row] + r[row])] = [row \in T |-> i[row] + (p[row] + l[row])]
  BY <1>7
<1>11. /\ SumFunction(g) \in Int /\ SumFunction(l) \in Int /\ SumFunction(i) \in Int
       /\ SumFunction(o) \in Int /\ SumFunction(r) \in Int /\ SumFunction(p) \in Int
  BY <1>1, <1>2, <1>3, <1>4, SumType
<1>12. SumFunction(g) + SumFunction(o) + SumFunction(r) = SumFunction(i) + SumFunction(p) + SumFunction(l)
  BY <1>8, <1>9, <1>10
<1>13. SumFunction(g) - SumFunction(l) = SumFunction(i) - SumFunction(o) - SumFunction(r) + SumFunction(p)
  BY ONLY <1>11, <1>12, SMT
<1> QED
  BY <1>2, <1>3, <1>5, <1>6, <1>11, <1>13

(* Income and expenses in the diagram of some totals. *)
LEMMA DiagramIs ==
  ASSUME NEW T, TotalRows(T), NEW in \in Sorted(IncomeFlows(T)), NEW out \in Sorted(ExpenseFlows(T))
  PROVE  /\ in \in Seq(IncomeFlows(T)) /\ out \in Seq(ExpenseFlows(T))
         /\ OneToOne(in, 1..Len(in), IncomeFlows(T)) /\ OneToOne(out, 1..Len(out), ExpenseFlows(T))
         /\ SumOfFlows(in) = SumOf(IncomeFlows(T)) /\ SumOfFlows(Folded(out)) = SumOf(ExpenseFlows(T))
         /\ SumOfFlows(in) \in Int /\ SumOfFlows(Folded(out)) \in Int
         /\ Folded(out) \in Seq(ExpenseFlows(T) \cup {Rest(out)})
         /\ \A flow \in IncomeFlows(T) :
              /\ flow.amount \in Int /\ flow.amount > 0
              /\ \E row \in T : flow = Flow(row, Gain(row)) /\ Gain(row) > 0
         /\ \A flow \in ExpenseFlows(T) :
              /\ flow.amount \in Int /\ flow.amount > 0
              /\ \E row \in T : flow = Flow(row, Loss(row)) /\ Loss(row) > 0
<1> DEFINE g == [row \in T |-> Gain(row)]
           l == [row \in T |-> Loss(row)]
           I == IncomeFlows(T)
           E == ExpenseFlows(T)
<1>1. /\ g \in [T -> Int] /\ l \in [T -> Int]
      /\ \A row \in T : g[row] >= 0 /\ l[row] >= 0
      /\ I = FlowsOf(T, g) /\ E = FlowsOf(T, l)
  BY FlowsAre
<1>2. \A row \in T : g[row] = Gain(row) /\ l[row] = Loss(row)
  OBVIOUS
<1> HIDE DEF g, l, I, E
<1>3. /\ IsFiniteSet(I) /\ IsFiniteSet(E)
      /\ \A flow \in I : flow.amount \in Int /\ flow.amount > 0
                         /\ \E row \in T : flow = Flow(row, g[row]) /\ g[row] > 0
      /\ \A flow \in E : flow.amount \in Int /\ flow.amount > 0
                         /\ \E row \in T : flow = Flow(row, l[row]) /\ l[row] > 0
  BY <1>1, FlowsAddUp
<1>4. in \in Sorted(I) /\ out \in Sorted(E)
  BY DEF I, E
<1>5. /\ in \in Seq(I) /\ out \in Seq(E)
      /\ OneToOne(in, 1..Len(in), I) /\ OneToOne(out, 1..Len(out), E)
  BY <1>3, <1>4, SortedIs
<1>6. SumOfFlows(in) = SumOf(I) /\ SumOfFlows(out) = SumOf(E) /\ SumOf(I) \in Int /\ SumOf(E) \in Int
  BY <1>3, <1>4, SumOfSorted
<1>7. SumOfFlows(Folded(out)) = SumOfFlows(out) /\ Folded(out) \in Seq(E \cup {Rest(out)})
  BY <1>3, <1>5, FoldedIs
<1> QED
  BY <1>2, <1>3, <1>5, <1>6, <1>7 DEF I, E

LEMMA CarriedByOne ==
  ASSUME NEW links, NEW source, NEW target, NEW x, NEW amount \in Int,
         \A j \in DOMAIN links : links[j].source = source /\ links[j].target = target <=> j = x,
         x \in DOMAIN links, links[x].value = amount
  PROVE  Carried(links, source, target) = amount
<1> DEFINE v == [k \in {x} |-> links[k].value]
<1>1. {j \in DOMAIN links : links[j].source = source /\ links[j].target = target} = {x}
  OBVIOUS
<1>2. Carried(links, source, target) = SumFunction(v)
  BY <1>1 DEF Carried
<1>3. v \in [{x} -> Int] /\ v[x] = amount
  OBVIOUS
<1> HIDE DEF v
<1> QED
  BY <1>2, <1>3, SumSingle

LEMMA CarriedByNone ==
  ASSUME NEW links, NEW source, NEW target,
         \A j \in DOMAIN links : ~(links[j].source = source /\ links[j].target = target)
  PROVE  Carried(links, source, target) = 0
<1> DEFINE N == {j \in DOMAIN links : links[j].source = source /\ links[j].target = target}
           v == [k \in N |-> links[k].value]
<1>1. N = {}
  OBVIOUS
<1>2. Carried(links, source, target) = SumFunction(v)
  BY DEF Carried
<1>3. v \in [{} -> Int]
  <2> HIDE DEF N
  <2> QED BY <1>1
<1> HIDE DEF v
<1> QED
  BY <1>2, <1>3, SumEmpty

LEMMA RemainderIs ==
  ASSUME NEW links, NEW in, NEW shown, NEW e \in Int, NEW s \in Int, NEW m, NEW n,
         Laid(links, in, shown, e, s, m, n),
         \A k \in 1..m : in[k].name \notin RemainderWords,
         \A k \in 1..n : shown[k].name \notin RemainderWords
  PROVE  Carried(links, "Income", "Savings") - Carried(links, Drawn, "Income") = e - s
<1> DEFINE x == m + n + 1
<1>1. /\ m \in Nat /\ n \in Nat
      /\ e = s => DOMAIN links = 1..(m + n)
      /\ e # s => DOMAIN links = 1..(m + n + 1)
      /\ \A k \in 1..m : links[k] = IncomeLink(in[k])
      /\ \A k \in 1..n : links[m + k] = ExpenseLink(shown[k])
      /\ e > s => links[m + n + 1] = Link("Income", "Savings", e - s)
      /\ e < s => links[m + n + 1] = Link(Drawn, "Income", s - e)
  BY DEF Laid
<1>2. ASSUME NEW k \in 1..m
      PROVE  links[k].source # Drawn /\ links[k].target = "Income"
  <2>1. links[k] = IncomeLink(in[k])
    BY <1>1
  <2>2. IncomeNode(in[k].name) # Drawn
    BY Nodes
  <2> QED
    BY <2>1, <2>2 DEF IncomeLink, Link
<1>3. ASSUME NEW k \in 1..n
      PROVE  links[m + k].source = "Income" /\ links[m + k].target # "Savings"
  <2>1. links[m + k] = ExpenseLink(shown[k])
    BY <1>1
  <2>2. ExpenseNode(shown[k].name) # "Savings"
    BY Nodes
  <2> QED
    BY <2>1, <2>2 DEF ExpenseLink, Link
<1>4. ASSUME NEW j \in DOMAIN links, j # x
      PROVE  /\ ~(links[j].source = "Income" /\ links[j].target = "Savings")
             /\ ~(links[j].source = Drawn /\ links[j].target = "Income")
  <2>1. j \in 1..m \/ \E k \in 1..n : j = m + k
    <3>1. j \in Nat /\ 1 <= j /\ j <= m + n
      BY <1>1, <1>4
    <3>2. j \in 1..m \/ (j - m \in 1..n /\ j = m + (j - m))
      BY <1>1, <3>1
    <3> QED BY <3>2
  <2>2. CASE j \in 1..m
    BY <1>2, <2>2, Nodes
  <2>3. CASE \E k \in 1..n : j = m + k
    BY <1>3, <2>3, Nodes
  <2> QED
    BY <2>1, <2>2, <2>3
<1>5. CASE e > s
  <2>1. /\ x \in DOMAIN links /\ links[x].source = "Income" /\ links[x].target = "Savings"
        /\ links[x].value = e - s /\ e - s \in Int
    BY <1>1, <1>5, Nodes DEF Link
  <2> HIDE DEF x
  <2>2. Carried(links, "Income", "Savings") = e - s
    BY <1>4, <2>1, CarriedByOne
  <2>3. Carried(links, Drawn, "Income") = 0
    BY <1>4, <2>1, Nodes, CarriedByNone
  <2> QED
    BY <2>2, <2>3
<1>6. CASE e < s
  <2>1. /\ x \in DOMAIN links /\ links[x].source = Drawn /\ links[x].target = "Income"
        /\ links[x].value = s - e /\ s - e \in Int
    BY <1>1, <1>6, Nodes DEF Link
  <2> HIDE DEF x
  <2>2. Carried(links, Drawn, "Income") = s - e
    BY <1>4, <2>1, CarriedByOne
  <2>3. Carried(links, "Income", "Savings") = 0
    BY <1>4, <2>1, Nodes, CarriedByNone
  <2> QED
    BY <2>2, <2>3
<1>7. CASE e = s
  <2>1. x \notin DOMAIN links
    BY <1>1, <1>7
  <2> HIDE DEF x
  <2>2. Carried(links, Drawn, "Income") = 0 /\ Carried(links, "Income", "Savings") = 0
    BY <1>4, <2>1, Nodes, CarriedByNone
  <2> QED
    BY <1>7, <2>2
<1> QED
  BY <1>5, <1>6, <1>7

(* However many categories are folded and in whatever order equal ones come  *)
(* out of the sort, the remainder of the Sankey diagram is the net of the    *)
(* summary, up to the categories that net against their kind.                *)
THEOREM SankeyDoesTellNet ==
  ASSUME NEW d, Consistent(d)
  PROVE  SankeyTellsNetIn(d)
<1> SUFFICES ASSUME NEW u \in User, NEW range \in Ranges,
                    NamesOf(CategoryTotals(d, u, range[1], range[2])) \cap RemainderWords = {},
                    NEW links \in Sankeys(d, u, range[1], range[2])
             PROVE  LET summary == ReportSummary(d, u, range[1], range[2])
                        totals == CategoryTotals(d, u, range[1], range[2])
                    IN Carried(links, "Income", "Savings") - Carried(links, Drawn, "Income")
                         = summary.income - summary.expense - Refunded(totals) + PaidBack(totals)
  BY Zenon DEF SankeyTellsNetIn, Drawn
<1> DEFINE R == FlowRows(d, u, range[1], range[2])
           T == CategoryTotals(d, u, range[1], range[2])
           summary == ReportSummary(d, u, range[1], range[2])
<1>1. R \subseteq Transaction /\ IsFiniteSet(R) /\ T = Grouped(d, R)
  BY FlowRowsType DEF CategoryTotals
<1>2. TotalRows(T)
  <2> HIDE DEF R, T
  <2> QED BY <1>1, TotalsType
<1>3. summary.income = In(T) /\ summary.expense = Out(T)
  <2>1. summary.income = Inflow(R) /\ summary.expense = Outflow(R)
    BY DEF ReportSummary
  <2> HIDE DEF summary, R, T
  <2> QED BY <1>1, <2>1, TotalsAddUp
<1>4. PICK in \in Sorted(IncomeFlows(T)), out \in Sorted(ExpenseFlows(T)) : links = SankeyLinks(in, out)
  BY DEF Sankeys
<1>5. NamesOf(T) \cap RemainderWords = {}
  OBVIOUS
<1> HIDE DEF T, summary, R
<1> DEFINE shown == Folded(out)
<1>6. /\ in \in Seq(IncomeFlows(T)) /\ shown \in Seq(ExpenseFlows(T) \cup {Rest(out)})
      /\ SumOfFlows(in) = SumOf(IncomeFlows(T)) /\ SumOfFlows(shown) = SumOf(ExpenseFlows(T))
      /\ SumOfFlows(in) \in Int /\ SumOfFlows(shown) \in Int
      /\ \A flow \in IncomeFlows(T) : \E row \in T : flow = Flow(row, Gain(row))
      /\ \A flow \in ExpenseFlows(T) : \E row \in T : flow = Flow(row, Loss(row))
  BY <1>2, DiagramIs
<1>7. Laid(links, in, shown, SumOfFlows(in), SumOfFlows(shown), Len(in), Len(shown))
  BY <1>4, <1>6, LinksAre
<1>8. ASSUME NEW k \in 1..Len(in)
      PROVE  in[k].name \notin RemainderWords
  <2>1. in[k] \in IncomeFlows(T)
    BY <1>6
  <2> QED
    BY <1>5, <1>6, <2>1 DEF Flow, NamesOf
<1> HIDE DEF shown
<1>9. ASSUME NEW k \in 1..Len(shown)
      PROVE  shown[k].name \notin RemainderWords
  <2>1. shown[k] \in ExpenseFlows(T) \cup {Rest(out)}
    BY <1>6
  <2>2. CASE shown[k] \in ExpenseFlows(T)
    BY <1>5, <1>6, <2>2 DEF Flow, NamesOf
  <2>3. CASE shown[k] = Rest(out)
    BY <2>3, Nodes DEF Rest
  <2> QED
    BY <2>1, <2>2, <2>3
<1>10. Carried(links, "Income", "Savings") - Carried(links, Drawn, "Income")
         = SumOfFlows(in) - SumOfFlows(shown)
  BY <1>6, <1>7, <1>8, <1>9, RemainderIs
<1>11. SumOf(IncomeFlows(T)) - SumOf(ExpenseFlows(T)) = In(T) - Out(T) - Refunded(T) + PaidBack(T)
  BY <1>2, NetOfFlows
<1> QED
  BY <1>3, <1>6, <1>10, <1>11 DEF summary, T
-----------------------------------------------------------------------------
(* The nodes of the diagram. *)

UnknownIncome == "Uncategorized income"

UnknownExpense == "Uncategorized spending"

(* The nodes that stand for no category. *)
OwnNodes == {"Income", "Savings", "Other", Drawn, UnknownIncome, UnknownExpense}

LEMMA NodeNames ==
  /\ OwnNodes \subseteq NodeWords
  /\ \A name : /\ IncomeNode(name) \notin NodeWords => IncomeNode(name) = name
               /\ ExpenseNode(name) \notin NodeWords => ExpenseNode(name) = name
               /\ IncomeNode(name) = "Income" => name = "Income"
               /\ ExpenseNode(name) = "Income" => name = "Income"
  /\ IncomeNode("Uncategorized") = UnknownIncome
  /\ ExpenseNode("Uncategorized") = UnknownExpense /\ ExpenseNode("Other") = "Other"
  /\ UnknownIncome \notin {"Income", "Savings", "Other", Drawn, UnknownExpense}
  /\ UnknownExpense \notin {"Income", "Savings", "Other", Drawn}
  /\ Drawn \notin {"Income", "Savings", "Other"}
<1>1. OwnNodes \subseteq NodeWords
  BY Zenon DEF OwnNodes, NodeWords, RemainderWords, Drawn, UnknownIncome, UnknownExpense
<1>2. ASSUME NEW name
      PROVE  /\ IncomeNode(name) \notin NodeWords => IncomeNode(name) = name
             /\ ExpenseNode(name) \notin NodeWords => ExpenseNode(name) = name
             /\ IncomeNode(name) = "Income" => name = "Income"
             /\ ExpenseNode(name) = "Income" => name = "Income"
  <2>1. /\ IncomeNode(name) = name \/ IncomeNode(name) = UnknownIncome
        /\ ExpenseNode(name) = name \/ ExpenseNode(name) = UnknownExpense
    BY Zenon DEF IncomeNode, ExpenseNode, NodeName, UnknownIncome, UnknownExpense
  <2>2. UnknownIncome \in NodeWords /\ UnknownExpense \in NodeWords
    BY <1>1 DEF OwnNodes
  <2>3. UnknownIncome # "Income" /\ UnknownExpense # "Income"
    BY Zenon DEF UnknownIncome, UnknownExpense
  <2> QED
    BY <2>1, <2>2, <2>3
<1>3. IncomeNode("Uncategorized") = UnknownIncome
  BY Zenon DEF IncomeNode, NodeName, UnknownIncome
<1>4. ExpenseNode("Uncategorized") = UnknownExpense /\ ExpenseNode("Other") = "Other"
  BY Zenon DEF ExpenseNode, NodeName, UnknownExpense
<1>5. UnknownIncome \notin {"Income", "Savings", "Other", Drawn, UnknownExpense}
  BY Zenon DEF UnknownIncome, UnknownExpense, Drawn
<1>6. UnknownExpense \notin {"Income", "Savings", "Other", Drawn}
  BY Zenon DEF UnknownExpense, Drawn
<1>7. Drawn \notin {"Income", "Savings", "Other"}
  BY Zenon DEF Drawn
<1> QED
  BY <1>1, <1>2, <1>3, <1>4, <1>5, <1>6, <1>7

(* What the links of a diagram join, one after the other. *)
LEMMA EndsAre ==
  ASSUME NEW links, NEW in, NEW shown, NEW e \in Int, NEW s \in Int, NEW m, NEW n,
         Laid(links, in, shown, e, s, m, n),
         \A k \in 1..m : in[k].amount > 0,
         \A k \in 1..n : shown[k].amount > 0,
         NEW k \in DOMAIN links
  PROVE  /\ links[k].value > 0 /\ "Income" \in {links[k].source, links[k].target}
         /\ \/ k \in 1..m /\ Outer(links[k]) = IncomeNode(in[k].name)
            \/ k - m \in 1..n /\ k = m + (k - m) /\ Outer(links[k]) = ExpenseNode(shown[k - m].name)
            \/ k = m + n + 1 /\ Outer(links[k]) \in {"Savings", Drawn}
<1>1. /\ m \in Nat /\ n \in Nat
      /\ e = s => DOMAIN links = 1..(m + n)
      /\ e # s => DOMAIN links = 1..(m + n + 1)
      /\ \A i \in 1..m : links[i] = IncomeLink(in[i])
      /\ \A i \in 1..n : links[m + i] = ExpenseLink(shown[i])
      /\ e > s => links[m + n + 1] = Link("Income", "Savings", e - s)
      /\ e < s => links[m + n + 1] = Link(Drawn, "Income", s - e)
  BY DEF Laid
<1>2. /\ k \in Nat
      /\ \/ k \in 1..m
         \/ k - m \in 1..n /\ k = m + (k - m)
         \/ k = m + n + 1 /\ e # s
  BY <1>1
<1>3. CASE k \in 1..m
  <2>1. links[k] = Link(IncomeNode(in[k].name), "Income", in[k].amount)
    BY <1>1, <1>3 DEF IncomeLink
  <2>2. /\ links[k].source = IncomeNode(in[k].name) /\ links[k].target = "Income"
        /\ links[k].value = in[k].amount
    BY <2>1 DEF Link
  <2> QED
    BY <1>3, <2>2 DEF Outer
<1>4. CASE k - m \in 1..n /\ k = m + (k - m)
  <2>1. links[m + (k - m)] = Link("Income", ExpenseNode(shown[k - m].name), shown[k - m].amount)
    BY <1>1, <1>4 DEF ExpenseLink
  <2>2. links[k] = Link("Income", ExpenseNode(shown[k - m].name), shown[k - m].amount)
    BY <1>4, <2>1
  <2>3. /\ links[k].source = "Income" /\ links[k].target = ExpenseNode(shown[k - m].name)
        /\ links[k].value = shown[k - m].amount
    BY <2>2 DEF Link
  <2>4. shown[k - m].amount > 0
    BY <1>4
  <2> QED
    BY <1>4, <2>3, <2>4 DEF Outer
<1>5. CASE k = m + n + 1 /\ e # s
  <2>1. CASE e > s
    <3>1. links[k].source = "Income" /\ links[k].target = "Savings" /\ links[k].value = e - s
      BY <1>1, <1>5, <2>1 DEF Link
    <3>2. e - s > 0
      BY <2>1
    <3> QED
      BY <1>5, <3>1, <3>2 DEF Outer
  <2>2. CASE e < s
    <3>1. links[k].source = Drawn /\ links[k].target = "Income" /\ links[k].value = s - e
      BY <1>1, <1>5, <2>2 DEF Link
    <3>2. s - e > 0 /\ Drawn # "Income"
      BY <2>2, Nodes
    <3> QED
      BY <1>5, <3>1, <3>2 DEF Outer
  <2> QED
    BY <1>5, <2>1, <2>2
<1> QED
  BY <1>2, <1>3, <1>4, <1>5

(* A category that rows refer to is there, and has a kind. *)
LEMMA TotalNames ==
  ASSUME NEW d, Consistent(d), NEW R, R \subseteq d.transactions, NEW row \in Grouped(d, R)
  PROVE  /\ row.category = NULL => row.name = "Uncategorized" /\ row.kind = NULL
         /\ row.category # NULL => row.kind \in {"income", "expense"}
<1>1. PICK id \in CategoriesOf(R) : row = TotalOf(d, R, id)
  BY GroupedIs
<1>2. /\ row.category = id
      /\ row.name = IF Joined(d, id) = {} THEN "Uncategorized" ELSE (CHOOSE c \in Joined(d, id) : TRUE).name
      /\ row.kind = IF Joined(d, id) = {} THEN NULL ELSE (CHOOSE c \in Joined(d, id) : TRUE).kind
  BY <1>1 DEF TotalOf, Joined
<1>3. \A c \in d.categories : c.id # NULL /\ c.kind \in {"income", "expense"}
  BY Tables, NullAssumption, ReportsAssumption DEF Category
<1>4. CASE id = NULL
  <2>1. Joined(d, id) = {}
    BY <1>3, <1>4 DEF Joined
  <2> QED
    BY <1>2, <1>4, <2>1
<1>5. CASE id # NULL
  <2>1. PICK t \in R : id = t.category
    BY DEF CategoriesOf
  <2>2. CategoryLive(d, id)
    BY <2>1 DEF Consistent, ReferencesLiveIn
  <2>3. Joined(d, id) # {}
    BY <1>5, <2>2 DEF CategoryLive, Ids, Joined
  <2>4. (CHOOSE c \in Joined(d, id) : TRUE) \in d.categories
    BY <2>3 DEF Joined
  <2> QED
    BY <1>2, <1>3, <1>5, <2>3, <2>4
<1> QED
  BY <1>4, <1>5

(* What is shown of the expenses is each of them once, or some and the rest. *)
LEMMA ShownIs ==
  ASSUME NEW E, \A flow \in E : flow.amount \in Int /\ flow.amount > 0, NEW out \in Seq(E),
         \A j, k \in 1..Len(out) : out[j] = out[k] => j = k,
         Rest(out) \notin E
  PROVE  /\ \A j, k \in 1..Len(Folded(out)) : Folded(out)[j] = Folded(out)[k] => j = k
         /\ \A k \in 1..Len(Folded(out)) :
              Folded(out)[k] \in E \cup {Rest(out)} /\ Folded(out)[k].amount > 0
<1> DEFINE n == MaxExpenseNodes
           shown == Folded(out)
<1>1. /\ shown \in Seq(E \cup {Rest(out)})
      /\ Len(out) <= n => shown = out
      /\ Len(out) > n => /\ Len(shown) = n + 1
                         /\ \A k \in 1..n : shown[k] = out[k]
                         /\ shown[n + 1] = Rest(out)
      /\ Len(out) > n => Rest(out).amount > 0
  BY FoldedIs
<1>2. n \in Nat /\ Len(out) \in Nat /\ \A k \in 1..Len(out) : out[k] \in E
  BY ReportsAssumption
<1> HIDE DEF n, shown
<1>3. CASE Len(out) <= n
  BY <1>1, <1>2, <1>3 DEF shown
<1>4. CASE Len(out) > n
  <2>1. ASSUME NEW k \in 1..Len(shown)
        PROVE  \/ k \in 1..n /\ k \in 1..Len(out) /\ shown[k] = out[k] /\ shown[k] \in E
               \/ k = n + 1 /\ shown[k] = Rest(out)
    <3>1. k \in 1..n \/ k = n + 1
      BY <1>1, <1>2, <1>4
    <3>2. k \in 1..n => k \in 1..Len(out)
      BY <1>2, <1>4
    <3> QED
      BY <1>1, <1>2, <1>4, <3>1, <3>2
  <2>2. \A j, k \in 1..Len(shown) : shown[j] = shown[k] => j = k
    <3> SUFFICES ASSUME NEW j \in 1..Len(shown), NEW k \in 1..Len(shown), shown[j] = shown[k]
                 PROVE  j = k
      OBVIOUS
    <3>1. \/ j \in 1..Len(out) /\ shown[j] = out[j] /\ shown[j] \in E
          \/ j = n + 1 /\ shown[j] = Rest(out)
      BY <2>1
    <3>2. \/ k \in 1..Len(out) /\ shown[k] = out[k] /\ shown[k] \in E
          \/ k = n + 1 /\ shown[k] = Rest(out)
      BY <2>1
    <3> QED
      BY <3>1, <3>2
  <2>3. \A k \in 1..Len(shown) : shown[k] \in E \cup {Rest(out)} /\ shown[k].amount > 0
    BY <1>1, <1>4, <2>1
  <2> QED
    BY <2>2, <2>3 DEF shown
<1> QED
  BY <1>2, <1>3, <1>4

(* Whatever the categories are called, every link of the diagram carries     *)
(* something between Income and a node that two links share only where a     *)
(* category's name is a word of reportSankey's own or that of another one.   *)
THEOREM SankeyIsLayered ==
  ASSUME NEW d, Consistent(d)
  PROVE  SankeyLayeredIn(d)
<1> SUFFICES ASSUME NEW u \in User, NEW range \in Ranges,
                    NEW links \in Sankeys(d, u, range[1], range[2])
             PROVE  LET T == CategoryTotals(d, u, range[1], range[2])
                    IN Layered(links, {row \in T : row.category # NULL})
  BY DEF SankeyLayeredIn
<1> DEFINE R == FlowRows(d, u, range[1], range[2])
           T == CategoryTotals(d, u, range[1], range[2])
           named == {row \in T : row.category # NULL}
<1>1. R \subseteq d.transactions /\ R \subseteq Transaction /\ IsFiniteSet(R) /\ T = Grouped(d, R)
  BY FlowRowsType DEF CategoryTotals
<1>2. TotalRows(T)
  <2> HIDE DEF R, T
  <2> QED BY <1>1, TotalsType
<1>4. PICK in \in Sorted(IncomeFlows(T)), out \in Sorted(ExpenseFlows(T)) : links = SankeyLinks(in, out)
  BY DEF Sankeys
<1> HIDE DEF T, R
<1>5. ASSUME NEW row \in T
      PROVE  /\ row.category = NULL => row.name = "Uncategorized" /\ row.kind = NULL
             /\ row.category # NULL => row.kind \in {"income", "expense"}
  BY <1>1, TotalNames
<1>6. \A row, other \in T : row.category = other.category => row = other
  BY <1>2 DEF TotalRows
<1> DEFINE shown == Folded(out)
           E == ExpenseFlows(T)
           I == IncomeFlows(T)
<1>7. /\ in \in Seq(I) /\ out \in Seq(E)
      /\ OneToOne(in, 1..Len(in), I) /\ OneToOne(out, 1..Len(out), E)
      /\ shown \in Seq(E \cup {Rest(out)})
      /\ SumOfFlows(in) \in Int /\ SumOfFlows(shown) \in Int
      /\ \A flow \in I : /\ flow.amount \in Int /\ flow.amount > 0
                         /\ \E row \in T : flow = Flow(row, Gain(row)) /\ Gain(row) > 0
      /\ \A flow \in E : /\ flow.amount \in Int /\ flow.amount > 0
                         /\ \E row \in T : flow = Flow(row, Loss(row)) /\ Loss(row) > 0
  BY <1>2, DiagramIs
<1> HIDE DEF I, E
<1>8. ASSUME NEW flow \in I
      PROVE  \E row \in T : /\ flow = Flow(row, Gain(row)) /\ flow.name = row.name
                            /\ row.category = NULL \/ row.kind = "income"
  <2>1. PICK row \in T : flow = Flow(row, Gain(row)) /\ Gain(row) > 0
    BY <1>7
  <2>2. row.kind \in {"income", NULL}
    BY <2>1 DEF Gain
  <2>3. row.category = NULL \/ row.kind = "income"
    BY <1>5, <2>2, NoKind
  <2> QED
    BY <2>1, <2>3 DEF Flow
<1>9. ASSUME NEW flow \in E
      PROVE  \E row \in T : /\ flow = Flow(row, Loss(row)) /\ flow.name = row.name
                            /\ flow.category = row.category
                            /\ row.category = NULL \/ row.kind = "expense"
  <2>1. PICK row \in T : flow = Flow(row, Loss(row)) /\ Loss(row) > 0
    BY <1>7
  <2>2. row.kind \in {"expense", NULL}
    BY <2>1 DEF Loss
  <2>3. row.category = NULL \/ row.kind = "expense"
    BY <1>5, <2>2, NoKind
  <2> QED
    BY <2>1, <2>3 DEF Flow
<1>10. Rest(out).name = "Other" /\ Rest(out).category = NULL /\ Rest(out) \notin E
  <2>1. Rest(out).name = "Other" /\ Rest(out).category = NULL
    BY DEF Rest
  <2>2. "Other" # "Uncategorized"
    OBVIOUS
  <2> QED
    BY <1>5, <1>9, <2>1, <2>2
<1>11. /\ \A j, k \in 1..Len(shown) : shown[j] = shown[k] => j = k
       /\ \A k \in 1..Len(shown) : shown[k] \in E \cup {Rest(out)} /\ shown[k].amount > 0
  <2>1. \A j, k \in 1..Len(out) : out[j] = out[k] => j = k
    BY <1>7 DEF OneToOne
  <2> QED
    BY <1>7, <1>10, <2>1, ShownIs
<1>12. /\ \A k \in 1..Len(in) : in[k] \in I /\ in[k].amount > 0
       /\ \A j, k \in 1..Len(in) : in[j] = in[k] => j = k
  BY <1>7 DEF OneToOne
<1>13. Laid(links, in, shown, SumOfFlows(in), SumOfFlows(shown), Len(in), Len(shown))
  <2>1. in \in Seq(I) /\ Folded(out) \in Seq(E \cup {Rest(out)}) /\ SumOfFlows(in) \in Int
        /\ SumOfFlows(Folded(out)) \in Int
    BY <1>7 DEF shown
  <2> QED
    BY <1>4, <2>1, LinksAre DEF shown
<1> DEFINE m == Len(in)
           n == Len(shown)
           Income(k, row) ==
             /\ k \in 1..m /\ row \in T /\ in[k] = Flow(row, Gain(row))
             /\ Outer(links[k]) = IncomeNode(row.name)
             /\ row.category = NULL \/ row.kind = "income"
           Expense(k, row) ==
             /\ k - m \in 1..n /\ k = m + (k - m) /\ row \in T /\ shown[k - m] = Flow(row, Loss(row))
             /\ Outer(links[k]) = ExpenseNode(row.name)
             /\ row.category = NULL \/ row.kind = "expense"
           Remaining(k) ==
             /\ k - m \in 1..n /\ k = m + (k - m) /\ shown[k - m] = Rest(out)
             /\ Outer(links[k]) = "Other"
           Balancing(k) == k = m + n + 1 /\ Outer(links[k]) \in {"Savings", Drawn}
<1> HIDE DEF shown
<1>14. ASSUME NEW k \in DOMAIN links
       PROVE  /\ links[k].value > 0 /\ "Income" \in {links[k].source, links[k].target}
              /\ \/ k \in 1..m /\ Outer(links[k]) = IncomeNode(in[k].name)
                 \/ k - m \in 1..n /\ k = m + (k - m) /\ Outer(links[k]) = ExpenseNode(shown[k - m].name)
                 \/ k = m + n + 1 /\ Outer(links[k]) \in {"Savings", Drawn}
  BY <1>7, <1>11, <1>12, <1>13, EndsAre
<1>15. ASSUME NEW k \in DOMAIN links
       PROVE  \/ \E row \in T : Income(k, row) \/ Expense(k, row)
              \/ Remaining(k) \/ Balancing(k)
  <2>1. CASE k \in 1..m /\ Outer(links[k]) = IncomeNode(in[k].name)
    BY <1>8, <1>12, <2>1
  <2>2. CASE k - m \in 1..n /\ k = m + (k - m) /\ Outer(links[k]) = ExpenseNode(shown[k - m].name)
    <3>1. shown[k - m] \in E \/ shown[k - m] = Rest(out)
      BY <1>11, <2>2
    <3>2. CASE shown[k - m] \in E
      BY <1>9, <2>2, <3>2
    <3>3. CASE shown[k - m] = Rest(out)
      BY <1>10, <2>2, <3>3, NodeNames
    <3> QED
      BY <3>1, <3>2, <3>3
  <2>3. CASE k = m + n + 1 /\ Outer(links[k]) \in {"Savings", Drawn}
    BY <2>3
  <2> QED
    BY <1>14, <2>1, <2>2, <2>3
(* One link stands for one thing. *)
<1>16. ASSUME NEW j, NEW k, NEW row
       PROVE  /\ Income(j, row) /\ Income(k, row) => j = k
              /\ Expense(j, row) /\ Expense(k, row) => j = k
              /\ Remaining(j) /\ Remaining(k) => j = k
              /\ Balancing(j) /\ Balancing(k) => j = k
  <2>1. ASSUME j - m \in 1..n, k - m \in 1..n, j = m + (j - m), k = m + (k - m),
               shown[j - m] = shown[k - m]
        PROVE  j = k
    <3>1. j - m = k - m
      BY <1>11, <2>1
    <3> QED
      BY <2>1, <3>1
  <2> QED
    BY <1>12, <2>1
<1> HIDE DEF m, n
<1>17. ASSUME NEW k, NEW row, Income(k, row) \/ Expense(k, row)
       PROVE  /\ row \in T /\ Outer(links[k]) \in NodesOf(row)
              /\ Outer(links[k]) \notin NodeWords => Outer(links[k]) = row.name
              /\ Outer(links[k]) = "Income" => row.name = "Income"
              /\ row.category = NULL =>
                   Outer(links[k]) = IF Income(k, row) THEN UnknownIncome ELSE UnknownExpense
  <2>1. NodesOf(row) = {IncomeNode(row.name), ExpenseNode(row.name)}
    BY DEF NodesOf, IncomeNode, ExpenseNode
  <2>2. row \in T /\ (row.category = NULL => row.name = "Uncategorized")
    BY <1>5, <1>17
  <2>3. CASE Income(k, row)
    BY <2>1, <2>2, <2>3, NodeNames
  <2>4. CASE ~Income(k, row)
    <3>1. Expense(k, row)
      BY <1>17, <2>4
    <3> QED
      BY <2>1, <2>2, <2>4, <3>1, NodeNames
  <2> QED
    BY <2>3, <2>4
<1>18. ASSUME NEW k, Remaining(k) \/ Balancing(k)
       PROVE  Outer(links[k]) \in {"Other", "Savings", Drawn}
  BY <1>18
<1>19. ASSUME NEW k \in DOMAIN links, Outer(links[k]) = "Income"
       PROVE  "Income" \in NamesOf(named)
  <2>1. ~(Remaining(k) \/ Balancing(k))
    <3> HIDE DEF Remaining, Balancing
    <3> QED
      BY <1>18, <1>19, NodeNames
  <2>2. PICK row \in T : Income(k, row) \/ Expense(k, row)
    BY <1>15, <2>1
  <2> HIDE DEF Income, Expense
  <2>3. row.name = "Income" /\ row.category # NULL
    BY <1>17, <1>19, <2>2, NodeNames
  <2> QED
    BY <2>3 DEF NamesOf
<1>20. ASSUME NEW j \in DOMAIN links, NEW k \in DOMAIN links, j # k, Outer(links[j]) = Outer(links[k])
       PROVE  \E row \in named : Outer(links[j]) \in NodesOf(row) /\ Taken(Outer(links[j]), row, named)
  <2> DEFINE node == Outer(links[j])
             Shown(i, row) == Income(i, row) \/ Expense(i, row)
             Own(i) == \/ \E row \in T : row.category = NULL /\ Shown(i, row)
                       \/ Remaining(i) \/ Balancing(i)
  <2>1. Outer(links[k]) = node
    BY <1>20
  <2>2. ASSUME NEW i \in {j, k}
        PROVE  Own(i) \/ \E row \in named : Shown(i, row)
    BY <1>15
  <2>3. ASSUME NEW i \in {j, k}, Own(i)
        PROVE  /\ node \in NodeWords
               /\ \/ node = UnknownIncome /\ \E row \in T : row.category = NULL /\ Income(i, row)
                  \/ node = UnknownExpense /\ \E row \in T : row.category = NULL /\ Expense(i, row)
                  \/ node = "Other" /\ Remaining(i)
                  \/ node \in {"Savings", Drawn} /\ Balancing(i)
    <3>1. Outer(links[i]) = node
      BY <2>1
    <3>2. OwnNodes \subseteq NodeWords
      BY NodeNames
    <3>3. CASE Remaining(i)
      <4>1. node = "Other"
        BY <3>1, <3>3
      <4> QED
        BY <3>2, <3>3, <4>1 DEF OwnNodes
    <3>4. CASE Balancing(i)
      <4>1. node \in {"Savings", Drawn}
        BY <3>1, <3>4
      <4> HIDE DEF Balancing, node
      <4> QED
        BY <3>2, <3>4, <4>1 DEF OwnNodes
    <3>5. ASSUME NEW row \in T, row.category = NULL, Shown(i, row)
          PROVE  /\ node \in NodeWords
                 /\ \/ node = UnknownIncome /\ Income(i, row)
                    \/ node = UnknownExpense /\ Expense(i, row)
      <4> HIDE DEF Income, Expense
      <4>1. node = IF Income(i, row) THEN UnknownIncome ELSE UnknownExpense
        BY <1>17, <3>1, <3>5
      <4> QED
        BY <3>2, <3>5, <4>1 DEF OwnNodes
    <3> HIDE DEF Income, Expense, Remaining, Balancing, node
    <3> QED
      BY <2>3, <3>3, <3>4, <3>5
  <2>4. ASSUME NEW i \in {j, k}, NEW row \in named, Shown(i, row)
        PROVE  /\ node \in NodesOf(row)
               /\ node \notin NodeWords => node = row.name
    <3> HIDE DEF Income, Expense
    <3> QED
      BY <1>17, <2>1, <2>4
  <2>5. CASE \E i \in {j, k} : \E row \in named : Shown(i, row)
    <3>1. PICK i \in {j, k} : \E row \in named : Shown(i, row)
      BY <2>5
    <3>2. PICK row \in named : Shown(i, row)
      BY <3>1
    <3> HIDE DEF Income, Expense, Remaining, Balancing, node
    <3>3. CASE node \in NodeWords
      <4>1. node \in NodesOf(row) /\ Taken(node, row, named)
        BY <2>4, <3>2, <3>3 DEF Taken
      <4> QED
        BY <4>1 DEF node
    <3>4. CASE node \notin NodeWords
      <4>1. PICK one \in named : Shown(j, one)
        BY <2>2, <2>3, <3>4
      <4>2. PICK two \in named : Shown(k, two)
        BY <2>2, <2>3, <3>4
      <4>3. node = one.name /\ node = two.name /\ node \in NodesOf(one)
        BY <2>4, <3>4, <4>1, <4>2
      <4>4. one # two
        <5> SUFFICES ASSUME one = two PROVE FALSE
          OBVIOUS
        <5>1. one.category # NULL
          OBVIOUS
        <5>2. /\ ~(Income(j, one) /\ Income(k, one))
              /\ ~(Expense(j, one) /\ Expense(k, one))
          BY <1>16, <1>20
        <5>3. ~(one.kind = "income" /\ one.kind = "expense")
          OBVIOUS
        <5>4. \A i0 : /\ Income(i0, one) => one.kind = "income"
                      /\ Expense(i0, one) => one.kind = "expense"
          BY <5>1 DEF Income, Expense
        <5> QED
          BY <4>1, <4>2, <5>2, <5>3, <5>4
      <4>5. Taken(node, one, named)
        BY <4>3, <4>4 DEF Taken
      <4> QED
        BY <4>3, <4>5 DEF node
    <3> QED
      BY <3>3, <3>4
  <2>6. CASE ~ \E i \in {j, k} : \E row \in named : Shown(i, row)
    <3> HIDE DEF Income, Expense, Remaining, Balancing, node
    <3>1. Own(j) /\ Own(k)
      BY <2>2, <2>6
    <3>2. /\ UnknownIncome \notin {UnknownExpense, "Other", "Savings", Drawn}
          /\ UnknownExpense \notin {"Other", "Savings", Drawn}
          /\ "Other" \notin {"Savings", Drawn}
      BY NodeNames
    <3>3. /\ \A row, other \in T : row.category = NULL /\ other.category = NULL => row = other
      BY <1>6
    <3> HIDE DEF Own
    <3>4. /\ \/ node = UnknownIncome /\ \E row \in T : row.category = NULL /\ Income(j, row)
             \/ node = UnknownExpense /\ \E row \in T : row.category = NULL /\ Expense(j, row)
             \/ node = "Other" /\ Remaining(j)
             \/ node \in {"Savings", Drawn} /\ Balancing(j)
          /\ \/ node = UnknownIncome /\ \E row \in T : row.category = NULL /\ Income(k, row)
             \/ node = UnknownExpense /\ \E row \in T : row.category = NULL /\ Expense(k, row)
             \/ node = "Other" /\ Remaining(k)
             \/ node \in {"Savings", Drawn} /\ Balancing(k)
      BY <2>3, <3>1
    <3>5. \/ \E row \in T : Income(j, row) /\ Income(k, row)
          \/ \E row \in T : Expense(j, row) /\ Expense(k, row)
          \/ Remaining(j) /\ Remaining(k)
          \/ Balancing(j) /\ Balancing(k)
      BY <3>2, <3>3, <3>4
    <3> QED
      BY <1>16, <1>20, <3>5
  <2> QED
    BY <2>5, <2>6
<1> HIDE DEF named
<1>21. Layered(links, named)
  <2>1. ASSUME NEW k \in DOMAIN links
        PROVE  /\ links[k].value > 0 /\ "Income" \in {links[k].source, links[k].target}
               /\ Outer(links[k]) = "Income" => "Income" \in NamesOf(named)
    BY <1>14, <1>19
  <2>2. ASSUME NEW j \in DOMAIN links, NEW k \in DOMAIN links, j # k,
               Outer(links[k]) = Outer(links[j])
        PROVE  \E row \in named : Outer(links[j]) \in NodesOf(row) /\ Taken(Outer(links[j]), row, named)
    BY <1>20, <2>2
  <2> QED
    BY <2>1, <2>2 DEF Layered
<1> QED
  BY <1>21 DEF named, T
=============================================================================
