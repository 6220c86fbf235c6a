------------------------------ MODULE Induction ------------------------------
(***************************************************************************)
(* What the proofs know of natural numbers and of folds: that a set of     *)
(* natural numbers has a least element, that a set which holds 0 and every *)
(* successor holds them all, that a fold over a sequence runs through the  *)
(* values its operator makes of one element after the other, and that a    *)
(* sum over a finite set is a number.                                      *)
(*                                                                         *)
(* The module is instantiated for each fold of the models.                 *)
(***************************************************************************)
EXTENDS Integers, Folds, FiniteSets, FiniteSetTheorems, WellFoundedInduction, TLAPS

CONSTANTS
  Op(_, _),  \* the operator of the fold
  Base       \* and its first value

Below == {p \in Nat \X Nat : p[1] < p[2]}

LEMMA BelowIsWellFounded == IsWellFoundedOn(Below, Nat)
BY NatLessThanWellFounded DEF OpToRel, Below

\* Every set of natural numbers has a least element.
LEMMA LeastNat ==
  ASSUME NEW T \in SUBSET Nat, T # {}
  PROVE  \E x \in T : \A y \in T : x <= y
<1>1. PICK x \in T : \A y \in T : ~(<<y, x>> \in Below)
  BY BelowIsWellFounded, WFMin, Zenon
<1>2. \A y \in T : ~(y < x)
  BY <1>1 DEF Below
<1> QED BY <1>2

\* Induction.
LEMMA AllNat ==
  ASSUME NEW T \in SUBSET Nat, 0 \in T, \A n \in T : n + 1 \in T
  PROVE  T = Nat
<1> SUFFICES ASSUME Nat \ T # {} PROVE FALSE
  OBVIOUS
<1>1. PICK x \in Nat \ T : \A y \in Nat \ T : x <= y
  BY LeastNat
<1>2. x # 0 /\ x - 1 \in Nat
  OBVIOUS
<1>3. x - 1 \in T
  BY <1>1, <1>2
<1>4. (x - 1) + 1 = x
  OBVIOUS
<1> QED BY <1>3, <1>4

\* Induction up to a bound.
LEMMA UpTo ==
  ASSUME NEW n \in Nat, NEW T \in SUBSET (0..n), 0 \in T,
         \A k \in T : k < n => k + 1 \in T
  PROVE  T = 0..n
<1> DEFINE U == T \cup {k \in Nat : k > n}
<1>1. \A x \in T : x \in Nat /\ x <= n
  OBVIOUS
<1>2. U \in SUBSET Nat /\ 0 \in U
  BY <1>1
<1>3. \A k \in U : k + 1 \in U
  BY <1>1
<1>4. U = Nat
  BY <1>2, <1>3, AllNat
<1>5. \A k \in 0..n : k \in T
  BY <1>4
<1> QED BY <1>5

\* The greatest element of a set of numbers.
Top(S) == CHOOSE x \in S : \A y \in S : x >= y

LEMMA TopOfSegment ==
  ASSUME NEW k \in Nat, NEW S \in SUBSET (1..(k + 1)), k + 1 \in S
  PROVE  Top(S) = k + 1
<1>1. \A y \in S : k + 1 >= y
  OBVIOUS
<1>2. \A x \in S : x \in Nat
  OBVIOUS
<1>3. \A x \in S : (\A y \in S : x >= y) => x = k + 1
  BY <1>1, <1>2
<1> QED BY <1>1, <1>3 DEF Top

LEMMA TopInside ==
  ASSUME NEW k \in Nat, NEW S \in SUBSET (1..k), S # {}
  PROVE  Top(S) \in S
<1> DEFINE T == {k - x : x \in S}
<1>0. \A x \in S : x \in Nat /\ k - x \in Nat
  OBVIOUS
<1>1. T \in SUBSET Nat /\ T # {}
  BY <1>0
<1>2. PICK m \in T : \A y \in T : m <= y
  BY <1>1, LeastNat
<1>3. PICK x \in S : m = k - x
  OBVIOUS
<1>4. \A y \in S : x >= y
  <2> TAKE y \in S
  <2>1. k - y \in T
    OBVIOUS
  <2> QED BY <1>0, <1>2, <1>3, <2>1
<1> QED BY <1>4 DEF Top

\* FoldLeft applies the operator from the greatest index down.
Step(s, h, S) == IF S = {} THEN Base ELSE Op(h[S \ {Top(S)}], s[Top(S)])

Iterates(h, n, s) == h = [S \in SUBSET (1..n) |-> Step(s, h, S)]

\* The recursion is defined on the subsets of an initial segment.
LEMMA IterExists ==
  ASSUME NEW n \in Nat, NEW s
  PROVE  \E h : Iterates(h, n, s)
<1> DEFINE K == {k \in 0..n : \E h : Iterates(h, k, s)}
<1> HIDE DEF K
<1>1. 0 \in K
  <2> DEFINE h == [S \in SUBSET (1..0) |-> Base]
  <2>1. \A S \in SUBSET (1..0) : S = {}
    OBVIOUS
  <2>2. \A S \in SUBSET (1..0) : Step(s, h, S) = Base
    BY <2>1 DEF Step
  <2>3. h = [S \in SUBSET (1..0) |-> Step(s, h, S)]
    BY <2>2
  <2>4. 0 \in 0..n
    OBVIOUS
  <2> HIDE DEF h
  <2>5. Iterates(h, 0, s)
    BY <2>3 DEF Iterates
  <2> QED BY <2>4, <2>5 DEF K
<1>2. ASSUME NEW k \in K, k < n PROVE k + 1 \in K
  <2>1. k \in 0..n /\ k \in Nat /\ k + 1 \in 1..n /\ k + 1 \in 0..n
    BY <1>2 DEF K
  <2>2. PICK h : Iterates(h, k, s)
    BY DEF K
  <2>3. \A S \in SUBSET (1..k) : h[S] = Step(s, h, S)
    BY <2>2 DEF Iterates
  <2> DEFINE h2 == [S \in SUBSET (1..(k + 1)) |->
                      IF k + 1 \in S THEN Op(h[S \ {k + 1}], s[k + 1]) ELSE h[S]]
  <2>4. \A S \in SUBSET (1..(k + 1)) : /\ k + 1 \in S => S \ {k + 1} \in SUBSET (1..k)
                                       /\ k + 1 \notin S => S \in SUBSET (1..k)
    BY <2>1
  <2>5. ASSUME NEW S \in SUBSET (1..(k + 1)), k + 1 \in S PROVE h2[S] = Step(s, h2, S)
    <3>1. Top(S) = k + 1
      BY <2>1, <2>5, TopOfSegment
    <3>2. S \ {k + 1} \in SUBSET (1..(k + 1)) /\ k + 1 \notin S \ {k + 1}
      OBVIOUS
    <3>3. h2[S \ {k + 1}] = h[S \ {k + 1}]
      BY <3>2
    <3>4. h2[S] = Op(h[S \ {k + 1}], s[k + 1])
      BY <2>5
    <3> HIDE DEF h2
    <3> QED BY <2>5, <3>1, <3>3, <3>4 DEF Step
  <2>6. ASSUME NEW S \in SUBSET (1..(k + 1)), k + 1 \notin S PROVE h2[S] = Step(s, h2, S)
    <3>1. S \in SUBSET (1..k) /\ h2[S] = h[S]
      BY <2>4, <2>6
    <3>2. CASE S # {}
      <4>1. Top(S) \in S
        BY <2>1, <3>1, <3>2, TopInside
      <4>2. k + 1 \notin S \ {Top(S)} /\ S \ {Top(S)} \in SUBSET (1..(k + 1))
        BY <2>6
      <4>3. h2[S \ {Top(S)}] = h[S \ {Top(S)}]
        BY <4>2
      <4> HIDE DEF h2
      <4> QED BY <2>3, <3>1, <4>3 DEF Step
    <3>3. CASE S = {}
      <4> HIDE DEF h2
      <4> QED BY <2>3, <3>1, <3>3 DEF Step
    <3> QED BY <3>2, <3>3
  <2>7. \A S \in SUBSET (1..(k + 1)) : h2[S] = Step(s, h2, S)
    BY <2>5, <2>6
  <2>8. h2 = [S \in SUBSET (1..(k + 1)) |-> h2[S]]
    OBVIOUS
  <2> HIDE DEF h2
  <2>9. Iterates(h2, k + 1, s)
    BY <2>7, <2>8 DEF Iterates
  <2> QED BY <2>1, <2>9 DEF K
<1>3. n \in K
  <2>1. K \in SUBSET (0..n)
    BY DEF K
  <2>2. K = 0..n
    BY <1>1, <1>2, <2>1, UpTo
  <2> QED BY <2>2
<1> QED BY <1>3 DEF K

\* FoldLeft(Op, Base, s).
Fold(s) ==
  MapThenFoldSet(LAMBDA x, y : Op(y, x), Base, LAMBDA i : s[i], LAMBDA S : Top(S), DOMAIN s)

\* g holds the values a fold over s runs through.
Runs(g, n, s) ==
  /\ g[0] = Base
  /\ \A i \in 1..n : g[i] = Op(g[i - 1], s[i])
  /\ Fold(s) = g[n]

\* A fold over n elements is the last of n + 1 values, each made by the operator
\* from the one before it.
LEMMA FoldRuns ==
  ASSUME NEW n \in Nat, NEW s, DOMAIN s = 1..n
  PROVE  \E g : Runs(g, n, s)
<1> DEFINE it[S \in SUBSET DOMAIN s] ==
             IF S = {} THEN Base ELSE Op(it[S \ {Top(S)}], s[Top(S)])
<1>1. Fold(s) = it[DOMAIN s]
  BY DEF Fold, MapThenFoldSet
<1>2. it = CHOOSE h : h = [S \in SUBSET DOMAIN s |->
                             IF S = {} THEN Base ELSE Op(h[S \ {Top(S)}], s[Top(S)])]
  BY DEF it
<1> HIDE DEF it
<1>3. PICK h : Iterates(h, n, s)
  BY IterExists
<1>4. h = [S \in SUBSET DOMAIN s |-> IF S = {} THEN Base ELSE Op(h[S \ {Top(S)}], s[Top(S)])]
  BY <1>3 DEF Step, Iterates
<1>5. it = [S \in SUBSET DOMAIN s |-> IF S = {} THEN Base ELSE Op(it[S \ {Top(S)}], s[Top(S)])]
  BY <1>2, <1>4, Zenon
<1>6. \A S \in SUBSET (1..n) : it[S] = Step(s, it, S)
  BY <1>5 DEF Step
<1> DEFINE g == [i \in 0..n |-> it[1..i]]
<1>7. g[0] = Base
  <2>1. 1..0 = {} /\ {} \in SUBSET (1..n) /\ 0 \in 0..n
    OBVIOUS
  <2>2. it[{}] = Base
    BY <1>6, <2>1 DEF Step
  <2> QED BY <2>1, <2>2
<1>8. ASSUME NEW i \in 1..n PROVE g[i] = Op(g[i - 1], s[i])
  <2>1. i - 1 \in Nat /\ i \in 0..n /\ i - 1 \in 0..n /\ (i - 1) + 1 = i
    OBVIOUS
  <2>2. 1..i \in SUBSET (1..n) /\ i \in 1..i /\ (1..i) \ {i} = 1..(i - 1)
    <3>1. \A j \in 1..i : j \in 1..n
      OBVIOUS
    <3>2. (1..i) \ {i} = 1..(i - 1)
      OBVIOUS
    <3>3. i \in 1..i
      OBVIOUS
    <3> QED BY <3>1, <3>2, <3>3
  <2>3. Top(1..i) = i
    BY <2>1, <2>2, TopOfSegment
  <2>4. it[1..i] = Op(it[1..(i - 1)], s[i])
    BY <1>6, <2>2, <2>3 DEF Step
  <2> QED BY <2>1, <2>4
<1>9. g[n] = Fold(s)
  BY <1>1
<1> HIDE DEF g
<1> QED BY <1>7, <1>8, <1>9 DEF Runs

\* The invariant of a fold: what holds of the first value, and of each next one when
\* it holds of the one before, holds of the result.  W[i] is the set of the values it
\* admits after i elements.
Keeps(W, n, s) ==
  /\ Base \in W[0]
  /\ \A i \in 1..n : \A v \in W[i - 1] : Op(v, s[i]) \in W[i]

LEMMA FoldInvariant ==
  ASSUME NEW W, NEW n \in Nat, NEW s, DOMAIN s = 1..n, Keeps(W, n, s)
  PROVE  Fold(s) \in W[n]
<1>1. PICK g : Runs(g, n, s)
  BY FoldRuns
<1> DEFINE T == {i \in 0..n : g[i] \in W[i]}
<1>2. 0 \in T
  BY <1>1 DEF Runs, Keeps
<1>3. ASSUME NEW i \in T, i < n PROVE i + 1 \in T
  <2>1. i + 1 \in 0..n /\ i + 1 \in 1..n /\ (i + 1) - 1 = i
    BY <1>3
  <2>2. g[i + 1] = Op(g[i], s[i + 1])
    BY <1>1, <2>1 DEF Runs
  <2> QED BY <2>1, <2>2 DEF Keeps
<1>4. T = 0..n
  <2>1. T \in SUBSET (0..n)
    OBVIOUS
  <2> HIDE DEF T
  <2> QED BY <1>2, <1>3, <2>1, UpTo
<1> QED BY <1>1, <1>4 DEF Runs

\* Folds over sequences of two elements at most.
LEMMA FoldShort ==
  ASSUME NEW x, NEW y
  PROVE  /\ Fold(<<>>) = Base
         /\ Fold(<<x>>) = Op(Base, x)
         /\ Fold(<<x, y>>) = Op(Op(Base, x), y)
<1>1. Fold(<<>>) = Base
  <2>1. DOMAIN <<>> = 1..0 /\ 0 \in Nat
    OBVIOUS
  <2>2. PICK g : Runs(g, 0, <<>>)
    BY <2>1, FoldRuns
  <2> QED BY <2>2 DEF Runs
<1>2. Fold(<<x>>) = Op(Base, x)
  <2> DEFINE s == <<x>>
  <2>1. DOMAIN s = 1..1 /\ 1 \in Nat /\ s[1] = x
    OBVIOUS
  <2> HIDE DEF s
  <2>2. PICK g : Runs(g, 1, s)
    BY <2>1, FoldRuns
  <2>3. g[0] = Base /\ Fold(s) = g[1] /\ g[1] = Op(g[1 - 1], s[1])
    BY <2>2 DEF Runs
  <2> QED BY <2>1, <2>3 DEF s
<1>3. Fold(<<x, y>>) = Op(Op(Base, x), y)
  <2> DEFINE s == <<x, y>>
  <2>1. DOMAIN s = 1..2 /\ 2 \in Nat /\ s[1] = x /\ s[2] = y
    OBVIOUS
  <2> HIDE DEF s
  <2>2. PICK g : Runs(g, 2, s)
    BY <2>1, FoldRuns
  <2>3. /\ g[0] = Base /\ Fold(s) = g[2]
        /\ g[1] = Op(g[1 - 1], s[1]) /\ g[2] = Op(g[2 - 1], s[2])
    BY <2>2 DEF Runs
  <2> QED BY <2>1, <2>3 DEF s
<1> QED BY <1>1, <1>2, <1>3

----------------------------------------------------------------------------
(* Sums over finite sets. *)

OneOf(T) == CHOOSE x \in T : TRUE
AddedUp(v, h, T) == IF T = {} THEN 0 ELSE v[OneOf(T)] + h[T \ {OneOf(T)}]

\* h holds the sums of v over the parts of S.
Totals(h, v, S) == h = [T \in SUBSET S |-> AddedUp(v, h, T)]
TotalsTo(h, v, S, d) ==
  /\ h = [T \in SUBSET S |-> h[T]]
  /\ \A T \in SUBSET S : Cardinality(T) <= d => h[T] = AddedUp(v, h, T)

LEMMA PartWithout ==
  ASSUME NEW S, IsFiniteSet(S), NEW T \in SUBSET S
  PROVE  /\ Cardinality(T) \in Nat /\ Cardinality(T) <= Cardinality(S) /\ Cardinality(S) \in Nat
         /\ Cardinality(T) = 0 <=> T = {}
         /\ T # {} => OneOf(T) \in T
         /\ \A x \in T : Cardinality(T \ {x}) = Cardinality(T) - 1
<1>1. IsFiniteSet(T) /\ Cardinality(T) <= Cardinality(S)
  BY FS_Subset
<1>2. Cardinality(T) \in Nat /\ Cardinality(S) \in Nat
  BY <1>1, FS_CardinalityType
<1>3. Cardinality(T) = 0 <=> T = {}
  BY <1>1, FS_EmptySet
<1>4. \A x \in T : Cardinality(T \ {x}) = Cardinality(T) - 1
  BY <1>1, FS_RemoveElement
<1>5. T # {} => OneOf(T) \in T
  BY DEF OneOf
<1> QED BY <1>1, <1>2, <1>3, <1>4, <1>5

LEMMA TotalsExist ==
  ASSUME NEW S, IsFiniteSet(S), NEW v
  PROVE  \E h : Totals(h, v, S)
<1> DEFINE n == Cardinality(S)
           K == {d \in 0..n : \E h : TotalsTo(h, v, S, d)}
<1>0. n \in Nat
  BY FS_CardinalityType
<1> HIDE DEF K, n
<1>1. 0 \in K
  <2> DEFINE h == [T \in SUBSET S |-> 0]
  <2>1. \A T \in SUBSET S : h[T] = 0
    OBVIOUS
  <2>2. h = [T \in SUBSET S |-> h[T]]
    OBVIOUS
  <2> HIDE DEF h
  <2>3. ASSUME NEW T \in SUBSET S, Cardinality(T) <= 0 PROVE h[T] = AddedUp(v, h, T)
    <3>1. T = {}
      BY <2>3, PartWithout
    <3> QED BY <2>1, <3>1 DEF AddedUp
  <2>4. TotalsTo(h, v, S, 0)
    BY <2>2, <2>3 DEF TotalsTo
  <2> QED BY <1>0, <2>4 DEF K
<1>2. ASSUME NEW d \in K, d < n PROVE d + 1 \in K
  <2>0. d \in 0..n /\ d + 1 \in 0..n
    BY <1>0, <1>2 DEF K
  <2>1. PICK h : TotalsTo(h, v, S, d)
    BY DEF K
  <2> DEFINE g == [T \in SUBSET S |-> IF Cardinality(T) <= d THEN h[T] ELSE AddedUp(v, h, T)]
  <2>2. \A T \in SUBSET S : g[T] = IF Cardinality(T) <= d THEN h[T] ELSE AddedUp(v, h, T)
    OBVIOUS
  <2>3. g = [T \in SUBSET S |-> g[T]]
    OBVIOUS
  <2> HIDE DEF g
  <2>4. ASSUME NEW T \in SUBSET S, Cardinality(T) <= d + 1 PROVE g[T] = AddedUp(v, g, T)
    <3>1. AddedUp(v, g, T) = AddedUp(v, h, T)
      <4>1. CASE T = {}
        BY <4>1 DEF AddedUp
      <4>2. CASE T # {}
        <5>1. OneOf(T) \in T /\ T \ {OneOf(T)} \in SUBSET S /\ Cardinality(T) \in Nat
          BY <4>2, PartWithout
        <5>2. Cardinality(T \ {OneOf(T)}) <= d
          BY <2>0, <2>4, <5>1, PartWithout
        <5>3. g[T \ {OneOf(T)}] = h[T \ {OneOf(T)}]
          BY <2>2, <5>1, <5>2
        <5> QED BY <5>3 DEF AddedUp
      <4> QED BY <4>1, <4>2
    <3>2. Cardinality(T) <= d => h[T] = AddedUp(v, h, T)
      BY <2>1 DEF TotalsTo
    <3> QED BY <2>2, <3>1, <3>2
  <2>5. TotalsTo(g, v, S, d + 1)
    BY <2>3, <2>4 DEF TotalsTo
  <2> QED BY <2>0, <2>5 DEF K
<1>3. n \in K
  <2>1. K \in SUBSET (0..n)
    BY DEF K
  <2>2. K = 0..n
    BY <1>0, <1>1, <1>2, <2>1, UpTo
  <2> QED BY <1>0, <2>2
<1>4. PICK h : TotalsTo(h, v, S, n)
  BY <1>3 DEF K
<1>5. \A T \in SUBSET S : h[T] = AddedUp(v, h, T)
  <2> TAKE T \in SUBSET S
  <2>1. Cardinality(T) <= n
    BY PartWithout DEF n
  <2> QED BY <1>4, <2>1 DEF TotalsTo
<1>6. h = [T \in SUBSET S |-> AddedUp(v, h, T)]
  BY <1>4, <1>5 DEF TotalsTo
<1> QED BY <1>6 DEF Totals

\* A sum of integers is an integer, and one of natural numbers at least each of them.
LEMMA TotalsAre ==
  ASSUME NEW S, IsFiniteSet(S), NEW v, \A x \in S : v[x] \in Int, NEW h, Totals(h, v, S)
  PROVE  /\ h[S] \in Int
         /\ (\A x \in S : v[x] >= 0) => h[S] >= 0 /\ \A x \in S : v[x] <= h[S]
<1> DEFINE n == Cardinality(S)
           Good(T) == /\ h[T] \in Int
                      /\ (\A x \in S : v[x] >= 0) => h[T] >= 0 /\ \A x \in T : v[x] <= h[T]
           K == {d \in 0..n : \A T \in SUBSET S : Cardinality(T) <= d => Good(T)}
<1>0. n \in Nat
  BY FS_CardinalityType
<1>1. \A T \in SUBSET S : h[T] = AddedUp(v, h, T)
  BY DEF Totals
<1> HIDE DEF K, n
<1>2. 0 \in K
  <2>1. ASSUME NEW T \in SUBSET S, Cardinality(T) <= 0 PROVE Good(T)
    <3>1. T = {}
      BY <2>1, PartWithout
    <3>2. h[T] = 0
      BY <1>1, <3>1 DEF AddedUp
    <3> QED BY <3>1, <3>2
  <2> QED BY <1>0, <2>1 DEF K
<1>3. ASSUME NEW d \in K, d < n PROVE d + 1 \in K
  <2>0. d \in 0..n /\ d + 1 \in 0..n /\ \A T \in SUBSET S : Cardinality(T) <= d => Good(T)
    BY <1>0, <1>3 DEF K
  <2>1. ASSUME NEW T \in SUBSET S, Cardinality(T) <= d + 1 PROVE Good(T)
    <3>1. CASE T = {}
      <4>1. h[T] = 0
        BY <1>1, <3>1 DEF AddedUp
      <4> QED BY <3>1, <4>1
    <3>2. CASE T # {}
      <4>1. PICK y \in T : y = OneOf(T)
        BY <3>2, PartWithout
      <4>2. h[T] = v[y] + h[T \ {y}]
        <5>1. h[T] = AddedUp(v, h, T)
          BY <1>1
        <5> QED BY <3>2, <4>1, <5>1 DEF AddedUp
      <4>3. Cardinality(T \ {y}) <= d /\ T \ {y} \in SUBSET S
        BY <2>0, <2>1, <4>1, PartWithout
      <4>4. Good(T \ {y}) /\ v[y] \in Int
        BY <2>0, <4>3
      <4> QED BY <4>1, <4>2, <4>4
    <3> QED BY <3>1, <3>2
  <2> QED BY <2>0, <2>1 DEF K
<1>4. n \in K
  <2>1. K \in SUBSET (0..n)
    BY DEF K
  <2>2. K = 0..n
    BY <1>0, <1>2, <1>3, <2>1, UpTo
  <2> QED BY <1>0, <2>2
<1>5. Good(S)
  <2>1. Cardinality(S) <= n /\ S \in SUBSET S
    BY <1>0 DEF n
  <2> QED BY <1>4, <2>1 DEF K
<1> QED BY <1>5

\* h sums up the numbers of members of parts, no two of which meet.
Counts(h, v, P, S) ==
  /\ IsFiniteSet(S) /\ Totals(h, v, S)
  /\ \A x \in S : IsFiniteSet(P[x]) /\ v[x] = Cardinality(P[x])
  /\ \A x, y \in S : x # y => P[x] \cap P[y] = {}

\* The sum is the number of members of them all.
LEMMA TotalsOfParts ==
  ASSUME NEW h, NEW v, NEW P, NEW S, Counts(h, v, P, S)
  PROVE  h[S] = Cardinality(UNION {P[x] : x \in S})
<1> USE DEF Counts
<1> DEFINE n == Cardinality(S)
           All(T) == UNION {P[x] : x \in T}
           Good(T) == IsFiniteSet(All(T)) /\ h[T] = Cardinality(All(T))
           K == {d \in 0..n : \A T \in SUBSET S : Cardinality(T) <= d => Good(T)}
<1>0. n \in Nat
  BY FS_CardinalityType
<1>1. \A T \in SUBSET S : h[T] = AddedUp(v, h, T)
  BY DEF Totals
<1> HIDE DEF K, n
<1>2. 0 \in K
  <2>1. ASSUME NEW T \in SUBSET S, Cardinality(T) <= 0 PROVE Good(T)
    <3>1. T = {}
      BY <2>1, PartWithout
    <3>2. h[T] = 0
      BY <1>1, <3>1 DEF AddedUp
    <3>3. All(T) = {}
      BY <3>1
    <3>4. IsFiniteSet({}) /\ Cardinality({}) = 0
      BY FS_EmptySet
    <3> QED BY <3>2, <3>3, <3>4
  <2> QED BY <1>0, <2>1 DEF K
<1>3. ASSUME NEW d \in K, d < n PROVE d + 1 \in K
  <2>0. d \in 0..n /\ d + 1 \in 0..n /\ \A T \in SUBSET S : Cardinality(T) <= d => Good(T)
    BY <1>0, <1>3 DEF K
  <2>1. ASSUME NEW T \in SUBSET S, Cardinality(T) <= d + 1 PROVE Good(T)
    <3>1. CASE T = {}
      <4>1. Cardinality(T) <= d
        BY <2>0, <3>1, PartWithout
      <4> QED BY <2>0, <4>1
    <3>2. CASE T # {}
      <4>1. PICK y \in T : y = OneOf(T)
        BY <3>2, PartWithout
      <4>2. h[T] = v[y] + h[T \ {y}]
        <5>1. h[T] = AddedUp(v, h, T)
          BY <1>1
        <5> QED BY <3>2, <4>1, <5>1 DEF AddedUp
      <4>3. Cardinality(T \ {y}) <= d /\ T \ {y} \in SUBSET S
        <5>1. Cardinality(T) \in Nat /\ Cardinality(T \ {y}) = Cardinality(T) - 1
          BY PartWithout
        <5> QED BY <2>0, <2>1, <5>1
      <4>4. Good(T \ {y}) /\ v[y] = Cardinality(P[y]) /\ IsFiniteSet(P[y])
        BY <2>0, <4>3
      <4> DEFINE A == All(T \ {y})
                 B == P[y]
      <4>5. All(T) = A \cup B /\ A \cap B = {}
        OBVIOUS
      <4>6. IsFiniteSet(A) /\ IsFiniteSet(B) /\ h[T] = Cardinality(B) + Cardinality(A)
        BY <4>2, <4>4
      <4> HIDE DEF A, B
      <4>7. IsFiniteSet(A \cup B) /\ Cardinality(A \cup B) = Cardinality(A) + Cardinality(B) - Cardinality(A \cap B)
        BY <4>6, FS_Union
      <4>8. Cardinality(A \cap B) = 0
        BY <4>5, FS_EmptySet
      <4>9. Cardinality(A) \in Nat /\ Cardinality(B) \in Nat
        BY <4>6, FS_CardinalityType
      <4>10. h[T] = Cardinality(A \cup B)
        BY <4>6, <4>7, <4>8, <4>9
      <4> QED BY <4>5, <4>7, <4>10
    <3> QED BY <3>1, <3>2
  <2> QED BY <2>0, <2>1 DEF K
<1>4. n \in K
  <2>1. K \in SUBSET (0..n)
    BY DEF K
  <2>2. K = 0..n
    BY <1>0, <1>2, <1>3, <2>1, UpTo
  <2> QED BY <1>0, <2>2
<1>5. Good(S)
  <2>1. Cardinality(S) <= n /\ S \in SUBSET S
    BY <1>0 DEF n
  <2> QED BY <1>4, <2>1 DEF K
<1> QED BY <1>5
=============================================================================
