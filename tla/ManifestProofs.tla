---------------------------- MODULE ManifestProofs ----------------------------
(***************************************************************************)
(* Theorems about Manifest, for every registry, every manifest, all flags, *)
(* layers of the fence and ceilings: the jobs expand makes are as many as  *)
(* validate counted, each is the one that was asked for, none reaches the  *)
(* fence and none is refused by the engine.                                *)
(*                                                                         *)
(* Two parts of it are about sequences that are folded: what expand        *)
(* flattens, and what the counts saturate.  The rest says of each job      *)
(* which block, slot, timeframe, window and point it comes from.           *)
(***************************************************************************)
EXTENDS Manifest, SequenceTheorems, TLAPS

Counting == INSTANCE Induction WITH Op <- CountChoices, Base <- 1
Summing  == INSTANCE Induction WITH Op <- CountBlock, Base <- 0
Gridding == INSTANCE Induction WITH Op <- With, Base <- <<NoParams>>

----------------------------------------------------------------------------
(* FlattenSeq. *)

Flattener(seqs, h, k) ==
  h = [i \in 1..k |-> IF i = 1 THEN seqs[i] ELSE h[i - 1] \o seqs[i]]

LEMMA FlattenerExists ==
  ASSUME NEW n \in Nat, NEW seqs
  PROVE  \E h : Flattener(seqs, h, n)
<1> DEFINE K == {k \in 0..n : \E h : Flattener(seqs, h, k)}
           V(h, i) == IF i = 1 THEN seqs[i] ELSE h[i - 1] \o seqs[i]
<1> HIDE DEF K
<1>1. 0 \in K
  <2> DEFINE h == [i \in 1..0 |-> seqs[i]]
  <2>1. \A i \in 1..0 : FALSE
    OBVIOUS
  <2>2. h = [i \in 1..0 |-> V(h, i)]
    BY <2>1
  <2>3. Flattener(seqs, h, 0)
    BY <2>2 DEF Flattener
  <2> QED BY <2>3 DEF K
<1>2. ASSUME NEW k \in K, k < n PROVE k + 1 \in K
  <2>1. k \in Nat /\ k + 1 \in 0..n
    BY <1>2 DEF K
  <2>2. PICK h : Flattener(seqs, h, k)
    BY DEF K
  <2> DEFINE g == [i \in 1..(k + 1) |-> IF i = k + 1 THEN V(h, i) ELSE h[i]]
  <2>3. \A i \in 1..k : h[i] = V(h, i)
    BY <2>2 DEF Flattener
  <2>4. ASSUME NEW i \in 1..(k + 1) PROVE g[i] = V(g, i)
    <3>1. i # 1 => i - 1 \in 1..(k + 1) /\ i - 1 # k + 1
      BY <2>1
    <3>2. i # 1 => g[i - 1] = h[i - 1]
      BY <3>1
    <3>3. i # k + 1 => i \in 1..k
      BY <2>1
    <3>4. g[i] = V(h, i)
      BY <2>3, <3>3
    <3> HIDE DEF g
    <3> QED BY <3>2, <3>4
  <2>5. g = [i \in 1..(k + 1) |-> g[i]]
    OBVIOUS
  <2> HIDE DEF g
  <2>6. Flattener(seqs, g, k + 1)
    BY <2>4, <2>5 DEF Flattener
  <2> QED BY <2>1, <2>6 DEF K
<1>3. K \in SUBSET (0..n)
  BY DEF K
<1>4. K = 0..n
  BY <1>1, <1>2, <1>3, Counting!UpTo
<1> QED BY <1>4 DEF K

\* f holds the prefixes of what is flattened.
Pieces(seqs, f, S) ==
  /\ f \in [0..Len(seqs) -> Seq(S)]
  /\ f[0] = <<>> /\ f[Len(seqs)] = FlattenSeq(seqs)
  /\ \A i \in 1..Len(seqs) : Len(f[i]) = Len(f[i - 1]) + Len(seqs[i])

LEMMA Flattens ==
  ASSUME NEW S, NEW seqs \in Seq(Seq(S))
  PROVE  \E f : Pieces(seqs, f, S)
<1> DEFINE n == Len(seqs)
<1>1. n \in Nat /\ DOMAIN seqs = 1..n /\ \A i \in 1..n : seqs[i] \in Seq(S)
  OBVIOUS
<1> DEFINE it[i \in 1..Len(seqs)] == IF i = 1 THEN seqs[i] ELSE it[i - 1] \o seqs[i]
<1>2. FlattenSeq(seqs) = IF Len(seqs) = 0 THEN seqs ELSE it[Len(seqs)]
  BY Zenon DEF FlattenSeq
<1>3. it = CHOOSE h : h = [i \in 1..Len(seqs) |-> IF i = 1 THEN seqs[i] ELSE h[i - 1] \o seqs[i]]
  BY Zenon DEF it
<1> HIDE DEF it
<1>4. PICK h : Flattener(seqs, h, n)
  BY <1>1, FlattenerExists
<1>5. Flattener(seqs, it, n)
  BY <1>3, <1>4, Zenon DEF Flattener
<1> DEFINE f == [i \in 0..n |-> IF i = 0 THEN <<>> ELSE it[i]]
           T == {i \in 0..n : f[i] \in Seq(S)}
<1>6. \A i \in 1..n : it[i] = IF i = 1 THEN seqs[i] ELSE it[i - 1] \o seqs[i]
  BY <1>5 DEF Flattener
<1>7. ASSUME NEW i \in 1..n, f[i - 1] \in Seq(S)
      PROVE  f[i] \in Seq(S) /\ Len(f[i]) = Len(f[i - 1]) + Len(seqs[i])
  <2>1. i - 1 \in 0..n /\ i \in 0..n /\ i # 0 /\ seqs[i] \in Seq(S)
    BY <1>1
  <2>2. f[i] = it[i]
    BY <2>1
  <2>3. CASE i = 1
    <3>1. f[i - 1] = <<>> /\ f[i] = seqs[i]
      BY <1>6, <2>1, <2>2, <2>3
    <3> HIDE DEF f
    <3> QED BY <2>1, <3>1
  <2>4. CASE i # 1
    <3>0. i - 1 # 0 /\ i - 1 \in 0..n
      BY <2>1, <2>4
    <3>1. f[i - 1] = it[i - 1]
      BY <3>0
    <3>2. it[i] = it[i - 1] \o seqs[i]
      BY <1>6, <2>4
    <3>3. f[i] = f[i - 1] \o seqs[i]
      BY <2>2, <3>1, <3>2, Zenon
    <3> HIDE DEF f
    <3> QED BY <1>7, <2>1, <3>3
  <2> QED BY <2>3, <2>4
<1>8. f[0] = <<>>
  BY <1>1
<1>9. DOMAIN f = 0..n /\ f = [i \in 0..n |-> f[i]]
  OBVIOUS
<1>10. f[n] = FlattenSeq(seqs)
  <2>1. CASE n = 0
    <3>1. seqs = <<>>
      BY <2>1
    <3> QED BY <1>2, <1>8, <2>1, <3>1
  <2>2. CASE n # 0
    BY <1>1, <1>2, <2>2
  <2> QED BY <2>1, <2>2
<1> HIDE DEF f
<1>11. T = 0..n
  <2>1. 0 \in T
    <3>1. 0 \in 0..n /\ <<>> \in Seq(S)
      BY <1>1
    <3> QED BY <1>8, <3>1
  <2>2. ASSUME NEW i \in T, i < n PROVE i + 1 \in T
    <3>1. i + 1 \in 1..n /\ i + 1 \in 0..n /\ (i + 1) - 1 = i /\ f[i] \in Seq(S)
      BY <1>1, <2>2
    <3> QED BY <1>7, <3>1
  <2>3. T \in SUBSET (0..n)
    OBVIOUS
  <2> HIDE DEF T
  <2> QED BY <1>1, <2>1, <2>2, <2>3, Counting!UpTo
<1>12. \A i \in 0..n : f[i] \in Seq(S)
  BY <1>11
<1>13. \A i \in 1..n : i - 1 \in 0..n
  BY <1>1
<1>14. \A i \in 1..n : Len(f[i]) = Len(f[i - 1]) + Len(seqs[i])
  BY <1>7, <1>12, <1>13
<1>15. f \in [0..n -> Seq(S)]
  BY <1>9, <1>12
<1> QED BY <1>8, <1>10, <1>14, <1>15 DEF Pieces

LEMMA FlattenType ==
  ASSUME NEW S, NEW seqs \in Seq(Seq(S))
  PROVE  FlattenSeq(seqs) \in Seq(S)
<1>1. PICK f : Pieces(seqs, f, S)
  BY Flattens
<1>2. Len(seqs) \in 0..Len(seqs)
  OBVIOUS
<1> QED BY <1>1, <1>2 DEF Pieces

\* n pieces of m elements.
LEMMA FlattenEven ==
  ASSUME NEW S, NEW seqs \in Seq(Seq(S)), NEW m \in Nat, \A i \in DOMAIN seqs : Len(seqs[i]) = m
  PROVE  Len(FlattenSeq(seqs)) = Len(seqs) * m
<1> DEFINE n == Len(seqs)
<1>1. n \in Nat /\ DOMAIN seqs = 1..n
  OBVIOUS
<1>2. PICK f : Pieces(seqs, f, S)
  BY Flattens
<1> DEFINE T == {i \in 0..n : Len(f[i]) = i * m}
<1>3. 0 \in T
  BY <1>1, <1>2 DEF Pieces
<1>4. ASSUME NEW i \in T, i < n PROVE i + 1 \in T
  <2>1. i \in Nat /\ i + 1 \in 1..n /\ i + 1 \in 0..n /\ (i + 1) - 1 = i
    BY <1>1, <1>4
  <2>2. Len(f[i + 1]) = i * m + m
    BY <1>1, <1>2, <2>1 DEF Pieces
  <2>3. i * m + m = (i + 1) * m
    BY <2>1
  <2> QED BY <2>1, <2>2, <2>3
<1>5. T \in SUBSET (0..n)
  OBVIOUS
<1> HIDE DEF T
<1>6. T = 0..n
  BY <1>1, <1>3, <1>4, <1>5, Counting!UpTo
<1>7. n \in T
  BY <1>1, <1>6
<1> QED BY <1>2, <1>7 DEF T, Pieces

----------------------------------------------------------------------------
(* Points of a grid of parameters. *)

Keys == {"event_timestamps", "post_window_bars"}

LEMMA ParamsFacts ==
  ASSUME NEW params \in Params
  PROVE  /\ params \in [DOMAIN params -> Axes] /\ DOMAIN params \subseteq Keys
         /\ DOMAIN params \in {{}, {"event_timestamps"}, {"post_window_bars"}, Keys}
<1>1. \/ params \in [{} -> Axes] \/ params \in [{"event_timestamps"} -> Axes]
      \/ params \in [{"post_window_bars"} -> Axes] \/ params \in [Keys -> Axes]
  BY DEF Params, Keys
<1> QED BY <1>1 DEF Keys

LEMMA IsSequence ==
  ASSUME NEW S, NEW n \in Nat, NEW s \in [1..n -> S]
  PROVE  s \in Seq(S) /\ Len(s) = n
OBVIOUS

LEMMA AxisFacts ==
  ASSUME NEW axis \in Axes
  PROVE  /\ ChoicesOf(axis) \in Seq(Values)
         /\ Len(ChoicesOf(axis)) = ChoiceCount(axis) /\ ChoiceCount(axis) \in Nat \ {0}
<1>1. CASE axis \in [array : {TRUE}, elems : Seq(Values)]
  <2>1. axis.array = TRUE /\ axis.elems \in Seq(Values)
    BY <1>1
  <2>2. EmptyArray \in Values
    BY DEF EmptyArray, Values
  <2>3. CASE axis.elems = <<>>
    <3>1. ChoicesOf(axis) = <<EmptyArray>> /\ ChoiceCount(axis) = 1
      BY <2>1, <2>3 DEF ChoicesOf, ChoiceCount
    <3>2. <<EmptyArray>> \in Seq(Values) /\ Len(<<EmptyArray>>) = 1
      BY <2>2
    <3> QED BY <3>1, <3>2
  <2>4. CASE axis.elems # <<>>
    <3>1. ChoicesOf(axis) = axis.elems /\ ChoiceCount(axis) = Len(axis.elems)
      BY <2>1, <2>4 DEF ChoicesOf, ChoiceCount
    <3>2. Len(axis.elems) \in Nat \ {0}
      BY <2>1, <2>4
    <3> QED BY <2>1, <3>1, <3>2
  <2> QED BY <2>3, <2>4
<1>2. CASE axis \in [array : {FALSE}, elems : [1..1 -> Values]]
  <2>1. axis.array = FALSE /\ axis.elems \in [1..1 -> Values]
    BY <1>2
  <2>2. axis.elems \in Seq(Values) /\ Len(axis.elems) = 1
    <3>1. 1 \in Nat
      OBVIOUS
    <3> QED BY <2>1, <3>1, IsSequence, Zenon
  <2> QED BY <2>1, <2>2 DEF ChoicesOf, ChoiceCount
<1> QED BY <1>1, <1>2 DEF Axes

PointsOn(K) == [K -> Values]

\* A grid crossed with one axis more.
Crossed(points, K, item) ==
  /\ With(points, item) \in Seq(PointsOn(K \cup {item.key}))
  /\ Len(With(points, item)) = Len(points) * ChoiceCount(item.axis)

LEMMA WithFacts ==
  ASSUME NEW K, NEW points \in Seq(PointsOn(K)), NEW item, item.axis \in Axes
  PROVE  Crossed(points, K, item)
<1> DEFINE key == item.key
           axis == item.axis
           choices == ChoicesOf(axis)
           S == PointsOn(K \cup {key})
           seqs == [i \in DOMAIN points |->
                      [c \in DOMAIN choices |-> WithKey(points[i], key, choices[c])]]
<1>1. With(points, item) = FlattenSeq(seqs)
  BY DEF With
<1>2. /\ choices \in Seq(Values) /\ Len(choices) = ChoiceCount(axis)
      /\ ChoiceCount(axis) \in Nat
  BY AxisFacts
<1> HIDE DEF choices
<1>3. ASSUME NEW i \in DOMAIN points, NEW c \in DOMAIN choices
      PROVE  WithKey(points[i], key, choices[c]) \in S
  <2>1. points[i] \in PointsOn(K) /\ choices[c] \in Values
    BY <1>2
  <2> QED BY <2>1 DEF WithKey, PointsOn
<1> HIDE DEF S
<1>4. ASSUME NEW i \in DOMAIN points
      PROVE  seqs[i] \in Seq(S) /\ Len(seqs[i]) = ChoiceCount(axis)
  <2>1. DOMAIN choices = 1..Len(choices) /\ Len(choices) \in Nat
    BY <1>2
  <2>2. seqs[i] = [c \in 1..Len(choices) |-> WithKey(points[i], key, choices[c])]
    BY <2>1
  <2>3. seqs[i] \in [1..Len(choices) -> S]
    BY <1>3, <2>1, <2>2
  <2> HIDE DEF seqs
  <2>4. seqs[i] \in Seq(S) /\ Len(seqs[i]) = Len(choices)
    BY <2>1, <2>3, IsSequence, Zenon
  <2> QED BY <1>2, <2>4
<1>5. seqs \in Seq(Seq(S)) /\ Len(seqs) = Len(points)
  <2>1. DOMAIN points = 1..Len(points) /\ Len(points) \in Nat /\ DOMAIN seqs = DOMAIN points
        /\ seqs = [i \in DOMAIN points |-> seqs[i]]
    OBVIOUS
  <2> HIDE DEF seqs
  <2>2. seqs \in [1..Len(points) -> Seq(S)]
    BY <1>4, <2>1
  <2> QED BY <2>1, <2>2
<1>6. \A i \in DOMAIN seqs : Len(seqs[i]) = ChoiceCount(axis)
  BY <1>4
<1> HIDE DEF seqs
<1>7. FlattenSeq(seqs) \in Seq(S) /\ Len(FlattenSeq(seqs)) = Len(seqs) * ChoiceCount(axis)
  BY <1>2, <1>5, <1>6, FlattenType, FlattenEven
<1> QED BY <1>1, <1>5, <1>7 DEF Crossed, S

LEMMA TwoInARow ==
  ASSUME NEW S, NEW x \in S, NEW y \in S
  PROVE  <<x>> \o <<y>> = <<x, y>>
<1>1. <<x>> \in Seq(S) /\ <<y>> \in Seq(S)
  OBVIOUS
<1> DEFINE s == <<x>> \o <<y>>
           t == <<x, y>>
<1>2. t \in Seq(S) /\ Len(t) = 2 /\ t[1] = x /\ t[2] = y
  OBVIOUS
<1>3. s \in Seq(S) /\ Len(s) = 2 /\ s[1] = x /\ s[2] = y
  <2>1. Len(<<x>>) = 1 /\ Len(<<y>>) = 1 /\ <<x>>[1] = x /\ <<y>>[1] = y
    OBVIOUS
  <2>2. /\ s \in Seq(S) /\ Len(s) = 1 + 1
        /\ \A i \in 1..(1 + 1) : s[i] = IF i <= 1 THEN <<x>>[i] ELSE <<y>>[i - 1]
    BY <1>1, <2>1, ConcatProperties
  <2> HIDE DEF s
  <2> QED BY <2>1, <2>2
<1> HIDE DEF s, t
<1>4. \A i \in 1..Len(s) : s[i] = t[i]
  BY <1>2, <1>3
<1>5. s = t
  BY <1>2, <1>3, <1>4, SeqEqual
<1> QED BY <1>5 DEF s, t

\* The keys in their order, two at most.
HasKeys(z) == DOMAIN z \in {{}, {"event_timestamps"}, {"post_window_bars"}, Keys}
InOrder(z) ==
  \/ DOMAIN z = {} /\ KeyOrder(z) = <<>>
  \/ \E k \in Keys : DOMAIN z = {k} /\ KeyOrder(z) = <<k>>
  \/ DOMAIN z = Keys /\ KeyOrder(z) = <<"event_timestamps", "post_window_bars">>

LEMMA KeyOrderFacts == ASSUME NEW z, HasKeys(z) PROVE InOrder(z)
<1> DEFINE e == "event_timestamps"
           p == "post_window_bars"
           at(k) == IF k \in DOMAIN z THEN <<k>> ELSE <<>>
           order == KeyOrder(z)
<1>1. order = at(e) \o at(p)
  BY DEF KeyOrder
<1>2. <<>> \o <<>> = <<>> /\ <<>> \o <<p>> = <<p>> /\ <<e>> \o <<>> = <<e>> /\ <<e>> \o <<p>> = <<e, p>>
  <2>1. e \in Keys /\ p \in Keys
    BY DEF Keys
  <2> HIDE DEF e, p
  <2>2. <<e>> \in Seq(Keys) /\ <<p>> \in Seq(Keys) /\ <<>> \in Seq(Keys)
    BY <2>1
  <2>3. <<e>> \o <<p>> = <<e, p>>
    BY <2>1, TwoInARow
  <2> QED BY <2>2, <2>3, ConcatEmptySeq
<1> HIDE DEF order
<1>3. ASSUME DOMAIN z = {} PROVE order = <<>>
  BY <1>1, <1>2, <1>3
<1>4. ASSUME DOMAIN z = {e}
      PROVE  \E k \in Keys : DOMAIN z = {k} /\ order = <<k>>
  <2>1. order = <<e>>
    BY <1>1, <1>2, <1>4
  <2>2. e \in Keys
    BY DEF Keys
  <2> QED BY <1>4, <2>1, <2>2
<1>5. ASSUME DOMAIN z = {p}
      PROVE  \E k \in Keys : DOMAIN z = {k} /\ order = <<k>>
  <2>1. order = <<p>>
    BY <1>1, <1>2, <1>5
  <2>2. p \in Keys
    BY DEF Keys
  <2> QED BY <1>5, <2>1, <2>2
<1>6. ASSUME DOMAIN z = Keys PROVE order = <<e, p>>
  BY <1>1, <1>2, <1>6 DEF Keys
<1>7. InOrder(z) <=>
        \/ DOMAIN z = {} /\ order = <<>>
        \/ \E k \in Keys : DOMAIN z = {k} /\ order = <<k>>
        \/ DOMAIN z = Keys /\ order = <<e, p>>
  BY Zenon DEF InOrder, order
<1>8. \/ DOMAIN z = {} /\ order = <<>>
      \/ \E k \in Keys : DOMAIN z = {k} /\ order = <<k>>
      \/ DOMAIN z = Keys /\ order = <<e, p>>
  <2> HIDE DEF e, p
  <2>1. DOMAIN z = {} \/ DOMAIN z = {e} \/ DOMAIN z = {p} \/ DOMAIN z = Keys
    BY DEF HasKeys, e, p
  <2> QED BY <1>3, <1>4, <1>5, <1>6, <2>1
<1> QED BY <1>7, <1>8

\* Each key once.
Lists(order, keys) ==
  /\ \A i \in DOMAIN order : order[i] \in keys
  /\ \A k \in keys : \E i \in DOMAIN order : order[i] = k
  /\ \A i, j \in DOMAIN order : order[i] = order[j] => i = j

LEMMA OrderIs ==
  ASSUME NEW z, HasKeys(z)
  PROVE  Lists(KeyOrder(z), DOMAIN z)
<1>1. CASE DOMAIN z = {} /\ KeyOrder(z) = <<>>
  BY <1>1 DEF Lists
<1>2. ASSUME NEW k \in Keys, DOMAIN z = {k}, KeyOrder(z) = <<k>>
      PROVE  Lists(KeyOrder(z), DOMAIN z)
  <2> DEFINE s == <<k>>
  <2>1. DOMAIN s = {1} /\ s[1] = k
    OBVIOUS
  <2> HIDE DEF s
  <2>2. KeyOrder(z) = s
    BY <1>2 DEF s
  <2> QED BY <1>2, <2>1, <2>2 DEF Lists
<1>3. CASE DOMAIN z = Keys /\ KeyOrder(z) = <<"event_timestamps", "post_window_bars">>
  <2> DEFINE s == <<"event_timestamps", "post_window_bars">>
  <2>1. DOMAIN s = {1, 2} /\ s[1] = "event_timestamps" /\ s[2] = "post_window_bars"
    OBVIOUS
  <2> HIDE DEF s
  <2>2. KeyOrder(z) = s
    BY <1>3 DEF s
  <2>3. DOMAIN z = {s[1], s[2]} /\ s[1] # s[2]
    BY <1>3, <2>1 DEF Keys
  <2> QED BY <2>1, <2>2, <2>3 DEF Lists
<1>4. CASE \E k \in Keys : DOMAIN z = {k} /\ KeyOrder(z) = <<k>>
  BY <1>2, <1>4
<1>5. InOrder(z)
  BY KeyOrderFacts
<1> QED BY <1>1, <1>3, <1>4, <1>5, Zenon DEF InOrder

\* The axes, in the order of their keys.
Item(params, k) == [key |-> k, axis |-> params[k]]

\* A grid with one key more.
Grown(points, K, params, k) ==
  /\ With(points, Item(params, k)) \in Seq(PointsOn(K \cup {k}))
  /\ Len(With(points, Item(params, k))) = Len(points) * ChoiceCount(params[k])

LEMMA WithItem ==
  ASSUME NEW K, NEW points \in Seq(PointsOn(K)), NEW params, NEW k, params[k] \in Axes
  PROVE  Grown(points, K, params, k)
<1>1. PICK item : item = Item(params, k)
  OBVIOUS
<1>2. item.key = k /\ item.axis = params[k]
  BY <1>1 DEF Item
<1>3. Crossed(points, K, item)
  BY <1>2, WithFacts
<1> QED BY <1>1, <1>2, <1>3, Zenon DEF Crossed, Grown

LEMMA ItemsFacts ==
  ASSUME NEW params \in Params
  PROVE  \/ DOMAIN params = {} /\ ItemsOf(params) = <<>>
         \/ \E k \in Keys : DOMAIN params = {k} /\ ItemsOf(params) = <<Item(params, k)>>
         \/ /\ DOMAIN params = Keys
            /\ ItemsOf(params) = <<Item(params, "event_timestamps"), Item(params, "post_window_bars")>>
<1> DEFINE order == KeyOrder(params)
<1>1. ItemsOf(params) = [i \in DOMAIN order |-> Item(params, order[i])]
  BY DEF ItemsOf, Item
<1> HIDE DEF order
<1>2. CASE DOMAIN params = {} /\ order = <<>>
  BY <1>1, <1>2
<1>3. ASSUME NEW k \in Keys, DOMAIN params = {k}, order = <<k>>
      PROVE  ItemsOf(params) = <<Item(params, k)>>
  BY <1>1, <1>3
<1>4. CASE DOMAIN params = Keys /\ order = <<"event_timestamps", "post_window_bars">>
  BY <1>1, <1>4
<1>5. InOrder(params)
  <2>1. HasKeys(params)
    BY ParamsFacts DEF HasKeys
  <2> QED BY <2>1, KeyOrderFacts
<1>6. \/ DOMAIN params = {} /\ order = <<>>
      \/ \E k \in Keys : DOMAIN params = {k} /\ order = <<k>>
      \/ DOMAIN params = Keys /\ order = <<"event_timestamps", "post_window_bars">>
  BY <1>5, Zenon DEF InOrder, order
<1> QED BY <1>2, <1>3, <1>4, <1>6, Zenon

----------------------------------------------------------------------------
(* The inductive invariant: what each step of the way has established. *)

Validated ==
  /\ EstimatedCount(manifest) <= manifest.maxJobs /\ estimated = EstimatedCount(manifest)
  /\ manifest.calendar # "bad"
  /\ \A i \in DOMAIN manifest.jobs : BlockFits(manifest, manifest.jobs[i])
Allowed == fence = NoFence \/ \A i \in DOMAIN manifest.jobs : FenceAllows(manifest.jobs[i])
Parsed == \A i \in DOMAIN manifest.jobs : Parses(manifest.jobs[i])
AllJobs == FlattenSeq([i \in DOMAIN manifest.jobs |-> JobsOf(manifest.jobs[i])])
RefusedJobs == {k \in DOMAIN jobs : Refuses(RequestOf(jobs[k]))}

ManifestInv ==
  /\ asked \in Asked
  /\ pc \in {"configure", "load", "validate", "fence", "expand", "run", "done", "broken", "rejected"}
  /\ pc \notin {"configure", "rejected"} => fence = NotAfter(asked.layers) /\ fence # BadFence
  /\ pc \in {"validate", "fence", "expand", "run", "done", "broken"} =>
       manifest = Override(asked.file, asked.flags)
  /\ pc \in {"fence", "expand", "run", "done", "broken"} => Validated
  /\ pc \in {"expand", "run", "done", "broken"} => Allowed
  /\ pc = "broken" => ~Parsed
  /\ IF pc \in {"run", "done"} THEN Parsed /\ jobs = AllJobs ELSE jobs = <<>>
  /\ refused = IF pc = "done" THEN RefusedJobs ELSE {}

LEMMA InitInv == Init => ManifestInv
BY DEF Init, ManifestInv, Asked

\* What was established stays so while what it is about does.
LEMMA Unchanged ==
  ASSUME UNCHANGED given
  PROVE  /\ UNCHANGED estimated => Validated' = Validated
         /\ Allowed' = Allowed /\ Parsed' = Parsed /\ AllJobs' = AllJobs
         /\ UNCHANGED jobs => RefusedJobs' = RefusedJobs
<1>1. UNCHANGED estimated => Validated' = Validated
  BY DEF given, Validated
<1>2. Allowed' = Allowed
  BY DEF given, Allowed, FenceAllows, ClosedReaches, SpansReach
<1>3. Parsed' = Parsed
  BY DEF given, Parsed, Parses, CalendarOf
<1>4. AllJobs' = AllJobs
  BY DEF given, AllJobs, JobsOf, ResolvedJob, CalendarOf
<1>5. UNCHANGED jobs => RefusedJobs' = RefusedJobs
  BY DEF given, RefusedJobs, Refuses, HalfOpenReaches, SpansReach
<1> QED BY <1>1, <1>2, <1>3, <1>4, <1>5

LEMMA StepInv == ManifestInv /\ [Next]_vars => ManifestInv'
<1> SUFFICES ASSUME ManifestInv, [Next]_vars PROVE ManifestInv'
  OBVIOUS
<1>1. CASE Configure
  BY <1>1 DEF Configure, ManifestInv
<1>2. CASE Load
  BY <1>2 DEF Load, ManifestInv
<1>3. CASE Validate
  <2>1. CASE pc' = "fence"
    <3>1. Validated'
      BY <1>3, <2>1 DEF Validate, Validated, BlockFits, given
    <3> QED BY <1>3, <2>1, <3>1 DEF Validate, ManifestInv, given
  <2>2. CASE pc' # "fence"
    BY <1>3, <2>2 DEF Validate, ManifestInv, given
  <2> QED BY <2>1, <2>2
<1>4. CASE ValidateFence
  <2>1. pc = "fence" /\ UNCHANGED <<given, asked, manifest, fence, estimated, jobs, refused>>
        /\ pc' = IF Allowed THEN "expand" ELSE "rejected"
    BY <1>4 DEF ValidateFence, given, Allowed
  <2>2. Validated' = Validated /\ Allowed' = Allowed
    BY <2>1, Unchanged
  <2> QED BY <2>1, <2>2 DEF ManifestInv
<1>5. CASE Expand
  <2>1. /\ pc = "expand" /\ UNCHANGED <<given, asked, manifest, fence, estimated, refused>>
        /\ IF Parsed THEN pc' = "run" /\ jobs' = AllJobs ELSE pc' = "broken" /\ UNCHANGED jobs
    BY <1>5 DEF Expand, given, Parsed, AllJobs
  <2>2. Validated' = Validated /\ Allowed' = Allowed /\ Parsed' = Parsed /\ AllJobs' = AllJobs
    BY <2>1, Unchanged
  <2> QED BY <2>1, <2>2 DEF ManifestInv
<1>6. CASE RunJobs
  <2>1. /\ pc = "run" /\ pc' = "done" /\ refused' = RefusedJobs
        /\ UNCHANGED <<given, asked, manifest, fence, estimated, jobs>>
    BY <1>6 DEF RunJobs, given, RefusedJobs
  <2>2. /\ Validated' = Validated /\ Allowed' = Allowed /\ Parsed' = Parsed
        /\ AllJobs' = AllJobs /\ RefusedJobs' = RefusedJobs
    BY <2>1, Unchanged
  <2> QED BY <2>1, <2>2 DEF ManifestInv
<1>7. CASE UNCHANGED vars
  <2>1. UNCHANGED <<given, asked, manifest, fence, pc, estimated, jobs, refused>>
    BY <1>7 DEF vars, given
  <2>2. /\ Validated' = Validated /\ Allowed' = Allowed /\ Parsed' = Parsed
        /\ AllJobs' = AllJobs /\ RefusedJobs' = RefusedJobs
    BY <2>1, Unchanged
  <2> QED BY <2>1, <2>2 DEF ManifestInv
<1> QED BY <1>1, <1>2, <1>3, <1>4, <1>5, <1>6, <1>7 DEF Next, Stopped

\* What is known of the manifest, the fence and the jobs at each step of the way.
THEOREM ManifestInvariant == Spec => []ManifestInv
<1>1. Init => ManifestInv
  BY InitInv
<1>2. ManifestInv /\ [Next]_vars => ManifestInv'
  BY StepInv
<1> QED BY <1>1, <1>2, PTL DEF Spec

----------------------------------------------------------------------------
(* The manifest the executor is given. *)

LEMMA MergeType ==
  ASSUME NEW global \in Hygiene, NEW own \in Hygiene
  PROVE  /\ Merge(global, own) \in Hygiene
         /\ \A x \in Methods :
              /\ Merge(global, own)[x].name =
                   IF own[x].name = "absent" THEN global[x].name ELSE own[x].name
              /\ Merge(global, own)[x].n = IF own[x].n > 0 THEN own[x].n ELSE global[x].n
BY DEF Merge, Hygiene

LEMMA Given ==
  ASSUME asked \in Asked
  PROVE  /\ asked.file \in Files /\ asked.file.jobs \in Seq(Blocks) /\ asked.file.hygiene \in Hygiene
         /\ asked.file.maxJobs \in Nat /\ asked.file.maxJobs < MaxCount
         /\ asked.file.seed \in Nat \cup {NoSeed}
         /\ asked.file.calendar \in {"absent", "fx_utc", "bad"}
         /\ asked.flags.seed \in Nat \cup {NoSeed} /\ asked.flags.hygiene \in Hygiene
         /\ asked.layers \in Fences
<1>1. asked.file \in Manifests /\ asked.flags \in Flags /\ asked.layers \in Fences
  BY DEF Asked
<1>2. asked.file \in Files /\ asked.file.maxJobs < MaxCount
  BY <1>1, ManifestAssumption
<1>3. asked.flags \in [seed : Nat \cup {NoSeed}, hygiene : Hygiene]
  BY <1>1, ManifestAssumption
<1> QED BY <1>1, <1>2, <1>3 DEF Files

LEMMA Loaded ==
  ASSUME asked \in Asked, manifest = Override(asked.file, asked.flags)
  PROVE  /\ manifest.jobs = asked.file.jobs /\ manifest.jobs \in Seq(Blocks)
         /\ manifest.hygiene = Merge(asked.file.hygiene, asked.flags.hygiene)
         /\ manifest.hygiene \in Hygiene
         /\ manifest.maxJobs \in Nat /\ manifest.maxJobs < MaxCount
         /\ manifest.calendar = asked.file.calendar
         /\ manifest.seed = IF asked.flags.seed = NoSeed THEN asked.file.seed ELSE asked.flags.seed
<1>1. asked.file \in Files
  BY Given
<1>2. /\ manifest.jobs = asked.file.jobs /\ manifest.maxJobs = asked.file.maxJobs
      /\ manifest.calendar = asked.file.calendar
      /\ manifest.hygiene = Merge(asked.file.hygiene, asked.flags.hygiene)
      /\ manifest.seed = IF asked.flags.seed = NoSeed THEN asked.file.seed ELSE asked.flags.seed
  BY <1>1 DEF Override, Files
<1>3. manifest.hygiene \in Hygiene
  BY <1>2, Given, MergeType
<1> QED BY <1>2, <1>3, Given

----------------------------------------------------------------------------
(* Where each job comes from. *)

JobsFrom(block) ==
  {ResolvedJob(block, a, block.timeframes[t], block.windows[w], Cartesian(block.params)[p]) :
     a \in DOMAIN block.instruments, t \in DOMAIN block.timeframes,
     w \in DOMAIN block.windows, p \in DOMAIN Cartesian(block.params)}

\* n rows of m elements, one after the other.
AreRows(rows, n, m, S) ==
  rows = [i \in 1..n |-> rows[i]] /\ \A i \in 1..n : rows[i] \in Seq(S) /\ Len(rows[i]) = m

LEMMA Rows ==
  ASSUME NEW S, NEW n \in Nat, NEW m \in Nat, NEW rows, AreRows(rows, n, m, S)
  PROVE  FlattenSeq(rows) \in Seq(S) /\ Len(FlattenSeq(rows)) = n * m
<1>1. rows \in [1..n -> Seq(S)] /\ \A i \in 1..n : Len(rows[i]) = m
  BY DEF AreRows
<1>2. rows \in Seq(Seq(S)) /\ Len(rows) = n /\ DOMAIN rows = 1..n
  BY <1>1, IsSequence
<1> QED BY <1>1, <1>2, FlattenType, FlattenEven

LEMMA JobsOfFacts ==
  ASSUME NEW block \in Blocks, NEW n \in Nat,
         DOMAIN Cartesian(block.params) = 1..n
  PROVE  /\ JobsOf(block) \in Seq(JobsFrom(block))
         /\ Len(JobsOf(block)) =
              Len(block.instruments) * (Len(block.timeframes) * (Len(block.windows) * n))
<1> DEFINE S == JobsFrom(block)
           points == Cartesian(block.params)
           A == Len(block.instruments)
           T == Len(block.timeframes)
           W == Len(block.windows)
           row(a, t, w) == [p \in DOMAIN points |->
              ResolvedJob(block, a, block.timeframes[t], block.windows[w], points[p])]
           rows(a, t) == [w \in DOMAIN block.windows |-> row(a, t, w)]
           planes(a) == [t \in DOMAIN block.timeframes |-> FlattenSeq(rows(a, t))]
           all == [a \in DOMAIN block.instruments |-> FlattenSeq(planes(a))]
<1>1. JobsOf(block) = FlattenSeq(all)
  BY DEF JobsOf
<1>2. /\ DOMAIN block.instruments = 1..A /\ A \in Nat
      /\ DOMAIN block.timeframes = 1..T /\ T \in Nat
      /\ DOMAIN block.windows = 1..W /\ W \in Nat
      /\ DOMAIN points = 1..n
  BY DEF Blocks
<1> HIDE DEF A, T, W, points
<1>3. ASSUME NEW a \in 1..A, NEW t \in 1..T, NEW w \in 1..W
      PROVE  row(a, t, w) \in Seq(S) /\ Len(row(a, t, w)) = n
  <2>1. \A p \in 1..n :
          ResolvedJob(block, a, block.timeframes[t], block.windows[w], points[p]) \in S
    BY <1>2, <1>3 DEF JobsFrom, points
  <2> HIDE DEF S
  <2>2. row(a, t, w) \in [1..n -> S]
    BY <1>2, <2>1
  <2> HIDE DEF row
  <2> QED BY <2>2, IsSequence
<1> HIDE DEF row, S
<1>4. ASSUME NEW a \in 1..A, NEW t \in 1..T
      PROVE  FlattenSeq(rows(a, t)) \in Seq(S) /\ Len(FlattenSeq(rows(a, t))) = W * n
  <2> DEFINE r == rows(a, t)
  <2>1. r = [w \in 1..W |-> row(a, t, w)]
    BY <1>2
  <2> HIDE DEF r
  <2>2. AreRows(r, W, n, S)
    BY <1>3, <2>1 DEF AreRows
  <2>3. W \in Nat
    BY <1>2
  <2>4. FlattenSeq(r) \in Seq(S) /\ Len(FlattenSeq(r)) = W * n
    BY <2>2, <2>3, Rows, Zenon
  <2> QED BY <2>4 DEF r
<1> HIDE DEF rows
<1> DEFINE m == W * n
           mm == T * m
<1>5. m \in Nat /\ mm \in Nat
  <2>1. m \in Nat
    BY <1>2
  <2> HIDE DEF m
  <2> QED BY <1>2, <2>1
<1>6. \A a \in 1..A, t \in 1..T : FlattenSeq(rows(a, t)) \in Seq(S) /\ Len(FlattenSeq(rows(a, t))) = m
  BY <1>4
<1> HIDE DEF m
<1>7. ASSUME NEW a \in 1..A
      PROVE  FlattenSeq(planes(a)) \in Seq(S) /\ Len(FlattenSeq(planes(a))) = mm
  <2> DEFINE r == planes(a)
  <2>1. r = [t \in 1..T |-> FlattenSeq(rows(a, t))]
    BY <1>2
  <2> HIDE DEF r
  <2>2. AreRows(r, T, m, S)
    BY <1>6, <2>1 DEF AreRows
  <2>3. T \in Nat /\ m \in Nat
    BY <1>2, <1>5
  <2>4. FlattenSeq(r) \in Seq(S) /\ Len(FlattenSeq(r)) = T * m
    BY <2>2, <2>3, Rows, Zenon
  <2> QED BY <2>4 DEF r
<1> HIDE DEF planes, mm
<1>8. all = [a \in 1..A |-> FlattenSeq(planes(a))]
  BY <1>2
<1> HIDE DEF all
<1>9. A \in Nat /\ mm \in Nat /\ AreRows(all, A, mm, S)
  BY <1>2, <1>5, <1>7, <1>8 DEF AreRows
<1>10. FlattenSeq(all) \in Seq(S) /\ Len(FlattenSeq(all)) = A * mm
  BY <1>9, Rows, Zenon
<1> QED BY <1>1, <1>10 DEF A, T, W, S, m, mm

----------------------------------------------------------------------------
(* The points of a grid are as many as were counted. *)

LEMMA Numbers ==
  /\ Ceiling \in Nat /\ GridCeiling \in Nat /\ MaxCount \in Nat /\ MaxInstant \in Nat
  /\ DayLength \in Nat \ {0} /\ DefaultPost \in Nat \ {0}
BY ManifestAssumption

\* Products that saturate are exact below the bound.
Multiplies(a, b) ==
  /\ Times(a, b) \in Nat
  /\ Times(a, b) < MaxCount => Times(a, b) = a * b
  /\ Times(a, b) = 0 <=> a = 0 \/ b = 0
  /\ Times(a, b) < MaxCount /\ a > 0 /\ b > 0 => a <= Times(a, b) /\ b <= Times(a, b)

LEMMA TimesFacts ==
  ASSUME NEW a \in Nat, NEW b \in Nat, MaxCount \in Nat \ {0}
  PROVE  Multiplies(a, b)
<1> DEFINE c == a * b
<1>1. c \in Nat /\ (c = 0 <=> a = 0 \/ b = 0) /\ (a > 0 /\ b > 0 => a <= c /\ b <= c)
  <2>1. a > 0 /\ b > 0 => a <= c /\ b <= c
    OBVIOUS
  <2>2. a = 0 \/ b = 0 => c = 0
    OBVIOUS
  <2>3. c \in Nat
    OBVIOUS
  <2> QED BY <2>1, <2>2, <2>3
<1>2. Times(a, b) = IF c > MaxCount THEN MaxCount ELSE c
  BY DEF Times, Saturating
<1> HIDE DEF c
<1>3. /\ Times(a, b) \in Nat /\ (Times(a, b) < MaxCount => Times(a, b) = c)
      /\ (Times(a, b) = 0 <=> c = 0)
  BY <1>1, <1>2
<1> QED BY <1>1, <1>3 DEF c, Multiplies

LEMMA CountingIs ==
  ASSUME NEW s
  PROVE  FoldLeft(CountChoices, 1, s) = Counting!Fold(s)
BY Zenon DEF Counting!Fold, Counting!MapThenFoldSet, Counting!Top, FoldLeft, MapThenFoldSet, Max

LEMMA SummingIs ==
  ASSUME NEW s
  PROVE  FoldLeft(CountBlock, 0, s) = Summing!Fold(s)
BY Zenon DEF Summing!Fold, Summing!MapThenFoldSet, Summing!Top, FoldLeft, MapThenFoldSet, Max

LEMMA GriddingIs ==
  ASSUME NEW s
  PROVE  FoldLeft(With, <<NoParams>>, s) = Gridding!Fold(s)
BY Zenon DEF Gridding!Fold, Gridding!MapThenFoldSet, Gridding!Top, FoldLeft, MapThenFoldSet, Max

LEMMA GridFacts ==
  ASSUME NEW params \in Params, MaxCount \in Nat \ {0}
  PROVE  LET grid == FoldLeft(With, <<NoParams>>, ItemsOf(params))
         IN  /\ ParamCount(params) \in Nat \ {0}
             /\ grid \in Seq(PointsOn(DOMAIN params))
             /\ ParamCount(params) < MaxCount => Len(grid) = ParamCount(params)
<1> DEFINE grid == FoldLeft(With, <<NoParams>>, ItemsOf(params))
           first == <<NoParams>>
           G(K) == Seq(PointsOn(K))
<1>1. first \in G({}) /\ Len(first) = 1
  <2>1. NoParams \in PointsOn({})
    BY DEF NoParams, PointsOn
  <2> QED BY <2>1
<1>2. \A k \in DOMAIN params : params[k] \in Axes /\ ChoiceCount(params[k]) \in Nat \ {0}
  <2>1. \A k \in DOMAIN params : params[k] \in Axes
    BY ParamsFacts
  <2> QED BY <2>1, AxisFacts
<1>3. CASE DOMAIN params = {} /\ ItemsOf(params) = <<>>
  <2>1. ParamCount(params) = 1
    BY <1>3, CountingIs, Counting!FoldShort, Zenon DEF ParamCount
  <2>2. grid = first
    BY <1>3, GriddingIs, Gridding!FoldShort, Zenon
  <2> HIDE DEF grid, first
  <2> QED BY <1>1, <1>3, <2>1, <2>2 DEF grid
<1>4. ASSUME NEW k \in Keys, DOMAIN params = {k}, ItemsOf(params) = <<Item(params, k)>>
      PROVE  /\ ParamCount(params) \in Nat \ {0}
             /\ grid \in G({k})
             /\ ParamCount(params) < MaxCount => Len(grid) = ParamCount(params)
  <2> DEFINE item == Item(params, k)
  <2>1. ParamCount(params) = CountChoices(1, item)
    BY <1>4, CountingIs, Counting!FoldShort, Zenon DEF ParamCount
  <2>2. grid = With(first, item)
    BY <1>4, GriddingIs, Gridding!FoldShort, Zenon
  <2>3. params[k] \in Axes /\ ChoiceCount(params[k]) \in Nat \ {0}
    BY <1>2, <1>4
  <2>4. With(first, item) \in G({} \cup {k}) /\ Len(With(first, item)) = Len(first) * ChoiceCount(params[k])
    <3>1. Grown(first, {}, params, k)
      BY <1>1, <2>3, WithItem, Zenon
    <3> QED BY <3>1 DEF Grown
  <2>5. ParamCount(params) = Times(1, ChoiceCount(params[k]))
    BY <2>1 DEF CountChoices, Item
  <2>6. {} \cup {k} = {k} /\ 1 \in Nat
    OBVIOUS
  <2>7. Multiplies(1, ChoiceCount(params[k]))
    BY <2>3, <2>6, TimesFacts
  <2> HIDE DEF grid, first, item
  <2> QED BY <1>1, <2>2, <2>3, <2>4, <2>5, <2>6, <2>7 DEF Multiplies
<1>5. ASSUME NEW k \in Keys, NEW j \in Keys, DOMAIN params = {k, j},
             ItemsOf(params) = <<Item(params, k), Item(params, j)>>
      PROVE  /\ ParamCount(params) \in Nat \ {0}
             /\ grid \in G({k, j})
             /\ ParamCount(params) < MaxCount => Len(grid) = ParamCount(params)
  <2> DEFINE x == Item(params, k)
             y == Item(params, j)
             cx == ChoiceCount(params[k])
             cy == ChoiceCount(params[j])
             row == With(first, x)
  <2>1. ParamCount(params) = CountChoices(CountChoices(1, x), y)
    BY <1>5, CountingIs, Counting!FoldShort, Zenon DEF ParamCount
  <2>2. grid = With(row, y)
    BY <1>5, GriddingIs, Gridding!FoldShort, Zenon
  <2>3. params[k] \in Axes /\ cx \in Nat \ {0} /\ params[j] \in Axes /\ cy \in Nat \ {0}
    BY <1>2, <1>5
  <2>4. row \in G({} \cup {k}) /\ Len(row) = Len(first) * cx
    <3>1. Grown(first, {}, params, k)
      BY <1>1, <2>3, WithItem, Zenon
    <3> QED BY <3>1 DEF Grown
  <2> HIDE DEF row
  <2> DEFINE K == {} \cup {k}
  <2> HIDE DEF K, cx, cy
  <2>5. With(row, y) \in G(K \cup {j}) /\ Len(With(row, y)) = Len(row) * cy
    <3>1. Grown(row, K, params, j)
      <4>1. row \in Seq(PointsOn(K))
        BY <2>4 DEF K
      <4> QED BY <2>3, <4>1, WithItem, Zenon
    <3> QED BY <3>1 DEF Grown, cy
  <2>6. ParamCount(params) = Times(Times(1, cx), cy)
    BY <2>1 DEF CountChoices, Item, cx, cy
  <2>7. K \cup {j} = {k, j} /\ 1 \in Nat /\ Len(first) * cx = cx
    BY <1>1, <2>3 DEF K
  <2> HIDE DEF grid, first, x, y
  <2> DEFINE c == Times(1, cx)
  <2>8. c \in Nat /\ (c < MaxCount => c = cx) /\ c # 0
    <3>1. Multiplies(1, cx)
      BY <2>3, <2>7, TimesFacts
    <3> QED BY <2>3, <3>1 DEF Multiplies
  <2> HIDE DEF c
  <2>9. /\ Times(c, cy) \in Nat \ {0}
        /\ Times(c, cy) < MaxCount => Times(c, cy) = c * cy /\ c < MaxCount
    <3>1. Multiplies(c, cy)
      BY <2>3, <2>8, TimesFacts
    <3> QED BY <2>3, <2>8, <3>1 DEF Multiplies
  <2> QED BY <2>2, <2>4, <2>5, <2>6, <2>7, <2>8, <2>9 DEF c
<1> SUFFICES /\ ParamCount(params) \in Nat \ {0}
             /\ grid \in G(DOMAIN params)
             /\ ParamCount(params) < MaxCount => Len(grid) = ParamCount(params)
  OBVIOUS
<1> HIDE DEF grid, first
<1>6. CASE \E k \in Keys : DOMAIN params = {k} /\ ItemsOf(params) = <<Item(params, k)>>
  BY <1>4, <1>6
<1>7. CASE /\ DOMAIN params = Keys
           /\ ItemsOf(params) = <<Item(params, "event_timestamps"), Item(params, "post_window_bars")>>
  BY <1>5, <1>7 DEF Keys
<1> QED BY <1>3, <1>6, <1>7, ItemsFacts DEF grid

LEMMA CartesianFacts ==
  ASSUME NEW params \in Params, MaxCount \in Nat \ {0}
  PROVE  /\ Cartesian(params) \in Seq(PointsOn(DOMAIN params))
         /\ ParamCount(params) <= GridCeiling /\ ParamCount(params) < MaxCount =>
              Len(Cartesian(params)) = ParamCount(params)
<1> DEFINE grid == FoldLeft(With, <<NoParams>>, ItemsOf(params))
           S == PointsOn(DOMAIN params)
<1>1. /\ ParamCount(params) \in Nat
      /\ grid \in Seq(S) /\ (ParamCount(params) < MaxCount => Len(grid) = ParamCount(params))
  BY GridFacts
<1>2. Cartesian(params) = IF ParamCount(params) > GridCeiling THEN <<>> ELSE grid
  BY DEF Cartesian
<1> HIDE DEF grid, S
<1>3. CASE ParamCount(params) > GridCeiling
  <2>1. Cartesian(params) \in Seq(S)
    BY <1>2, <1>3
  <2>2. ~(ParamCount(params) <= GridCeiling)
    BY <1>1, <1>3, Numbers
  <2> QED BY <2>1, <2>2 DEF S
<1>4. CASE ~(ParamCount(params) > GridCeiling)
  BY <1>1, <1>2, <1>4 DEF S
<1> QED BY <1>3, <1>4

LEMMA BlockFacts ==
  ASSUME NEW block \in Blocks
  PROVE  /\ block.instruments \in Seq({"one", "two", "bad"}) /\ block.timeframes \in Seq(Nat)
         /\ block.windows \in Seq(WindowStrings) /\ block.params \in Params
         /\ block.hygiene \in Hygiene
         /\ Len(block.instruments) \in Nat /\ DOMAIN block.instruments = 1..Len(block.instruments)
         /\ Len(block.timeframes) \in Nat /\ DOMAIN block.timeframes = 1..Len(block.timeframes)
         /\ Len(block.windows) \in Nat /\ DOMAIN block.windows = 1..Len(block.windows)
<1>1. /\ block.instruments \in Seq({"one", "two", "bad"}) /\ block.timeframes \in Seq(Nat)
      /\ block.windows \in Seq(WindowStrings) /\ block.params \in Params
      /\ block.hygiene \in Hygiene
  BY DEF Blocks
<1>2. Len(block.instruments) \in Nat /\ DOMAIN block.instruments = 1..Len(block.instruments)
  BY <1>1
<1>3. Len(block.timeframes) \in Nat /\ DOMAIN block.timeframes = 1..Len(block.timeframes)
  BY <1>1
<1>4. Len(block.windows) \in Nat /\ DOMAIN block.windows = 1..Len(block.windows)
  BY <1>1
<1> QED BY <1>1, <1>2, <1>3, <1>4

\* A block that validate counted exactly has as many jobs.
LEMMA BlockCountIs ==
  ASSUME NEW block \in Blocks, MaxCount \in Nat \ {0}
  PROVE  /\ BlockCount(block) \in Nat
         /\ block.array /\ BlockCount(block) < MaxCount /\ BlockCount(block) <= GridCeiling =>
              Len(JobsOf(block)) = BlockCount(block)
<1> DEFINE A == Len(block.instruments)
           T == Len(block.timeframes)
           W == Len(block.windows)
           s == SlotCount(block)
           c == ParamCount(block.params)
           n == Len(Cartesian(block.params))
           x == Times(s, T)
           y == Times(x, W)
<1>1. s \in Nat /\ A \in Nat /\ T \in Nat /\ W \in Nat /\ (block.array => s = A)
  BY BlockFacts DEF SlotCount
<1>2. c \in Nat \ {0}
  <2>1. block.params \in Params
    BY BlockFacts
  <2> QED BY <2>1, GridFacts
<1>3. /\ DOMAIN Cartesian(block.params) = 1..n /\ n \in Nat
      /\ c <= GridCeiling /\ c < MaxCount => n = c
  <2>1. block.params \in Params
    BY BlockFacts
  <2>2. Cartesian(block.params) \in Seq(PointsOn(DOMAIN block.params))
    BY <2>1, CartesianFacts
  <2>3. c <= GridCeiling /\ c < MaxCount => n = c
    BY <2>1, CartesianFacts
  <2> QED BY <2>2, <2>3
<1>4. BlockCount(block) = Times(y, c)
  BY DEF BlockCount
<1>5. Len(JobsOf(block)) = A * (T * (W * n))
  BY <1>3, JobsOfFacts
<1> HIDE DEF A, T, W, s, c, n
<1>6. Multiplies(s, T) /\ x \in Nat
  <2>1. Multiplies(s, T)
    BY <1>1, TimesFacts
  <2> QED BY <2>1 DEF Multiplies
<1> HIDE DEF x
<1>7. Multiplies(x, W) /\ y \in Nat
  <2>1. Multiplies(x, W)
    BY <1>1, <1>6, TimesFacts
  <2> QED BY <2>1 DEF Multiplies
<1> HIDE DEF y
<1>8. Multiplies(y, c) /\ BlockCount(block) \in Nat
  <2>1. Multiplies(y, c)
    BY <1>2, <1>7, TimesFacts
  <2> QED BY <1>4, <2>1 DEF Multiplies
<1>9. ASSUME block.array, BlockCount(block) < MaxCount, BlockCount(block) <= GridCeiling
      PROVE  Len(JobsOf(block)) = BlockCount(block)
  <2>1. CASE y = 0
    <3>1. A = 0 \/ T = 0 \/ W = 0
      BY <1>1, <1>6, <1>7, <1>9, <2>1 DEF Multiplies, x, y
    <3>2. W = 0 => W * n = 0
      BY <1>1, <1>3
    <3>3. T = 0 \/ W * n = 0 => T * (W * n) = 0
      BY <1>1, <1>3
    <3>4. A = 0 \/ T * (W * n) = 0 => A * (T * (W * n)) = 0
      BY <1>1, <1>3
    <3>5. BlockCount(block) = 0
      BY <1>2, <1>4, <1>8, <2>1 DEF Multiplies
    <3> QED BY <1>5, <3>1, <3>2, <3>3, <3>4, <3>5
  <2>2. CASE y > 0
    <3>1. /\ BlockCount(block) = y * c /\ y <= BlockCount(block) /\ c <= BlockCount(block)
      BY <1>2, <1>4, <1>7, <1>8, <1>9, <2>2 DEF Multiplies
    <3>2. y < MaxCount /\ c < MaxCount /\ c <= GridCeiling
      BY <1>2, <1>7, <1>8, <1>9, <3>1, Numbers
    <3>3. n = c
      BY <1>3, <3>2
    <3>4. y = x * W /\ W > 0 /\ x > 0
      BY <1>1, <1>6, <1>7, <2>2, <3>2 DEF Multiplies, y
    <3>5. x <= y
      BY <1>1, <1>6, <1>7, <3>2, <3>4 DEF Multiplies, y
    <3>6. x = A * T
      BY <1>1, <1>6, <1>7, <1>9, <3>2, <3>5 DEF Multiplies, x
    <3>7. A * (T * (W * n)) = ((A * T) * W) * n
      BY <1>1, <1>3
    <3> QED BY <1>5, <3>1, <3>3, <3>4, <3>6, <3>7
  <2> QED BY <1>7, <2>1, <2>2
<1> QED BY <1>8, <1>9

----------------------------------------------------------------------------
(* All the jobs. *)

PiecesOf(s) == [i \in DOMAIN s |-> JobsOf(s[i])]
AllFrom(s) == UNION {JobsFrom(s[i]) : i \in DOMAIN s}

LEMMA PiecesType ==
  ASSUME NEW s \in Seq(Blocks), MaxCount \in Nat \ {0}
  PROVE  PiecesOf(s) \in Seq(Seq(AllFrom(s))) /\ Len(PiecesOf(s)) = Len(s)
<1> DEFINE S == AllFrom(s)
           n == Len(s)
<1>1. n \in Nat /\ DOMAIN s = 1..n /\ \A i \in 1..n : s[i] \in Blocks
  OBVIOUS
<1>2. ASSUME NEW i \in 1..n PROVE JobsOf(s[i]) \in Seq(S)
  <2>1. s[i] \in Blocks /\ s[i].params \in Params
    BY <1>1, BlockFacts
  <2>2. Cartesian(s[i].params) \in Seq(PointsOn(DOMAIN s[i].params))
    BY <2>1, CartesianFacts
  <2>3. /\ Len(Cartesian(s[i].params)) \in Nat
        /\ DOMAIN Cartesian(s[i].params) = 1..Len(Cartesian(s[i].params))
    BY <2>2
  <2>4. JobsOf(s[i]) \in Seq(JobsFrom(s[i]))
    BY <2>1, <2>3, JobsOfFacts
  <2>5. JobsFrom(s[i]) \subseteq S
    BY <1>1 DEF AllFrom
  <2> DEFINE J == JobsFrom(s[i])
             q == JobsOf(s[i])
  <2> HIDE DEF J, q, S
  <2> QED BY <2>4, <2>5 DEF J, q
<1> HIDE DEF S, n
<1>3. PiecesOf(s) \in [1..n -> Seq(S)]
  BY <1>1, <1>2 DEF PiecesOf
<1> QED BY <1>1, <1>3, IsSequence DEF S, n

\* Where the count stays under the limit, it is the number of jobs.
LEMMA TotalIs ==
  ASSUME NEW s \in Seq(Blocks), NEW max \in Nat, max < MaxCount, max <= GridCeiling,
         \A i \in DOMAIN s : s[i].array,
         FoldLeft(CountBlock, 0, s) <= max
  PROVE  Len(FlattenSeq(PiecesOf(s))) = FoldLeft(CountBlock, 0, s)
<1> DEFINE n == Len(s)
           seqs == PiecesOf(s)
<1>0. MaxCount \in Nat \ {0}
  BY Numbers
<1>1. n \in Nat /\ DOMAIN s = 1..n /\ \A i \in 1..n : s[i] \in Blocks
  OBVIOUS
<1>2. seqs \in Seq(Seq(AllFrom(s))) /\ Len(seqs) = n
  BY <1>0, PiecesType
<1>3. PICK f : Pieces(seqs, f, AllFrom(s))
  BY <1>2, Flattens
<1>4. PICK g : Summing!Runs(g, n, s)
  BY <1>1, Summing!FoldRuns
<1>5. FoldLeft(CountBlock, 0, s) = g[n]
  BY <1>4, SummingIs DEF Summing!Runs
<1>6. g[0] = 0 /\ Len(f[0]) = 0
  BY <1>3, <1>4 DEF Summing!Runs, Pieces
<1>7. ASSUME NEW i \in 1..n, g[i - 1] \in Nat
      PROVE  /\ g[i] \in Nat
             /\ g[i] <= max => /\ g[i] = g[i - 1] + BlockCount(s[i])
                               /\ Len(JobsOf(s[i])) = BlockCount(s[i])
  <2>1. g[i] = IF g[i - 1] + BlockCount(s[i]) > MaxCount THEN MaxCount
               ELSE g[i - 1] + BlockCount(s[i])
    BY <1>4 DEF Summing!Runs, CountBlock, Saturating
  <2>2. s[i] \in Blocks /\ s[i].array
    BY <1>1
  <2>3. BlockCount(s[i]) \in Nat
    BY <1>0, <2>2, BlockCountIs
  <2>4. g[i] <= max => g[i] = g[i - 1] + BlockCount(s[i]) /\ BlockCount(s[i]) < MaxCount
                       /\ BlockCount(s[i]) <= GridCeiling
    BY <1>0, <1>7, <2>1, <2>3, Numbers
  <2>5. g[i] <= max => Len(JobsOf(s[i])) = BlockCount(s[i])
    BY <1>0, <2>2, <2>4, BlockCountIs
  <2> QED BY <1>0, <1>7, <2>1, <2>3, <2>4, <2>5
<1>8. ASSUME NEW i \in 1..n PROVE Len(f[i]) = Len(f[i - 1]) + Len(JobsOf(s[i]))
  BY <1>1, <1>2, <1>3 DEF Pieces, PiecesOf
<1> DEFINE T == {i \in 0..n : g[i] \in Nat /\ (g[i] <= max => Len(f[i]) = g[i])}
<1>9. 0 \in T
  BY <1>1, <1>6
<1>10. ASSUME NEW i \in T, i < n PROVE i + 1 \in T
  <2>1. i + 1 \in 1..n /\ i + 1 \in 0..n /\ (i + 1) - 1 = i /\ g[i] \in Nat
    BY <1>1, <1>10
  <2>2. /\ g[i + 1] \in Nat
        /\ g[i + 1] <= max => /\ g[i + 1] = g[i] + BlockCount(s[i + 1])
                              /\ Len(JobsOf(s[i + 1])) = BlockCount(s[i + 1])
    BY <1>7, <2>1
  <2>3. Len(f[i + 1]) = Len(f[i]) + Len(JobsOf(s[i + 1]))
    BY <1>8, <2>1
  <2>4. BlockCount(s[i + 1]) \in Nat
    BY <1>0, <1>1, <2>1, BlockCountIs
  <2>5. g[i + 1] <= max => g[i] <= max
    BY <2>1, <2>2, <2>4
  <2> QED BY <2>1, <2>2, <2>3, <2>5
<1>11. T \in SUBSET (0..n)
  OBVIOUS
<1> HIDE DEF T
<1>12. T = 0..n
  BY <1>1, <1>9, <1>10, <1>11, Counting!UpTo
<1>13. n \in T
  BY <1>1, <1>12
<1> QED BY <1>2, <1>3, <1>5, <1>13 DEF T, Pieces

\* The jobs are the pieces of the blocks.
LEMMA JobsAre == AllJobs = FlattenSeq(PiecesOf(manifest.jobs))
BY DEF AllJobs, PiecesOf

\* What validate counted expand makes, when no grid is above its ceiling.
THEOREM CountIsExact == Spec => []CountExact
<1>1. ManifestInv => CountExact
  <2> SUFFICES ASSUME ManifestInv, pc = "run", manifest.maxJobs <= GridCeiling
               PROVE  Len(jobs) = estimated /\ Len(jobs) <= manifest.maxJobs
    BY DEF CountExact
  <2>1. asked \in Asked /\ manifest = Override(asked.file, asked.flags) /\ Validated /\ jobs = AllJobs
    BY DEF ManifestInv
  <2>2. /\ manifest.jobs \in Seq(Blocks) /\ manifest.maxJobs \in Nat
        /\ manifest.maxJobs < MaxCount
    BY <2>1, Loaded
  <2>3. \A i \in DOMAIN manifest.jobs : manifest.jobs[i].array
    BY <2>1 DEF Validated, BlockFits, ShapeFits
  <2>4. /\ FoldLeft(CountBlock, 0, manifest.jobs) <= manifest.maxJobs
        /\ estimated = FoldLeft(CountBlock, 0, manifest.jobs)
    BY <2>1 DEF Validated, EstimatedCount
  <2>5. Len(FlattenSeq(PiecesOf(manifest.jobs))) = FoldLeft(CountBlock, 0, manifest.jobs)
    BY <2>2, <2>3, <2>4, TotalIs
  <2> QED BY <2>1, <2>4, <2>5, JobsAre
<1> QED BY <1>1, ManifestInvariant, PTL

----------------------------------------------------------------------------
(* One job: the block, slot, timeframe, window and point it is made of. *)

IsMadeOf(job, block, a, t, w, point) ==
  /\ a \in DOMAIN block.instruments /\ t \in DOMAIN block.timeframes /\ w \in DOMAIN block.windows
  /\ point \in PointsOn(DOMAIN block.params) /\ point \in Range(Cartesian(block.params))
  /\ job = ResolvedJob(block, a, block.timeframes[t], block.windows[w], point)

LEMMA MadeOf ==
  ASSUME NEW block \in Blocks, MaxCount \in Nat \ {0}, NEW job \in JobsFrom(block)
  PROVE  \E a, t, w, point : IsMadeOf(job, block, a, t, w, point)
<1> DEFINE points == Cartesian(block.params)
<1>1. points \in Seq(PointsOn(DOMAIN block.params))
  BY BlockFacts, CartesianFacts
<1>2. PICK a \in DOMAIN block.instruments, t \in DOMAIN block.timeframes,
           w \in DOMAIN block.windows, p \in DOMAIN points :
        job = ResolvedJob(block, a, block.timeframes[t], block.windows[w], points[p])
  BY DEF JobsFrom
<1> HIDE DEF points
<1>3. points[p] \in PointsOn(DOMAIN block.params) /\ points[p] \in Range(points)
  BY <1>1 DEF Range
<1>4. IsMadeOf(job, block, a, t, w, points[p])
  BY <1>2, <1>3 DEF IsMadeOf, points
<1> QED BY <1>4

LEMMA ResolvedFields ==
  ASSUME NEW block, NEW a, NEW tf, NEW w, NEW point
  PROVE  LET job == ResolvedJob(block, a, tf, w, point)
         IN  /\ job.scan = block.scan /\ job.legs = <<block.instruments[a], a>>
             /\ job.tf = tf /\ job.window = w /\ job.point = point
             /\ job.gap = IF block.gap = "absent" THEN DefaultGapPolicy ELSE block.gap
             /\ job.calendar = CalendarOf(block)
             /\ job.hygiene = Merge(manifest.hygiene, block.hygiene)
             /\ job.master = (IF manifest.seed = NoSeed THEN 0 ELSE manifest.seed)
             /\ job.seed = DeriveJobSeed(job.master, job.scan, job.legs, job.tf, job.window, job.point)
BY DEF ResolvedJob

LEMMA MadeFields ==
  ASSUME NEW job, NEW block, NEW a, NEW t, NEW w, NEW point, IsMadeOf(job, block, a, t, w, point)
  PROVE  /\ job.scan = block.scan /\ job.legs = <<block.instruments[a], a>>
         /\ job.tf = block.timeframes[t] /\ job.window = block.windows[w] /\ job.point = point
         /\ job.hygiene = Merge(manifest.hygiene, block.hygiene)
<1>1. PICK tf : tf = block.timeframes[t]
  OBVIOUS
<1>2. PICK x : x = block.windows[w]
  OBVIOUS
<1>3. job = ResolvedJob(block, a, tf, x, point)
  BY <1>1, <1>2 DEF IsMadeOf
<1>4. /\ job.scan = block.scan /\ job.legs = <<block.instruments[a], a>>
      /\ job.tf = tf /\ job.window = x /\ job.point = point
      /\ job.hygiene = Merge(manifest.hygiene, block.hygiene)
  BY <1>3 DEF ResolvedJob
<1> QED BY <1>1, <1>2, <1>4

\* And they are of the types of the manifest.
LEMMA MadeTypes ==
  ASSUME NEW job, NEW block \in Blocks, NEW a, NEW t, NEW w, NEW point,
         IsMadeOf(job, block, a, t, w, point)
  PROVE  /\ job.window \in WindowStrings
         /\ job.tf \in Nat
<1>1. block.windows \in Seq(WindowStrings) /\ block.timeframes \in Seq(Nat)
  BY DEF Blocks
<1>2. w \in DOMAIN block.windows /\ t \in DOMAIN block.timeframes
  BY DEF IsMadeOf
<1>3. PICK ws \in Seq(WindowStrings) : ws = block.windows
  BY <1>1
<1>4. PICK ts \in Seq(Nat) : ts = block.timeframes
  BY <1>1
<1>5. job.window = ws[w] /\ job.tf = ts[t]
  BY <1>3, <1>4, MadeFields
<1>6. ws[w] \in WindowStrings
  BY <1>2, <1>3, ElementOfSeq
<1>7. ts[t] \in Nat
  BY <1>2, <1>4, ElementOfSeq
<1> QED BY <1>5, <1>6, <1>7

\* There are jobs only after everything was looked at, and each comes from a block.
LEMMA JobFacts ==
  ASSUME ManifestInv, NEW k \in DOMAIN jobs
  PROVE  /\ asked \in Asked /\ MaxCount \in Nat \ {0}
         /\ fence = NotAfter(asked.layers) /\ fence # BadFence
         /\ manifest = Override(asked.file, asked.flags)
         /\ Validated /\ Allowed /\ Parsed /\ jobs = AllJobs
         /\ manifest.jobs \in Seq(Blocks)
         /\ \E i \in DOMAIN manifest.jobs : \E a, t, w, point :
              IsMadeOf(jobs[k], manifest.jobs[i], a, t, w, point)
<1>1. jobs # <<>>
  OBVIOUS
<1>2. pc \in {"run", "done"} /\ jobs = AllJobs
  BY <1>1 DEF ManifestInv
<1>3. /\ asked \in Asked
      /\ fence = NotAfter(asked.layers) /\ fence # BadFence
      /\ manifest = Override(asked.file, asked.flags)
      /\ Validated /\ Allowed /\ Parsed
  BY <1>2 DEF ManifestInv
<1>4. manifest.jobs \in Seq(Blocks) /\ manifest.maxJobs \in Nat /\ manifest.maxJobs < MaxCount
  BY <1>3, Loaded
<1>5. MaxCount \in Nat \ {0}
  BY <1>4, Numbers
<1> DEFINE s == manifest.jobs
           S == AllFrom(s)
<1>6. jobs = FlattenSeq(PiecesOf(s))
  BY <1>2, JobsAre
<1>7. PiecesOf(s) \in Seq(Seq(S))
  BY <1>4, <1>5, PiecesType
<1> HIDE DEF S
<1>8. jobs \in Seq(S)
  BY <1>6, <1>7, FlattenType, Zenon
<1>9. jobs[k] \in S
  BY <1>8
<1>10. PICK i \in DOMAIN s : jobs[k] \in JobsFrom(s[i])
  BY <1>9 DEF S, AllFrom
<1>11. s[i] \in Blocks
  BY <1>4
<1>12. \E a, t, w, point : IsMadeOf(jobs[k], s[i], a, t, w, point)
  BY <1>5, <1>10, <1>11, MadeOf
<1> QED BY <1>2, <1>3, <1>4, <1>5, <1>12

----------------------------------------------------------------------------
(* What was accepted passes. *)

\* The windows, spans and instants of a job.
LEMMA PointFacts ==
  ASSUME NEW K, NEW point \in PointsOn(K)
  PROVE  Events(point) \subseteq Nat /\ Post(point) \in Nat
<1>1. DOMAIN point = K /\ \A k \in K : point[k].at \in SUBSET Nat /\ point[k].n \in Nat
  BY DEF PointsOn, Values
<1> QED BY <1>1, Numbers DEF Events, Post

LEMMA NotAfterType ==
  ASSUME NEW layers \in Fences
  PROVE  NotAfter(layers) \in Nat \cup {NoFence, BadFence}
<1>1. /\ layers.flag \in Nat \cup {NoFence, BadFence} /\ layers.env \in Nat \cup {NoFence, BadFence}
      /\ layers.files \in [{"named", "native", "cwd"} -> Nat \cup {NoFence, BadFence, NoFile}]
  BY ManifestAssumption
<1>2. ConfigFile(layers.files) \in Nat \cup {NoFence, BadFence, NoFile}
  BY <1>1 DEF ConfigFile
<1> QED BY <1>1, <1>2 DEF NotAfter, CliLayer, FileLayer

LEMMA JobPasses ==
  ASSUME ManifestInv, NEW k \in DOMAIN jobs
  PROVE  ~Refuses(RequestOf(jobs[k]))
<1> DEFINE job == jobs[k]
<1>0. PICK i \in DOMAIN manifest.jobs :
        \E a, t, w, point : IsMadeOf(job, manifest.jobs[i], a, t, w, point)
  BY JobFacts
<1>1. PICK a, t, w, point : IsMadeOf(job, manifest.jobs[i], a, t, w, point)
  BY <1>0
<1> DEFINE block == manifest.jobs[i]
           scan == Registry[job.scan]
<1>2. /\ asked \in Asked /\ fence = NotAfter(asked.layers) /\ fence # BadFence
      /\ Validated /\ Allowed
      /\ block \in Blocks
  BY JobFacts
<1>3. /\ job.scan = block.scan /\ job.legs = <<block.instruments[a], a>>
      /\ job.tf = block.timeframes[t] /\ job.window = block.windows[w] /\ job.point = point
      /\ job.hygiene = Merge(manifest.hygiene, block.hygiene)
  BY <1>1, MadeFields
<1>4. BlockFits(manifest, block)
  BY <1>2 DEF Validated
<1>5. scan = ScanOf(block) /\ scan.arity \in {1, 2}
  BY <1>3, <1>4, ManifestAssumption DEF BlockFits, Known, ScanOf, ScanRecords
<1>6. scan.arity = IF job.legs[1] = "one" THEN 1 ELSE 2
  <2>1. block.instruments[a] = IF scan.arity = 1 THEN "one" ELSE "two"
    BY <1>1, <1>4, <1>5 DEF BlockFits, ShapeFits, IsMadeOf
  <2>2. job.legs[1] = block.instruments[a]
    BY <1>3
  <2> QED BY <1>5, <2>1, <2>2
<1>7. \A x \in Methods : job.hygiene[x].name = "absent" \/ x \in scan.supports
  BY <1>3, <1>4, <1>5 DEF BlockFits
<1>8. fence # NoFence => ~HalfOpenReaches(job.window) /\ ~SpansReach(scan, job.tf, job.point)
  <2> SUFFICES ASSUME fence # NoFence
               PROVE  ~HalfOpenReaches(job.window) /\ ~SpansReach(scan, job.tf, job.point)
    OBVIOUS
  <2>1. fence \in Nat
    BY <1>2, Given, NotAfterType
  <2>2. FenceAllows(block)
    BY <1>2 DEF Allowed
  <2>3. ~ClosedReaches(job.window)
    BY <1>1, <1>3, <2>2 DEF FenceAllows, IsMadeOf
  <2>4. job.window \in WindowStrings
    BY <1>1, <1>2, MadeTypes
  <2>5. ~HalfOpenReaches(job.window)
    BY <2>1, <2>3, <2>4, Numbers DEF ClosedReaches, HalfOpenReaches, WindowStrings
  <2>6. ~SpansReach(scan, job.tf, job.point)
    BY <1>1, <1>3, <1>5, <2>2 DEF FenceAllows, IsMadeOf
  <2> QED BY <2>5, <2>6
<1> QED BY <1>6, <1>7, <1>8 DEF Refuses, RequestOf

\* Nothing that was looked at breaks the expansion.
LEMMA InvBroken == ManifestInv => BrokenOnlyBy
<1> SUFFICES ASSUME ManifestInv, pc = "broken"
             PROVE  \E i \in DOMAIN manifest.jobs :
                      LET b == manifest.jobs[i]
                      IN \/ b.gap = "bad"
                         \/ /\ fence = NoFence
                            /\ \/ \E t \in DOMAIN b.timeframes : b.timeframes[t] = BadTimeframe
                               \/ \E w \in DOMAIN b.windows : ~b.windows[w].ok
  BY DEF BrokenOnlyBy
<1>1. /\ asked \in Asked /\ manifest = Override(asked.file, asked.flags)
      /\ Validated /\ Allowed /\ ~Parsed
  BY DEF ManifestInv
<1>2. PICK i \in DOMAIN manifest.jobs : ~Parses(manifest.jobs[i])
  BY <1>1 DEF Parsed
<1> DEFINE b == manifest.jobs[i]
<1>3. BlockFits(manifest, b) /\ manifest.calendar # "bad"
  BY <1>1 DEF Validated
<1>4. Known(b) /\ ShapeFits(b) /\ CalendarOf(b) # "bad"
  BY <1>3 DEF BlockFits, CalendarOf, DefaultCalendar
<1>5. \A x \in Methods : Merge(manifest.hygiene, b.hygiene)[x].name # "bad"
  BY <1>3 DEF BlockFits
<1>6. \/ b.gap = "bad"
      \/ \E t \in DOMAIN b.timeframes : b.timeframes[t] = BadTimeframe
      \/ \E w \in DOMAIN b.windows : ~b.windows[w].ok
  BY <1>2, <1>4, <1>5 DEF Parses
<1>7. fence = NoFence \/ FenceAllows(b)
  BY <1>1 DEF Allowed
<1> QED BY <1>6, <1>7 DEF FenceAllows

\* A job of an accepted sweep is one the engine's preflight accepts, and expand gives up
\* over nothing that validate or validate_fence looked at.
THEOREM AcceptedPass == Spec => []AcceptedJobsPass
<1>1. ManifestInv => AcceptedJobsPass
  <2> SUFFICES ASSUME ManifestInv PROVE refused = {}
    BY InvBroken DEF AcceptedJobsPass
  <2>1. RefusedJobs = {}
    BY JobPasses DEF RefusedJobs
  <2> QED BY <2>1 DEF ManifestInv
<1> QED BY <1>1, ManifestInvariant, PTL

----------------------------------------------------------------------------
(* The fence. *)

LEMMA StrongestOfThree ==
  ASSUME NEW none, NEW v, DOMAIN v = 1..3
  PROVE  Strongest(v, none) = IF v[1] # none THEN v[1] ELSE IF v[2] # none THEN v[2]
                              ELSE IF v[3] # none THEN v[3] ELSE none
<1> DEFINE said == {i \in DOMAIN v : v[i] # none}
           first == CHOOSE i \in said : \A k \in said : i <= k
<1>1. Strongest(v, none) = IF said = {} THEN none ELSE v[first]
  BY DEF Strongest
<1>2. \A i : i \in said <=> (i = 1 \/ i = 2 \/ i = 3) /\ v[i] # none
  OBVIOUS
<1> HIDE DEF said
<1>3. ASSUME NEW i \in said, \A k \in said : i <= k PROVE first = i
  <2>1. \A j \in said : (\A k \in said : j <= k) => j = i
    BY <1>2, <1>3
  <2> QED BY <1>3, <2>1
<1> HIDE DEF first
<1>4. v[1] # none => first = 1
  BY <1>2, <1>3
<1>5. v[1] = none /\ v[2] # none => first = 2
  BY <1>2, <1>3
<1>6. v[1] = none /\ v[2] = none /\ v[3] # none => first = 3
  BY <1>2, <1>3
<1>7. said = {} <=> v[1] = none /\ v[2] = none /\ v[3] = none
  BY <1>2
<1> QED BY <1>1, <1>4, <1>5, <1>6, <1>7

LEMMA StrongestOfTwo ==
  ASSUME NEW none, NEW v, DOMAIN v = 1..2
  PROVE  Strongest(v, none) = IF v[1] # none THEN v[1] ELSE IF v[2] # none THEN v[2] ELSE none
<1> DEFINE said == {i \in DOMAIN v : v[i] # none}
           first == CHOOSE i \in said : \A k \in said : i <= k
<1>1. Strongest(v, none) = IF said = {} THEN none ELSE v[first]
  BY DEF Strongest
<1>2. \A i : i \in said <=> (i = 1 \/ i = 2) /\ v[i] # none
  OBVIOUS
<1> HIDE DEF said
<1>3. ASSUME NEW i \in said, \A k \in said : i <= k PROVE first = i
  <2>1. \A j \in said : (\A k \in said : j <= k) => j = i
    BY <1>2, <1>3
  <2> QED BY <1>3, <2>1
<1> HIDE DEF first
<1>4. v[1] # none => first = 1
  BY <1>2, <1>3
<1>5. v[1] = none /\ v[2] # none => first = 2
  BY <1>2, <1>3
<1>6. said = {} <=> v[1] = none /\ v[2] = none
  BY <1>2
<1> QED BY <1>1, <1>4, <1>5, <1>6

\* The layers of the configuration, merged one over the other, are the strongest one
\* that says anything.
LEMMA LimitIs ==
  ASSUME NEW layers \in Fences
  PROVE  LET files == layers.files
             file  == Strongest(<<files.named, files.native, files.cwd>>, NoFile)
         IN  NotAfter(layers) =
               Strongest(<<layers.flag, layers.env, IF file = NoFile THEN NoFence ELSE file>>, NoFence)
<1> DEFINE files == layers.files
           v == <<files.named, files.native, files.cwd>>
           file == Strongest(v, NoFile)
           l == IF file = NoFile THEN NoFence ELSE file
           u == <<layers.flag, layers.env, l>>
<1>1. DOMAIN v = 1..3 /\ v[1] = files.named /\ v[2] = files.native /\ v[3] = files.cwd
  OBVIOUS
<1> HIDE DEF v
<1>2. file = ConfigFile(files)
  BY <1>1, StrongestOfThree DEF ConfigFile
<1>3. l = FileLayer(layers)
  BY <1>2 DEF FileLayer
<1> HIDE DEF l
<1>4. DOMAIN u = 1..3 /\ u[1] = layers.flag /\ u[2] = layers.env /\ u[3] = l
  OBVIOUS
<1> HIDE DEF u
<1>5. Strongest(u, NoFence) = NotAfter(layers)
  BY <1>3, <1>4, StrongestOfThree DEF NotAfter, CliLayer
<1> QED BY <1>5 DEF u, l, v

\* The last bar an event's post window can take ends where the span does.
LEMMA SpanCovers ==
  ASSUME NEW event \in Nat, NEW tf \in Nat \ {0}, NEW post \in Nat,
         NEW open \in PostBars(event, tf, post)
  PROVE  post >= 1 /\ open + tf <= SpanEnd(event, tf, post)
<1> DEFINE c == (event + tf - 1) \div tf
           q == open \div tf
<1>1. /\ open \in Int /\ event <= open /\ open <= MaxInstant - tf /\ open % tf = 0
      /\ open < event + post * tf
  BY Numbers DEF PostBars
<1>2. open = q * tf /\ q \in Int
  BY <1>1
<1>3. c \in Int /\ event <= c * tf
  OBVIOUS
<1> HIDE DEF c, q
<1>4. post * tf \in Nat /\ c * tf \in Int
  BY <1>3
<1>5. post >= 1
  <2>1. post = 0 => post * tf = 0
    OBVIOUS
  <2> QED BY <1>1, <2>1
<1>6. q * tf < (c + post) * tf
  <2>1. (c + post) * tf = c * tf + post * tf
    BY <1>3
  <2> QED BY <1>1, <1>2, <1>3, <1>4, <2>1
<1>7. q < c + post
  BY <1>2, <1>3, <1>6
<1>8. (q + 1) * tf <= (c + post) * tf
  BY <1>2, <1>3, <1>7
<1>9. open + tf <= c * tf + post * tf
  BY <1>2, <1>3, <1>8
<1>10. open + tf <= MaxInstant
  BY <1>1, Numbers
<1>11. SpanEnd(event, tf, post) = IF c * tf + post * tf > MaxInstant THEN MaxInstant
                                  ELSE c * tf + post * tf
  BY DEF SpanEnd, c
<1> QED BY <1>5, <1>9, <1>10, <1>11

\* No job uses a minute at or after the fence the user set.
THEOREM FenceIsKept == Spec => []FenceHolds
<1>1. ManifestInv => FenceHolds
  <2> SUFFICES ASSUME ManifestInv PROVE FenceHolds
    OBVIOUS
  <2>0. asked \in Asked
    BY DEF ManifestInv
  <2> SUFFICES ASSUME NEW k \in DOMAIN jobs, NotAfter(asked.layers) # NoFence
               PROVE  LET job == jobs[k]
                      IN /\ LastUsed(job.window) < NotAfter(asked.layers)
                         /\ Registry[job.scan].spans =>
                              \A e \in Events(job.point) :
                                \A open \in PostBars(e, job.tf, Post(job.point)) :
                                  open + job.tf <= NotAfter(asked.layers)
    <3>1. asked.layers \in Fences
      BY <2>0, Given
    <3> QED BY <3>1, LimitIs DEF FenceHolds
  <2> DEFINE job == jobs[k]
             scan == Registry[job.scan]
  <2>1. PICK i \in DOMAIN manifest.jobs :
          \E a, t, w, point : IsMadeOf(job, manifest.jobs[i], a, t, w, point)
    BY JobFacts
  <2>2. PICK a, t, w, point : IsMadeOf(job, manifest.jobs[i], a, t, w, point)
    BY <2>1
  <2> DEFINE block == manifest.jobs[i]
  <2>3. /\ asked \in Asked /\ fence = NotAfter(asked.layers) /\ fence # BadFence
        /\ Validated /\ Allowed /\ block \in Blocks
    BY JobFacts
  <2>4. fence \in Nat
    BY <2>3, Given, NotAfterType
  <2>5. FenceAllows(block)
    BY <2>3 DEF Allowed
  <2>6. /\ job.scan = block.scan /\ job.tf = block.timeframes[t]
        /\ job.window = block.windows[w] /\ job.point = point
    BY <2>2, MadeFields
  <2>7. LastUsed(job.window) < fence
    <3>1. ~ClosedReaches(job.window)
      BY <2>2, <2>5, <2>6 DEF FenceAllows, IsMadeOf
    <3>2. job.window \in WindowStrings
      BY <2>2, <2>3, MadeTypes
    <3> QED BY <2>4, <3>1, <3>2, Numbers DEF ClosedReaches, LastUsed, WindowStrings
  <2>8. ASSUME scan.spans, NEW e \in Events(job.point),
               NEW open \in PostBars(e, job.tf, Post(job.point))
        PROVE  open + job.tf <= fence
    <3>1. point \in PointsOn(DOMAIN block.params) /\ e \in Nat /\ Post(point) \in Nat
      BY <2>2, <2>6, <2>8, PointFacts DEF IsMadeOf
    <3>2. job.tf \in Nat \ {0}
      <4>1. job.tf \in Nat
        BY <2>2, <2>3, MadeTypes
      <4>2. job.tf # 0
        BY <2>2, <2>5, <2>6 DEF FenceAllows, IsMadeOf, BadTimeframe
      <4> QED BY <4>1, <4>2
    <3> DEFINE end == SpanEnd(e, job.tf, Post(point))
    <3>3. Post(point) >= 1 /\ open + job.tf <= end
      BY <2>6, <2>8, <3>1, <3>2, SpanCovers
    <3>4. end \in SpanEnds(scan, job.tf, point)
      BY <2>6, <2>8, <3>3 DEF SpanEnds
    <3>5. ~SpansReach(scan, job.tf, point)
      BY <2>2, <2>5, <2>6 DEF FenceAllows, IsMadeOf, ScanOf
    <3>6. ~(end > fence)
      BY <3>4, <3>5 DEF SpansReach
    <3>7. end \in Int /\ open \in Int
      BY <2>8, <3>1, <3>2, Numbers DEF SpanEnd, PostBars
    <3> HIDE DEF end
    <3> QED BY <2>4, <3>2, <3>3, <3>6, <3>7
  <2> QED BY <2>3, <2>7, <2>8
<1> QED BY <1>1, ManifestInvariant, PTL

----------------------------------------------------------------------------
(* What was asked for. *)

LEMMA HygieneIsAsked ==
  ASSUME asked \in Asked, manifest = Override(asked.file, asked.flags), NEW block \in Blocks
  PROVE  Merge(manifest.hygiene, block.hygiene) = AskedOf(block)
<1> DEFINE places == <<block.hygiene, asked.flags.hygiene, asked.file.hygiene>>
           own == block.hygiene
           flags == asked.flags.hygiene
           file == asked.file.hygiene
           merged == Merge(manifest.hygiene, own)
<1>1. own \in Hygiene /\ flags \in Hygiene /\ file \in Hygiene
  BY Given, BlockFacts
<1>2. manifest.hygiene = Merge(file, flags) /\ manifest.hygiene \in Hygiene
  BY Loaded
<1>3. places[1] = own /\ places[2] = flags /\ places[3] = file
  OBVIOUS
<1>4. AskedOf(block) =
        [x \in Methods |-> [name |-> Strongest([i \in 1..3 |-> places[i][x].name], "absent"),
                            n |-> Strongest([i \in 1..3 |-> places[i][x].n], 0)]]
  BY DEF AskedOf
<1> HIDE DEF places, own, flags, file
<1>5. ASSUME NEW x \in Methods
      PROVE  /\ merged[x].name = Strongest([i \in 1..3 |-> places[i][x].name], "absent")
             /\ merged[x].n = Strongest([i \in 1..3 |-> places[i][x].n], 0)
  <2> DEFINE names == [i \in 1..3 |-> places[i][x].name]
             ns == [i \in 1..3 |-> places[i][x].n]
  <2>1. /\ merged[x].name = IF own[x].name = "absent" THEN manifest.hygiene[x].name ELSE own[x].name
        /\ merged[x].n = IF own[x].n > 0 THEN own[x].n ELSE manifest.hygiene[x].n
    BY <1>1, <1>2, MergeType
  <2>2. /\ manifest.hygiene[x].name = IF flags[x].name = "absent" THEN file[x].name ELSE flags[x].name
        /\ manifest.hygiene[x].n = IF flags[x].n > 0 THEN flags[x].n ELSE file[x].n
    BY <1>1, <1>2, MergeType
  <2>3. own[x].n \in Nat /\ flags[x].n \in Nat /\ file[x].n \in Nat
    BY <1>1 DEF Hygiene
  <2>4. DOMAIN names = 1..3 /\ names[1] = own[x].name /\ names[2] = flags[x].name /\ names[3] = file[x].name
    BY <1>3
  <2>5. DOMAIN ns = 1..3 /\ ns[1] = own[x].n /\ ns[2] = flags[x].n /\ ns[3] = file[x].n
    BY <1>3
  <2> HIDE DEF names, ns, merged
  <2>6. Strongest(names, "absent") = IF names[1] # "absent" THEN names[1] ELSE IF names[2] # "absent"
          THEN names[2] ELSE IF names[3] # "absent" THEN names[3] ELSE "absent"
    BY <2>4, StrongestOfThree
  <2>7. Strongest(ns, 0) = IF ns[1] # 0 THEN ns[1] ELSE IF ns[2] # 0 THEN ns[2]
          ELSE IF ns[3] # 0 THEN ns[3] ELSE 0
    BY <2>5, StrongestOfThree
  <2>8. merged[x].name = Strongest(names, "absent")
    BY <2>1, <2>2, <2>4, <2>6
  <2>9. merged[x].n = Strongest(ns, 0)
    BY <2>1, <2>2, <2>3, <2>5, <2>7
  <2> QED BY <2>8, <2>9 DEF names, ns
<1>6. merged = [x \in Methods |-> [name |-> merged[x].name, n |-> merged[x].n]]
  BY DEF Merge
<1> HIDE DEF merged
<1>7. merged = AskedOf(block)
  BY <1>4, <1>5, <1>6
<1> QED BY <1>7 DEF merged, own

\* The point goes through the items of a command line and comes out as it was.
LEMMA ItemsRoundTrip ==
  ASSUME NEW point, HasKeys(point), point = [k \in DOMAIN point |-> point[k]]
  PROVE  LET keys == KeyOrder(point)
             items == [i \in DOMAIN keys |-> [key |-> keys[i], value |-> point[keys[i]]]]
         IN  /\ ParsesParams(items)
             /\ [k \in DOMAIN ParamsOf(items) |-> items[ParamsOf(items)[k]].value] = point
<1> DEFINE keys == KeyOrder(point)
           items == [i \in DOMAIN keys |-> [key |-> keys[i], value |-> point[keys[i]]]]
           found == ParamsOf(items)
<1>1. Lists(keys, DOMAIN point)
  BY OrderIs
<1> HIDE DEF keys
<1>2. DOMAIN items = DOMAIN keys
      /\ \A i \in DOMAIN keys : items[i].key = keys[i] /\ items[i].value = point[keys[i]]
  OBVIOUS
<1> HIDE DEF items
<1>3. ParsesParams(items)
  BY <1>1, <1>2 DEF ParsesParams, Lists
<1>4. {items[i].key : i \in DOMAIN items} = DOMAIN point
  <2>1. \A i \in DOMAIN items : items[i].key \in DOMAIN point
    BY <1>1, <1>2 DEF Lists
  <2>2. \A k \in DOMAIN point : \E i \in DOMAIN items : items[i].key = k
    BY <1>1, <1>2 DEF Lists
  <2> QED BY <2>1, <2>2
<1>5. found = [k \in DOMAIN point |-> CHOOSE i \in DOMAIN items : items[i].key = k]
  BY <1>4 DEF ParamsOf
<1>6. DOMAIN found = DOMAIN point
      /\ \A k \in DOMAIN point : found[k] = CHOOSE i \in DOMAIN items : items[i].key = k
  BY <1>5
<1> HIDE DEF found
<1>7. ASSUME NEW k \in DOMAIN point PROVE items[found[k]].value = point[k]
  <2>1. \E i \in DOMAIN items : items[i].key = k
    BY <1>4
  <2>2. found[k] \in DOMAIN items /\ items[found[k]].key = k
    BY <1>6, <2>1
  <2> QED BY <1>2, <2>2
<1>8. [k \in DOMAIN found |-> items[found[k]].value] = [k \in DOMAIN point |-> point[k]]
  BY <1>6, <1>7
<1> QED BY <1>3, <1>8 DEF items, keys, found

\* A product of one is a product of ones.
LEMMA OneIsOnes ==
  ASSUME NEW a \in Nat, NEW b \in Nat, NEW c \in Nat, NEW d \in Nat, a * (b * (c * d)) = 1
  PROVE  a = 1 /\ b = 1 /\ c = 1
<1>1. ASSUME NEW x \in Nat, NEW y \in Nat, x * y = 1 PROVE x = 1 /\ y = 1
  <2>1. x # 0 /\ y # 0
    BY <1>1
  <2>2. x > 1 => x * y > y
    BY <2>1
  <2>3. y > 1 => x * y > x
    BY <2>1
  <2> QED BY <1>1, <2>1, <2>2, <2>3
<1> DEFINE p == c * d
           q == b * p
<1>2. p \in Nat
  OBVIOUS
<1> HIDE DEF p
<1>3. q \in Nat
  BY <1>2
<1> HIDE DEF q
<1>4. a * q = 1
  BY DEF p, q
<1>5. a = 1 /\ q = 1
  BY <1>1, <1>3, <1>4
<1>6. b = 1 /\ p = 1
  BY <1>1, <1>2, <1>5 DEF q
<1>7. c = 1
  BY <1>1, <1>6 DEF p
<1> QED BY <1>5, <1>6, <1>7

\* A sweep of one job makes it of the first slot, timeframe and window of its block.
LEMMA OnlyJob ==
  ASSUME ManifestInv, OneJob
  PROVE  /\ 1 \in DOMAIN jobs /\ manifest.jobs[1] \in Blocks /\ Parses(manifest.jobs[1])
         /\ manifest.jobs[1].instruments # <<>>
         /\ 1 \in DOMAIN manifest.jobs[1].timeframes /\ 1 \in DOMAIN manifest.jobs[1].windows
         /\ \E point : IsMadeOf(jobs[1], manifest.jobs[1], 1, 1, 1, point)
<1> DEFINE s == manifest.jobs
           block == s[1]
           seqs == PiecesOf(s)
           n == Len(Cartesian(block.params))
<1>1. jobs # <<>> /\ Len(jobs) = 1 /\ Len(s) = 1
  BY DEF OneJob
<1>2. pc \in {"run", "done"} /\ jobs = AllJobs
  BY <1>1 DEF ManifestInv
<1>3. asked \in Asked /\ manifest = Override(asked.file, asked.flags) /\ Parsed
  BY <1>2 DEF ManifestInv
<1>4. s \in Seq(Blocks) /\ MaxCount \in Nat \ {0}
  <2>1. s \in Seq(Blocks) /\ manifest.maxJobs \in Nat /\ manifest.maxJobs < MaxCount
    BY <1>3, Loaded
  <2> QED BY <2>1, Numbers
<1>5. DOMAIN s = 1..1 /\ block \in Blocks /\ Parses(block)
  BY <1>1, <1>3, <1>4 DEF Parsed
<1>6. seqs \in Seq(Seq(AllFrom(s))) /\ Len(seqs) = 1
  BY <1>1, <1>4, PiecesType
<1>7. jobs = FlattenSeq(seqs)
  BY <1>2, JobsAre
<1>8. seqs[1] = JobsOf(block)
  BY <1>5 DEF PiecesOf
<1>9. Len(jobs) = Len(JobsOf(block)) /\ jobs \in Seq(AllFrom(s))
  <2> DEFINE m == Len(JobsOf(block))
  <2>1. m \in Nat /\ DOMAIN seqs = 1..1
    BY <1>6, <1>8
  <2>2. \A i \in DOMAIN seqs : Len(seqs[i]) = m
    BY <1>8, <2>1
  <2> HIDE DEF m, seqs
  <2>3. Len(jobs) = Len(seqs) * m
    BY <1>6, <1>7, <2>1, <2>2, FlattenEven
  <2>4. jobs \in Seq(AllFrom(s))
    BY <1>6, <1>7, FlattenType, Zenon
  <2> QED BY <1>6, <2>1, <2>3, <2>4 DEF m
<1>10. 1 \in DOMAIN jobs
  BY <1>1, <1>9
<1>11. n \in Nat /\ DOMAIN Cartesian(block.params) = 1..n
  <2>1. Cartesian(block.params) \in Seq(PointsOn(DOMAIN block.params))
    BY <1>4, <1>5, BlockFacts, CartesianFacts
  <2> QED BY <2>1
<1>12. Len(JobsOf(block)) =
         Len(block.instruments) * (Len(block.timeframes) * (Len(block.windows) * n))
  BY <1>5, <1>11, JobsOfFacts
<1>13. /\ DOMAIN block.instruments = 1..Len(block.instruments) /\ Len(block.instruments) \in Nat
       /\ DOMAIN block.timeframes = 1..Len(block.timeframes) /\ Len(block.timeframes) \in Nat
       /\ DOMAIN block.windows = 1..Len(block.windows) /\ Len(block.windows) \in Nat
  BY <1>5, BlockFacts
<1>14. Len(block.instruments) = 1 /\ Len(block.timeframes) = 1 /\ Len(block.windows) = 1
  <2> DEFINE x == Len(block.instruments)
             y == Len(block.timeframes)
             z == Len(block.windows)
  <2>1. x \in Nat /\ y \in Nat /\ z \in Nat /\ x * (y * (z * n)) = 1
    BY <1>1, <1>9, <1>12, <1>13
  <2> HIDE DEF x, y, z, n
  <2>2. x = 1 /\ y = 1 /\ z = 1
    BY <1>11, <2>1, OneIsOnes
  <2> QED BY <2>2 DEF x, y, z
<1>15. PICK i \in DOMAIN s : \E a, t, w, point : IsMadeOf(jobs[1], s[i], a, t, w, point)
  BY <1>10, JobFacts
<1>16. i = 1
  BY <1>5
<1>17. PICK a, t, w, point : IsMadeOf(jobs[1], block, a, t, w, point)
  BY <1>15, <1>16
<1>18. a = 1 /\ t = 1 /\ w = 1
  <2>1. a \in 1..1 /\ t \in 1..1 /\ w \in 1..1
    BY <1>13, <1>14, <1>17 DEF IsMadeOf
  <2> QED BY <2>1
<1>19. block.instruments # <<>> /\ 1 \in DOMAIN block.timeframes /\ 1 \in DOMAIN block.windows
  <2>1. Len(<<>>) = 0
    OBVIOUS
  <2> QED BY <1>13, <1>14, <2>1
<1> QED BY <1>5, <1>10, <1>17, <1>18, <1>19

\* A request without a seed of its own gets one.
LEMMA SeededIs ==
  ASSUME NEW scan, NEW legs, NEW tf, NEW window, NEW gap, NEW calendar, NEW point, NEW hygiene,
         NEW seed
  PROVE  LET master == IF seed = NoSeed THEN 0 ELSE seed
             req(m, s) == [scan |-> scan, legs |-> legs, tf |-> tf, window |-> window,
                           gap |-> gap, calendar |-> calendar, point |-> point,
                           hygiene |-> hygiene, master |-> m, seed |-> s]
         IN  Seeded(req(seed, <<>>)) =
               req(master, DeriveJobSeed(master, scan, legs, tf, window, point))
<1> DEFINE master == IF seed = NoSeed THEN 0 ELSE seed
           d == DeriveJobSeed(master, scan, legs, tf, window, point)
           req(m, s) == [scan |-> scan, legs |-> legs, tf |-> tf, window |-> window,
                         gap |-> gap, calendar |-> calendar, point |-> point,
                         hygiene |-> hygiene, master |-> m, seed |-> s]
           r == req(seed, <<>>)
<1>1. /\ r.master = seed /\ r.seed = <<>> /\ r.scan = scan /\ r.legs = legs /\ r.tf = tf
      /\ r.window = window /\ r.point = point
  OBVIOUS
<1>2. Seeded(r) = [r EXCEPT !.master = master, !.seed = IF @ # <<>> THEN @ ELSE d]
  BY <1>1 DEF Seeded
<1> HIDE DEF master, d
<1>3. [r EXCEPT !.master = master] = req(master, <<>>)
  OBVIOUS
<1>4. [req(master, <<>>) EXCEPT !.seed = d] = req(master, d)
  OBVIOUS
<1>5. req(master, <<>>).seed = <<>>
  OBVIOUS
<1> HIDE DEF r, req
<1>6. [r EXCEPT !.master = master, !.seed = IF @ # <<>> THEN @ ELSE d] =
        [[r EXCEPT !.master = master] EXCEPT !.seed = IF @ # <<>> THEN @ ELSE d]
  OBVIOUS
<1>7. Seeded(r) = req(master, d)
  BY <1>2, <1>3, <1>4, <1>5, <1>6
<1> QED BY <1>7 DEF r, req, master, d

LEMMA SameRequest ==
  ASSUME ManifestInv, OneJob
  PROVE  RequestOf(jobs[1]) = Seeded(ToScanRequest(ScanArgsOf(manifest.jobs[1])))
<1> DEFINE block == manifest.jobs[1]
           job == jobs[1]
           args == ScanArgsOf(block)
           tf == block.timeframes[1]
           window == block.windows[1]
           legs == <<block.instruments[1], 1>>
           point == job.point
           keys == KeyOrder(point)
           items == [i \in DOMAIN keys |-> [key |-> keys[i], value |-> point[keys[i]]]]
           found == ParamsOf(items)
           gap == IF block.gap = "absent" THEN DefaultGapPolicy ELSE block.gap
           said == Strongest(<<block.calendar, asked.file.calendar>>, "absent")
           calendar == IF said = "absent" THEN DefaultCalendar ELSE said
           seed == Strongest(<<asked.flags.seed, asked.file.seed>>, NoSeed)
           master == IF seed = NoSeed THEN 0 ELSE seed
<1>1. /\ 1 \in DOMAIN jobs /\ block \in Blocks /\ Parses(block) /\ block.instruments # <<>>
      /\ 1 \in DOMAIN block.timeframes /\ 1 \in DOMAIN block.windows
  BY OnlyJob
<1>2. PICK p : IsMadeOf(job, block, 1, 1, 1, p)
  BY OnlyJob
<1>3. asked \in Asked /\ manifest = Override(asked.file, asked.flags) /\ manifest.calendar # "bad"
  BY <1>1, JobFacts DEF Validated
<1>4. /\ manifest.calendar = asked.file.calendar
      /\ manifest.seed = IF asked.flags.seed = NoSeed THEN asked.file.seed ELSE asked.flags.seed
  BY <1>3, Loaded
<1>5. job = ResolvedJob(block, 1, tf, window, point) /\ point = p
  BY <1>2, ResolvedFields DEF IsMadeOf
<1>6. HasKeys(point) /\ point = [k \in DOMAIN point |-> point[k]]
  <2>1. p \in PointsOn(DOMAIN block.params) /\ block.params \in Params
    BY <1>1, <1>2, BlockFacts DEF IsMadeOf
  <2>2. DOMAIN p = DOMAIN block.params /\ p = [k \in DOMAIN p |-> p[k]]
    BY <2>1 DEF PointsOn
  <2> QED BY <1>5, <2>1, <2>2, ParamsFacts DEF HasKeys
<1>7. ParsesParams(items) /\ [k \in DOMAIN found |-> items[found[k]].value] = point
  BY <1>6, ItemsRoundTrip
<1>8. calendar = CalendarOf(block) /\ calendar # "bad"
  <2> DEFINE v == <<block.calendar, asked.file.calendar>>
  <2>1. DOMAIN v = 1..2 /\ v[1] = block.calendar /\ v[2] = asked.file.calendar
    OBVIOUS
  <2> HIDE DEF v
  <2>2. Strongest(v, "absent") = IF v[1] # "absent" THEN v[1] ELSE IF v[2] # "absent" THEN v[2]
                                 ELSE "absent"
    BY <2>1, StrongestOfTwo
  <2>3. Strongest(v, "absent") = said
    BY DEF v
  <2>4. CalendarOf(block) # "bad"
    BY <1>1 DEF Parses
  <2>5. CalendarOf(block) = IF block.calendar # "absent" THEN block.calendar
                            ELSE IF asked.file.calendar # "absent" THEN asked.file.calendar
                            ELSE DefaultCalendar
    BY <1>4 DEF CalendarOf
  <2> QED BY <2>1, <2>2, <2>3, <2>4, <2>5
<1>9. seed = manifest.seed
  <2> DEFINE v == <<asked.flags.seed, asked.file.seed>>
  <2>1. DOMAIN v = 1..2 /\ v[1] = asked.flags.seed /\ v[2] = asked.file.seed
    OBVIOUS
  <2> HIDE DEF v
  <2>2. Strongest(v, NoSeed) = IF v[1] # NoSeed THEN v[1] ELSE IF v[2] # NoSeed THEN v[2] ELSE NoSeed
    BY <2>1, StrongestOfTwo
  <2>3. Strongest(v, NoSeed) = seed
    BY DEF v
  <2> QED BY <1>4, <2>1, <2>2, <2>3
<1>10. AskedOf(block) = Merge(manifest.hygiene, block.hygiene)
       /\ \A x \in Methods : AskedOf(block)[x].name # "bad"
  <2>1. AskedOf(block) = Merge(manifest.hygiene, block.hygiene)
    BY <1>1, <1>3, HygieneIsAsked
  <2> QED BY <1>1, <2>1 DEF Parses
<1>11. tf # BadTimeframe /\ window.ok /\ gap # "bad"
  BY <1>1 DEF Parses, DefaultGapPolicy
<1>12. /\ args.scan = block.scan /\ args.legs = legs /\ args.tf = tf /\ args.window = window
       /\ args.gap = block.gap /\ args.calendar = said /\ args.params = items
       /\ args.hygiene = AskedOf(block) /\ args.seed = seed
  BY DEF ScanArgsOf
<1> HIDE DEF args, items, keys, found, said, seed
<1> DEFINE req == [scan |-> block.scan, legs |-> legs, tf |-> tf, window |-> window,
                   gap |-> gap, calendar |-> calendar, point |-> point,
                   hygiene |-> AskedOf(block), master |-> seed, seed |-> <<>>]
<1>13. ToScanRequest(args) = req
  <2>1. ~(\/ args.tf = BadTimeframe \/ ~args.window.ok
          \/ gap = "bad" \/ calendar = "bad"
          \/ ~ParsesParams(args.params)
          \/ \E x \in Methods : args.hygiene[x].name = "bad")
    BY <1>7, <1>8, <1>10, <1>11, <1>12
  <2> QED BY <1>7, <1>12, <2>1 DEF ToScanRequest, found
<1>14. RequestOf(job) =
         [scan |-> block.scan, legs |-> legs, tf |-> tf, window |-> window,
          gap |-> gap, calendar |-> calendar, point |-> point,
          hygiene |-> AskedOf(block), master |-> master,
          seed |-> DeriveJobSeed(master, block.scan, legs, tf, window, point)]
  BY <1>5, <1>8, <1>9, <1>10 DEF RequestOf, ResolvedJob
<1> HIDE DEF gap, calendar, legs, tf, window
<1>15. Seeded(req) =
         [scan |-> block.scan, legs |-> legs, tf |-> tf, window |-> window,
          gap |-> gap, calendar |-> calendar, point |-> point,
          hygiene |-> AskedOf(block), master |-> master,
          seed |-> DeriveJobSeed(master, block.scan, legs, tf, window, point)]
  BY SeededIs
<1> QED BY <1>13, <1>14, <1>15 DEF args

\* Every job is the request that was asked for, and the only job of a sweep the one miner
\* scan makes of the same words.
THEOREM AskedIsRun == Spec => []AsAsked
<1>1. ManifestInv => AsAsked
  <2> SUFFICES ASSUME ManifestInv, NEW k \in DOMAIN jobs
               PROVE  /\ \A x \in Methods : jobs[k].hygiene[x].n <= Ceiling
                      /\ \E i \in DOMAIN manifest.jobs : jobs[k].hygiene = AskedOf(manifest.jobs[i])
    BY SameRequest DEF AsAsked
  <2>1. PICK i \in DOMAIN manifest.jobs :
          \E a, t, w, point : IsMadeOf(jobs[k], manifest.jobs[i], a, t, w, point)
    BY JobFacts
  <2>2. PICK a, t, w, point : IsMadeOf(jobs[k], manifest.jobs[i], a, t, w, point)
    BY <2>1
  <2>3. /\ asked \in Asked /\ manifest = Override(asked.file, asked.flags) /\ Validated
        /\ manifest.jobs[i] \in Blocks
    BY JobFacts
  <2>4. jobs[k].hygiene = Merge(manifest.hygiene, manifest.jobs[i].hygiene)
    BY <2>2, MadeFields
  <2>5. jobs[k].hygiene = AskedOf(manifest.jobs[i])
    BY <2>3, <2>4, HygieneIsAsked
  <2>6. Within(Merge(manifest.hygiene, manifest.jobs[i].hygiene))
    BY <2>3 DEF Validated, BlockFits
  <2> QED BY <2>4, <2>5, <2>6 DEF Within
<1> QED BY <1>1, ManifestInvariant, PTL
=============================================================================
