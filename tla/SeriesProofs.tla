---------------------------- MODULE SeriesProofs ----------------------------
(***************************************************************************)
(* Theorems about the scans over one instrument, for any bars in order and *)
(* any parameters, and about both families together: the label of a number *)
(* names the values it is made of, buckets and regimes are exact, and what *)
(* run takes, refuses and writes is what the catalogue declares.           *)
(*                                                                         *)
(* A scan over one instrument computes its findings in one step and writes *)
(* them one by one.  SeriesInv says that what it has found is what the     *)
(* kernel may give for the request, that the request was accepted, and     *)
(* that what is written is a first part of what was found; the properties  *)
(* are then facts about the kernel of an accepted request.  Most speak of  *)
(* ranks: the i-th value of a column stands beside the bar of rank i, or   *)
(* the next, so that values so many bars apart are so many places apart.   *)
(***************************************************************************)
EXTENDS PairProofs

SeriesPcs == {"start", "params", "rows", "write", "done"}

\* What run is given.
SeriesFeed ==
  /\ job.scan \in DOMAIN Registered /\ job.odd \in BOOLEAN /\ job.tf \in Nat
  /\ ~job.odd => Typed(job.p)
  /\ bars \in Seq(BarRecords)
  /\ \A i, k \in DOMAIN bars : i < k => bars[i].ts < bars[k].ts

\* A case of the cache gives a scan what SeriesFeed says.
LEMMA SeriesFeedInit == Init => (job.scan \notin PairKinds => SeriesFeed)
<1> SUFFICES ASSUME Init, job.scan \notin PairKinds PROVE SeriesFeed
  OBVIOUS
<1>1. \A c \in PairCases : job \notin c.jobs
  BY PairAssumption
<1>2. PICK c \in SeriesCases : job \in c.jobs /\ bars \in c.frames
  BY <1>1 DEF Init
<1>3. bars \in Seq(BarRecords) /\ Ascends([i \in DOMAIN bars |-> bars[i].ts])
  BY <1>2, CasesAssumption
<1>4. job.scan \in DOMAIN Registered
  BY <1>2, RegistryAssumption
<1>5. (~job.odd => Typed(job.p)) /\ job.tf \in Nat /\ job.odd \in BOOLEAN
  BY <1>2, CasesAssumption
<1>6. \A i, k \in DOMAIN bars : i < k => bars[i].ts < bars[k].ts
  BY <1>3 DEF Ascends
<1> QED BY <1>3, <1>4, <1>5, <1>6 DEF SeriesFeed

\* What run is given stays what it is.
LEMMA SeriesFeedStays == SeriesFeed /\ UNCHANGED <<job, bars>> => SeriesFeed'
BY DEF SeriesFeed, Typed

\* Which requests are accepted is a matter of the job and the bars.
LEMMA AcceptedStays == ASSUME UNCHANGED <<job, bars>> PROVE SeriesAccepted' = SeriesAccepted
<1>1. LjungBoxAccepts' = LjungBoxAccepts
  BY DEF LjungBoxAccepts, Lags, Param, Given, DefaultLags, N, Returns
<1>2. AdfAccepts' = AdfAccepts
  BY DEF AdfAccepts, Regression, Autolag, MaxLag, Schwert, Param, Given
<1>3. KpssAccepts' = KpssAccepts
  BY DEF KpssAccepts, Regression, Nlags, Param, Given
<1>4. VrAccepts' = VrAccepts
  BY DEF VrAccepts, VrHorizons, Param, Given, N, Returns
<1>5. TsmomAccepts' = TsmomAccepts
  BY DEF TsmomAccepts, Holds, Param, Given, N, Returns
<1>6. ArchAccepts' = ArchAccepts
  BY DEF ArchAccepts, Lag, Param, Given, N, Returns
<1>7. ASSUME NEW k PROVE SeriesAccepts(k)' = SeriesAccepts(k)
  BY DEF SeriesAccepts, Chosen, Levels, Returns, Param, Given
<1>8. ReturnsAccepts' = ReturnsAccepts
  BY DEF ReturnsAccepts, Profile, Kept, Ascend, Ordered, Variant, SameDay, DayOf, Param, Given, N, Returns
<1>9. MeanrevAccepts' = MeanrevAccepts
  BY DEF MeanrevAccepts, Basis, MinN, Param, Given
<1>10. VolAccepts' = VolAccepts
  BY DEF VolAccepts, SeriesAccepts, Chosen, Levels, Returns, Param, Given
<1>11. OutlierAccepts' = OutlierAccepts
  BY DEF OutlierAccepts, SeriesAccepts, ZThreshold, ModifiedZThreshold, Chosen, Levels, Returns, Param, Given
<1>12. CusumAccepts' = CusumAccepts
  BY DEF CusumAccepts, Target, Bar, MinSegment, Param, Given
<1>13. BucketAccepts' = BucketAccepts
  BY DEF BucketAccepts, MinObs, Param, Given, N, Returns
<1>14. SessionAccepts' = SessionAccepts
  BY <1>13 DEF SessionAccepts, Sessions, Param, Given
<1>15. EomSomAccepts' = EomSomAccepts
  BY <1>13 DEF EomSomAccepts, Cutoff, Param, Given
<1>16. AnovaAccepts' = AnovaAccepts
  BY DEF AnovaAccepts, Via, MinGroup, Groups, DerivedGroups, ByHour, ByWeekday, BySession, ByMonth,
         MonthBucket, TradingDays, Ascend, Ordered, Times, DayOf, Param, Given, N, Returns
<1>17. EventAccepts' = EventAccepts
  BY DEF EventAccepts, Pre, Post, Param, Given, N, Returns
<1>18. GapAccepts' = GapAccepts
  BY DEF GapAccepts, GapThreshold, Boundary, Edges, Lookahead, GapMinObs, HoldFloor, SparseMin, Param, Given
<1> QED BY <1>1, <1>2, <1>3, <1>4, <1>5, <1>6, <1>7, <1>8, <1>9, <1>10, <1>11, <1>12, <1>13, <1>14,
           <1>15, <1>16, <1>17, <1>18 DEF SeriesAccepted

\* Nor does a panic depend on anything but the job and the bars.
LEMMA PanicsStays == ASSUME UNCHANGED <<job, bars>> PROVE Panics' = Panics
<1>1. TsmomPanics' = TsmomPanics
  BY DEF TsmomPanics, BlockPairs, Block, Holds, Param, Given, N, Returns
<1>2. AnovaPanics' = AnovaPanics
  <2>1. Returns' = Returns
    BY DEF Returns
  <2>2. DerivedGroups' = DerivedGroups
    BY <2>1 DEF DerivedGroups, Via, ByHour, ByWeekday, BySession, ByMonth, MonthBucket, TradingDays,
                Times, DayOf, Param, Given, N
  <2>3. Groups' = Groups
    BY <2>2 DEF Groups, MinGroup, Param, Given
  <2> QED BY <2>2, <2>3 DEF AnovaPanics, FreedomWithin, MapThenSumSet, MapThenFoldSet
<1> QED BY <1>1, <1>2 DEF Panics

----------------------------------------------------------------------------
(* Binary segmentation. *)

Plus(a, b) == a + b
Sums == INSTANCE Induction WITH Op <- Plus, Base <- 0

\* A segment of 0..n is split where s says, never closer than m to its ends.
SplitsKeep(s, n, m) ==
  \A lo, hi \in 0..n : \A k \in s[<<lo, hi>>] : k \in Nat /\ k >= m /\ hi - lo - k >= m
SplitOf(f, s, lo, hi) == UNION {{lo + k} \cup f[<<lo, lo + k>>] \cup f[<<lo + k, hi>>] : k \in s[<<lo, hi>>]}
Segments(f, s, n) ==
  f = [q \in (0..n) \X (0..n) |-> SplitOf(f, s, q[1], q[2])]
SegmentsTo(f, s, n, d) ==
  /\ f = [q \in (0..n) \X (0..n) |-> f[q]]
  /\ \A lo, hi \in 0..n : hi - lo <= d => f[<<lo, hi>>] = SplitOf(f, s, lo, hi)

\* The recursion over segments has a value.
LEMMA SegmentsExist ==
  ASSUME NEW n \in Nat, NEW m \in Nat, m >= 1, NEW s, SplitsKeep(s, n, m)
  PROVE  \E f : Segments(f, s, n)
<1> DEFINE K == {d \in 0..n : \E f : SegmentsTo(f, s, n, d)}
<1> HIDE DEF K
<1>1. 0 \in K
  <2> DEFINE f == [q \in (0..n) \X (0..n) |-> {}]
  <2>1. ASSUME NEW lo \in 0..n, NEW hi \in 0..n, hi - lo <= 0 PROVE f[<<lo, hi>>] = SplitOf(f, s, lo, hi)
    <3>1. s[<<lo, hi>>] = {}
      <4> SUFFICES ASSUME NEW k \in s[<<lo, hi>>] PROVE FALSE
        OBVIOUS
      <4>1. k \in Nat /\ k >= m /\ hi - lo - k >= m
        BY DEF SplitsKeep
      <4> QED BY <2>1, <4>1
    <3>2. f[<<lo, hi>>] = {}
      OBVIOUS
    <3> QED BY <3>1, <3>2 DEF SplitOf
  <2>2. f = [q \in (0..n) \X (0..n) |-> f[q]]
    OBVIOUS
  <2> HIDE DEF f
  <2>3. SegmentsTo(f, s, n, 0)
    BY <2>1, <2>2 DEF SegmentsTo
  <2> QED BY <2>3 DEF K
<1>2. ASSUME NEW d \in K, d < n PROVE d + 1 \in K
  <2>0. d \in 0..n /\ d + 1 \in 0..n
    BY <1>2 DEF K
  <2>1. PICK f : SegmentsTo(f, s, n, d)
    BY DEF K
  <2> DEFINE g == [q \in (0..n) \X (0..n) |-> IF q[2] - q[1] <= d THEN f[<<q[1], q[2]>>] ELSE SplitOf(f, s, q[1], q[2])]
  <2>2. \A lo, hi \in 0..n : g[<<lo, hi>>] = IF hi - lo <= d THEN f[<<lo, hi>>] ELSE SplitOf(f, s, lo, hi)
    OBVIOUS
  <2>3. g = [q \in (0..n) \X (0..n) |-> g[q]]
    OBVIOUS
  <2> HIDE DEF g
  <2>4. ASSUME NEW lo \in 0..n, NEW hi \in 0..n, hi - lo <= d + 1
        PROVE  SplitOf(g, s, lo, hi) = SplitOf(f, s, lo, hi)
    <3>1. ASSUME NEW k \in s[<<lo, hi>>]
          PROVE  g[<<lo, lo + k>>] = f[<<lo, lo + k>>] /\ g[<<lo + k, hi>>] = f[<<lo + k, hi>>]
      <4>1. k \in Nat /\ k >= m /\ hi - lo - k >= m
        BY DEF SplitsKeep
      <4>2. lo + k \in 0..n /\ (lo + k) - lo <= d /\ hi - (lo + k) <= d
        BY <2>0, <2>4, <4>1
      <4> QED BY <2>2, <4>2
    <3> QED BY <3>1 DEF SplitOf
  <2>5. ASSUME NEW lo \in 0..n, NEW hi \in 0..n, hi - lo <= d + 1
        PROVE  g[<<lo, hi>>] = SplitOf(g, s, lo, hi)
    <3>1. SplitOf(g, s, lo, hi) = SplitOf(f, s, lo, hi)
      BY <2>4, <2>5
    <3>2. hi - lo <= d => f[<<lo, hi>>] = SplitOf(f, s, lo, hi)
      BY <2>1 DEF SegmentsTo
    <3> QED BY <2>2, <3>1, <3>2
  <2>6. SegmentsTo(g, s, n, d + 1)
    BY <2>3, <2>5 DEF SegmentsTo
  <2> QED BY <2>0, <2>6 DEF K
<1>3. n \in K
  <2>1. K \in SUBSET (0..n)
    BY DEF K
  <2>2. K = 0..n
    BY <1>1, <1>2, <2>1, Sums!UpTo
  <2> QED BY <2>2
<1>4. PICK f : SegmentsTo(f, s, n, n)
  BY <1>3 DEF K
<1>5. \A lo, hi \in 0..n : f[<<lo, hi>>] = SplitOf(f, s, lo, hi)
  <2> TAKE lo, hi \in 0..n
  <2>1. hi - lo <= n
    OBVIOUS
  <2> QED BY <1>4, <2>1 DEF SegmentsTo
<1>6. f = [q \in (0..n) \X (0..n) |-> SplitOf(f, s, q[1], q[2])]
  BY <1>4, <1>5 DEF SegmentsTo
<1> QED BY <1>6 DEF Segments, SplitOf

\* The splits of a segment lie m apart from each other and from its ends.
Spaced(A, lo, hi, m) ==
  /\ \A x \in A : x \in Nat /\ x - lo >= m /\ hi - x >= m
  /\ \A x, y \in A : x < y => y - x >= m

\* The splits of the whole are m apart.
LEMMA SegmentsSpaced ==
  ASSUME NEW n \in Nat, NEW m \in Nat, m >= 1, NEW s, SplitsKeep(s, n, m), NEW f, Segments(f, s, n),
         \A lo, hi \in 0..n : \A j, k \in s[<<lo, hi>>] : j = k
  PROVE  Spaced(f[<<0, n>>], 0, n, m)
<1> DEFINE K == {d \in 0..n : \A lo, hi \in 0..n : hi - lo <= d => Spaced(f[<<lo, hi>>], lo, hi, m)}
<1>0. \A lo, hi \in 0..n : f[<<lo, hi>>] = SplitOf(f, s, lo, hi)
  BY DEF Segments
<1> HIDE DEF K
<1>1. 0 \in K
  <2>1. ASSUME NEW lo \in 0..n, NEW hi \in 0..n, hi - lo <= 0 PROVE Spaced(f[<<lo, hi>>], lo, hi, m)
    <3>1. s[<<lo, hi>>] = {}
      <4> SUFFICES ASSUME NEW k \in s[<<lo, hi>>] PROVE FALSE
        OBVIOUS
      <4>1. k \in Nat /\ k >= m /\ hi - lo - k >= m
        BY DEF SplitsKeep
      <4> QED BY <2>1, <4>1
    <3>2. f[<<lo, hi>>] = SplitOf(f, s, lo, hi)
      BY <1>0, Zenon
    <3>3. f[<<lo, hi>>] = {}
      BY <3>1, <3>2 DEF SplitOf
    <3> QED BY <3>3 DEF Spaced
  <2> QED BY <2>1 DEF K
<1>2. ASSUME NEW d \in K, d < n PROVE d + 1 \in K
  <2>0. d \in 0..n /\ d + 1 \in 0..n /\ \A lo, hi \in 0..n : hi - lo <= d => Spaced(f[<<lo, hi>>], lo, hi, m)
    BY <1>2 DEF K
  <2>1. ASSUME NEW lo \in 0..n, NEW hi \in 0..n, hi - lo <= d + 1 PROVE Spaced(f[<<lo, hi>>], lo, hi, m)
    <3>1. CASE s[<<lo, hi>>] = {}
      <4>0. f[<<lo, hi>>] = SplitOf(f, s, lo, hi)
        BY <1>0, Zenon
      <4>1. f[<<lo, hi>>] = {}
        BY <3>1, <4>0 DEF SplitOf
      <4> QED BY <4>1 DEF Spaced
    <3>2. CASE s[<<lo, hi>>] # {}
      <4>1. PICK k \in s[<<lo, hi>>] : s[<<lo, hi>>] = {k}
        BY <3>2
      <4>2. k \in Nat /\ k >= m /\ hi - lo - k >= m
        BY DEF SplitsKeep
      <4>3. PICK mid \in 0..n : mid = lo + k /\ mid - lo <= d /\ hi - mid <= d /\ mid - lo >= m /\ hi - mid >= m
        BY <2>0, <2>1, <4>2
      <4>4. f[<<lo, hi>>] = {mid} \cup f[<<lo, mid>>] \cup f[<<mid, hi>>]
        <5>1. f[<<lo, hi>>] = SplitOf(f, s, lo, hi)
          BY <1>0, Zenon
        <5> QED BY <4>1, <4>3, <5>1 DEF SplitOf
      <4>5. Spaced(f[<<lo, mid>>], lo, mid, m) /\ Spaced(f[<<mid, hi>>], mid, hi, m)
        BY <2>0, <4>3
      <4>6. /\ \A x \in f[<<lo, mid>>] : x \in Nat /\ x - lo >= m /\ mid - x >= m
            /\ \A x \in f[<<mid, hi>>] : x \in Nat /\ x - mid >= m /\ hi - x >= m
            /\ \A x, y \in f[<<lo, mid>>] : x < y => y - x >= m
            /\ \A x, y \in f[<<mid, hi>>] : x < y => y - x >= m
        BY <4>5 DEF Spaced
      <4>7. \A x \in f[<<lo, hi>>] : x \in f[<<lo, mid>>] \/ x \in f[<<mid, hi>>] \/ x = mid
        BY <4>4
      <4> HIDE <1>0
      <4>8. \A x \in f[<<lo, hi>>] : x \in Nat /\ x - lo >= m /\ hi - x >= m
        BY <4>3, <4>6, <4>7
      <4>9. \A x, y \in f[<<lo, hi>>] : x < y => y - x >= m
        <5> SUFFICES ASSUME NEW x \in f[<<lo, hi>>], NEW y \in f[<<lo, hi>>], x < y PROVE y - x >= m
          OBVIOUS
        <5> QED BY <4>3, <4>6, <4>7
      <4> QED BY <4>8, <4>9 DEF Spaced
    <3> QED BY <3>1, <3>2
  <2> QED BY <2>0, <2>1 DEF K
<1>3. n \in K
  <2>1. K \in SUBSET (0..n)
    BY DEF K
  <2>2. K = 0..n
    BY <1>1, <1>2, <2>1, Sums!UpTo
  <2> QED BY <2>2
<1> QED BY <1>3 DEF K

----------------------------------------------------------------------------
(* Numbers, columns, parameters. *)

\* A value that no other exceeds is the largest.
LEMMA MaxIs ==
  ASSUME NEW S, NEW x \in S, \A y \in S : y \in Int /\ y <= x
  PROVE  Max(S) = x
<1>1. \A z \in S : (\A y \in S : z >= y) => z = x
  OBVIOUS
<1>2. \A y \in S : x >= y
  OBVIOUS
<1> QED BY <1>1, <1>2 DEF Max

\* The larger of two numbers.
LEMMA MaxTwo ==
  ASSUME NEW a \in Int, NEW b \in Int
  PROVE  Max({a, b}) = IF a >= b THEN a ELSE b
<1>1. \A y \in {a, b} : y \in Int
  OBVIOUS
<1> QED BY <1>1 DEF Max

\* And one that exceeds no other is the least.
LEMMA MinIs ==
  ASSUME NEW S, NEW x \in S, \A y \in S : y \in Int /\ x <= y
  PROVE  Min(S) = x
<1>1. \A z \in S : (\A y \in S : z <= y) => z = x
  OBVIOUS
<1>2. \A y \in S : x <= y
  OBVIOUS
<1> QED BY <1>1, <1>2 DEF Min

\* The columns of the bars.
LEMMA BarColumns ==
  ASSUME SeriesFeed
  PROVE  /\ Len(bars) \in Nat /\ DOMAIN bars = 1..Len(bars)
         /\ \A i \in 1..Len(bars) : bars[i].ts \in Int /\ bars[i].close \in Int
         /\ N \in Nat /\ N = IF Len(bars) = 0 THEN 0 ELSE Len(bars) - 1
         /\ DOMAIN Returns = 1..N /\ Len(Returns) = N
         /\ DOMAIN Levels = 1..Len(bars) /\ Len(Levels) = Len(bars)
<1>1. Len(bars) \in Nat /\ DOMAIN bars = 1..Len(bars)
  BY LenProperties DEF SeriesFeed
<1>2. ASSUME NEW i \in 1..Len(bars) PROVE bars[i].ts \in Int /\ bars[i].close \in Int
  <2>1. bars[i] \in BarRecords
    BY <1>1, LenProperties DEF SeriesFeed
  <2> QED BY <2>1 DEF BarRecords
<1> DEFINE m == IF Len(bars) = 0 THEN 0 ELSE Len(bars) - 1
<1>3. Max({Len(bars) - 1, 0}) = m
  <2>1. Max({Len(bars) - 1, 0}) = IF Len(bars) - 1 >= 0 THEN Len(bars) - 1 ELSE 0
    BY <1>1, MaxTwo
  <2> QED BY <1>1, <2>1
<1>4. m \in Nat
  BY <1>1
<1> HIDE DEF m
<1>5. DOMAIN Returns = 1..m
  BY <1>3 DEF Returns
<1>6. Len(Returns) = m
  BY <1>4, <1>5
<1>7. DOMAIN Levels = 1..Len(bars)
  BY <1>1 DEF Levels
<1>8. Len(Levels) = Len(bars)
  BY <1>1, <1>7
<1> QED BY <1>1, <1>2, <1>4, <1>5, <1>6, <1>7, <1>8 DEF N, m

\* A return stands beside the later of its two bars.
LEMMA ReturnsAre ==
  ASSUME SeriesFeed, NEW i \in 1..N
  PROVE  /\ i \in 1..Len(bars) /\ i + 1 \in 1..Len(bars)
         /\ Returns[i].at = bars[i + 1].ts /\ Returns[i].of = {bars[i].ts, bars[i + 1].ts}
<1>1. i \in 1..Len(bars) /\ i + 1 \in 1..Len(bars) /\ i \in DOMAIN Returns
  BY BarColumns
<1>2. Returns[i].at = bars[i + 1].ts
  BY <1>1 DEF Returns
<1>3. Returns[i].of = {bars[i].ts, bars[i + 1].ts}
  BY <1>1 DEF Returns
<1> QED BY <1>1, <1>2, <1>3

\* A close stands beside its own bar.
LEMMA LevelsAre ==
  ASSUME SeriesFeed, NEW i \in 1..Len(bars)
  PROVE  Levels[i].at = bars[i].ts /\ Levels[i].of = {bars[i].ts}
<1>1. i \in DOMAIN Levels /\ i \in DOMAIN bars
  BY BarColumns
<1> QED BY <1>1 DEF Levels

\* The parameters of an accepted request have their types.
LEMMA CusumParams ==
  ASSUME SeriesFeed, ~job.odd, CusumAccepts
  PROVE  MinSegment \in Nat /\ MinSegment >= 2 /\ Target \in {"mean", "vol", "both"}
<1>1. MinSegment \in Int
  BY DEF MinSegment, Param, Given, SeriesFeed, Typed
<1> QED BY <1>1 DEF CusumAccepts

----------------------------------------------------------------------------
(* Where the returns are split. *)

\* The numbers a split is looked for by are integers.
LEMMA MoveInt ==
  ASSUME SeriesFeed, NEW lo \in 0..N, NEW hi \in 0..N, N # 0
  PROVE  Move(lo, hi) \in Int
<1>1. lo + 1 \in 1..Len(bars) /\ hi + 1 \in 1..Len(bars)
  BY BarColumns
<1>2. bars[hi + 1].close \in Int /\ bars[lo + 1].close \in Int
  BY <1>1, BarColumns
<1> QED BY <1>2 DEF Move

\* A square is an integer,
LEMMA SquareInt == ASSUME NEW v \in Int PROVE Square(v) \in Int
BY DEF Square

\* and so are the sum of squared deviations over a stretch
LEMMA DeviationInt ==
  ASSUME SeriesFeed, NEW lo \in 0..N, NEW hi \in 0..N, NEW to \in 0..N, N # 0
  PROVE  Deviation(lo, hi, to) \in Int
<1> DEFINE S == (lo + 1)..to
           v == [i \in S |-> Square((hi - lo) * Move(i - 1, i) - Move(lo, hi))]
           D(g, s) ==
             IF s = {} THEN 0
             ELSE LET x == CHOOSE x \in s : TRUE
                  IN  Square((hi - lo) * Move(x - 1, x) - Move(lo, hi)) + g[s \ {x}]
           it[s \in SUBSET S] == D(it, s)
<1>0. N \in Nat
  BY BarColumns
<1>1. Deviation(lo, hi, to) = it[S]
  BY DEF Deviation, MapThenSumSet, MapThenFoldSet
<1>2. it = CHOOSE h : h = [s \in SUBSET S |-> D(h, s)]
  BY DEF it
<1>3. \A i \in S : v[i] = Square((hi - lo) * Move(i - 1, i) - Move(lo, hi))
  OBVIOUS
<1>4. ASSUME NEW i \in S PROVE v[i] \in Int
  <2>1. i - 1 \in 0..N /\ i \in 0..N
    BY <1>0
  <2>2. Move(i - 1, i) \in Int /\ Move(lo, hi) \in Int
    BY <2>1, MoveInt
  <2>3. (hi - lo) * Move(i - 1, i) - Move(lo, hi) \in Int
    BY <1>0, <2>2
  <2> QED BY <1>3, <2>3, SquareInt
<1>5. Sums!IsFiniteSet(S)
  <2>1. IsFiniteSet(S)
    BY <1>0, FS_Interval
  <2> QED BY <2>1 DEF IsFiniteSet, Sums!IsFiniteSet
<1> HIDE DEF it, v, S
<1>6. PICK h : Sums!Totals(h, v, S)
  BY <1>5, Sums!TotalsExist
<1>7. \A g, s : s \in SUBSET S =>
        Sums!AddedUp(v, g, s) = D(g, s)
  BY <1>3 DEF Sums!AddedUp, Sums!OneOf
<1>8. \A g : [s \in SUBSET S |-> Sums!AddedUp(v, g, s)] = [s \in SUBSET S |-> D(g, s)]
  BY <1>7
<1> HIDE DEF D
<1>9. Sums!Totals(it, v, S)
  <2>1. h = [s \in SUBSET S |-> D(h, s)]
    BY <1>6, <1>8 DEF Sums!Totals
  <2>2. it = [s \in SUBSET S |-> D(it, s)]
    BY <1>2, <2>1, Zenon
  <2>3. it = [s \in SUBSET S |-> Sums!AddedUp(v, it, s)]
    BY <1>8, <2>2
  <2> QED BY <2>3 DEF Sums!Totals
<1>10. it[S] \in Int
  BY <1>4, <1>5, <1>9, Sums!TotalsAre
<1> QED BY <1>1, <1>10

\* and every bridge.
LEMMA BridgesInt ==
  ASSUME SeriesFeed, NEW kind, NEW lo \in 0..N, NEW hi \in 0..N
  PROVE  /\ DOMAIN Bridges(kind, lo, hi) = 1..(hi - lo)
         /\ \A k \in 1..(hi - lo) : Bridges(kind, lo, hi)[k] \in Int
<1> DEFINE b == Bridges(kind, lo, hi)
<1>0. N \in Nat
  BY BarColumns
<1>1. DOMAIN b = 1..(hi - lo)
  BY DEF Bridges
<1>2. ASSUME NEW k \in 1..(hi - lo) PROVE b[k] \in Int
  <2>1. N # 0 /\ lo + k \in 0..N
    BY <1>0
  <2>2. b[k] = AbsInt(IF kind = "mean"
                      THEN (hi - lo) * Move(lo, lo + k) - k * Move(lo, hi)
                      ELSE (hi - lo) * Deviation(lo, hi, lo + k) - k * Deviation(lo, hi, hi))
    BY DEF Bridges
  <2>3. /\ Move(lo, lo + k) \in Int /\ Move(lo, hi) \in Int
        /\ Deviation(lo, hi, lo + k) \in Int /\ Deviation(lo, hi, hi) \in Int
    BY <2>1, MoveInt, DeviationInt
  <2>4. \A z \in Int : AbsInt(z) \in Int
    BY DEF AbsInt
  <2>5. hi - lo \in Int /\ k \in Int
    BY <1>0
  <2>6. /\ (hi - lo) * Move(lo, lo + k) - k * Move(lo, hi) \in Int
        /\ (hi - lo) * Deviation(lo, hi, lo + k) - k * Deviation(lo, hi, hi) \in Int
    BY <2>3, <2>5
  <2> QED BY <2>2, <2>4, <2>6
<1> QED BY <1>1, <1>2

\* A segment is split once at most, and not too near its ends.
LEMMA SplitsOnce ==
  ASSUME SeriesFeed, ~job.odd, CusumAccepts, NEW kind, NEW lo \in 0..N, NEW hi \in 0..N
  PROVE  /\ \A k \in Splits(kind, lo, hi) : k \in Nat /\ k >= MinSegment /\ hi - lo - k >= MinSegment
         /\ \A j, k \in Splits(kind, lo, hi) : j = k
<1> DEFINE b == Bridges(kind, lo, hi)
<1>0. N \in Nat /\ MinSegment \in Nat
  BY BarColumns, CusumParams
<1>1. DOMAIN b = 1..(hi - lo) /\ \A k \in 1..(hi - lo) : b[k] \in Int
  BY BridgesInt
<1> HIDE DEF b
<1>2. \A k \in Splits(kind, lo, hi) :
        /\ k \in 1..(hi - lo - 1) /\ k >= MinSegment /\ hi - lo - k >= MinSegment
        /\ \A j \in DOMAIN b : b[j] <= b[k]
        /\ \A j \in 1..(k - 1) : b[j] < b[k]
  BY DEF Splits, Candidates, b
<1>3. ASSUME NEW j \in Splits(kind, lo, hi), NEW k \in Splits(kind, lo, hi) PROVE ~(j < k)
  <2> SUFFICES ASSUME j < k PROVE FALSE
    OBVIOUS
  <2>1. j \in 1..(k - 1) /\ j \in 1..(hi - lo) /\ k \in 1..(hi - lo)
    BY <1>0, <1>2
  <2>2. b[j] < b[k] /\ b[k] <= b[j]
    BY <1>1, <1>2, <2>1
  <2> QED BY <1>1, <2>1, <2>2
<1>4. ASSUME NEW j \in Splits(kind, lo, hi), NEW k \in Splits(kind, lo, hi) PROVE j = k
  <2>1. ~(j < k) /\ ~(k < j) /\ j \in Int /\ k \in Int
    BY <1>0, <1>2, <1>3
  <2> QED BY <2>1
<1>5. \A k \in Splits(kind, lo, hi) : k \in Nat
  BY <1>0, <1>2
<1> QED BY <1>2, <1>4, <1>5

\* The breaks of each kind are min_segment apart, and as far from the ends.
LEMMA SegmentIs ==
  ASSUME SeriesFeed, ~job.odd, CusumAccepts, NEW kind
  PROVE  Spaced(Segment(kind), 0, N, MinSegment)
<1> DEFINE s == [q \in (0..N) \X (0..N) |-> Splits(kind, q[1], q[2])]
           D(f, q) == UNION {{q[1] + k} \cup f[<<q[1], q[1] + k>>] \cup f[<<q[1] + k, q[2]>>] :
                               k \in Splits(kind, q[1], q[2])}
           it[q \in (0..N) \X (0..N)] == D(it, q)
<1>0. N \in Nat /\ MinSegment \in Nat /\ MinSegment >= 1
  BY BarColumns, CusumParams
<1>1. Segment(kind) = it[<<0, N>>]
  BY DEF Segment
<1>2. it = CHOOSE f : f = [q \in (0..N) \X (0..N) |-> D(f, q)]
  BY DEF it
<1>3. \A lo, hi \in 0..N : s[<<lo, hi>>] = Splits(kind, lo, hi)
  OBVIOUS
<1>4. SplitsKeep(s, N, MinSegment)
  BY <1>3, SplitsOnce DEF SplitsKeep
<1>5. \A lo, hi \in 0..N : \A j, k \in s[<<lo, hi>>] : j = k
  BY <1>3, SplitsOnce
<1>6. \A q \in (0..N) \X (0..N) : s[<<q[1], q[2]>>] = Splits(kind, q[1], q[2])
  BY <1>3
<1> HIDE DEF it, s
<1>7. \A f : \A q \in (0..N) \X (0..N) : SplitOf(f, s, q[1], q[2]) = D(f, q)
  BY <1>6 DEF SplitOf
<1> HIDE DEF D
<1>8. \A f : [q \in (0..N) \X (0..N) |-> SplitOf(f, s, q[1], q[2])] = [q \in (0..N) \X (0..N) |-> D(f, q)]
  BY <1>7
<1>9. PICK f : Segments(f, s, N)
  BY <1>0, <1>4, SegmentsExist
<1>10. f = [q \in (0..N) \X (0..N) |-> D(f, q)]
  BY <1>8, <1>9 DEF Segments
<1>11. it = [q \in (0..N) \X (0..N) |-> D(it, q)]
  BY <1>2, <1>10, Zenon
<1>12. Segments(it, s, N)
  BY <1>8, <1>11 DEF Segments
<1>13. Spaced(it[<<0, N>>], 0, N, MinSegment)
  BY <1>0, <1>4, <1>5, <1>12, SegmentsSpaced
<1> QED BY <1>1, <1>13

----------------------------------------------------------------------------
(* A finite set in order. *)

LowerIn(S, k, a) == {b \in S : k[b] <= k[a]}
Enumerates(s, S, k) ==
  /\ Cardinality(S) \in Nat /\ DOMAIN s = 1..Cardinality(S) /\ Len(s) = Cardinality(S)
  /\ \A i \in DOMAIN s : s[i] \in S /\ Cardinality(LowerIn(S, k, s[i])) = i
  /\ \A i, j \in DOMAIN s : i < j => k[s[i]] < k[s[j]]
  /\ \A a \in S : \E i \in DOMAIN s : s[i] = a

\* A function over 1..n has the length n.
LEMMA LenIs == ASSUME NEW s, NEW n \in Nat, DOMAIN s = 1..n PROVE Len(s) = n
OBVIOUS

\* Taking the i-th by its rank enumerates a finite set.
LEMMA OrderedIs ==
  ASSUME NEW S, IsFiniteSet(S), NEW k, \A a \in S : k[a] \in Int, \A a, b \in S : k[a] = k[b] => a = b,
         NEW s, s = [i \in 1..Cardinality(S) |-> CHOOSE a \in S : Cardinality(LowerIn(S, k, a)) = i]
  PROVE  Enumerates(s, S, k)
<1> DEFINE n == Cardinality(S)
           f == [a \in S |-> Cardinality(LowerIn(S, k, a))]
<1>0. n \in Nat
  BY FS_CardinalityType
<1>1. ASSUME NEW a \in S
      PROVE  IsFiniteSet(LowerIn(S, k, a)) /\ Cardinality(LowerIn(S, k, a)) \in 1..n
  <2>1. LowerIn(S, k, a) \in SUBSET S /\ a \in LowerIn(S, k, a)
    BY DEF LowerIn
  <2>2. IsFiniteSet(LowerIn(S, k, a)) /\ Cardinality(LowerIn(S, k, a)) <= n
    BY <2>1, FS_Subset
  <2>3. Cardinality(LowerIn(S, k, a)) \in Nat /\ Cardinality(LowerIn(S, k, a)) # 0
    BY <2>1, <2>2, FS_CardinalityType, FS_EmptySet
  <2> QED BY <1>0, <2>2, <2>3
<1>2. ASSUME NEW a \in S, NEW b \in S, k[a] < k[b]
      PROVE  Cardinality(LowerIn(S, k, a)) < Cardinality(LowerIn(S, k, b))
  <2>1. LowerIn(S, k, a) \in SUBSET LowerIn(S, k, b)
    BY <1>2 DEF LowerIn
  <2>2. b \in LowerIn(S, k, b) /\ b \notin LowerIn(S, k, a)
    BY <1>2 DEF LowerIn
  <2>3. /\ Cardinality(LowerIn(S, k, a)) <= Cardinality(LowerIn(S, k, b))
        /\ Cardinality(LowerIn(S, k, a)) # Cardinality(LowerIn(S, k, b))
    BY <1>1, <2>1, <2>2, FS_Subset
  <2> QED BY <1>0, <1>1, <2>3
<1>3. \A a \in S : f[a] = Cardinality(LowerIn(S, k, a))
  OBVIOUS
<1>4. f \in [S -> 1..n]
  BY <1>1
<1> HIDE DEF f, n
<1>5. ASSUME NEW a \in S, NEW b \in S, f[a] = f[b] PROVE a = b
  <2>1. f[a] \in Int /\ f[b] \in Int
    BY <1>0, <1>4
  <2>2. ~(k[a] < k[b]) /\ ~(k[b] < k[a])
    BY <1>2, <1>3, <1>5, <2>1
  <2> QED BY <2>2
<1>6. f \in Injection(S, 1..n)
  BY <1>4, <1>5 DEF Injection, IsInjective
<1>7. IsFiniteSet(1..n) /\ Cardinality(1..n) = n
  BY <1>0, FS_Interval
<1>8. f \in Surjection(S, 1..n)
  BY <1>6, <1>7, FS_Injection, Zenon DEF n
<1>9. \A i \in 1..n : \E a \in S : f[a] = i
  BY <1>8 DEF Surjection
<1>10. DOMAIN s = 1..n
  BY DEF n
<1>11. ASSUME NEW i \in 1..n PROVE s[i] \in S /\ f[s[i]] = i
  <2>1. s[i] = CHOOSE a \in S : Cardinality(LowerIn(S, k, a)) = i
    BY DEF n
  <2>2. \E a \in S : Cardinality(LowerIn(S, k, a)) = i
    BY <1>3, <1>9
  <2>3. s[i] \in S /\ Cardinality(LowerIn(S, k, s[i])) = i
    BY <2>1, <2>2, Zenon
  <2> QED BY <1>3, <2>3
<1>12. \A i \in 1..n : Cardinality(LowerIn(S, k, s[i])) = i
  BY <1>3, <1>11
<1>13. ASSUME NEW i \in 1..n, NEW j \in 1..n, i < j PROVE k[s[i]] < k[s[j]]
  <2>1. PICK a \in S : a = s[i] /\ f[a] = i
    BY <1>11
  <2>2. PICK b \in S : b = s[j] /\ f[b] = j
    BY <1>11
  <2>3. a # b /\ ~(k[b] < k[a])
    <3>1. i \in Int /\ j \in Int
      BY <1>0
    <3>2. k[b] < k[a] => j < i
      BY <1>2, <1>3, <2>1, <2>2
    <3> QED BY <1>13, <2>1, <2>2, <3>1, <3>2
  <2>4. k[a] \in Int /\ k[b] \in Int /\ k[a] # k[b]
    BY <2>3
  <2> QED BY <2>1, <2>2, <2>3, <2>4
<1>14. \A a \in S : \E i \in 1..n : s[i] = a
  <2> TAKE a \in S
  <2>1. f[a] \in 1..n
    BY <1>4
  <2>2. s[f[a]] = a
    BY <1>5, <1>11, <2>1
  <2> QED BY <2>1, <2>2
<1>15. Len(s) = n
  BY <1>0, <1>10, LenIs
<1> QED BY <1>0, <1>10, <1>11, <1>12, <1>13, <1>14, <1>15 DEF Enumerates, n

\* Ascend of a set of numbers.
Ascending(s, S) ==
  /\ Cardinality(S) \in Nat /\ DOMAIN s = 1..Cardinality(S) /\ Len(s) = Cardinality(S)
  /\ \A i \in DOMAIN s : s[i] \in S /\ Cardinality({v \in S : v <= s[i]}) = i
  /\ \A i, j \in DOMAIN s : i < j => s[i] < s[j]
  /\ \A v \in S : \E i \in DOMAIN s : s[i] = v

\* Ascend lists the numbers of a finite set, lowest first.
LEMMA AscendIs ==
  ASSUME NEW S \in SUBSET Int, IsFiniteSet(S)
  PROVE  Ascending(Ascend(S), S)
<1> DEFINE k == [v \in S |-> v]
           s == Ascend(S)
<1>1. \A v \in S : LowerIn(S, k, v) = {w \in S : w <= v}
  BY DEF LowerIn
<1>2. s = [i \in 1..Cardinality(S) |-> CHOOSE a \in S : Cardinality({b \in S : b <= a}) = i]
  BY DEF Ascend, Ordered
<1>3. \A i \in 1..Cardinality(S) : \A a \in S :
        Cardinality({b \in S : b <= a}) = i <=> Cardinality(LowerIn(S, k, a)) = i
  BY <1>1
<1>4. \A v \in S : k[v] = v
  OBVIOUS
<1> HIDE DEF k, s
<1>5. \A i \in 1..Cardinality(S) : (CHOOSE a \in S : Cardinality({b \in S : b <= a}) = i)
                                   = (CHOOSE a \in S : Cardinality(LowerIn(S, k, a)) = i)
  BY <1>3
<1>6. s = [i \in 1..Cardinality(S) |-> CHOOSE a \in S : Cardinality(LowerIn(S, k, a)) = i]
  <2> DEFINE c == Cardinality(S)
             x(i) == CHOOSE a \in S : Cardinality({b \in S : b <= a}) = i
             y(i) == CHOOSE a \in S : Cardinality(LowerIn(S, k, a)) = i
  <2>1. s = [i \in 1..c |-> x(i)] /\ \A i \in 1..c : x(i) = y(i)
    BY <1>2, <1>5
  <2> HIDE DEF x, y, c
  <2>2. s = [i \in 1..c |-> y(i)]
    BY <2>1
  <2> QED BY <2>2 DEF c, y
<1>7. Enumerates(s, S, k)
  <2>1. (\A a \in S : k[a] \in Int) /\ \A a, b \in S : k[a] = k[b] => a = b
    BY <1>4
  <2> HIDE <1>4
  <2> QED BY <1>6, <2>1, OrderedIs
<1>8. \A i \in DOMAIN s : s[i] \in S
  BY <1>7 DEF Enumerates
<1> QED BY <1>1, <1>4, <1>7, <1>8 DEF Ascending, Enumerates, s

----------------------------------------------------------------------------
(* Ranks. *)

\* The i-th value of a column stands beside the bar of rank i + o.
Column(x, n, o) ==
  /\ n \in Nat /\ o \in 0..1 /\ DOMAIN x = 1..n /\ Len(x) = n
  /\ \A i \in 1..n : x[i].at \in Int /\ RankOf(x[i].at) = i + o
  /\ \A i, j \in 1..n : i < j => x[i].at < x[j].at

\* The rank of a bar is its index.
LEMMA RankIs ==
  ASSUME SeriesFeed, NEW i \in 1..Len(bars)
  PROVE  RankOf(bars[i].ts) = i
<1> DEFINE S == {bars[k].ts : k \in 1..i}
           f == [k \in 1..i |-> bars[k].ts]
<1>0. /\ Len(bars) \in Nat /\ DOMAIN bars = 1..Len(bars) /\ i \in Nat
      /\ \A k \in 1..Len(bars) : bars[k].ts \in Int
      /\ \A k, l \in 1..Len(bars) : k < l => bars[k].ts < bars[l].ts
  BY BarColumns DEF SeriesFeed
<1>1. {u \in BarTimes : u <= bars[i].ts} = S
  <2>1. ASSUME NEW k \in 1..Len(bars), bars[k].ts <= bars[i].ts PROVE k \in 1..i
    BY <1>0, <2>1
  <2>2. \A k \in 1..i : k \in 1..Len(bars) /\ bars[k].ts <= bars[i].ts
    <3> SUFFICES ASSUME NEW k \in 1..i PROVE k \in 1..Len(bars) /\ bars[k].ts <= bars[i].ts
      OBVIOUS
    <3>1. k \in 1..Len(bars) /\ (k = i \/ k < i)
      BY <1>0
    <3> QED BY <1>0, <3>1
  <2> QED BY <1>0, <2>1, <2>2 DEF BarTimes
<1>2. \A k \in 1..i : k \in 1..Len(bars)
  BY <1>0
<1>3. f \in [1..i -> S] /\ \A t \in S : \E k \in 1..i : f[k] = t
  OBVIOUS
<1>4. \A k, l \in 1..i : f[k] = f[l] => k = l
  <2> SUFFICES ASSUME NEW k \in 1..i, NEW l \in 1..i, bars[k].ts = bars[l].ts PROVE k = l
    OBVIOUS
  <2> QED BY <1>0, <1>2
<1>5. f \in Bijection(1..i, S)
  BY <1>3, <1>4 DEF Bijection, Injection, Surjection, IsInjective
<1>6. ExistsBijection(1..i, S)
  BY <1>5 DEF ExistsBijection
<1> HIDE DEF S
<1>7. Cardinality(S) = i
  BY <1>0, <1>6, FS_CountingElements
<1> QED BY <1>1, <1>7 DEF RankOf

\* Closes and returns are columns; a return stands one bar later.
LEMMA TheColumns ==
  ASSUME SeriesFeed
  PROVE  /\ Column(Levels, Len(bars), 0) /\ Column(Returns, N, 1)
         /\ BarTimes = Times(Levels) /\ ReturnTimes = Times(Returns)
<1>0. /\ Len(bars) \in Nat /\ DOMAIN bars = 1..Len(bars)
      /\ N \in Nat /\ N = IF Len(bars) = 0 THEN 0 ELSE Len(bars) - 1
      /\ DOMAIN Returns = 1..N /\ Len(Returns) = N
      /\ DOMAIN Levels = 1..Len(bars) /\ Len(Levels) = Len(bars)
  BY BarColumns
<1>9. /\ Len(bars) \in Nat /\ N \in Nat /\ N = IF Len(bars) = 0 THEN 0 ELSE Len(bars) - 1
      /\ 0 \in 0..1 /\ 1 \in 0..1
  <2>1. 0 \in 0..1 /\ 1 \in 0..1
    OBVIOUS
  <2> QED BY <1>0, <2>1, Zenon
<1>7. \A k \in 1..Len(bars) : bars[k].ts \in Int /\ RankOf(bars[k].ts) = k
  BY BarColumns, RankIs
<1>8. \A k, l \in 1..Len(bars) : k < l => bars[k].ts < bars[l].ts
  BY <1>0 DEF SeriesFeed
<1>1. \A i \in 1..Len(bars) : Levels[i].at = bars[i].ts
  BY LevelsAre
<1>2. \A i \in 1..N : Returns[i].at = bars[i + 1].ts /\ i + 1 \in 1..Len(bars)
  BY ReturnsAre
<1>3. Column(Levels, Len(bars), 0)
  <2>1. \A i \in 1..Len(bars) : Levels[i].at \in Int /\ RankOf(Levels[i].at) = i + 0
    <3> TAKE i \in 1..Len(bars)
    <3>1. i + 0 = i
      BY <1>9
    <3> QED BY <1>1, <1>7, <3>1
  <2>2. \A i, j \in 1..Len(bars) : i < j => Levels[i].at < Levels[j].at
    BY <1>1, <1>8
  <2> QED BY <1>0, <1>9, <2>1, <2>2, Zenon DEF Column
<1>4. Column(Returns, N, 1)
  <2>1. ASSUME NEW i \in 1..N PROVE Returns[i].at \in Int /\ RankOf(Returns[i].at) = i + 1
    <3>1. PICK k \in 1..Len(bars) : k = i + 1 /\ Returns[i].at = bars[k].ts
      BY <1>2
    <3> QED BY <1>7, <3>1
  <2>2. ASSUME NEW i \in 1..N, NEW j \in 1..N, i < j PROVE Returns[i].at < Returns[j].at
    <3>1. PICK k \in 1..Len(bars) : k = i + 1 /\ Returns[i].at = bars[k].ts
      BY <1>2
    <3>2. PICK l \in 1..Len(bars) : l = j + 1 /\ Returns[j].at = bars[l].ts
      BY <1>2
    <3>3. k < l
      BY <1>9, <2>2, <3>1, <3>2
    <3> QED BY <1>8, <3>1, <3>2, <3>3
  <2> QED BY <1>0, <1>9, <2>1, <2>2, Zenon DEF Column
<1>5. BarTimes = Times(Levels)
  BY <1>0, <1>1 DEF BarTimes, Times
<1>6. ReturnTimes = Times(Returns)
  <2>1. ASSUME NEW t \in ReturnTimes PROVE t \in Times(Returns)
    <3>1. PICK k \in 1..Len(bars) : t = bars[k].ts
      BY <1>0, <2>1 DEF ReturnTimes, BarTimes
    <3>2. k # 1
      BY <2>1, <3>1 DEF ReturnTimes
    <3>3. PICK i \in 1..N : i + 1 = k
      <4>1. k - 1 \in 1..N /\ (k - 1) + 1 = k
        BY <1>9, <3>1, <3>2
      <4> QED BY <4>1
    <3>4. Returns[i].at = t
      BY <1>2, <3>1, <3>3
    <3> QED BY <1>0, <3>4 DEF Times
  <2>2. ASSUME NEW i \in 1..N PROVE Returns[i].at \in ReturnTimes
    <3>1. PICK k \in 1..Len(bars) : k = i + 1 /\ Returns[i].at = bars[k].ts
      BY <1>2
    <3>2. PICK l \in 1..Len(bars) : l = 1 /\ l < k
      BY <1>9, <3>1
    <3>3. bars[1].ts # bars[k].ts
      <4>1. bars[l].ts < bars[k].ts /\ bars[l].ts \in Int /\ bars[k].ts \in Int
        BY <1>7, <1>8, <3>2
      <4> QED BY <3>2, <4>1
    <3> QED BY <1>0, <3>1, <3>3 DEF ReturnTimes, BarTimes
  <2> QED BY <1>0, <2>1, <2>2 DEF Times
<1> QED BY <1>3, <1>4, <1>5, <1>6

\* Pairs of a column so many bars apart are so many places apart.
LEMMA ApartIs ==
  ASSUME NEW x, NEW n, NEW o, Column(x, n, o), NEW ds, NEW p
  PROVE  p \in Apart(Times(x), ds) <=> \E i, j \in 1..n : p = <<x[i].at, x[j].at>> /\ j - i \in ds
<1>0. n \in Nat /\ o \in Int /\ DOMAIN x = 1..n
  BY DEF Column
<1>1. \A i, j \in 1..n : Between(x[i].at, x[j].at) = j - i
  <2> TAKE i, j \in 1..n
  <2>1. RankOf(x[i].at) = i + o /\ RankOf(x[j].at) = j + o
    BY DEF Column
  <2>2. i \in Int /\ j \in Int
    BY <1>0
  <2> QED BY <1>0, <2>1, <2>2 DEF Between
<1>2. Times(x) = {x[i].at : i \in 1..n}
  BY <1>0 DEF Times
<1>3. ASSUME p \in Apart(Times(x), ds)
      PROVE  \E i, j \in 1..n : p = <<x[i].at, x[j].at>> /\ j - i \in ds
  <2>1. p \in Times(x) \X Times(x) /\ Between(p[1], p[2]) \in ds
    BY <1>3 DEF Apart
  <2>2. PICK i \in 1..n, j \in 1..n : p[1] = x[i].at /\ p[2] = x[j].at
    BY <1>2, <2>1
  <2>3. p = <<x[i].at, x[j].at>>
    BY <2>1, <2>2
  <2> QED BY <1>1, <2>1, <2>2, <2>3
<1>4. ASSUME NEW i \in 1..n, NEW j \in 1..n, p = <<x[i].at, x[j].at>>, j - i \in ds
      PROVE  p \in Apart(Times(x), ds)
  <2>1. x[i].at \in Times(x) /\ x[j].at \in Times(x)
    BY <1>2
  <2>2. Between(p[1], p[2]) \in ds /\ p \in Times(x) \X Times(x)
    BY <1>1, <1>4, <2>1
  <2> QED BY <2>2 DEF Apart
<1> QED BY <1>3, <1>4

\* A product of a lag is two values that many bars apart.
LEMMA ProductsApart ==
  ASSUME NEW x, NEW n, NEW o, Column(x, n, o), NEW k \in Nat
  PROVE  Products(x, k) = Apart(Times(x), {k})
<1>0. n \in Nat /\ Len(x) = n
  BY DEF Column
<1>1. ASSUME NEW p \in Products(x, k) PROVE p \in Apart(Times(x), {k})
  <2>1. PICK i \in 1..(n - k) : p = <<x[i].at, x[i + k].at>>
    BY <1>0 DEF Products
  <2>2. PICK j \in 1..n : j = i + k /\ i \in 1..n /\ j - i \in {k}
    BY <1>0, <2>1
  <2> QED BY <2>1, <2>2, ApartIs
<1>2. ASSUME NEW p \in Apart(Times(x), {k}) PROVE p \in Products(x, k)
  <2>1. PICK i \in 1..n, j \in 1..n : p = <<x[i].at, x[j].at>> /\ j - i \in {k}
    BY ApartIs
  <2>2. i \in 1..(n - k) /\ j = i + k
    BY <1>0, <2>1
  <2> QED BY <1>0, <2>1, <2>2 DEF Products
<1> QED BY <1>1, <1>2

\* The ends of a span of k + 1 values are k bars apart.
LEMMA SpansApart ==
  ASSUME NEW x, NEW n, NEW o, Column(x, n, o), NEW k \in Nat
  PROVE  Spans(x, k + 1) = Apart(Times(x), {k})
<1>0. n \in Nat /\ Len(x) = n
  BY DEF Column
<1>1. n - (k + 1) + 1 = n - k /\ \A i \in Int : i + (k + 1) - 1 = i + k
  BY <1>0
<1>2. Spans(x, k + 1) = {<<x[i].at, x[i + (k + 1) - 1].at>> : i \in 1..(n - (k + 1) + 1)}
  BY <1>0 DEF Spans
<1>3. Products(x, k) = {<<x[i].at, x[i + k].at>> : i \in 1..(n - k)}
  BY <1>0 DEF Products
<1>4. \A i \in 1..(n - k) : i + (k + 1) - 1 = i + k
  BY <1>0, <1>1
<1>5. Spans(x, k + 1) = Products(x, k)
  BY <1>1, <1>2, <1>3, <1>4
<1> QED BY <1>5, ProductsApart

\* The same for a set of lags.
LEMMA UnionApart ==
  ASSUME NEW x, NEW n, NEW o, Column(x, n, o), NEW ks \in SUBSET Nat
  PROVE  UNION {Products(x, k) : k \in ks} = Apart(Times(x), ks)
<1>1. \A k \in ks : Products(x, k) = Apart(Times(x), {k})
  BY ProductsApart
<1>2. \A p : p \in Apart(Times(x), ks) <=> \E k \in ks : p \in Apart(Times(x), {k})
  BY DEF Apart
<1> QED BY <1>1, <1>2

\* As many values as places.
LEMMA StretchCount ==
  ASSUME NEW x, NEW n, NEW o, Column(x, n, o), NEW a \in 1..(n + 1), NEW b \in 0..n, a <= b + 1
  PROVE  Cardinality({x[i].at : i \in a..b}) = b - a + 1
<1> DEFINE S == {x[i].at : i \in a..b}
           f == [i \in a..b |-> x[i].at]
<1>0. n \in Nat
  BY DEF Column
<1>1. \A i \in a..b : i \in 1..n
  BY <1>0
<1>2. f \in [a..b -> S] /\ \A t \in S : \E i \in a..b : f[i] = t
  OBVIOUS
<1>3. \A i, j \in a..b : f[i] = f[j] => i = j
  <2> SUFFICES ASSUME NEW i \in a..b, NEW j \in a..b, x[i].at = x[j].at PROVE i = j
    OBVIOUS
  <2>1. i \in 1..n /\ j \in 1..n
    BY <1>1
  <2>2. ~(i < j) /\ ~(j < i)
    BY <2>1 DEF Column
  <2> QED BY <1>0, <2>1, <2>2
<1>4. f \in Bijection(a..b, S)
  BY <1>2, <1>3 DEF Bijection, Injection, Surjection, IsInjective
<1> HIDE DEF f, S
<1>5. IsFiniteSet(a..b) /\ Cardinality(a..b) = b - a + 1
  <2>1. a \in Int /\ b \in Int
    BY <1>0
  <2>2. IsFiniteSet(a..b) /\ Cardinality(a..b) = IF a > b THEN 0 ELSE b - a + 1
    BY <2>1, FS_Interval
  <2> QED BY <2>1, <2>2
<1>6. Cardinality(S) = Cardinality(a..b)
  <2>1. ExistsBijection(a..b, S)
    BY <1>4 DEF ExistsBijection
  <2> QED BY <1>5, <2>1, FS_Bijection, Zenon
<1> QED BY <1>5, <1>6 DEF S

\* Before the i-th value are i - 1 others.
LEMMA BelowCount ==
  ASSUME NEW x, NEW n, NEW o, Column(x, n, o), NEW i \in 1..n
  PROVE  Cardinality({t \in Times(x) : t < x[i].at}) = i - 1
<1>0. n \in Nat /\ DOMAIN x = 1..n
  BY DEF Column
<1>1. \A k \in 1..n : x[k].at < x[i].at <=> k \in 1..(i - 1)
  <2> TAKE k \in 1..n
  <2>1. k < i \/ k = i \/ i < k
    BY <1>0
  <2>2. (k < i => x[k].at < x[i].at) /\ (i < k => x[i].at < x[k].at) /\ x[i].at \in Int /\ x[k].at \in Int
    BY DEF Column
  <2>3. k \in 1..(i - 1) <=> k < i
    BY <1>0
  <2> QED BY <2>1, <2>2, <2>3
<1>2. \A k \in 1..(i - 1) : k \in 1..n
  BY <1>0
<1>3. {t \in Times(x) : t < x[i].at} = {x[k].at : k \in 1..(i - 1)}
  BY <1>0, <1>1, <1>2 DEF Times
<1>4. Cardinality({x[k].at : k \in 1..(i - 1)}) = (i - 1) - 1 + 1
  <2>1. 1 \in 1..(n + 1) /\ i - 1 \in 0..n /\ 1 <= (i - 1) + 1
    BY <1>0
  <2> QED BY <2>1, StretchCount
<1>5. (i - 1) - 1 + 1 = i - 1
  BY <1>0
<1> QED BY <1>3, <1>4, <1>5

\* The column a request chooses.
Shift == IF Chosen = Levels THEN 0 ELSE 1

\* The chosen series is one of the two columns.
LEMMA ChosenColumn ==
  ASSUME SeriesFeed
  PROVE  /\ Chosen \in {Levels, Returns} /\ Column(Chosen, Len(Chosen), Shift)
<1>1. Column(Levels, Len(bars), 0) /\ Column(Returns, N, 1)
  BY TheColumns
<1>2. Len(Levels) = Len(bars) /\ Len(Returns) = N
  BY BarColumns
<1>3. Chosen \in {Levels, Returns}
  BY DEF Chosen
<1> QED BY <1>1, <1>2, <1>3 DEF Shift

----------------------------------------------------------------------------
(* What a finding says of itself. *)

\* A row of the series stands beside its last bar, and rows are in order.
Beside(raw) == /\ \A i \in DOMAIN raw : raw[i].at = Max(raw[i].of)
               /\ \A i, j \in DOMAIN raw : i < j => raw[i].at < raw[j].at
Right(n) == MadeOf(n.name, n.label, n.uses)

Labelled(r) ==
  /\ job.scan # "gap" => \A i \in DOMAIN r.raw : r.raw[i].at = Max(r.raw[i].of)
  /\ \A i, j \in DOMAIN r.raw : i < j => r.raw[i].at < r.raw[j].at
  /\ job.scan \notin BucketScans \cup {"anova", "event_window", "gap", "drawdown", "cusum"} =>
       \A i \in DOMAIN r.numbers : Right(r.numbers[i])

\* Every raw series a finding may carry stands beside the bars.
LEMMA BesideBars ==
  ASSUME SeriesFeed
  PROVE  Beside(Levels) /\ Beside(Returns) /\ Beside(Chosen)
<1>0. /\ Column(Levels, Len(bars), 0) /\ Column(Returns, N, 1)
      /\ DOMAIN Levels = 1..Len(bars) /\ DOMAIN Returns = 1..N
  BY TheColumns, BarColumns
<1>1. ASSUME NEW i \in 1..Len(bars) PROVE Levels[i].at = Max(Levels[i].of)
  <2>1. Levels[i].of = {bars[i].ts} /\ Levels[i].at = bars[i].ts /\ bars[i].ts \in Int
    BY LevelsAre, BarColumns
  <2>2. Max({bars[i].ts}) = bars[i].ts
    BY <2>1 DEF Max
  <2> QED BY <2>1, <2>2
<1>2. ASSUME NEW i \in 1..N PROVE Returns[i].at = Max(Returns[i].of)
  <2>1. PICK k \in 1..Len(bars), l \in 1..Len(bars) :
          /\ k = i /\ l = i + 1 /\ Returns[i].at = bars[l].ts /\ Returns[i].of = {bars[k].ts, bars[l].ts}
    BY ReturnsAre
  <2>2. k < l
    <3>1. i \in Int
      BY BarColumns
    <3> QED BY <2>1, <3>1
  <2>3. bars[k].ts < bars[l].ts /\ bars[k].ts \in Int /\ bars[l].ts \in Int
    BY <2>2, BarColumns DEF SeriesFeed
  <2>4. Max({bars[k].ts, bars[l].ts}) = bars[l].ts
    <3> DEFINE x == bars[k].ts
               y == bars[l].ts
    <3>1. x \in Int /\ y \in Int /\ x < y
      BY <2>3
    <3> HIDE DEF x, y
    <3>2. Max({x, y}) = IF x >= y THEN x ELSE y
      BY <3>1, MaxTwo
    <3> QED BY <3>1, <3>2 DEF x, y
  <2> QED BY <2>1, <2>4
<1>3. Beside(Levels)
  BY <1>0, <1>1 DEF Beside, Column
<1>4. Beside(Returns)
  BY <1>0, <1>2 DEF Beside, Column
<1> QED BY <1>3, <1>4, ChosenColumn

\* The numbers of the portmanteau, stationarity, variance and regression tests.
LEMMA LagsInt == ASSUME SeriesFeed, ~job.odd PROVE Lags \in Int
<1>1. N \div 5 \in Int
  BY BarColumns
<1>2. DefaultLags(N) \in Int
  <2> DEFINE q == N \div 5
  <2>1. q \in Int
    BY <1>1
  <2> HIDE DEF q
  <2>2. Min({10, q}) \in Int
    BY <2>1 DEF Min
  <2> QED BY <2>2 DEF DefaultLags, q
<1> QED BY <1>2 DEF Lags, Param, Given, SeriesFeed, Typed

\* A Q statistic is made of the products up to its lag.
LEMMA LjungBoxRight ==
  ASSUME SeriesFeed, ~job.odd, LjungBoxAccepts, NEW i \in DOMAIN QStats(Returns, Lags)
  PROVE  Right(QStats(Returns, Lags)[i])
<1>1. Lags \in Int
  BY LagsInt
<1>2. i \in 1..Lags
  BY DEF QStats
<1>3. QStats(Returns, Lags)[i] = Number("q", i, UNION {Products(Returns, j) : j \in 1..i})
  BY <1>2 DEF QStats
<1>4. 1..i \in SUBSET Nat
  BY <1>1, <1>2
<1>5. UNION {Products(Returns, j) : j \in 1..i} = Apart(ReturnTimes, 1..i)
  BY <1>4, TheColumns, UnionApart
<1> QED BY <1>3, <1>5 DEF Right, Number, MadeOf

\* The rule of thumb for the largest lag names one.
LEMMA SchwertIs ==
  ASSUME NEW c \in Nat, NEW n \in Nat
  PROVE  Schwert(c, n) \in 0..c
<1> DEFINE P(v) == /\ Fourth(v) * 100 <= Fourth(c) * n
                   /\ v = c \/ Fourth(v + 1) * 100 > Fourth(c) * n
           T == {v \in 0..c : Fourth(v) * 100 <= Fourth(c) * n}
<1>1. \A v \in Int : Fourth(v) \in Int
  BY DEF Fourth
<1>2. \E v \in 0..c : P(v)
  <2> SUFFICES ASSUME ~\E v \in 0..c : P(v) PROVE FALSE
    OBVIOUS
  <2>1. Fourth(0) = 0 /\ Fourth(c) \in Int
    BY <1>1 DEF Fourth
  <2>2. Fourth(c) >= 0
    <3>1. c * c \in Nat
      OBVIOUS
    <3>2. (c * c) * c \in Nat
      BY <3>1
    <3>3. ((c * c) * c) * c \in Nat
      BY <3>2
    <3> QED BY <3>3 DEF Fourth
  <2>3. Fourth(c) * n >= 0 /\ Fourth(c) * n \in Int
    BY <2>1, <2>2
  <2>4. 0 \in T
    BY <2>1, <2>3
  <2>5. ASSUME NEW k \in T, k < c PROVE k + 1 \in T
    <3>1. k + 1 \in 0..c /\ Fourth(k + 1) \in Int
      BY <1>1, <2>5
    <3>2. ~(Fourth(k + 1) * 100 > Fourth(c) * n)
      BY <2>5
    <3> QED BY <2>3, <3>1, <3>2
  <2>6. T = 0..c
    <3>1. T \in SUBSET (0..c)
      OBVIOUS
    <3> HIDE DEF T
    <3> QED BY <2>4, <2>5, <3>1, Sums!UpTo
  <2>7. P(c)
    BY <2>6
  <2> QED BY <2>7
<1>3. Schwert(c, n) = CHOOSE v \in 0..c : P(v)
  BY DEF Schwert
<1> HIDE DEF P
<1> QED BY <1>2, <1>3

\* The largest lag of the unit-root test is an integer.
LEMMA MaxLagInt == ASSUME SeriesFeed, ~job.odd PROVE MaxLag \in Int
<1>1. Schwert(12, Len(bars)) \in Int
  BY SchwertIs, BarColumns
<1> QED BY <1>1 DEF MaxLag, Param, Given, SeriesFeed, Typed

\* The numbers of the unit root test, for every lag it may settle on.
LEMMA AdfRight ==
  ASSUME SeriesFeed, ~job.odd, AdfAccepts, NEW k \in AdfLags
  PROVE  Right(Number("tau", k, Spans(Levels, k + 2)))
<1>1. MaxLag \in Int
  BY MaxLagInt
<1>2. k \in Nat /\ k <= MaxLag
  BY <1>1 DEF AdfAccepts, AdfLags
<1>3. k + 2 = (k + 1) + 1 /\ k + 1 \in Nat
  BY <1>2
<1>4. Spans(Levels, (k + 1) + 1) = Apart(BarTimes, {k + 1})
  BY <1>3, TheColumns, SpansApart
<1>5. Spans(Levels, k + 2) = Apart(BarTimes, {k + 1})
  BY <1>3, <1>4
<1> QED BY <1>2, <1>5 DEF Right, Number, MadeOf

\* Those of the stationarity test.
LEMMA KpssRight ==
  ASSUME SeriesFeed, ~job.odd, KpssAccepts, NEW i \in DOMAIN KpssNumbers
  PROVE  Right(KpssNumbers[i])
<1>1. Truncation \in Int
  <2>1. Schwert(4, Len(bars)) \in Int
    BY SchwertIs, BarColumns
  <2>2. Nlags \in Int
    BY DEF Nlags, AutoLag, Param, Given, SeriesFeed, Typed
  <2> QED BY <2>1, <2>2 DEF Truncation
<1>2. 0..Truncation \in SUBSET Nat
  BY <1>1
<1>3. UNION {Products(Levels, j) : j \in 0..Truncation} = Apart(BarTimes, 0..Truncation)
  BY <1>2, TheColumns, UnionApart
<1>4. KpssNumbers[i] = Number("eta", Truncation, UNION {Products(Levels, j) : j \in 0..Truncation})
  BY DEF KpssNumbers
<1> QED BY <1>3, <1>4 DEF Right, Number, MadeOf

\* Those of the variance ratios.
LEMMA VrRight ==
  ASSUME SeriesFeed, ~job.odd, VrAccepts, NEW i \in DOMAIN VrNumbers
  PROVE  Right(VrNumbers[i])
<1> DEFINE h == VrHorizons[i]
<1>1. i \in DOMAIN VrHorizons /\ VrNumbers[i] = Number("vr", h, Spans(Returns, h))
  BY DEF VrNumbers
<1>2. VrHorizons \in Seq(Int)
  BY DEF VrHorizons, Param, Given, SeriesFeed, Typed
<1>3. h \in Int /\ h >= 2
  BY <1>1, <1>2 DEF VrAccepts
<1> HIDE DEF h
<1>4. PICK k \in Nat : k = h - 1 /\ h = k + 1
  BY <1>3
<1>5. Spans(Returns, h) = Apart(ReturnTimes, {h - 1})
  BY <1>4, TheColumns, SpansApart
<1> QED BY <1>1, <1>5 DEF Right, Number, MadeOf

\* Those of the test for conditional variance.
LEMMA ArchRight ==
  ASSUME SeriesFeed, ~job.odd, ArchAccepts, NEW i \in DOMAIN ArchNumbers
  PROVE  Right(ArchNumbers[i])
<1>1. Lag \in Int /\ Lag >= 1
  BY DEF Lag, Param, Given, SeriesFeed, Typed, ArchAccepts
<1>2. Lag \in Nat
  BY <1>1
<1>3. Spans(Returns, Lag + 1) = Apart(ReturnTimes, {Lag})
  BY <1>2, TheColumns, SpansApart
<1>4. ArchNumbers[i] = Number("lm", Lag, Spans(Returns, Lag + 1))
  BY DEF ArchNumbers
<1> QED BY <1>3, <1>4 DEF Right, Number, MadeOf

\* A whole column goes from its first time to the last of the bars.
LEMMA WholeIs ==
  ASSUME SeriesFeed, Len(Chosen) >= 1, NEW u \in Whole(Chosen)
  PROVE  u[1] = Min(Times(Chosen)) /\ u[2] = Max(BarTimes)
<1> DEFINE n == Len(Chosen)
<1>0. Column(Chosen, n, Shift) /\ Chosen \in {Levels, Returns}
  BY ChosenColumn
<1>1. /\ n \in Nat /\ n >= 1 /\ DOMAIN Chosen = 1..n
      /\ \A i \in 1..n : Chosen[i].at \in Int
      /\ \A i, j \in 1..n : i < j => Chosen[i].at < Chosen[j].at
  BY <1>0 DEF Column
<1>2. u[1] = Chosen[1].at /\ u[2] = Chosen[n].at
  <2>1. Last(Chosen) = Chosen[n]
    BY DEF Last
  <2> QED BY <2>1 DEF Whole
<1> HIDE DEF n
<1>3. Min(Times(Chosen)) = Chosen[1].at
  <2>1. 1 \in 1..n /\ \A i \in 1..n : i = 1 \/ 1 < i
    BY <1>1
  <2>2. Chosen[1].at \in Times(Chosen)
    BY <1>1, <2>1 DEF Times
  <2>3. \A t \in Times(Chosen) : t \in Int /\ Chosen[1].at <= t
    <3> SUFFICES ASSUME NEW i \in 1..n PROVE Chosen[i].at \in Int /\ Chosen[1].at <= Chosen[i].at
      BY <1>1 DEF Times
    <3> QED BY <1>1, <2>1
  <2> QED BY <2>2, <2>3, MinIs
<1>4. Chosen[n].at = Max(BarTimes)
  <2>0. Len(bars) \in Nat /\ Len(bars) >= 1 /\ DOMAIN bars = 1..Len(bars)
    BY <1>0, <1>1, BarColumns DEF n
  <2>1. Chosen[n].at = bars[Len(bars)].ts
    <3>1. CASE Chosen = Levels
      <4>1. n = Len(bars)
        BY <3>1, BarColumns DEF n
      <4> QED BY <1>1, <3>1, <4>1, LevelsAre
    <3>2. CASE Chosen = Returns
      <4>0. n = N
        BY <3>2, BarColumns DEF n
      <4>1. n = N /\ n + 1 = Len(bars)
        <5>1. Len(bars) \in Nat /\ N = IF Len(bars) = 0 THEN 0 ELSE Len(bars) - 1
          BY BarColumns
        <5>2. n \in Nat /\ n >= 1
          BY <1>1
        <5> QED BY <4>0, <5>1, <5>2
      <4>2. n \in 1..N
        BY <1>1, <4>1
      <4>3. Returns[n].at = bars[n + 1].ts
        BY <4>2, ReturnsAre
      <4> QED BY <3>2, <4>1, <4>3
    <3> QED BY <1>0, <3>1, <3>2
  <2>2. bars[Len(bars)].ts \in BarTimes
    BY <2>0 DEF BarTimes
  <2>3. \A t \in BarTimes : t \in Int /\ t <= bars[Len(bars)].ts
    <3> SUFFICES ASSUME NEW i \in 1..Len(bars) PROVE bars[i].ts \in Int /\ bars[i].ts <= bars[Len(bars)].ts
      BY <2>0 DEF BarTimes
    <3> DEFINE m == Len(bars)
    <3>1. i = m \/ i < m
      <4>1. m \in Nat /\ i \in 1..m
        BY <2>0
      <4> HIDE DEF m
      <4> QED BY <4>1
    <3>2. m \in 1..Len(bars)
      BY <2>0
    <3>3. bars[i].ts \in Int /\ bars[m].ts \in Int
      BY <3>2, BarColumns
    <3>4. i < m => bars[i].ts < bars[m].ts
      BY <2>0, <3>2 DEF SeriesFeed
    <3> HIDE DEF m
    <3> QED BY <3>1, <3>3, <3>4 DEF m
  <2>4. Max(BarTimes) = bars[Len(bars)].ts
    BY <2>2, <2>3, MaxIs
  <2> QED BY <2>1, <2>4
<1> QED BY <1>2, <1>3, <1>4

\* The numbers over a whole column.
LEMMA WholeRight ==
  ASSUME SeriesFeed, Len(Chosen) >= 1
  PROVE  /\ \A i \in DOMAIN JarqueBeraNumbers : Right(JarqueBeraNumbers[i])
         /\ \A i \in DOMAIN SummaryNumbers : Right(SummaryNumbers[i])
<1> DEFINE ok == \A u \in Whole(Chosen) : u[1] = Min(Times(Chosen)) /\ u[2] = Max(BarTimes)
<1>1. ok
  BY WholeIs
<1> HIDE DEF ok
<1>2. \A label : ok => MadeOf("jb", label, Whole(Chosen)) /\ MadeOf("mean", label, Whole(Chosen))
  BY DEF MadeOf, ok
<1>3. Right(Number("jb", N, Whole(Chosen))) /\ Right(Number("mean", Len(Chosen), Whole(Chosen)))
  BY <1>1, <1>2 DEF Right, Number
<1> QED BY <1>3 DEF JarqueBeraNumbers, SummaryNumbers

\* Those of the regression on the value before.
LEMMA MeanrevRight ==
  ASSUME SeriesFeed, NEW x \in {Levels, Returns}, NEW i \in DOMAIN Ar1(x)
  PROVE  Right(Ar1(x)[i])
<1>1. /\ \A p : p \in Products(Levels, 1) => p \in Apart(BarTimes, {1})
      /\ \A p : p \in Products(Returns, 1) => p \in Apart(ReturnTimes, {1})
  BY TheColumns, ProductsApart
<1>2. \A p : p \in Apart(ReturnTimes, {1}) => p \in Apart(BarTimes, {1})
  BY DEF Apart, ReturnTimes
<1>3. Products(x, 1) \subseteq Apart(BarTimes, {1})
  BY <1>1, <1>2
<1>4. Ar1(x)[i] = Number("rho", Len(x) - 1, IF Len(x) < 3 THEN {} ELSE Products(x, 1))
  BY DEF Ar1
<1> QED BY <1>3, <1>4 DEF Right, Number, MadeOf

\* The sequence of one list after another holds what they hold.
Listed(s, n) == DOMAIN s = 1..n /\ s = [i \in 1..n |-> s[i]]

Either(x, s, m, t, n) == (\E j \in 1..m : x = s[j]) \/ (\E j \in 1..n : x = t[j])

\* An entry of two lists joined is one of the first or of the second.
LEMMA JoinedIs ==
  ASSUME NEW m \in Nat, NEW s, Listed(s, m), NEW n \in Int, NEW t, Listed(t, n),
         NEW i \in DOMAIN (s \o t)
  PROVE  Either((s \o t)[i], s, m, t, n)
<1> DEFINE k == IF n >= 0 THEN n ELSE 0
           S == {s[j] : j \in 1..m} \cup {t[j] : j \in 1..n}
<1>1. k \in Nat /\ 1..n = 1..k
  OBVIOUS
<1>2. s \in [1..m -> S] /\ t \in [1..k -> S]
  BY <1>1 DEF Listed
<1> HIDE DEF k, S
<1>3. s \in Seq(S) /\ Len(s) = m /\ t \in Seq(S) /\ Len(t) = k
  <2>1. s \in Seq(S) /\ t \in Seq(S)
    BY <1>1, <1>2
  <2>2. Len(s) = m /\ Len(t) = k
    <3>1. DOMAIN s = 1..m /\ DOMAIN t = 1..k
      BY <1>1 DEF Listed
    <3> QED BY <1>1, <3>1, LenIs
  <2> QED BY <2>1, <2>2
<1>4. /\ s \o t \in Seq(S) /\ Len(s \o t) = m + k
      /\ \A j \in 1..(m + k) : (s \o t)[j] = IF j <= m THEN s[j] ELSE t[j - m]
  BY <1>3, ConcatProperties
<1>5. i \in 1..(m + k)
  BY <1>1, <1>4, LenProperties
<1>6. CASE i <= m
  BY <1>4, <1>5, <1>6 DEF Either
<1>7. CASE ~(i <= m)
  <2>1. PICK j \in 1..n : j = i - m
    BY <1>1, <1>5, <1>7
  <2>2. (s \o t)[i] = t[j]
    BY <1>4, <1>5, <1>7, <2>1
  <2> QED BY <2>2 DEF Either
<1> QED BY <1>6, <1>7

\* The returns of a variant stand in order, as they do in the whole series.
LEMMA ProfileIs ==
  ASSUME SeriesFeed
  PROVE  Beside(Profile) /\ \A j \in DOMAIN Profile : \E k \in 1..N : Profile[j] = Returns[k]
<1>0. N \in Nat /\ DOMAIN Returns = 1..N
  BY BarColumns
<1>1. \E S \in SUBSET (1..N) : Kept = Ascend(S)
  <2> DEFINE keeps(i) == CASE Variant \in {"log", "simple"} -> TRUE
                           [] Variant = "intraday"  -> SameDay(i)
                           [] Variant = "overnight" -> ~SameDay(i)
             S == {i \in 1..N : keeps(i)}
  <2>1. Kept = Ascend(S)
    BY DEF Kept
  <2>2. S \in SUBSET (1..N)
    OBVIOUS
  <2> HIDE DEF S
  <2> QED BY <2>1, <2>2
<1>2. PICK S \in SUBSET (1..N) : Kept = Ascend(S)
  BY <1>1
<1>3. S \in SUBSET Int /\ IsFiniteSet(S)
  <2>1. IsFiniteSet(1..N)
    BY <1>0, FS_Interval
  <2>2. IsFiniteSet(S)
    BY <2>1, FS_Subset
  <2> QED BY <2>2
<1>4. Ascending(Kept, S)
  BY <1>2, <1>3, AscendIs
<1>5. \A j \in DOMAIN Kept : Kept[j] \in 1..N
  BY <1>4 DEF Ascending
<1>6. \A i, j \in DOMAIN Kept : i < j => Kept[i] < Kept[j]
  BY <1>4 DEF Ascending
<1>7. DOMAIN Profile = DOMAIN Kept /\ \A j \in DOMAIN Kept : Profile[j] = Returns[Kept[j]]
  BY DEF Profile
<1>8. /\ \A i \in 1..N : Returns[i].at = Max(Returns[i].of)
      /\ \A i, j \in 1..N : i < j => Returns[i].at < Returns[j].at
  BY <1>0, BesideBars DEF Beside
<1> QED BY <1>5, <1>6, <1>7, <1>8 DEF Beside

\* A rolling number has the time of its last return, and so has the spread of those.
LEMMA VolRight ==
  ASSUME SeriesFeed, ~job.odd, VolAccepts,
         NEW i \in DOMAIN (RollingStd(job.p["window"]) \o VolOfVol(job.p["window"]))
  PROVE  Right((RollingStd(job.p["window"]) \o VolOfVol(job.p["window"]))[i])
<1> DEFINE w == job.p["window"]
           n == Len(Chosen)
           m == VolWindows
           s == RollingStd(w)
           t == VolOfVol(w)
<1>0. Column(Chosen, n, Shift) /\ n \in Nat /\ DOMAIN Chosen = 1..n
  BY ChosenColumn DEF Column
<1>1. w \in Int /\ w >= 2 /\ w <= n /\ m = n - w + 1
  BY DEF SeriesFeed, Typed, Given, VolAccepts, VolWindows
<1>2. m \in Nat /\ m - w + 1 \in Int
  BY <1>0, <1>1
<1>3. /\ DOMAIN s = 1..m /\ s = [j \in 1..m |-> s[j]]
      /\ \A j \in 1..m : s[j] = Number("vol", Chosen[j].at, {<<Chosen[j].at, Chosen[j + w - 1].at>>})
  BY DEF RollingStd
<1>4. /\ DOMAIN t = 1..(m - w + 1) /\ t = [j \in 1..(m - w + 1) |-> t[j]]
      /\ \A j \in 1..(m - w + 1) : t[j] = Number("vol_of_vol", j, {Chosen[k].at : k \in j..(j + w - 1)})
  BY DEF VolOfVol
<1> HIDE DEF s, t, m, n, w
<1>5. ASSUME NEW j \in 1..m PROVE Right(s[j])
  <2>1. j \in 1..n /\ j + w - 1 \in 1..n /\ (j + w - 1) - j = w - 1
    BY <1>0, <1>1
  <2> DEFINE l == j + w - 1
             u == <<Chosen[j].at, Chosen[j + w - 1].at>>
  <2>2. u \in Apart(Times(Chosen), {w - 1})
    <3>1. l \in 1..n /\ u = <<Chosen[j].at, Chosen[l].at>> /\ l - j \in {w - 1}
      BY <2>1
    <3> HIDE DEF l, u, n
    <3> QED BY <1>0, <2>1, <3>1, ApartIs
  <2>3. u[1] = Chosen[j].at
    OBVIOUS
  <2> HIDE DEF u
  <2>4. s[j] = Number("vol", Chosen[j].at, {u})
    BY <1>3 DEF u
  <2> DEFINE at == Chosen[j].at
  <2>5. {u} \in SUBSET Apart(Times(Chosen), {w - 1}) /\ {v[1] : v \in {u}} = {at}
    BY <2>2, <2>3
  <2> HIDE DEF at
  <2>6. MadeOf("vol", at, {u})
    BY <2>5 DEF MadeOf, w
  <2> QED BY <2>4, <2>6 DEF Right, Number, at
<1>6. ASSUME NEW j \in 1..(m - w + 1) PROVE Right(t[j])
  <2> DEFINE b == j + w - 1
             U == {Chosen[k].at : k \in j..b}
  <2>0. j \in 1..n /\ b \in 1..n /\ j <= b /\ b - j + 1 = w /\ j \in 1..(n + 1) /\ b \in 0..n /\ j <= b + 1
    BY <1>0, <1>1
  <2>00. \A k \in j..b : k \in 1..n /\ k - j < w /\ (k = j \/ j < k)
    BY <1>0, <1>1
  <2>000. b \in Int
    BY <2>0
  <2> HIDE DEF b
  <2>1. Cardinality(U) = w
    <3>1. Cardinality(U) = b - j + 1
      <4>1. Column(Chosen, n, Shift) /\ j \in 1..(n + 1) /\ b \in 0..n /\ j <= b + 1
        BY <1>0, <2>0
      <4> HIDE DEF U
      <4>2. Cardinality({Chosen[k].at : k \in j..b}) = b - j + 1
        BY <4>1, StretchCount
      <4> QED BY <4>2 DEF U
    <3> QED BY <2>0, <3>1
  <2>2. Min(U) = Chosen[j].at
    <3>1. \A k \in j..b : Chosen[k].at \in Int /\ Chosen[j].at <= Chosen[k].at
      <4> TAKE k \in j..b
      <4>1. k \in 1..n /\ (k = j \/ j < k)
        BY <2>00
      <4>2. Chosen[k].at \in Int /\ (j < k => Chosen[j].at < Chosen[k].at) /\ Chosen[j].at \in Int
        BY <1>0, <2>0, <4>1 DEF Column
      <4> QED BY <4>1, <4>2
    <3>2. j \in j..b
      BY <2>0
    <3>3. Chosen[j].at \in U /\ \A y \in U : y \in Int /\ Chosen[j].at <= y
      BY <3>1, <3>2
    <3> QED BY <3>3, MinIs
  <2>3. \A k \in j..b : Between(Chosen[j].at, Chosen[k].at) = k - j
    <3> TAKE k \in j..b
    <3>1. k \in 1..n /\ j \in 1..n
      BY <2>0, <2>00
    <3>2. RankOf(Chosen[k].at) = k + Shift /\ RankOf(Chosen[j].at) = j + Shift /\ Shift \in Int
      <4>1. Shift \in Int
        BY DEF Shift
      <4>2. \A l \in 1..n : RankOf(Chosen[l].at) = l + Shift
        BY <1>0 DEF Column
      <4> QED BY <3>1, <4>1, <4>2
    <3>3. k \in Int /\ j \in Int
      BY <3>1
    <3> QED BY <3>2, <3>3 DEF Between
  <2>4. \A u \in U : Between(Min(U), u) < w
    BY <2>00, <2>2, <2>3
  <2>5. t[j] = Number("vol_of_vol", j, U)
    BY <1>4 DEF b
  <2> HIDE DEF U
  <2> QED BY <2>1, <2>4, <2>5 DEF Right, Number, MadeOf, w
<1>7. (\E j \in 1..m : (s \o t)[i] = s[j]) \/ (\E j \in 1..(m - w + 1) : (s \o t)[i] = t[j])
  <2>1. i \in DOMAIN (s \o t)
    BY DEF s, t, w
  <2>2. PICK q \in Int : q = m - w + 1
    BY <1>2
  <2>3. Listed(s, m) /\ Listed(t, q)
    BY <1>3, <1>4, <2>2 DEF Listed
  <2>4. Either((s \o t)[i], s, m, t, q)
    BY <1>2, <2>1, <2>3, JoinedIs
  <2> QED BY <2>2, <2>4 DEF Either
<1>8. Right((s \o t)[i])
  BY <1>5, <1>6, <1>7
<1> QED BY <1>8 DEF s, t, w

\* An outlier has the time of its own bar.
LEMMA OutliersRight ==
  ASSUME SeriesFeed, NEW i \in DOMAIN OutliersFound.numbers
  PROVE  Right(OutliersFound.numbers[i])
<1> DEFINE S == Flagged(Chosen)
           order == Ascend(S)
           n == Len(Chosen)
<1>0. Column(Chosen, n, Shift) /\ n \in Nat /\ DOMAIN Chosen = 1..n
  BY ChosenColumn DEF Column
<1>1. OutliersFound.numbers = [j \in DOMAIN order |-> Number("outlier", order[j] - 1, {Chosen[order[j]].at})]
  BY DEF OutliersFound, Found
<1>2. S \in SUBSET (1..n)
  BY <1>0 DEF Flagged
<1> HIDE DEF S, n
<1>3. S \in SUBSET Int /\ IsFiniteSet(S)
  <2>1. IsFiniteSet(1..n)
    BY <1>0, FS_Interval
  <2>2. IsFiniteSet(S)
    BY <1>2, <2>1, FS_Subset
  <2> QED BY <1>2, <2>2
<1>4. Ascending(order, S)
  BY <1>3, AscendIs
<1>5. i \in DOMAIN order
  BY <1>1
<1>6. order[i] \in 1..n
  BY <1>2, <1>4, <1>5 DEF Ascending
<1> HIDE DEF order
<1>7. PICK k \in 1..n : k = order[i]
  BY <1>6
<1>8. OutliersFound.numbers[i] = Number("outlier", k - 1, {Chosen[k].at})
  BY <1>1, <1>5, <1>7
<1>9. Cardinality({t \in Times(Chosen) : t < Chosen[k].at}) = k - 1
  BY <1>0, BelowCount
<1> DEFINE at == Chosen[k].at
<1>10. MadeOf("outlier", k - 1, {at})
  BY <1>9 DEF MadeOf
<1> QED BY <1>8, <1>10 DEF Right, Number

\* The blocks of a horizon lie within the returns, one after the other.
LEMMA BlockIs ==
  ASSUME SeriesFeed, NEW k \in Nat \ {0}, NEW b \in 0..(N \div k - 2)
  PROVE  \E c \in Nat :
           /\ c % k = 0
           /\ c + 1 \in 1..N /\ c + k \in 1..N /\ c + k + 1 \in 1..N /\ c + k + k \in 1..N
           /\ Block(k, b) = <<Returns[c + 1].at, Returns[c + k].at>>
           /\ Block(k, b + 1) = <<Returns[c + k + 1].at, Returns[c + k + k].at>>
<1>0. N \in Nat
  BY BarColumns
<1> DEFINE q == N \div k
           r == N % k
<1>1. q \in Nat /\ r \in 0..(k - 1) /\ N = k * q + r
  BY <1>0
<1> HIDE DEF q, r
<1>2. b \in Nat /\ b + 2 <= q
  BY <1>1 DEF q
<1>3. PICK c \in Nat : c = b * k
  BY <1>2
<1>4. c % k = 0
  BY <1>2, <1>3, Multiples
<1>5. (b + 1) * k = c + k /\ (b + 2) * k = c + k + k
  BY <1>2, <1>3
<1>6. c + k + k <= N
  <2>1. (b + 2) * k <= q * k
    <3>1. b + 2 \in Int /\ q \in Int
      BY <1>1, <1>2
    <3>2. q < b + 2 <=> q * k < (b + 2) * k
      BY <3>1, TimesGrows
    <3>3. q * k \in Int /\ (b + 2) * k \in Int
      BY <3>1
    <3> QED BY <1>2, <3>1, <3>2, <3>3
  <2>2. q * k = k * q /\ k * q \in Int
    BY <1>1
  <2> QED BY <1>1, <1>5, <2>1, <2>2
<1>7. c + 1 \in 1..N /\ c + k \in 1..N /\ c + k + 1 \in 1..N /\ c + k + k \in 1..N
  BY <1>0, <1>6
<1>8. Block(k, b) = <<Returns[c + 1].at, Returns[c + k].at>>
  BY <1>3, <1>5 DEF Block
<1>9. Block(k, b + 1) = <<Returns[c + k + 1].at, Returns[c + k + k].at>>
  <2>1. (b + 1) * k + 1 = c + k + 1 /\ ((b + 1) + 1) * k = c + k + k
    <3>1. (b + 1) + 1 = b + 2
      BY <1>2
    <3> QED BY <1>5, <3>1
  <2> QED BY <2>1 DEF Block
<1> QED BY <1>4, <1>7, <1>8, <1>9

\* A continuation pairs blocks that are neighbours.
LEMMA ContinuationRight ==
  ASSUME SeriesFeed, NEW k \in Nat \ {0}
  PROVE  Right(Number("continuation", k, BlockPairs(k)))
<1>0. N \in Nat /\ \A i \in 1..N : RankOf(Returns[i].at) = i + 1
  <2>1. Column(Returns, N, 1)
    BY TheColumns
  <2> QED BY <2>1 DEF Column
<1>1. ASSUME NEW u \in BlockPairs(k)
      PROVE  /\ \A b \in {1, 2} : Between(u[b][1], u[b][2]) = k - 1
             /\ Between(u[1][2], u[2][1]) = 1
             /\ (RankOf(u[1][1]) - 2) % k = 0
  <2>1. PICK b \in 0..(N \div k - 2) : u = <<Block(k, b), Block(k, b + 1)>>
    BY DEF BlockPairs
  <2>2. PICK c \in Nat :
           /\ c % k = 0
           /\ c + 1 \in 1..N /\ c + k \in 1..N /\ c + k + 1 \in 1..N /\ c + k + k \in 1..N
           /\ Block(k, b) = <<Returns[c + 1].at, Returns[c + k].at>>
           /\ Block(k, b + 1) = <<Returns[c + k + 1].at, Returns[c + k + k].at>>
    BY BlockIs
  <2>3. /\ u[1][1] = Returns[c + 1].at /\ u[1][2] = Returns[c + k].at
        /\ u[2][1] = Returns[c + k + 1].at /\ u[2][2] = Returns[c + k + k].at
    BY <2>1, <2>2
  <2>4. /\ RankOf(u[1][1]) = (c + 1) + 1 /\ RankOf(u[1][2]) = (c + k) + 1
        /\ RankOf(u[2][1]) = (c + k + 1) + 1 /\ RankOf(u[2][2]) = (c + k + k) + 1
    BY <1>0, <2>2, <2>3
  <2>5. /\ Between(u[1][1], u[1][2]) = k - 1 /\ Between(u[2][1], u[2][2]) = k - 1
        /\ Between(u[1][2], u[2][1]) = 1
    BY <2>4 DEF Between
  <2>6. RankOf(u[1][1]) - 2 = c
    BY <2>4
  <2> QED BY <2>2, <2>5, <2>6
<1> QED BY <1>1 DEF Right, Number, MadeOf

\* The scale of a return is made of returns before it, or of all of them.
LEMMA ScaleRight ==
  ASSUME SeriesFeed, NEW i \in 1..N
  PROVE  Right(Number("scale", Returns[i].at, Scale(i)))
<1>0. Column(Returns, N, 1)
  BY TheColumns
<1>1. /\ N \in Nat /\ \A j \in 1..N : Returns[j].at \in Int
      /\ \A j, k \in 1..N : j < k => Returns[j].at < Returns[k].at
      /\ RankOf(Returns[i].at) = i + 1
  BY <1>0 DEF Column
<1> DEFINE U == Scale(i)
           a == IF i - VolWindow >= 1 THEN i - VolWindow ELSE 1
<1>2. ASSUME RankOf(Returns[i].at) > 3
      PROVE  (\A u \in U : u < Returns[i].at) /\ Cardinality(U) <= VolWindow
  <2>1. CASE ~Scaling
    <3>1. U = {}
      BY <2>1 DEF Scale
    <3>2. Cardinality(U) = 0
      BY <3>1, FS_EmptySet
    <3> QED BY <3>1, <3>2 DEF VolWindow
  <2>2. CASE Scaling
    <3>0. Max({1, i - VolWindow}) = a
      <4>1. i - VolWindow \in Int
        BY <1>1 DEF VolWindow
      <4>2. Max({1, i - VolWindow}) = IF 1 >= i - VolWindow THEN 1 ELSE i - VolWindow
        BY <4>1, MaxTwo
      <4> QED BY <4>1, <4>2
    <3>1. /\ a \in 1..(N + 1) /\ i - 1 \in 0..N /\ a <= (i - 1) + 1
          /\ (i - 1) - a + 1 >= 2 /\ (i - 1) - a + 1 <= VolWindow
          /\ a \in Int /\ i - 1 \in Int
      BY <1>1, <1>2 DEF VolWindow
    <3> HIDE DEF a
    <3>2. Cardinality(a..(i - 1)) = (i - 1) - a + 1
      <4>1. Cardinality(a..(i - 1)) = IF a > i - 1 THEN 0 ELSE (i - 1) - a + 1
        BY <3>1, FS_Interval
      <4> QED BY <3>1, <4>1
    <3>3. U = {Returns[j].at : j \in a..(i - 1)}
      BY <2>2, <3>0, <3>1, <3>2 DEF Scale
    <3>4. Cardinality({Returns[j].at : j \in a..(i - 1)}) = (i - 1) - a + 1
      BY <1>0, <3>1, StretchCount
    <3>5. \A j \in a..(i - 1) : j \in 1..N /\ j < i
      BY <1>1, <3>1
    <3>6. \A u \in U : u < Returns[i].at
      BY <1>1, <3>3, <3>5
    <3> QED BY <3>1, <3>3, <3>4, <3>6
  <2> QED BY <2>1, <2>2
<1> HIDE DEF U
<1> QED BY <1>2 DEF Right, Number, MadeOf, U

\* All numbers of the momentum scan.
LEMMA TsmomRight ==
  ASSUME SeriesFeed, ~job.odd, TsmomAccepts, NEW sel, NEW i \in DOMAIN TsmomFound(sel).numbers
  PROVE  Right(TsmomFound(sel).numbers[i])
<1> DEFINE s == [j \in DOMAIN Holds |-> Number("continuation", Holds[j], BlockPairs(Holds[j]))]
           t == [j \in 1..N |-> Number("scale", Returns[j].at, Scale(j))]
<1>1. Holds \in Seq(Int)
  BY DEF Holds, Param, Given, SeriesFeed, Typed
<1>2. PICK m \in Nat : DOMAIN Holds = 1..m
  BY <1>1
<1>3. \A j \in 1..m : Holds[j] \in Nat \ {0}
  BY <1>1, <1>2 DEF TsmomAccepts
<1>4. TsmomFound(sel).numbers = s \o t
  BY DEF TsmomFound, Found
<1>5. \A j \in 1..m : Right(s[j])
  BY <1>2, <1>3, ContinuationRight
<1>6. \A j \in 1..N : Right(t[j])
  BY ScaleRight
<1>7. Listed(s, m) /\ Listed(t, N) /\ N \in Int
  BY <1>2, BarColumns DEF Listed
<1> HIDE DEF s, t
<1>8. i \in DOMAIN (s \o t)
  BY <1>4
<1>9. (\E j \in 1..m : (s \o t)[i] = s[j]) \/ (\E j \in 1..N : (s \o t)[i] = t[j])
  <2>1. PICK n \in Int : n = N
    BY <1>7
  <2>2. Listed(t, n)
    BY <1>7, <2>1
  <2>3. Either((s \o t)[i], s, m, t, n)
    BY <1>7, <1>8, <2>2, JoinedIs
  <2> QED BY <2>1, <2>3 DEF Either
<1> QED BY <1>4, <1>5, <1>6, <1>9

\* The gaps stand in order.
LEMMA GapsAscend ==
  ASSUME SeriesFeed
  PROVE  /\ Ascending(Gaps, {i \in 1..(Len(bars) - 1) : IsGap(i)})
         /\ \A k \in DOMAIN Gaps : Gaps[k] \in 1..(Len(bars) - 1) /\ Gaps[k] + 1 \in 1..Len(bars)
         /\ \A i, j \in DOMAIN GapFound.raw : i < j => GapFound.raw[i].at < GapFound.raw[j].at
<1> DEFINE n == Len(bars)
           S == {i \in 1..(n - 1) : IsGap(i)}
<1>0. n \in Nat /\ DOMAIN bars = 1..n
  BY BarColumns
<1>1. Gaps = Ascend(S)
  BY DEF Gaps
<1>2. S \in SUBSET (1..(n - 1))
  OBVIOUS
<1> HIDE DEF n, S
<1>3. S \in SUBSET Int /\ IsFiniteSet(S)
  <2>1. n - 1 \in Int
    BY <1>0
  <2>2. IsFiniteSet(1..(n - 1))
    BY <2>1, FS_Interval
  <2>3. IsFiniteSet(S)
    BY <1>2, <2>2, FS_Subset
  <2> QED BY <1>2, <2>3
<1>4. Ascending(Gaps, S)
  BY <1>1, <1>3, AscendIs
<1>5. ASSUME NEW k \in DOMAIN Gaps PROVE Gaps[k] \in 1..(n - 1) /\ Gaps[k] + 1 \in 1..n
  <2>1. Gaps[k] \in 1..(n - 1)
    BY <1>2, <1>4 DEF Ascending
  <2> QED BY <1>0, <2>1
<1>6. DOMAIN GapFound.raw = DOMAIN Gaps /\ \A k \in DOMAIN Gaps : GapFound.raw[k].at = bars[Gaps[k] + 1].ts
  BY DEF GapFound, Found
<1>7. ASSUME NEW i \in DOMAIN Gaps, NEW j \in DOMAIN Gaps, i < j PROVE GapFound.raw[i].at < GapFound.raw[j].at
  <2>1. PICK a \in 1..n : a = Gaps[i] + 1
    BY <1>5
  <2>2. PICK b \in 1..n : b = Gaps[j] + 1
    BY <1>5
  <2>3. Gaps[i] < Gaps[j]
    BY <1>4, <1>7 DEF Ascending
  <2>4. a < b
    <3>1. Gaps[i] \in Int /\ Gaps[j] \in Int
      BY <1>0, <1>5
    <3> QED BY <2>1, <2>2, <2>3, <3>1
  <2>5. bars[a].ts < bars[b].ts
    BY <1>0, <2>4 DEF SeriesFeed
  <2> QED BY <1>6, <2>1, <2>2, <2>5
<1> QED BY <1>4, <1>5, <1>6, <1>7 DEF n, S

----------------------------------------------------------------------------
(* Breaks. *)

Kinds == IF Target = "both" THEN {"mean", "vol"} ELSE {Target}
Regime(kind, i) ==
  [kind |-> kind, index |-> i, regime |-> Cardinality({j \in Segment(kind) : j <= i}),
   pre  |-> Stretch(Max({0} \cup {j \in Segment(kind) : j < i}), i),
   post |-> Stretch(i, Min({N} \cup {j \in Segment(kind) : j > i}))]
Breaks == UNION {Regimes(k, Segment(k)) : k \in Kinds}
Rank2(b) == 2 * b.index + (IF b.kind = "vol" THEN 1 ELSE 0)

\* The breaks as indices of returns.
LEMMA SegmentInts ==
  ASSUME SeriesFeed, ~job.odd, CusumAccepts, NEW kind
  PROVE  /\ Segment(kind) \in SUBSET (MinSegment..(N - MinSegment))
         /\ \A i, j \in Segment(kind) : i < j => j - i >= MinSegment
<1>0. N \in Nat /\ MinSegment \in Nat
  BY BarColumns, CusumParams
<1>1. Spaced(Segment(kind), 0, N, MinSegment)
  BY SegmentIs
<1>2. \A x \in Segment(kind) : x \in Nat /\ x - 0 >= MinSegment /\ N - x >= MinSegment
  BY <1>1 DEF Spaced
<1>3. \A x \in Segment(kind) : x \in MinSegment..(N - MinSegment)
  BY <1>0, <1>2
<1> QED BY <1>1, <1>3 DEF Spaced

\* The list of breaks holds those of both kinds once each, ordered by time and kind.
LEMMA BreakPointsAre ==
  ASSUME SeriesFeed, ~job.odd, CusumAccepts
  PROVE  /\ Len(BreakPoints) \in Nat /\ DOMAIN BreakPoints = 1..Len(BreakPoints)
         /\ \A i \in DOMAIN BreakPoints : \E k \in Kinds : \E j \in Segment(k) : BreakPoints[i] = Regime(k, j)
         /\ \A k \in Kinds : \A j \in Segment(k) : \E i \in DOMAIN BreakPoints : BreakPoints[i] = Regime(k, j)
         /\ \A i, j \in DOMAIN BreakPoints : i < j => Rank2(BreakPoints[i]) < Rank2(BreakPoints[j])
<1> DEFINE S == Breaks
           key == [b \in S |-> Rank2(b)]
<1>0. N \in Nat /\ MinSegment \in Nat /\ Kinds \in SUBSET {"mean", "vol"}
  BY BarColumns, CusumParams DEF Kinds
<1>1. \A k : Regimes(k, Segment(k)) = {Regime(k, j) : j \in Segment(k)}
  BY DEF Regimes, Regime
<1>2. \A b : b \in S <=> \E k \in Kinds : \E j \in Segment(k) : b = Regime(k, j)
  BY <1>1 DEF Breaks
<1>3. IsFiniteSet(S)
  <2> DEFINE D == {p \in Kinds \X (0..N) : p[2] \in Segment(p[1])}
             im == {Regime(p[1], p[2]) : p \in D}
  <2>1. IsFiniteSet(Kinds) /\ IsFiniteSet(0..N)
    <3>1. IsFiniteSet({"mean", "vol"})
      <4>1. IsFiniteSet({"mean"}) /\ IsFiniteSet({"vol"})
        BY FS_Singleton
      <4>2. IsFiniteSet({"mean"} \cup {"vol"})
        BY <4>1, FS_Union
      <4>3. {"mean"} \cup {"vol"} = {"mean", "vol"}
        OBVIOUS
      <4> QED BY <4>2, <4>3
    <3>2. IsFiniteSet(0..N)
      BY <1>0, FS_Interval
    <3> QED BY <1>0, <3>1, <3>2, FS_Subset
  <2>2. IsFiniteSet(Kinds \X (0..N))
    BY <2>1, FS_Product
  <2>3. IsFiniteSet(D)
    BY <2>2, FS_Subset
  <2>4. \A k : Segment(k) \in SUBSET (0..N)
    <3> TAKE k
    <3>1. MinSegment..(N - MinSegment) \in SUBSET (0..N)
      BY <1>0
    <3> QED BY <3>1, SegmentInts
  <2>5. S = im
    <3>1. \A k \in Kinds : \A j \in Segment(k) : <<k, j>> \in D
      BY <2>4
    <3>2. \A p \in D : p[1] \in Kinds /\ p[2] \in Segment(p[1])
      OBVIOUS
    <3>3. \A b : b \in im <=> \E p \in D : b = Regime(p[1], p[2])
      OBVIOUS
    <3> HIDE DEF D, S, im
    <3>4. ASSUME NEW b \in S PROVE b \in im
      <4>1. PICK k \in Kinds : \E j \in Segment(k) : b = Regime(k, j)
        BY <1>2
      <4>2. PICK j \in Segment(k) : b = Regime(k, j)
        BY <4>1
      <4>3. PICK p \in D : p = <<k, j>>
        BY <3>1
      <4>4. b = Regime(p[1], p[2])
        BY <4>2, <4>3
      <4> QED BY <3>3, <4>4
    <3>5. ASSUME NEW b \in im PROVE b \in S
      BY <1>2, <3>2, <3>3
    <3> QED BY <3>4, <3>5
  <2> HIDE DEF D
  <2>6. IsFiniteSet(im)
    <3> DEFINE f == [p \in D |-> Regime(p[1], p[2])]
    <3>1. f \in Surjection(D, im)
      <4>1. f \in [D -> im] /\ \A b \in im : \E p \in D : f[p] = b
        OBVIOUS
      <4> QED BY <4>1 DEF Surjection
    <3> QED BY <2>3, <3>1, FS_Surjection
  <2> QED BY <2>5, <2>6
<1>4. \A b : Rank2(b) = 2 * b.index + (IF b.kind = "vol" THEN 1 ELSE 0)
  BY DEF Rank2
<1>5. \A b \in S : key[b] = Rank2(b)
  OBVIOUS
<1>6. \A k : \A j : Regime(k, j).kind = k /\ Regime(k, j).index = j
  BY DEF Regime
<1>7. \A k : \A j \in Segment(k) : j \in Nat
  BY SegmentInts, <1>0
<1> HIDE DEF S, key
<1>8. \A b \in S : key[b] \in Int
  BY <1>2, <1>4, <1>5, <1>6, <1>7
<1>9. ASSUME NEW a \in S, NEW b \in S, key[a] = key[b] PROVE a = b
  <2>1. PICK k \in Kinds : \E i \in Segment(k) : a = Regime(k, i)
    BY <1>2
  <2>2. PICK i \in Segment(k) : a = Regime(k, i)
    BY <2>1
  <2>3. PICK l \in Kinds : \E j \in Segment(l) : b = Regime(l, j)
    BY <1>2
  <2>4. PICK j \in Segment(l) : b = Regime(l, j)
    BY <2>3
  <2>5. /\ key[a] = 2 * i + (IF k = "vol" THEN 1 ELSE 0)
        /\ key[b] = 2 * j + (IF l = "vol" THEN 1 ELSE 0)
    BY <1>4, <1>5, <1>6, <2>2, <2>4
  <2>6. i \in Nat /\ j \in Nat /\ k \in {"mean", "vol"} /\ l \in {"mean", "vol"}
    BY <1>0, <1>7
  <2>7. i = j /\ (k = "vol" <=> l = "vol")
    <3> DEFINE c == IF k = "vol" THEN 1 ELSE 0
               d == IF l = "vol" THEN 1 ELSE 0
    <3>1. 2 * i + c = 2 * j + d
      BY <1>9, <2>5
    <3>2. c \in 0..1 /\ d \in 0..1
      OBVIOUS
    <3>3. (k = "vol" <=> c = 1) /\ (l = "vol" <=> d = 1)
      OBVIOUS
    <3> HIDE DEF c, d
    <3>4. i = j /\ c = d
      BY <2>6, <3>1, <3>2
    <3> QED BY <3>3, <3>4
  <2>8. k = l
    BY <2>6, <2>7
  <2> QED BY <2>2, <2>4, <2>7, <2>8
<1>10. BreakPoints = [i \in 1..Cardinality(S) |-> CHOOSE a \in S : Cardinality({b \in S : Rank2(b) <= Rank2(a)}) = i]
  BY DEF BreakPoints, Ordered, Breaks, Rank2, Kinds, S
<1>11. BreakPoints = [i \in 1..Cardinality(S) |-> CHOOSE a \in S : Cardinality(LowerIn(S, key, a)) = i]
  <2>1. \A a \in S : {b \in S : Rank2(b) <= Rank2(a)} = LowerIn(S, key, a)
    BY <1>5 DEF LowerIn
  <2>2. \A i : \A a \in S : Cardinality({b \in S : Rank2(b) <= Rank2(a)}) = i <=> Cardinality(LowerIn(S, key, a)) = i
    BY <2>1
  <2> DEFINE c == Cardinality(S)
             x(i) == CHOOSE a \in S : Cardinality({b \in S : Rank2(b) <= Rank2(a)}) = i
             y(i) == CHOOSE a \in S : Cardinality(LowerIn(S, key, a)) = i
  <2>3. BreakPoints = [i \in 1..c |-> x(i)] /\ \A i \in 1..c : x(i) = y(i)
    BY <1>10, <2>2
  <2> HIDE DEF x, y, c
  <2>4. BreakPoints = [i \in 1..c |-> y(i)]
    BY <2>3
  <2> QED BY <2>4 DEF c, y
<1>12. Enumerates(BreakPoints, S, key)
  BY <1>3, <1>8, <1>9, <1>11, OrderedIs
<1>13. /\ Len(BreakPoints) \in Nat /\ DOMAIN BreakPoints = 1..Len(BreakPoints)
       /\ \A i \in DOMAIN BreakPoints : BreakPoints[i] \in S
       /\ \A i, j \in DOMAIN BreakPoints : i < j => key[BreakPoints[i]] < key[BreakPoints[j]]
       /\ \A a \in S : \E i \in DOMAIN BreakPoints : BreakPoints[i] = a
  BY <1>12 DEF Enumerates
<1>14. \A i, j \in DOMAIN BreakPoints : i < j => Rank2(BreakPoints[i]) < Rank2(BreakPoints[j])
  BY <1>5, <1>13
<1>15. \A k \in Kinds : \A j \in Segment(k) : Regime(k, j) \in S
  BY <1>2
<1> QED BY <1>2, <1>13, <1>14, <1>15

----------------------------------------------------------------------------
(* What the kernel may give is a matter of the job and the bars. *)

\* The columns.
LEMMA ColumnsStay ==
  ASSUME UNCHANGED <<job, bars>>
  PROVE  /\ Levels' = Levels /\ Returns' = Returns /\ Chosen' = Chosen /\ N' = N
         /\ SeriesName' = SeriesName
BY DEF Levels, Returns, Chosen, N, SeriesName, Param, Given

\* The tests and the numbers over the whole series.
LEMMA StatsStay ==
  ASSUME UNCHANGED <<job, bars>>
  PROVE  /\ LjungBoxFound' = LjungBoxFound /\ LjungBoxSqFound' = LjungBoxSqFound
         /\ \A k : AdfFound(k)' = AdfFound(k)
         /\ AdfLags' = AdfLags /\ KpssFound' = KpssFound /\ VrFound' = VrFound
         /\ \A k : TsmomFound(k)' = TsmomFound(k)
         /\ Selectable' = Selectable
         /\ ArchFound' = ArchFound /\ ArchFits' = ArchFits
         /\ JarqueBeraFound' = JarqueBeraFound /\ SummaryFound' = SummaryFound
         /\ ReturnsFound' = ReturnsFound /\ MeanrevFound' = MeanrevFound /\ VolFound' = VolFound
<1>0. /\ Levels' = Levels /\ Returns' = Returns /\ Chosen' = Chosen /\ N' = N
      /\ SeriesName' = SeriesName /\ job' = job /\ bars' = bars
  BY ColumnsStay
<1>1. LjungBoxFound' = LjungBoxFound /\ LjungBoxSqFound' = LjungBoxSqFound
  BY <1>0 DEF LjungBoxFound, LjungBoxSqFound, QStats, Lags, DefaultLags, Param, Given
<1>2. ASSUME NEW k PROVE AdfFound(k)' = AdfFound(k)
  BY <1>0 DEF AdfFound, Regression, Autolag, MaxLag, Schwert, Param, Given
<1>3. AdfLags' = AdfLags
  BY <1>0 DEF AdfLags, Fittable, Regression, Autolag, MaxLag, Schwert, Param, Given
<1>4. KpssFound' = KpssFound
  BY <1>0 DEF KpssFound, KpssNumbers, Truncation, Nlags, Regression, Schwert, Param, Given
<1>5. VrFound' = VrFound
  BY <1>0 DEF VrFound, VrNumbers, VrHorizons, Robust, Param, Given
<1>6. ASSUME NEW k PROVE TsmomFound(k)' = TsmomFound(k)
  BY <1>0 DEF TsmomFound, BlockPairs, Block, Scale, Scaling, Holds, Param, Given
<1>7. Selectable' = Selectable
  BY <1>0 DEF Selectable, Holds, Param, Given
<1>8. ArchFound' = ArchFound /\ ArchFits' = ArchFits
  BY <1>0 DEF ArchFound, ArchNumbers, ArchFits, Lag, Param, Given
<1>9. JarqueBeraFound' = JarqueBeraFound /\ SummaryFound' = SummaryFound
  BY <1>0 DEF JarqueBeraFound, JarqueBeraNumbers, SummaryFound, SummaryNumbers
<1>10. ReturnsFound' = ReturnsFound
  BY <1>0 DEF ReturnsFound, Profile, Kept, Ascend, Ordered, Variant, SameDay, DayOf, Param, Given
<1>11. MeanrevFound' = MeanrevFound
  BY <1>0 DEF MeanrevFound, Basis, Param, Given
<1>12. VolFound' = VolFound
  BY <1>0 DEF VolFound, RollingStd, VolOfVol, VolWindows
<1> QED BY <1>1, <1>2, <1>3, <1>4, <1>5, <1>6, <1>7, <1>8, <1>9, <1>10, <1>11, <1>12

\* Outliers, drawdowns and breaks.
LEMMA OthersStay ==
  ASSUME UNCHANGED <<job, bars>>
  PROVE  /\ OutliersFound' = OutliersFound /\ (Mad4(Chosen))' = Mad4(Chosen)
         /\ DrawdownFound' = DrawdownFound /\ BreakPoints' = BreakPoints
         /\ \A order : CusumFound(order)' = CusumFound(order)
<1>0. /\ Levels' = Levels /\ Returns' = Returns /\ Chosen' = Chosen /\ N' = N
      /\ SeriesName' = SeriesName /\ job' = job /\ bars' = bars
  BY ColumnsStay
<1>1. OutliersFound' = OutliersFound
  BY <1>0 DEF OutliersFound, Flagged, ZFlag, MadFlag, ZThreshold, ModifiedZThreshold, Param, Given
<1>2. (Mad4(Chosen))' = Mad4(Chosen)
  BY <1>0 DEF Mad4
<1>3. DrawdownFound' = DrawdownFound
  BY <1>0 DEF DrawdownFound, Walk, Visit, Calm, AtPeak, Below, Equity, FoldLeft, MapThenFoldSet
<1>4. BreakPoints' = BreakPoints
  <2>1. \A lo, hi : Move(lo, hi)' = Move(lo, hi)
    BY <1>0 DEF Move
  <2>2. ASSUME NEW lo, NEW hi, NEW to PROVE Deviation(lo, hi, to)' = Deviation(lo, hi, to)
    BY <1>0 DEF Deviation, Move, MapThenSumSet, MapThenFoldSet
  <2>3. \A kind, lo, hi : Bridges(kind, lo, hi)' = Bridges(kind, lo, hi)
    BY <2>1, <2>2 DEF Bridges
  <2>4. \A kind, lo, hi : Candidates(kind, lo, hi)' = Candidates(kind, lo, hi)
    BY <2>3 DEF Candidates
  <2>5. Bar' = Bar /\ MinSegment' = MinSegment /\ Target' = Target
    BY <1>0 DEF Bar, MinSegment, Target, Param, Given
  <2>6. ASSUME NEW kind, NEW lo, NEW hi, NEW k PROVE Exceeds(kind, lo, hi, k)' = Exceeds(kind, lo, hi, k)
    <3>1. Bridges(kind, lo, hi)' = Bridges(kind, lo, hi) /\ Deviation(lo, hi, hi)' = Deviation(lo, hi, hi)
      BY <2>2, <2>3
    <3> QED BY <2>5, <3>1 DEF Exceeds
  <2>7. \A kind, lo, hi : Splits(kind, lo, hi)' = Splits(kind, lo, hi)
    BY <2>4, <2>5, <2>6 DEF Splits
  <2>8. \A kind : Segment(kind)' = Segment(kind)
    BY <1>0, <2>7 DEF Segment
  <2>9. \A kind, idx : Regimes(kind, idx)' = Regimes(kind, idx)
    BY <1>0 DEF Regimes, Stretch
  <2>10. Breaks' = Breaks
    BY <2>5, <2>8, <2>9 DEF Breaks, Kinds
  <2>11. BreakPoints = [i \in 1..Cardinality(Breaks) |->
                           CHOOSE a \in Breaks : Cardinality({b \in Breaks : Rank2(b) <= Rank2(a)}) = i]
    BY DEF BreakPoints, Breaks, Kinds, Rank2, Ordered
  <2>12. BreakPoints' = [i \in 1..Cardinality(Breaks') |->
                            CHOOSE a \in Breaks' : Cardinality({b \in Breaks' : Rank2(b) <= Rank2(a)}) = i]
    BY DEF BreakPoints, Breaks, Kinds, Rank2, Ordered
  <2> QED BY <2>10, <2>11, <2>12
<1>5. ASSUME NEW order PROVE CusumFound(order)' = CusumFound(order)
  BY <1>0 DEF CusumFound
<1> QED BY <1>1, <1>2, <1>3, <1>4, <1>5

\* The scans by time.
LEMMA SeasonsStay ==
  ASSUME UNCHANGED <<job, bars>>
  PROVE  /\ HourFound' = HourFound /\ DayFound' = DayFound /\ SessionFound' = SessionFound
         /\ EomSomFound' = EomSomFound /\ AnovaFound' = AnovaFound /\ EventFound' = EventFound
         /\ GapFound' = GapFound
<1>0. /\ Levels' = Levels /\ Returns' = Returns /\ Chosen' = Chosen /\ N' = N
      /\ SeriesName' = SeriesName /\ job' = job /\ bars' = bars
  BY ColumnsStay
<1>1. ByHour' = ByHour /\ ByWeekday' = ByWeekday /\ \A s : BySession(s)' = BySession(s) /\ ByMonth(s)' = ByMonth(s)
  BY <1>0 DEF ByHour, ByWeekday, BySession, ByMonth
<1>2. ASSUME NEW g PROVE BucketsFound(g)' = BucketsFound(g)
  BY <1>0 DEF BucketsFound, Bucket, Floor, MinObs, Param, Given
<1>3. HourFound' = HourFound /\ DayFound' = DayFound
  BY <1>0, <1>1, <1>2 DEF HourFound, DayFound
<1>4. SessionFound' = SessionFound
  BY <1>0, <1>1, <1>2 DEF SessionFound, Sessions, Param, Given
<1>5. EomSomFound' = EomSomFound
  BY <1>0, <1>1, <1>2 DEF EomSomFound, Cutoff, Param, Given
<1>6. AnovaFound' = AnovaFound
  BY <1>0, <1>1 DEF AnovaFound, Groups, DerivedGroups, Via, MinGroup, Ascend, Ordered, Param, Given
<1>7. EventFound' = EventFound
  <2>1. Pre' = Pre /\ Post' = Post
    BY <1>0 DEF Pre, Post, Param, Given
  <2>2. \A events, p, q : EventWindows(events, p, q)' = EventWindows(events, p, q)
    BY <1>0 DEF EventWindows, WindowsFit, Before, Ascend, Ordered
  <2> QED BY <1>0, <2>1, <2>2 DEF EventFound
<1>8. GapFound' = GapFound
  <2>1. /\ Edges' = Edges /\ GapThreshold' = GapThreshold /\ Boundary' = Boundary /\ Lookahead' = Lookahead
        /\ GapMinObs' = GapMinObs /\ HoldFloor' = HoldFloor /\ SparseMin' = SparseMin
    BY <1>0 DEF Edges, GapThreshold, Boundary, Lookahead, GapMinObs, HoldFloor, SparseMin, Param, Given
  <2>2. \A i : Jump(i)' = Jump(i)
    BY <1>0 DEF Jump
  <2>3. \A i : Size(i)' = Size(i)
    BY <2>2 DEF Size
  <2>4. \A i : IsGap(i)' = IsGap(i)
    BY <1>0, <2>1, <2>3 DEF IsGap
  <2>5. \A i : SizeBucket(i)' = SizeBucket(i)
    BY <1>0, <2>1, <2>3 DEF SizeBucket
  <2>6. \A i : ToFill(i)' = ToFill(i)
    BY <1>0, <2>1, <2>2 DEF ToFill, Fills
  <2>7. Gaps' = Gaps
    <3> DEFINE S == {i \in 1..(Len(bars) - 1) : IsGap(i)}
    <3>1. S' = S
      BY <1>0, <2>4
    <3>2. Gaps = [i \in 1..Cardinality(S) |-> CHOOSE a \in S : Cardinality({b \in S : b <= a}) = i]
      BY DEF Gaps, Ascend, Ordered
    <3>3. Gaps' = [i \in 1..Cardinality(S') |-> CHOOSE a \in S' : Cardinality({b \in S' : b <= a}) = i]
      BY DEF Gaps, Ascend, Ordered
    <3> HIDE DEF S
    <3> QED BY <3>1, <3>2, <3>3
  <2>8. \A up, b : Tally(up, b)' = Tally(up, b)
    BY <2>1, <2>2, <2>5, <2>6, <2>7 DEF Tally
  <2>9. MedianFill2' = MedianFill2
    <3> DEFINE S == {k \in DOMAIN Gaps : ToFill(Gaps[k]) > 0}
               x == Ascend(S)
    <3>1. S' = S
      BY <2>6, <2>7
    <3> HIDE DEF S
    <3>2. x' = x
      BY <3>1 DEF Ascend, Ordered
    <3> DEFINE f == [j \in DOMAIN x |-> ToFill(Gaps[x[j]])]
    <3>3. /\ MedianFill2 = IF f = <<>> THEN -1 ELSE Median2(f)
          /\ MedianFill2' = IF f' = <<>> THEN -1 ELSE Median2(f')
      BY DEF MedianFill2, S
    <3> HIDE DEF x
    <3>4. f' = f
      BY <2>6, <2>7, <3>2
    <3> HIDE DEF f
    <3> QED BY <3>3, <3>4
  <2> QED BY <1>0, <2>1, <2>2, <2>5, <2>6, <2>7, <2>8, <2>9 DEF GapFound
<1> QED BY <1>3, <1>4, <1>5, <1>6, <1>7, <1>8

\* All together.
LEMMA KernelStays == ASSUME UNCHANGED <<job, bars>> PROVE Kernel' = Kernel
<1>0. (job.scan)' = job.scan
  OBVIOUS
<1>1. /\ LjungBoxFound' = LjungBoxFound /\ LjungBoxSqFound' = LjungBoxSqFound
      /\ \A k : AdfFound(k)' = AdfFound(k)
      /\ AdfLags' = AdfLags /\ KpssFound' = KpssFound /\ VrFound' = VrFound
      /\ \A k : TsmomFound(k)' = TsmomFound(k)
      /\ Selectable' = Selectable
      /\ ArchFound' = ArchFound /\ ArchFits' = ArchFits
      /\ JarqueBeraFound' = JarqueBeraFound /\ SummaryFound' = SummaryFound
      /\ ReturnsFound' = ReturnsFound /\ MeanrevFound' = MeanrevFound /\ VolFound' = VolFound
  BY StatsStay
<1>2. /\ OutliersFound' = OutliersFound /\ (Mad4(Chosen))' = Mad4(Chosen)
      /\ DrawdownFound' = DrawdownFound /\ BreakPoints' = BreakPoints
      /\ \A order : CusumFound(order)' = CusumFound(order)
  BY OthersStay
<1>3. /\ HourFound' = HourFound /\ DayFound' = DayFound /\ SessionFound' = SessionFound
      /\ EomSomFound' = EomSomFound /\ AnovaFound' = AnovaFound /\ EventFound' = EventFound
      /\ GapFound' = GapFound
  BY SeasonsStay
<1> QED BY <1>0, <1>1, <1>2, <1>3 DEF Kernel

\* One Result, but for the breaks of a segmentation.
LEMMA KernelIs ==
  ASSUME SeriesFeed, SeriesAccepted, job.scan \notin PairKinds, NEW f \in Kernel
  PROVE  /\ Len(f) \in Nat /\ DOMAIN f = 1..Len(f)
         /\ job.scan # "cusum" => Len(f) = 1
         /\ job.scan = "cusum" => f = CusumFound(BreakPoints)
<1>1. CASE job.scan = "cusum"
  <2>1. f = CusumFound(BreakPoints)
    BY <1>1 DEF Kernel
  <2>2. ~job.odd /\ CusumAccepts
    BY <1>1 DEF SeriesAccepted
  <2>3. Len(BreakPoints) \in Nat /\ DOMAIN BreakPoints = 1..Len(BreakPoints)
    BY <2>2, BreakPointsAre
  <2>4. DOMAIN f = DOMAIN BreakPoints
    BY <2>1 DEF CusumFound
  <2>5. Len(f) = Len(BreakPoints)
    BY <2>3, <2>4, LenIs
  <2> QED BY <1>1, <2>1, <2>3, <2>4, <2>5
<1>2. CASE job.scan # "cusum"
  <2>1. \E x : f = <<x>>
    BY <1>2 DEF Kernel, SeriesFeed, Registered, PairKinds
  <2>2. PICK x : f = <<x>>
    BY <2>1
  <2>3. Len(f) = 1 /\ DOMAIN f = 1..1
    BY <2>2
  <2> QED BY <1>2, <2>3
<1> QED BY <1>1, <1>2

----------------------------------------------------------------------------
(* What run has found and written. *)

SeriesControl ==
  /\ pc \in SeriesPcs
  /\ cancel \in BOOLEAN
  /\ pc # "done" => res = "none"
  /\ pc \in {"start", "params", "rows"} => found = <<>> /\ out = <<>>
  /\ pc \in {"rows", "write"} => SeriesAccepted
  /\ pc = "write" \/ out # <<>> \/ (res = "Ok" /\ ~cancel) => found \in Kernel /\ SeriesAccepted /\ ~Panics
  /\ Len(found) \in Nat /\ DOMAIN found = 1..Len(found)
  /\ out \in Seq({found[r] : r \in DOMAIN found}) /\ Len(out) <= Len(found)
  /\ \A r \in DOMAIN out : out[r] = found[r]
  /\ res \in {"Kernel", "Panic"} => out = <<>>
  /\ res = "Panic" => SeriesAccepted /\ Panics
  /\ res = "Ok" /\ ~cancel => Len(out) = Len(found)

SeriesInv == job.scan \notin PairKinds => SeriesFeed /\ SeriesControl

\* SeriesInv holds at the start,
LEMMA SeriesInit == Init => SeriesInv
<1> SUFFICES ASSUME Init, job.scan \notin PairKinds PROVE SeriesFeed /\ SeriesControl
  BY DEF SeriesInv
<1>1. SeriesFeed
  BY SeriesFeedInit
<1>2. \A c \in PairCases : job \notin c.jobs
  BY PairAssumption
<1>3. pc = "start" /\ found = <<>> /\ cancel = FALSE /\ out = <<>> /\ res = "none"
  BY <1>2 DEF Init
<1>4. out \in Seq({found[r] : r \in DOMAIN found})
  BY <1>3
<1>5. Len(found) = 0 /\ Len(out) = 0 /\ DOMAIN found = {} /\ DOMAIN out = {} /\ 1..0 = {}
  BY <1>3
<1>6. Len(found) \in Nat /\ DOMAIN found = 1..Len(found) /\ Len(out) <= Len(found)
  BY <1>5
<1> QED BY <1>1, <1>3, <1>4, <1>5, <1>6 DEF SeriesControl, SeriesPcs

\* A step of an instrument's scan keeps the data.
LEMMA SeriesStep ==
  ASSUME SeriesFeed, SeriesControl, job.scan \notin PairKinds, [Next]_vars
  PROVE  SeriesControl'
<1>0. SeriesFeed /\ pc \in SeriesPcs
  BY DEF SeriesControl
<1>1. ~PairNext
  BY <1>0 DEF SeriesPcs, PairNext, Enter, JoinStep, Resolve, PollBefore, RunKernel, PollAfter,
          EmitAll, FitWindow, FitsDone, EmitWindow
<1>2. UNCHANGED <<job, bars>>
  BY <1>1 DEF Next, Interrupt, Start, Params, PollRow, RunSeries, WriteFound, Stopped, vars, dataVars
<1>3. Kernel' = Kernel /\ SeriesAccepted' = SeriesAccepted /\ Panics' = Panics
  BY <1>2, KernelStays, AcceptedStays, PanicsStays
<1>4. CASE Interrupt
  BY <1>3, <1>4 DEF Interrupt, SeriesControl, seriesVars
<1>5. CASE Start
  BY <1>3, <1>5 DEF Start, PollThen, Goto, Return, SeriesControl, seriesVars, SeriesPcs
<1>6. CASE Params
  BY <1>3, <1>6 DEF Params, Goto, Return, SeriesControl, seriesVars, SeriesPcs
<1>7. CASE PollRow
  BY <1>3, <1>7 DEF PollRow, PollThen, Goto, Return, SeriesControl, SeriesPcs
<1>8. CASE RunSeries
  <2>0. pc = "rows" /\ out = <<>> /\ found = <<>> /\ UNCHANGED <<cancel, out>> /\ SeriesAccepted /\ res = "none"
    BY <1>8 DEF RunSeries, SeriesControl
  <2>1. CASE ~Panics /\ \E f \in Kernel : found' = f /\ Goto("write")
    <3>1. PICK f \in Kernel : found' = f /\ Goto("write")
      BY <2>1
    <3>2. Len(f) \in Nat /\ DOMAIN f = 1..Len(f)
      BY <2>0, KernelIs
    <3>3. out' \in Seq({(found')[r] : r \in DOMAIN (found')}) /\ Len(out') = 0 /\ DOMAIN (out') = {}
      BY <2>0
    <3>4. 0 <= Len(f)
      BY <3>2
    <3> QED BY <1>3, <2>0, <2>1, <3>1, <3>2, <3>3, <3>4 DEF Goto, SeriesControl, SeriesPcs
  <2>2. CASE Return("Kernel") /\ UNCHANGED found
    BY <1>3, <2>0, <2>2 DEF Return, SeriesControl, SeriesPcs
  <2>3. CASE Panics /\ Return("Panic") /\ UNCHANGED found
    BY <1>3, <2>0, <2>3 DEF Return, SeriesControl, SeriesPcs
  <2> QED BY <1>8, <2>1, <2>2, <2>3 DEF RunSeries
<1>9. CASE WriteFound
  <2>0. /\ pc = "write" /\ UNCHANGED <<cancel, found>> /\ SeriesAccepted /\ res = "none" /\ found \in Kernel /\ ~Panics
        /\ Len(found) \in Nat /\ DOMAIN found = 1..Len(found)
        /\ out \in Seq({found[r] : r \in DOMAIN found}) /\ Len(out) <= Len(found)
        /\ \A r \in DOMAIN out : out[r] = found[r]
    BY <1>9 DEF WriteFound, SeriesControl, seriesVars
  <2>1. CASE Len(out) = Len(found) /\ Return("Ok") /\ UNCHANGED out
    BY <1>3, <2>0, <2>1 DEF Return, SeriesControl, SeriesPcs
  <2>2. CASE Return("Miner") /\ UNCHANGED out
    BY <1>3, <2>0, <2>2 DEF Return, SeriesControl, SeriesPcs
  <2>3. CASE Len(out) # Len(found) /\ out' = Append(out, found[Len(out) + 1]) /\ Goto("write")
    <3> DEFINE S == {found[r] : r \in DOMAIN found}
               n == Len(out)
    <3>1. n \in Nat /\ DOMAIN out = 1..n /\ n + 1 \in 1..Len(found)
      <4>1. n \in Nat /\ DOMAIN out = 1..n
        BY <2>0, LenProperties
      <4>2. Len(found) \in Nat /\ n <= Len(found) /\ n # Len(found)
        BY <2>0, <2>3
      <4> HIDE DEF n
      <4> QED BY <4>1, <4>2
    <3>2. found[n + 1] \in S
      BY <2>0, <3>1
    <3> HIDE DEF S
    <3>3. /\ out' \in Seq(S) /\ Len(out') = n + 1
          /\ \A i \in 1..n : (out')[i] = out[i]
          /\ (out')[n + 1] = found[n + 1]
      BY <2>0, <2>3, <3>2, AppendProperties DEF S
    <3>4. DOMAIN (out') = 1..(n + 1)
      BY <3>3, LenProperties
    <3>5. \A r \in DOMAIN (out') : (out')[r] = (found')[r]
      <4> SUFFICES ASSUME NEW r \in 1..(n + 1) PROVE (out')[r] = found[r]
        BY <2>0, <3>4
      <4>1. r \in 1..n \/ r = n + 1
        BY <3>1
      <4> QED BY <2>0, <3>1, <3>3, <4>1
    <3>6. out' \in Seq({(found')[r] : r \in DOMAIN (found')}) /\ Len(out') <= Len(found')
      BY <2>0, <3>1, <3>3 DEF S
    <3> QED BY <1>3, <2>0, <2>3, <3>5, <3>6 DEF Goto, SeriesControl, SeriesPcs
  <2> QED BY <1>9, <2>1, <2>2, <2>3 DEF WriteFound
<1>10. CASE Stopped \/ UNCHANGED vars
  BY <1>3, <1>10 DEF Stopped, vars, seriesVars, SeriesControl
<1> QED BY <1>1, <1>4, <1>5, <1>6, <1>7, <1>8, <1>9, <1>10 DEF Next

\* and every step keeps it.
LEMMA SeriesInvNext == SeriesInv /\ [Next]_vars => SeriesInv'
<1> SUFFICES ASSUME SeriesInv, [Next]_vars, job'.scan \notin PairKinds PROVE SeriesFeed' /\ SeriesControl'
  BY DEF SeriesInv, PairKinds
<1>1. UNCHANGED <<job, bars>>
  BY DEF Next, Interrupt, PairNext, Enter, JoinStep, Resolve, PollBefore, RunKernel, PollAfter,
         EmitAll, FitWindow, FitsDone, EmitWindow, Start, Params, PollRow, RunSeries, WriteFound, Stopped,
         vars, dataVars
<1>2. SeriesFeed /\ SeriesControl /\ job.scan \notin PairKinds
  BY <1>1 DEF SeriesInv
<1> QED BY <1>1, <1>2, SeriesFeedStays, SeriesStep

\* SeriesInv: what run over one instrument has found and written, in every reachable state.
THEOREM SeriesInvariant == Spec => []SeriesInv
<1>1. SeriesInv /\ [Next]_vars => SeriesInv'
  BY SeriesInvNext
<1> QED BY <1>1, SeriesInit, PTL DEF Spec

----------------------------------------------------------------------------
(* A finding says of itself what it is made of. *)

\* What makes a finding labelled.
LEMMA LabelledBy ==
  ASSUME NEW raw, Beside(raw), NEW numbers, NEW effect,
         job.scan \notin BucketScans \cup {"anova", "event_window", "gap", "drawdown", "cusum"} =>
           \A i \in DOMAIN numbers : Right(numbers[i])
  PROVE  Labelled(Found(raw, numbers, effect))
BY DEF Labelled, Beside, Found

\* Every finding of an accepted request is labelled.
LEMMA KernelLabelled ==
  ASSUME SeriesFeed, SeriesAccepted, job.scan \notin PairKinds, NEW f \in Kernel, NEW r \in DOMAIN f
  PROVE  Labelled(f[r])
<1>0. /\ Beside(Levels) /\ Beside(Returns) /\ Beside(Chosen) /\ ~job.odd /\ job.scan \in DOMAIN Registered
      /\ Chosen \in {Levels, Returns}
  BY BesideBars, ChosenColumn DEF SeriesAccepted, SeriesFeed
<1>1. CASE job.scan \in {"ljung_box", "ljung_box_sq"}
  <2>1. LjungBoxAccepts
    BY <1>1 DEF SeriesAccepted
  <2>2. \E e : f[r] = Found(Returns, QStats(Returns, Lags), e)
    BY <1>1 DEF Kernel, LjungBoxFound, LjungBoxSqFound
  <2> QED BY <1>0, <2>1, <2>2, LjungBoxRight, LabelledBy
<1>2. CASE job.scan = "adf"
  <2>1. AdfAccepts
    BY <1>2 DEF SeriesAccepted
  <2>2. PICK k \in AdfLags : \E e : f[r] = Found(Levels, <<Number("tau", k, Spans(Levels, k + 2))>>, e)
    BY <1>2 DEF Kernel, AdfFound
  <2> DEFINE numbers == <<Number("tau", k, Spans(Levels, k + 2))>>
  <2>3. \A i \in DOMAIN numbers : numbers[i] = Number("tau", k, Spans(Levels, k + 2))
    OBVIOUS
  <2>4. \A i \in DOMAIN numbers : Right(numbers[i])
    BY <1>0, <2>1, <2>3, AdfRight
  <2> HIDE DEF numbers
  <2>5. \E e : f[r] = Found(Levels, numbers, e)
    BY <2>2 DEF numbers
  <2> QED BY <1>0, <2>4, <2>5, LabelledBy
<1>3. CASE job.scan = "kpss"
  <2>1. KpssAccepts
    BY <1>3 DEF SeriesAccepted
  <2>2. \E e : f[r] = Found(Levels, KpssNumbers, e)
    BY <1>3 DEF Kernel, KpssFound
  <2> QED BY <1>0, <2>1, <2>2, KpssRight, LabelledBy
<1>4. CASE job.scan = "variance_ratio"
  <2>1. VrAccepts
    BY <1>4 DEF SeriesAccepted
  <2>2. \E e : f[r] = Found(Returns, VrNumbers, e)
    BY <1>4 DEF Kernel, VrFound
  <2> QED BY <1>0, <2>1, <2>2, VrRight, LabelledBy
<1>5. CASE job.scan = "tsmom"
  <2>1. TsmomAccepts
    BY <1>5 DEF SeriesAccepted
  <2>2. PICK sel \in Selectable : f[r] = TsmomFound(sel)
    BY <1>5 DEF Kernel
  <2>3. \E e : TsmomFound(sel) = Found(Returns, TsmomFound(sel).numbers, e)
    BY DEF TsmomFound, Found
  <2>4. \A i \in DOMAIN TsmomFound(sel).numbers : Right(TsmomFound(sel).numbers[i])
    BY <1>0, <2>1, TsmomRight
  <2> DEFINE numbers == TsmomFound(sel).numbers
  <2> HIDE DEF numbers
  <2>5. \E e : f[r] = Found(Returns, numbers, e)
    BY <2>2, <2>3 DEF numbers
  <2>6. \A i \in DOMAIN numbers : Right(numbers[i])
    BY <2>4 DEF numbers
  <2> QED BY <1>0, <2>5, <2>6, LabelledBy
<1>6. CASE job.scan = "arch_lm"
  <2>1. ArchAccepts
    BY <1>6 DEF SeriesAccepted
  <2>2. \E e : f[r] = Found(Returns, ArchNumbers, e)
    BY <1>6 DEF Kernel, ArchFound
  <2> QED BY <1>0, <2>1, <2>2, ArchRight, LabelledBy
<1>7. CASE job.scan = "jarque_bera"
  <2>1. Len(Chosen) >= 4 /\ Len(Chosen) \in Nat
    BY <1>7, ChosenColumn DEF SeriesAccepted, SeriesAccepts, Column
  <2>2. \E e : f[r] = Found(Chosen, JarqueBeraNumbers, e)
    BY <1>7 DEF Kernel, JarqueBeraFound
  <2>3. Len(Chosen) >= 1
    BY <2>1
  <2> QED BY <1>0, <2>2, <2>3, WholeRight, LabelledBy
<1>8. CASE job.scan = "summary"
  <2>1. Len(Chosen) >= 1
    BY <1>8 DEF SeriesAccepted, SeriesAccepts
  <2>2. \E e : f[r] = Found(Chosen, SummaryNumbers, e)
    BY <1>8 DEF Kernel, SummaryFound
  <2> QED BY <1>0, <2>1, <2>2, WholeRight, LabelledBy
<1>9. CASE job.scan = "returns"
  <2>1. \E e : f[r] = Found(Profile, <<>>, e)
    BY <1>9 DEF Kernel, ReturnsFound
  <2>2. Beside(Profile)
    BY ProfileIs
  <2> QED BY <2>1, <2>2, LabelledBy
<1>10. CASE job.scan = "meanrev"
  <2>1. \E x \in {Levels, Returns} : \E e : f[r] = Found(Levels, Ar1(x), e)
    BY <1>10 DEF Kernel, MeanrevFound
  <2> QED BY <1>0, <2>1, MeanrevRight, LabelledBy
<1>11. CASE job.scan = "vol"
  <2>1. VolAccepts
    BY <1>11 DEF SeriesAccepted
  <2>2. \E e : f[r] = Found(Chosen, RollingStd(job.p["window"]) \o VolOfVol(job.p["window"]), e)
    BY <1>11 DEF Kernel, VolFound
  <2> QED BY <1>0, <2>1, <2>2, VolRight, LabelledBy
<1>12. CASE job.scan = "outliers"
  <2>1. f[r] = OutliersFound
    BY <1>12 DEF Kernel
  <2>2. \E e : OutliersFound = Found(Chosen, OutliersFound.numbers, e)
    BY DEF OutliersFound, Found
  <2>3. \A i \in DOMAIN OutliersFound.numbers : Right(OutliersFound.numbers[i])
    BY OutliersRight
  <2> DEFINE numbers == OutliersFound.numbers
  <2> HIDE DEF numbers
  <2>4. \E e : f[r] = Found(Chosen, numbers, e)
    BY <2>1, <2>2 DEF numbers
  <2>5. \A i \in DOMAIN numbers : Right(numbers[i])
    BY <2>3 DEF numbers
  <2> QED BY <1>0, <2>4, <2>5, LabelledBy
<1>13. CASE job.scan = "drawdown"
  <2>1. \E x, e : f[r] = Found(Chosen, x, e)
    BY <1>13 DEF Kernel, DrawdownFound
  <2> QED BY <1>0, <1>13, <2>1, LabelledBy
<1>14. CASE job.scan = "cusum"
  <2>1. \E x, e : f[r] = Found(Levels, x, e)
    BY <1>14 DEF Kernel, CusumFound
  <2> QED BY <1>0, <1>14, <2>1, LabelledBy
<1>15. CASE job.scan \in {"hour_of_day", "day_of_week", "session", "eom_som", "anova", "event_window"}
  <2>1. \E x, e : f[r] = Found(Returns, x, e)
    <3>1. CASE job.scan \in {"hour_of_day", "day_of_week"}
      BY <3>1 DEF Kernel, HourFound, DayFound, BucketsFound
    <3>2. CASE job.scan \in {"session", "eom_som"}
      BY <3>2 DEF Kernel, SessionFound, EomSomFound, BucketsFound
    <3>3. CASE job.scan = "anova"
      BY <3>3 DEF Kernel, AnovaFound
    <3>4. CASE job.scan = "event_window"
      BY <3>4 DEF Kernel, EventFound
    <3> QED BY <1>15, <3>1, <3>2, <3>3, <3>4
  <2> QED BY <1>0, <1>15, <2>1, LabelledBy DEF BucketScans
<1>16. CASE job.scan = "gap"
  <2>1. f[r] = GapFound
    BY <1>16 DEF Kernel
  <2>2. \A i, j \in DOMAIN GapFound.raw : i < j => GapFound.raw[i].at < GapFound.raw[j].at
    BY GapsAscend
  <2> QED BY <1>16, <2>1, <2>2 DEF Labelled
<1> QED BY <1>0, <1>1, <1>2, <1>3, <1>4, <1>5, <1>6, <1>7, <1>8, <1>9, <1>10, <1>11, <1>12, <1>13, <1>14, <1>15,
           <1>16 DEF Registered, PairKinds

\* The written findings are the ones the kernel gave.
LEMMA WrittenAreFound ==
  ASSUME SeriesInv, job.scan \notin PairKinds, NEW r \in DOMAIN out
  PROVE  /\ SeriesFeed /\ SeriesControl /\ SeriesAccepted /\ found \in Kernel /\ ~Panics
         /\ r \in DOMAIN found /\ out[r] = found[r]
<1>1. SeriesFeed /\ SeriesControl
  BY DEF SeriesInv
<1>2. Len(out) \in Nat /\ DOMAIN out = 1..Len(out)
  BY <1>1, LenProperties DEF SeriesControl
<1>3. out # <<>>
  OBVIOUS
<1>4. Len(found) \in Nat /\ DOMAIN found = 1..Len(found) /\ Len(out) <= Len(found)
  BY <1>1 DEF SeriesControl
<1>5. r \in DOMAIN found
  BY <1>2, <1>4
<1> QED BY <1>1, <1>3, <1>5 DEF SeriesControl

\* StandsFor of ScanRun: the label of a number names the values it is made of.
THEOREM LabelsStandForValues == Spec => []StandsFor
<1>1. SeriesInv => StandsFor
  <2> SUFFICES ASSUME SeriesInv, job.scan \notin PairKinds, NEW r \in DOMAIN out PROVE Labelled(out[r])
    BY DEF StandsFor, Labelled, Right
  <2>1. SeriesFeed /\ SeriesAccepted /\ found \in Kernel /\ r \in DOMAIN found /\ out[r] = found[r]
    BY WrittenAreFound
  <2> QED BY <2>1, KernelLabelled
<1> QED BY <1>1, SeriesInvariant, PTL

----------------------------------------------------------------------------
(* Buckets. *)

\* The hours of a session that goes over midnight are those of one that does not.
LEMMA SessionHours ==
  ASSUME NEW h \in 0..23, NEW s, s.start \in 0..23, s.end \in 0..23
  PROVE  h \in HoursOf(s) <=> HourInSession(h, s.start, s.end)
<1> DEFINE a == s.start
           b == s.end
           len == (b - a) % 24
<1>1. len \in 0..23 /\ len = IF a <= b THEN b - a ELSE b - a + 24
  BY SMT
<1>2. a \in 0..23 /\ b \in 0..23
  OBVIOUS
<1>3. h \in HoursOf(s) <=> \E k \in 0..(len - 1) : h = (a + k) % 24
  BY DEF HoursOf
<1> HIDE DEF a, b, len
<1>4. \A k \in 0..23 : (a + k) % 24 = IF a + k < 24 THEN a + k ELSE a + k - 24
  BY <1>2, SMT
<1>5. ASSUME HourInSession(h, a, b) PROVE \E k \in 0..(len - 1) : h = (a + k) % 24
  <2> DEFINE k == IF h >= a THEN h - a ELSE h - a + 24
  <2>1. k \in 0..(len - 1) /\ k \in 0..23 /\ h = IF a + k < 24 THEN a + k ELSE a + k - 24
    BY <1>1, <1>2, <1>5 DEF HourInSession
  <2> HIDE DEF k
  <2> QED BY <1>4, <2>1
<1>6. ASSUME NEW k \in 0..(len - 1), h = (a + k) % 24 PROVE HourInSession(h, a, b)
  <2>1. k \in 0..23 /\ h = IF a + k < 24 THEN a + k ELSE a + k - 24
    BY <1>1, <1>4, <1>6
  <2> QED BY <1>1, <1>2, <2>1 DEF HourInSession
<1>7. h \in HoursOf(s) <=> HourInSession(h, a, b)
  BY <1>3, <1>5, <1>6
<1> QED BY <1>7 DEF a, b

\* An instant lies in an hour of a day.
LEMMA HourRange == ASSUME NEW t \in Int PROVE Hour(t) \in 0..23
BY DEF Hour

\* The open days up to and after a day of the month.
LEMMA TradingDayIs ==
  ASSUME NEW S \in SUBSET Int, IsFiniteSet(S), NEW s, Ascending(s, S), NEW pos \in DOMAIN s
  PROVE  /\ Cardinality({v \in S : v < s[pos]}) = pos - 1
         /\ Cardinality({v \in S : v > s[pos]}) = Len(s) - pos
<1> DEFINE low == {v \in S : v <= s[pos]}
           less == {v \in S : v < s[pos]}
           more == {v \in S : v > s[pos]}
<1>1. /\ Cardinality(S) \in Nat /\ DOMAIN s = 1..Cardinality(S) /\ Len(s) = Cardinality(S)
      /\ s[pos] \in S /\ Cardinality(low) = pos
  BY DEF Ascending
<1>2. s[pos] \in Int
  BY <1>1
<1>3. low = less \cup {s[pos]} /\ s[pos] \notin less
  <2> DEFINE p == s[pos]
  <2>1. p \in S /\ p \in Int
    BY <1>1, <1>2
  <2> HIDE DEF p
  <2>3. \A v \in S : (v <= p <=> v < p \/ v = p) /\ ~(p < p)
    BY <2>1
  <2>2. {v \in S : v <= p} = {v \in S : v < p} \cup {p} /\ p \notin {v \in S : v < p}
    BY <2>1, <2>3
  <2> QED BY <2>2 DEF p
<1>4. more = S \ low /\ low \in SUBSET S
  <2> DEFINE p == s[pos]
  <2>1. p \in Int
    BY <1>2
  <2> HIDE DEF p
  <2>3. \A v \in S : v > p <=> ~(v <= p)
    BY <2>1
  <2>2. {v \in S : v > p} = S \ {v \in S : v <= p} /\ {v \in S : v <= p} \in SUBSET S
    BY <2>3
  <2> QED BY <2>2 DEF p
<1>5. less \in SUBSET S
  OBVIOUS
<1> HIDE DEF low, less, more
<1>6. IsFiniteSet(less) /\ IsFiniteSet(low)
  BY <1>4, <1>5, FS_Subset
<1>7. Cardinality(low) = Cardinality(less) + 1 /\ Cardinality(less) \in Nat
  BY <1>3, <1>6, FS_AddElement, FS_CardinalityType
<1>8. Cardinality(less) = pos - 1
  BY <1>1, <1>7
<1>9. Cardinality(S \ low) = Cardinality(S) - Cardinality(S \cap low)
  BY FS_Difference
<1>10. S \cap low = low
  BY <1>4
<1>11. Cardinality(more) = Len(s) - pos
  BY <1>1, <1>4, <1>9, <1>10
<1> QED BY <1>8, <1>11 DEF less, more

\* A bucket of the month holds the trading days its number says.
LEMMA MonthBucketIs ==
  ASSUME NEW t \in Int, NEW cutoff \in Nat \ {0}, NEW b \in 0..(2 * cutoff - 1), NEW any
  PROVE  MonthBucket(t, cutoff) = b <=> Belongs("eom_som", any, cutoff, t, b)
<1> DEFINE day == DayOf(t)
           month == day \div MonthDays
           first == month * MonthDays
           last == first + MonthDays - 1
           S == {d \in first..last : d % 7 \in OpenWeekdays}
           days == TradingDays(DayOf(t) \div MonthDays)
<1>0. MonthDays \in Nat \ {0}
  BY SeasAssumption
<1>1. day \in Int
  BY DEF DayOf
<1> HIDE DEF day
<1>2. month \in Int /\ first \in Int /\ first <= day /\ day < first + MonthDays
  <2>1. day % MonthDays \in 0..(MonthDays - 1) /\ month \in Int /\ day = month * MonthDays + (day % MonthDays)
    BY <1>0, <1>1
  <2> DEFINE q == day % MonthDays
  <2>2. q \in 0..(MonthDays - 1) /\ month \in Int /\ day = first + q
    BY <2>1
  <2>3. first \in Int
    BY <1>0, <2>1
  <2> HIDE DEF q, month, first
  <2> QED BY <1>0, <2>2, <2>3
<1>3. (month + 1) * MonthDays - 1 = last
  BY <1>0, <1>2
<1>4. days = Ascend(S)
  BY <1>3 DEF TradingDays, day
<1> HIDE DEF month, first
<1>5. last \in Int /\ first..last \in SUBSET Int /\ day \in first..last
  BY <1>0, <1>1, <1>2
<1> HIDE DEF last
<1>6. S \in SUBSET Int /\ IsFiniteSet(S)
  <2>1. IsFiniteSet(first..last)
    BY <1>2, <1>5, FS_Interval
  <2>2. IsFiniteSet(S)
    BY <2>1, FS_Subset
  <2> QED BY <1>5, <2>2
<1>7. day \in S <=> day % 7 \in OpenWeekdays
  BY <1>5
<1>8. /\ OpenDays(first, day - 1) = Cardinality({v \in S : v < day})
      /\ OpenDays(day + 1, first + MonthDays - 1) = Cardinality({v \in S : v > day})
  <2>1. \A v \in Int : v \in first..(day - 1) <=> v \in first..last /\ v < day
    BY <1>1, <1>2, <1>5
  <2>2. \A v \in Int : v \in (day + 1)..last <=> v \in first..last /\ v > day
    BY <1>1, <1>2, <1>5
  <2>3. {d \in first..(day - 1) : d % 7 \in OpenWeekdays} = {v \in S : v < day}
    BY <2>1, <1>5
  <2>4. {d \in (day + 1)..last : d % 7 \in OpenWeekdays} = {v \in S : v > day}
    BY <2>2, <1>5
  <2> QED BY <2>3, <2>4 DEF OpenDays, last
<1>9. Belongs("eom_som", any, cutoff, t, b) <=>
        /\ day \in S
        /\ IF b < cutoff THEN Cardinality({v \in S : v > day}) = cutoff - 1 - b
           ELSE Cardinality({v \in S : v > day}) >= cutoff /\ Cardinality({v \in S : v < day}) = b - cutoff
  BY <1>7, <1>8 DEF Belongs, day, month, first
<1> HIDE DEF S
<1>10. Ascending(days, S)
  BY <1>4, <1>6, AscendIs
<1> HIDE DEF days
<1>11. ToSet(days) = S
  BY <1>10 DEF ToSet, Ascending
<1>12. CASE day \notin S
  <2>1. MonthBucket(t, cutoff) = -1
    BY <1>11, <1>12 DEF MonthBucket, day, days
  <2> QED BY <1>9, <1>12, <2>1
<1>13. CASE day \in S
  <2> DEFINE pos == CHOOSE i \in DOMAIN days : days[i] = DayOf(t)
  <2>1. \E i \in DOMAIN days : days[i] = day
    BY <1>10, <1>13 DEF Ascending
  <2>2. pos \in DOMAIN days /\ days[pos] = day
    BY <2>1 DEF day
  <2>3. MonthBucket(t, cutoff) =
          LET fromEnd == Len(days) - pos
          IN IF fromEnd < cutoff THEN cutoff - 1 - fromEnd
             ELSE IF pos - 1 < cutoff THEN cutoff + pos - 1 ELSE -1
    <3>2. DayOf(t) \in ToSet(days)
      BY <1>11, <1>13 DEF day
    <3> QED BY <3>2 DEF MonthBucket, days
  <2> HIDE DEF pos
  <2>4. Cardinality({v \in S : v < day}) = pos - 1 /\ Cardinality({v \in S : v > day}) = Len(days) - pos
    <3>1. /\ Cardinality({v \in S : v < days[pos]}) = pos - 1
          /\ Cardinality({v \in S : v > days[pos]}) = Len(days) - pos
      BY <1>6, <1>10, <2>2, TradingDayIs
    <3> QED BY <2>2, <3>1
  <2>5. Len(days) \in Nat /\ pos \in 1..Len(days)
    BY <1>10, <2>2 DEF Ascending
  <2> DEFINE l == Len(days)
  <2> HIDE DEF l
  <2>6. l \in Nat /\ pos \in 1..l
    BY <2>5 DEF l
  <2>7. (IF l - pos < cutoff THEN cutoff - 1 - (l - pos)
         ELSE IF pos - 1 < cutoff THEN cutoff + pos - 1 ELSE -1) = b
        <=> IF b < cutoff THEN l - pos = cutoff - 1 - b
            ELSE l - pos >= cutoff /\ pos - 1 = b - cutoff
    BY <2>6
  <2> QED BY <1>9, <1>13, <2>3, <2>4, <2>7 DEF l
<1> QED BY <1>12, <1>13

\* A bucket is written under its own number.
LEMMA BucketIs ==
  ASSUME NEW m \in Nat, NEW groups, DOMAIN groups = 0..(m - 1),
         NEW i \in DOMAIN BucketsFound(groups).numbers
  PROVE  \E b \in 0..(m - 1) : /\ BucketsFound(groups).numbers[i].label = b
                               /\ BucketsFound(groups).numbers[i].uses = groups[b]
<1>1. Cardinality(DOMAIN groups) = m
  <2>1. Cardinality(0..(m - 1)) = IF 0 > m - 1 THEN 0 ELSE m - 1 - 0 + 1
    BY FS_Interval
  <2> QED BY <2>1
<1>2. BucketsFound(groups).numbers = [k \in 1..Cardinality(DOMAIN groups) |-> Bucket(k - 1, groups[k - 1])]
  BY DEF BucketsFound, Found
<1>3. PICK b \in 0..(m - 1) : b = i - 1 /\ i \in 1..m
  BY <1>1, <1>2
<1>4. BucketsFound(groups).numbers[i] = Bucket(b, groups[b])
  BY <1>1, <1>2, <1>3
<1> QED BY <1>4 DEF Bucket

\* The buckets of the clock, of the sessions and of the month.
LEMMA GroupsHold ==
  ASSUME SeriesFeed
  PROVE  /\ DOMAIN ByHour = 0..23 /\ DOMAIN ByWeekday = 0..6
         /\ \A b \in 0..23 : \A s, c : ByHour[b] = {t \in ReturnTimes : Belongs("hour_of_day", s, c, t, b)}
         /\ \A b \in 0..6 : \A s, c : ByWeekday[b] = {t \in ReturnTimes : Belongs("day_of_week", s, c, t, b)}
<1>1. Times(Returns) = ReturnTimes
  BY TheColumns
<1> QED BY <1>1 DEF ByHour, ByWeekday, Belongs

\* The groups by session hold the returns whose hour is in the session,
LEMMA SessionGroupsHold ==
  ASSUME SeriesFeed, NEW s, NEW n \in Nat, Len(s) = n,
         \A i \in 1..n : s[i].start \in 0..23 /\ s[i].end \in 0..23
  PROVE  /\ DOMAIN BySession(s) = 0..(n - 1)
         /\ \A b \in 0..(n - 1) : \A c : BySession(s)[b] = {t \in ReturnTimes : Belongs("session", s, c, t, b)}
<1>0. /\ Times(Returns) = ReturnTimes
      /\ \A t \in ReturnTimes : t \in Int
  <2>1. Column(Returns, N, 1) /\ Times(Returns) = ReturnTimes
    BY TheColumns
  <2> QED BY <2>1 DEF Column, Times
<1>1. DOMAIN BySession(s) = 0..(n - 1)
  BY DEF BySession
<1>2. ASSUME NEW b \in 0..(n - 1), NEW c PROVE BySession(s)[b] = {t \in ReturnTimes : Belongs("session", s, c, t, b)}
  <2>1. b + 1 \in 1..n
    OBVIOUS
  <2>2. \A t \in ReturnTimes : Hour(t) \in HoursOf(s[b + 1]) <=> HourInSession(Hour(t), s[b + 1].start, s[b + 1].end)
    BY <1>0, <2>1, HourRange, SessionHours
  <2>3. BySession(s)[b] = {t \in ReturnTimes : HourInSession(Hour(t), s[b + 1].start, s[b + 1].end)}
    BY <1>0 DEF BySession
  <2>4. \A t : Belongs("session", s, c, t, b) <=> Hour(t) \in HoursOf(s[b + 1])
    BY DEF Belongs
  <2> QED BY <2>2, <2>3, <2>4
<1> QED BY <1>1, <1>2

\* and those by month the returns of the open days around its turn.
LEMMA MonthGroupsHold ==
  ASSUME SeriesFeed, NEW c \in Nat \ {0}
  PROVE  /\ DOMAIN ByMonth(c) = 0..(2 * c - 1)
         /\ \A b \in 0..(2 * c - 1) : \A s : ByMonth(c)[b] = {t \in ReturnTimes : Belongs("eom_som", s, c, t, b)}
<1>0. /\ Times(Returns) = ReturnTimes
      /\ \A t \in ReturnTimes : t \in Int
  <2>1. Column(Returns, N, 1) /\ Times(Returns) = ReturnTimes
    BY TheColumns
  <2> QED BY <2>1 DEF Column, Times
<1>1. DOMAIN ByMonth(c) = 0..(2 * c - 1)
  BY DEF ByMonth
<1>2. ASSUME NEW b \in 0..(2 * c - 1), NEW s PROVE ByMonth(c)[b] = {t \in ReturnTimes : Belongs("eom_som", s, c, t, b)}
  <2>1. ByMonth(c)[b] = {t \in ReturnTimes : MonthBucket(t, c) = b}
    BY <1>0 DEF ByMonth
  <2>2. \A t \in ReturnTimes : MonthBucket(t, c) = b <=> Belongs("eom_som", s, c, t, b)
    BY <1>0, MonthBucketIs
  <2> QED BY <2>1, <2>2
<1> QED BY <1>1, <1>2

\* The four sessions that are named.
LEMMA FxMajorIs ==
  /\ Len(FxMajor) = 4 /\ \A i \in 1..4 : FxMajor[i].start \in 0..23 /\ FxMajor[i].end \in 0..23
<1>1. \A i \in 1..4 : i = 1 \/ i = 2 \/ i = 3 \/ i = 4
  OBVIOUS
<1>2. /\ FxMajor[1].start = 22 /\ FxMajor[1].end = 7 /\ FxMajor[2].start = 7 /\ FxMajor[2].end = 16
      /\ FxMajor[3].start = 12 /\ FxMajor[3].end = 21 /\ FxMajor[4].start = 12 /\ FxMajor[4].end = 16
      /\ Len(FxMajor) = 4
  BY DEF FxMajor
<1> QED BY <1>1, <1>2

\* Each bucket of the four scans by time holds the returns it is named for.
LEMMA BucketScansHold ==
  ASSUME SeriesFeed, SeriesAccepted, job.scan \in BucketScans, NEW f \in Kernel, NEW r \in DOMAIN f,
         NEW i \in DOMAIN f[r].numbers
  PROVE  f[r].numbers[i].uses = {t \in ReturnTimes : Belongs(job.scan, Sessions, Cutoff, t, f[r].numbers[i].label)}
<1>0. ~job.odd
  BY DEF SeriesAccepted
<1>1. CASE job.scan = "hour_of_day"
  <2>1. f[r] = BucketsFound(ByHour)
    BY <1>1 DEF Kernel, HourFound
  <2>2. PICK m \in Nat : m = 24 /\ m - 1 = 23
    OBVIOUS
  <2>4. DOMAIN ByHour = 0..(m - 1)
    BY <2>2, GroupsHold
  <2>5. i \in DOMAIN BucketsFound(ByHour).numbers
    BY <2>1
  <2>7. PICK groups : groups = ByHour
    OBVIOUS
  <2>8. DOMAIN groups = 0..(m - 1) /\ i \in DOMAIN BucketsFound(groups).numbers
    BY <2>4, <2>5, <2>7
  <2>9. \E b \in 0..(m - 1) : /\ BucketsFound(groups).numbers[i].label = b
                             /\ BucketsFound(groups).numbers[i].uses = groups[b]
    <3>1. m \in Nat
      BY <2>2
    <3> QED BY ONLY <2>8, <3>1, BucketIs
  <2>6. PICK b \in 0..(m - 1) : f[r].numbers[i].label = b /\ f[r].numbers[i].uses = ByHour[b]
    BY <2>1, <2>7, <2>9
  <2>3. b \in 0..23 /\ f[r].numbers[i].label = b /\ f[r].numbers[i].uses = ByHour[b]
    BY <2>2, <2>6
  <2> QED BY <1>1, <2>3, GroupsHold
<1>2. CASE job.scan = "day_of_week"
  <2>1. f[r] = BucketsFound(ByWeekday)
    BY <1>2 DEF Kernel, DayFound
  <2>2. PICK m \in Nat : m = 7 /\ m - 1 = 6
    OBVIOUS
  <2>4. DOMAIN ByWeekday = 0..(m - 1)
    BY <2>2, GroupsHold
  <2>5. i \in DOMAIN BucketsFound(ByWeekday).numbers
    BY <2>1
  <2>7. PICK groups : groups = ByWeekday
    OBVIOUS
  <2>8. DOMAIN groups = 0..(m - 1) /\ i \in DOMAIN BucketsFound(groups).numbers
    BY <2>4, <2>5, <2>7
  <2>9. \E b \in 0..(m - 1) : /\ BucketsFound(groups).numbers[i].label = b
                             /\ BucketsFound(groups).numbers[i].uses = groups[b]
    <3>1. m \in Nat
      BY <2>2
    <3> QED BY ONLY <2>8, <3>1, BucketIs
  <2>6. PICK b \in 0..(m - 1) : f[r].numbers[i].label = b /\ f[r].numbers[i].uses = ByWeekday[b]
    BY <2>1, <2>7, <2>9
  <2>3. b \in 0..6 /\ f[r].numbers[i].label = b /\ f[r].numbers[i].uses = ByWeekday[b]
    BY <2>2, <2>6
  <2> QED BY <1>2, <2>3, GroupsHold
<1>3. CASE job.scan = "session"
  <2>0. Sessions \in Seq([name : STRING, start : Int, end : Int]) \/ Sessions = FxMajor
    BY <1>0 DEF Sessions, Param, Given, SeriesFeed, Typed
  <2>1. PICK n \in Nat : Len(Sessions) = n /\ DOMAIN Sessions = 1..n
    BY <2>0, LenProperties DEF FxMajor
  <2>2. \A k \in 1..n : Sessions[k].start \in 0..23 /\ Sessions[k].end \in 0..23
    BY <1>3, <2>1 DEF SeriesAccepted, SessionAccepts
  <2>3. /\ DOMAIN BySession(Sessions) = 0..(n - 1)
        /\ \A b \in 0..(n - 1) : \A c :
             BySession(Sessions)[b] = {t \in ReturnTimes : Belongs("session", Sessions, c, t, b)}
    BY <2>1, <2>2, SessionGroupsHold
  <2>4. f[r] = BucketsFound(BySession(Sessions))
    BY <1>3 DEF Kernel, SessionFound
  <2>5. i \in DOMAIN BucketsFound(BySession(Sessions)).numbers
    BY <2>4
  <2>6. PICK b \in 0..(n - 1) : f[r].numbers[i].label = b /\ f[r].numbers[i].uses = BySession(Sessions)[b]
    BY <2>3, <2>4, <2>5, BucketIs
  <2> QED BY <1>3, <2>3, <2>6
<1>4. CASE job.scan = "eom_som"
  <2>1. Cutoff \in 1..MaxCutoff /\ MaxCutoff \in Nat
    BY <1>4, SeasAssumption DEF SeriesAccepted, EomSomAccepts
  <2>2. Cutoff \in Nat \ {0}
    BY <2>1
  <2>3. f[r] = BucketsFound(ByMonth(Cutoff))
    BY <1>4 DEF Kernel, EomSomFound
  <2>4. PICK m \in Nat : m = 2 * Cutoff /\ m - 1 = 2 * Cutoff - 1
    BY <2>2
  <2>5. DOMAIN ByMonth(Cutoff) = 0..(m - 1) /\ i \in DOMAIN BucketsFound(ByMonth(Cutoff)).numbers
    BY <2>2, <2>3, <2>4, MonthGroupsHold
  <2>6. PICK b \in 0..(m - 1) : f[r].numbers[i].label = b /\ f[r].numbers[i].uses = ByMonth(Cutoff)[b]
    BY <2>3, <2>5, BucketIs
  <2>7. b \in 0..(2 * Cutoff - 1)
    BY <2>4, <2>6
  <2>8. ByMonth(Cutoff)[b] = {t \in ReturnTimes : Belongs("eom_som", Sessions, Cutoff, t, b)}
    BY <2>2, <2>7, MonthGroupsHold
  <2> QED BY <1>4, <2>6, <2>8
<1> QED BY <1>1, <1>2, <1>3, <1>4 DEF BucketScans

\* A group of the variance test is a bucket.
LEMMA GroupsAre ==
  ASSUME SeriesFeed, SeriesAccepted, job.scan = "anova"
  PROVE  /\ DOMAIN DerivedGroups \in {0..23, 0..6, 0..3, 0..5} /\ (Via = "session" => DOMAIN DerivedGroups = 0..3)
         /\ \A b \in DOMAIN DerivedGroups :
              DerivedGroups[b] = {t \in ReturnTimes : Belongs(Via, FxMajor, 3, t, b)}
         /\ IsFiniteSet(Groups) /\ Groups \in SUBSET Int /\ Groups \subseteq DOMAIN DerivedGroups
<1>0. Via \in {"hour_of_day", "day_of_week", "session", "eom_som"}
  BY DEF SeriesAccepted, AnovaAccepts
<1>1. /\ DOMAIN DerivedGroups \in {0..23, 0..6, 0..3, 0..5} /\ (Via = "session" => DOMAIN DerivedGroups = 0..3)
      /\ \A b \in DOMAIN DerivedGroups :
           DerivedGroups[b] = {t \in ReturnTimes : Belongs(Via, FxMajor, 3, t, b)}
  <2>1. CASE Via = "hour_of_day"
    BY <2>1, GroupsHold DEF DerivedGroups
  <2>2. CASE Via = "day_of_week"
    BY <2>2, GroupsHold DEF DerivedGroups
  <2>3. CASE Via = "session"
    <3>1. /\ DOMAIN BySession(FxMajor) = 0..(4 - 1)
          /\ \A b \in 0..(4 - 1) : \A c : BySession(FxMajor)[b] = {t \in ReturnTimes : Belongs("session", FxMajor, c, t, b)}
      BY FxMajorIs, SessionGroupsHold
    <3>2. DerivedGroups = BySession(FxMajor) /\ 4 - 1 = 3
      BY <2>3 DEF DerivedGroups
    <3> QED BY <2>3, <3>1, <3>2
  <2>4. CASE Via = "eom_som"
    <3>1. DerivedGroups = ByMonth(3) /\ 2 * 3 - 1 = 5
      BY <2>4 DEF DerivedGroups
    <3>2. PICK c \in Nat \ {0} : c = 3 /\ 2 * c - 1 = 5
      OBVIOUS
    <3>3. /\ DOMAIN ByMonth(c) = 0..(2 * c - 1)
          /\ \A b \in 0..(2 * c - 1) : \A s : ByMonth(c)[b] = {t \in ReturnTimes : Belongs("eom_som", s, c, t, b)}
      BY MonthGroupsHold
    <3>4. /\ DOMAIN ByMonth(3) = 0..5
          /\ \A b \in 0..5 : \A s : ByMonth(3)[b] = {t \in ReturnTimes : Belongs("eom_som", s, 3, t, b)}
      BY <3>2, <3>3
    <3> QED BY <2>4, <3>1, <3>4
  <2> QED BY <1>0, <2>1, <2>2, <2>3, <2>4
<1>2. Groups \subseteq DOMAIN DerivedGroups
  BY DEF Groups
<1>3. IsFiniteSet(DOMAIN DerivedGroups) /\ DOMAIN DerivedGroups \in SUBSET Int
  <2>1. \A S \in {0..23, 0..6, 0..3, 0..5} : S \subseteq 0..23
    OBVIOUS
  <2>2. PICK n \in Int : n = 23
    OBVIOUS
  <2>3. IsFiniteSet(0..n)
    <3>1. PICK a \in Int : a = 0
      OBVIOUS
    <3>2. IsFiniteSet(a..n)
      BY <2>2, <3>1, FS_Interval
    <3> QED BY <3>1, <3>2
  <2>4. DOMAIN DerivedGroups \subseteq 0..n
    BY <1>1, <2>1, <2>2
  <2>5. IsFiniteSet(DOMAIN DerivedGroups)
    BY <2>3, <2>4, FS_Subset
  <2> QED BY <2>4, <2>5
<1>4. IsFiniteSet(Groups)
  BY <1>2, <1>3, FS_Subset
<1> QED BY <1>1, <1>2, <1>3, <1>4

\* So does each group of the variance test, of which there are two at least.
LEMMA AnovaHolds ==
  ASSUME SeriesFeed, SeriesAccepted, job.scan = "anova"
  PROVE  /\ Len(AnovaFound.numbers) >= 2
         /\ \A i \in DOMAIN AnovaFound.numbers :
              \E b \in 0..23 : /\ Via = "session" => b \in 0..3
                               /\ AnovaFound.numbers[i].uses = {t \in ReturnTimes : Belongs(Via, FxMajor, 3, t, b)}
<1> DEFINE order == Ascend(Groups)
           numbers == AnovaFound.numbers
<1>1. /\ IsFiniteSet(Groups) /\ Groups \in SUBSET Int /\ Groups \subseteq DOMAIN DerivedGroups
      /\ DOMAIN DerivedGroups \in {0..23, 0..6, 0..3, 0..5} /\ (Via = "session" => DOMAIN DerivedGroups = 0..3)
      /\ \A b \in DOMAIN DerivedGroups :
           DerivedGroups[b] = {t \in ReturnTimes : Belongs(Via, FxMajor, 3, t, b)}
  BY GroupsAre
<1>2. Ascending(order, Groups)
  BY <1>1, AscendIs
<1>3. /\ DOMAIN numbers = DOMAIN order
      /\ \A i \in DOMAIN order : numbers[i].uses = DerivedGroups[order[i]]
  BY DEF AnovaFound, Found
<1> HIDE DEF order, numbers
<1>4. Len(numbers) >= 2
  <2>1. Cardinality(Groups) >= 2
    BY DEF SeriesAccepted, AnovaAccepts
  <2>2. DOMAIN numbers = 1..Cardinality(Groups) /\ Cardinality(Groups) \in Nat
    BY <1>2, <1>3 DEF Ascending
  <2> QED BY <2>1, <2>2, LenIs
<1>5. \A i \in DOMAIN numbers : order[i] \in Groups
  BY <1>2, <1>3 DEF Ascending
<1>6. \A b \in DOMAIN DerivedGroups : b \in 0..23
  BY <1>1
<1>7. ASSUME NEW i \in DOMAIN numbers
      PROVE  \E b \in 0..23 : /\ Via = "session" => b \in 0..3
                              /\ numbers[i].uses = {t \in ReturnTimes : Belongs(Via, FxMajor, 3, t, b)}
  <2>1. PICK b \in DOMAIN DerivedGroups : b = order[i]
    BY <1>1, <1>5
  <2>2. b \in 0..23 /\ (Via = "session" => b \in 0..3)
    BY <1>1, <1>6
  <2>3. numbers[i].uses = DerivedGroups[b]
    BY <1>3, <2>1
  <2> QED BY <1>1, <2>2, <2>3
<1> QED BY <1>4, <1>7 DEF numbers

----------------------------------------------------------------------------
(* The windows around events. *)

\* The returns before an instant are the first ones.
LEMMA BeforeIs ==
  ASSUME SeriesFeed, NEW e \in Int
  PROVE  /\ Before(e) \in 0..N
         /\ \A i \in 1..N : Returns[i].at < e <=> i <= Before(e)
         /\ Cardinality({t \in ReturnTimes : t < e}) = Before(e)
         /\ Cardinality({t \in ReturnTimes : t >= e}) = N - Before(e)
<1> DEFINE A == {i \in 1..N : Returns[i].at < e}
           L == {k \in 0..N : \A i \in 1..N : i > k => Returns[i].at >= e}
<1>0. /\ Column(Returns, N, 1) /\ N \in Nat /\ DOMAIN Returns = 1..N
      /\ \A i \in 1..N : Returns[i].at \in Int
      /\ \A i, j \in 1..N : i < j => Returns[i].at < Returns[j].at
      /\ ReturnTimes = {Returns[i].at : i \in 1..N}
  <2>1. Column(Returns, N, 1) /\ ReturnTimes = Times(Returns)
    BY TheColumns
  <2> QED BY <2>1 DEF Column, Times
<1>1. L \in SUBSET Nat /\ N \in L
  BY <1>0
<1> HIDE DEF L
<1>2. PICK c \in L : \A k \in L : c <= k
  BY <1>1, Sums!LeastNat
<1>3. c \in 0..N /\ \A i \in 1..N : i > c => Returns[i].at >= e
  BY <1>2 DEF L
<1>4. \A i \in 1..N : i <= c => Returns[i].at < e
  <2> SUFFICES ASSUME NEW i \in 1..N, i <= c, ~(Returns[i].at < e) PROVE FALSE
    OBVIOUS
  <2>1. Returns[i].at >= e
    BY <1>0
  <2>2. \A j \in 1..N : j > i - 1 => Returns[j].at >= e
    <3> SUFFICES ASSUME NEW j \in 1..N, j > i - 1 PROVE Returns[j].at >= e
      OBVIOUS
    <3>1. j = i \/ i < j
      BY <1>0
    <3>2. i < j => Returns[i].at < Returns[j].at
      BY <1>0
    <3>3. Returns[i].at \in Int /\ Returns[j].at \in Int
      BY <1>0
    <3> QED BY <2>1, <3>1, <3>2, <3>3
  <2>3. i - 1 \in 0..N
    BY <1>0
  <2>4. i - 1 \in L
    BY <2>2, <2>3 DEF L
  <2> QED BY <1>0, <1>2, <1>3, <2>4
<1>5. \A i \in 1..N : Returns[i].at < e <=> i <= c
  <2> TAKE i \in 1..N
  <2>1. Returns[i].at \in Int /\ (i > c => Returns[i].at >= e) /\ (i <= c => Returns[i].at < e)
    BY <1>0, <1>3, <1>4
  <2> QED BY <1>0, <1>3, <2>1
<1>6. Before(e) = c
  <2>1. \A i \in 1..N : Returns[i].at < e <=> i \in 1..c
    BY <1>0, <1>3, <1>5
  <2>2. \A i \in 1..c : i \in 1..N
    BY <1>0, <1>3
  <2>3. A = 1..c
    BY <2>1, <2>2
  <2>4. PICK a \in Int : a = 1
    OBVIOUS
  <2>5. c \in Int /\ c - a + 1 = c /\ (a > c => c = 0)
    BY <1>3, <2>4
  <2>6. Cardinality(a..c) = IF a > c THEN 0 ELSE c - a + 1
    BY <2>5, FS_Interval
  <2>7. Cardinality(1..c) = c
    BY <2>4, <2>5, <2>6
  <2> QED BY <2>3, <2>7 DEF Before
<1>7. {t \in ReturnTimes : t < e} = {Returns[i].at : i \in 1..c}
  <2>1. \A i \in 1..c : i \in 1..N /\ i <= c
    BY <1>0, <1>3
  <2>2. \A i \in 1..N : i <= c => i \in 1..c
    BY <1>0, <1>3
  <2> QED BY <1>0, <1>5, <2>1, <2>2
<1>8. {t \in ReturnTimes : t >= e} = {Returns[i].at : i \in (c + 1)..N}
  <2>1. \A i \in (c + 1)..N : i \in 1..N /\ i > c
    BY <1>0, <1>3
  <2>2. \A i \in 1..N : ~(i <= c) => i \in (c + 1)..N
    BY <1>0, <1>3
  <2>3. \A i \in 1..N : Returns[i].at >= e <=> ~(i <= c)
    <3> TAKE i \in 1..N
    <3>1. Returns[i].at \in Int /\ (Returns[i].at < e <=> i <= c)
      BY <1>0, <1>5
    <3> QED BY <3>1
  <2>4. \A i \in (c + 1)..N : Returns[i].at >= e
    <3> TAKE i \in (c + 1)..N
    <3>1. i \in 1..N /\ i > c
      BY <2>1
    <3> QED BY <1>3, <3>1
  <2> QED BY <1>0, <2>1, <2>2, <2>3, <2>4
<1>9. Cardinality({Returns[i].at : i \in 1..c}) = c
  <2>1. c - 1 + 1 = c /\ 1 \in 1..(N + 1) /\ c \in 0..N /\ 1 <= c + 1
    BY <1>0, <1>3
  <2>3. PICK a \in 1..(N + 1) : a = 1
    BY <2>1
  <2>4. Column(Returns, N, 1) /\ a \in 1..(N + 1) /\ c \in 0..N /\ a <= c + 1
    BY <1>0, <2>1, <2>3
  <2>5. Cardinality({Returns[i].at : i \in a..c}) = c - a + 1
    BY ONLY <2>4, StretchCount
  <2>2. Cardinality({Returns[i].at : i \in 1..c}) = c - 1 + 1
    BY <2>3, <2>5
  <2> QED BY <2>1, <2>2
<1>10. Cardinality({Returns[i].at : i \in (c + 1)..N}) = N - c
  <2>1. N - (c + 1) + 1 = N - c /\ c + 1 \in 1..(N + 1) /\ N \in 0..N /\ c + 1 <= N + 1
    BY <1>0, <1>3
  <2>3. PICK a \in 1..(N + 1) : a = c + 1
    BY <2>1
  <2>4. Column(Returns, N, 1) /\ a \in 1..(N + 1) /\ N \in 0..N /\ a <= N + 1
    BY <1>0, <2>1, <2>3
  <2>5. Cardinality({Returns[i].at : i \in a..N}) = N - a + 1
    BY ONLY <2>4, StretchCount
  <2>2. Cardinality({Returns[i].at : i \in (c + 1)..N}) = N - (c + 1) + 1
    BY <2>3, <2>5
  <2> QED BY <2>1, <2>2
<1> QED BY <1>3, <1>5, <1>6, <1>7, <1>8, <1>9, <1>10

\* The two windows of an event that fits.
UpToEvent(e, pre) == {Returns[i].at : i \in (Before(e) - pre + 1)..Before(e)}
FromEvent(e, post) == {Returns[i].at : i \in (Before(e) + 1)..(Before(e) + post)}

\* The windows of an event are as long as asked, each on its side.
LEMMA WindowIs ==
  ASSUME SeriesFeed, NEW e \in Int, NEW pre \in Nat \ {0}, NEW post \in Nat \ {0}, WindowsFit(e, pre, post),
         NEW p, p = UpToEvent(e, pre), NEW q, q = FromEvent(e, post)
  PROVE  /\ Cardinality(p) = pre /\ Cardinality(q) = post
         /\ \A t \in p : t < e
         /\ \A t \in q : t >= e
         /\ Max(q) - Min(p) = Max(q \cup p) - Min(q \cup p)
<1> DEFINE c == Before(e)
           a == c - pre + 1
           b == c + post
           d == c + 1
<1>0. /\ Column(Returns, N, 1) /\ N \in Nat /\ \A i \in 1..N : Returns[i].at \in Int
      /\ \A i, j \in 1..N : i < j => Returns[i].at < Returns[j].at
  <2>1. Column(Returns, N, 1)
    BY TheColumns
  <2> QED BY <2>1 DEF Column
<1>1. c \in 0..N /\ c >= pre /\ c + post <= N /\ \A i \in 1..N : Returns[i].at < e <=> i <= c
  BY BeforeIs DEF WindowsFit
<1>2. p = {Returns[i].at : i \in a..c} /\ q = {Returns[i].at : i \in d..b}
  BY DEF UpToEvent, FromEvent
<1> HIDE DEF c
<1>3. /\ a \in 1..(N + 1) /\ c \in 0..N /\ a <= c + 1 /\ c - a + 1 = pre
      /\ d \in 1..(N + 1) /\ b \in 0..N /\ d <= b + 1 /\ b - d + 1 = post
      /\ a \in 1..N /\ b \in 1..N /\ a \in a..c /\ b \in d..b /\ a < b
  BY <1>0, <1>1
<1>4. /\ \A i \in a..c : i \in 1..N /\ a <= i /\ i <= c /\ i < b
      /\ \A i \in d..b : i \in 1..N /\ i <= b /\ a < i /\ ~(i <= c)
  BY <1>0, <1>1
<1> HIDE DEF a, b, d
<1>5. Cardinality(p) = pre /\ Cardinality(q) = post
  <2>1. Cardinality({Returns[i].at : i \in a..c}) = c - a + 1
    BY ONLY <1>0, <1>3, StretchCount
  <2>2. Cardinality({Returns[i].at : i \in d..b}) = b - d + 1
    BY ONLY <1>0, <1>3, StretchCount
  <2> QED BY <1>2, <1>3, <2>1, <2>2
<1>6. \A t \in p : t < e
  BY <1>1, <1>2, <1>4
<1>7. \A t \in q : t >= e
  <2> SUFFICES ASSUME NEW i \in d..b PROVE Returns[i].at >= e
    BY <1>2
  <2>1. i \in 1..N /\ ~(Returns[i].at < e) /\ Returns[i].at \in Int
    BY <1>0, <1>1, <1>4
  <2> QED BY <2>1
<1>8. \A t \in q \cup p : t \in Int /\ Returns[a].at <= t /\ t <= Returns[b].at
  <2>1. ASSUME NEW i \in 1..N, a <= i, i <= b
        PROVE  Returns[i].at \in Int /\ Returns[a].at <= Returns[i].at /\ Returns[i].at <= Returns[b].at
    <3>1. (a = i \/ a < i) /\ (i = b \/ i < b) /\ i \in Int /\ a \in Int /\ b \in Int
      BY <1>0, <1>3, <2>1
    <3>2. a < i => Returns[a].at < Returns[i].at
      BY <1>0, <1>3
    <3>3. i < b => Returns[i].at < Returns[b].at
      BY <1>0, <1>3
    <3>4. Returns[i].at \in Int /\ Returns[a].at \in Int /\ Returns[b].at \in Int
      BY <1>0, <1>3
    <3> QED BY <3>1, <3>2, <3>3, <3>4
  <2>2. \A i \in a..c : i \in 1..N /\ a <= i /\ i <= b
    <3> TAKE i \in a..c
    <3>1. i < b /\ i \in 1..N /\ a <= i
      BY <1>4
    <3>2. b \in 1..N
      BY <1>3
    <3> QED BY <1>0, <3>1, <3>2
  <2>3. \A i \in d..b : i \in 1..N /\ a <= i /\ i <= b
    <3> TAKE i \in d..b
    <3>1. a < i /\ i \in 1..N /\ i <= b
      BY <1>4
    <3>2. a \in 1..N
      BY <1>3
    <3> QED BY <1>0, <3>1, <3>2
  <2> QED BY <1>2, <2>1, <2>2, <2>3
<1>9. Returns[a].at \in p /\ Returns[b].at \in q
  BY <1>2, <1>3
<1>10. /\ Max(q) = Returns[b].at /\ Min(p) = Returns[a].at
       /\ Max(q \cup p) = Returns[b].at /\ Min(q \cup p) = Returns[a].at
  <2>1. Max(q) = Returns[b].at
    BY <1>8, <1>9, MaxIs
  <2>2. Min(p) = Returns[a].at
    BY <1>8, <1>9, MinIs
  <2>3. Returns[b].at \in q \cup p /\ Returns[a].at \in q \cup p
    BY <1>9
  <2>4. Max(q \cup p) = Returns[b].at
    BY <1>8, <2>3, MaxIs
  <2>5. Min(q \cup p) = Returns[a].at
    BY <1>8, <2>3, MinIs
  <2> QED BY <2>1, <2>2, <2>4, <2>5
<1> QED BY <1>5, <1>6, <1>7, <1>10

\* One pair of windows is written for each event that has room.
LEMMA EventHolds ==
  ASSUME SeriesFeed, SeriesAccepted, job.scan = "event_window"
  PROVE  /\ Len(EventFound.numbers) = Cardinality(Roomy)
         /\ \A i \in DOMAIN EventFound.numbers :
              LET w == EventFound.numbers[i].uses
              IN /\ Cardinality(w.pre) = Pre /\ Cardinality(w.post) = Post
                 /\ \E k \in Roomy : /\ \A t \in w.pre : t < job.p["event_timestamps"][k]
                                     /\ \A t \in w.post : t >= job.p["event_timestamps"][k]
                 /\ Max(w.post) - Min(w.pre) = Max(w.post \cup w.pre) - Min(w.post \cup w.pre)
<1> DEFINE events == job.p["event_timestamps"]
           kept == Ascend({k \in DOMAIN events : WindowsFit(events[k], Pre, Post)})
           windows == EventWindows(events, Pre, Post)
           p(j) == {Returns[i].at : i \in (Before(events[kept[j]]) - Pre + 1)..Before(events[kept[j]])}
           q(j) == {Returns[i].at : i \in (Before(events[kept[j]]) + 1)..(Before(events[kept[j]]) + Post)}
<1>0. ~job.odd /\ EventAccepts /\ Typed(job.p) /\ "event_timestamps" \in DOMAIN job.p
  BY DEF SeriesAccepted, SeriesFeed, EventAccepts, Given
<1>1. events \in Seq(Int) /\ Pre \in Int /\ Post \in Int
  BY <1>0 DEF Typed, Pre, Post, Param, Given
<1>2. Pre \in Nat \ {0} /\ Post \in Nat \ {0}
  BY <1>0, <1>1 DEF EventAccepts
<1>3. PICK n \in Nat : DOMAIN events = 1..n /\ \A k \in 1..n : events[k] \in Int
  BY <1>1, LenProperties
<1> HIDE DEF events
<1>4. Roomy = {k \in DOMAIN events : WindowsFit(events[k], Pre, Post)}
  <2>1. ASSUME NEW k \in DOMAIN events
        PROVE  (/\ Cardinality({t \in ReturnTimes : t < events[k]}) >= Pre
                /\ Cardinality({t \in ReturnTimes : t >= events[k]}) >= Post)
               <=> WindowsFit(events[k], Pre, Post)
    <3>1. PICK e \in Int : e = events[k]
      BY <1>3
    <3> DEFINE c == Before(e)
    <3>2. /\ c \in 0..N /\ N \in Nat
          /\ Cardinality({t \in ReturnTimes : t < e}) = c
          /\ Cardinality({t \in ReturnTimes : t >= e}) = N - c
      BY BeforeIs, BarColumns
    <3> HIDE DEF c
    <3>3. N - c >= Post <=> c + Post <= N
      BY <1>1, <3>2
    <3> QED BY <3>1, <3>2, <3>3 DEF WindowsFit, c
  <2> QED BY <2>1 DEF Roomy, events
<1>5. Ascending(kept, Roomy)
  <2>1. Roomy \in SUBSET (1..n) /\ \A k \in 1..n : k \in Int
    BY <1>3, <1>4
  <2>2. IsFiniteSet(1..n)
    <3>1. PICK a \in Int : a = 1
      OBVIOUS
    <3> QED BY <3>1, FS_Interval
  <2>3. Roomy \in SUBSET Int /\ IsFiniteSet(Roomy)
    BY <2>1, <2>2, FS_Subset
  <2> QED BY <1>4, <2>3, AscendIs
<1>6. windows = [j \in DOMAIN kept |-> [pre |-> p(j), post |-> q(j)]]
  BY DEF EventWindows
<1>7. EventFound.numbers = [j \in DOMAIN windows |-> Number("event", j, windows[j])]
  BY DEF EventFound, Found, events
<1>8. /\ DOMAIN EventFound.numbers = DOMAIN kept
      /\ \A j \in DOMAIN kept : EventFound.numbers[j].uses = [pre |-> p(j), post |-> q(j)]
  <2> HIDE DEF p, q, kept
  <2>1. DOMAIN windows = DOMAIN kept /\ \A j \in DOMAIN kept : windows[j] = [pre |-> p(j), post |-> q(j)]
    BY <1>6
  <2> HIDE DEF windows
  <2> QED BY <1>7, <2>1 DEF Number
<1> HIDE DEF kept, windows
<1>9. ASSUME NEW j \in DOMAIN kept
      PROVE  LET w == EventFound.numbers[j].uses
             IN /\ Cardinality(w.pre) = Pre /\ Cardinality(w.post) = Post
                /\ \E k \in Roomy : /\ \A t \in w.pre : t < events[k]
                                    /\ \A t \in w.post : t >= events[k]
                /\ Max(w.post) - Min(w.pre) = Max(w.post \cup w.pre) - Min(w.post \cup w.pre)
  <2>1. kept[j] \in Roomy
    BY <1>5 DEF Ascending
  <2>2. PICK e \in Int : e = events[kept[j]] /\ WindowsFit(e, Pre, Post)
    BY <1>3, <1>4, <2>1
  <2>3. PICK x, y : x = p(j) /\ y = q(j)
    OBVIOUS
  <2>4. x = UpToEvent(e, Pre) /\ y = FromEvent(e, Post)
    BY <2>2, <2>3 DEF UpToEvent, FromEvent
  <2> HIDE DEF p, q
  <2>5. /\ Cardinality(x) = Pre /\ Cardinality(y) = Post
        /\ \A t \in x : t < e
        /\ \A t \in y : t >= e
        /\ Max(y) - Min(x) = Max(y \cup x) - Min(y \cup x)
    <3>1. PICK pre \in Nat \ {0} : pre = Pre
      BY <1>2
    <3>2. PICK post \in Nat \ {0} : post = Post
      BY <1>2
    <3>3. x = UpToEvent(e, pre) /\ y = FromEvent(e, post) /\ WindowsFit(e, pre, post)
      BY <2>2, <2>4, <3>1, <3>2
    <3>4. /\ Cardinality(x) = pre /\ Cardinality(y) = post
          /\ \A t \in x : t < e
          /\ \A t \in y : t >= e
          /\ Max(y) - Min(x) = Max(y \cup x) - Min(y \cup x)
      BY ONLY SeriesFeed, e \in Int, pre \in Nat \ {0}, post \in Nat \ {0}, <3>3, WindowIs
    <3> QED BY <3>1, <3>2, <3>4
  <2>6. EventFound.numbers[j].uses.pre = x /\ EventFound.numbers[j].uses.post = y
    <3>1. EventFound.numbers[j].uses = [pre |-> x, post |-> y]
      BY <1>8, <2>3
    <3> HIDE <1>8
    <3> DEFINE u == EventFound.numbers[j].uses
    <3>2. u = [pre |-> x, post |-> y]
      BY <3>1
    <3> HIDE DEF u
    <3>3. u.pre = x /\ u.post = y
      BY ONLY <3>2
    <3> QED BY <3>3 DEF u
  <2> QED BY <2>1, <2>2, <2>5, <2>6
<1>10. Len(EventFound.numbers) = Cardinality(Roomy)
  <2>1. DOMAIN EventFound.numbers = 1..Cardinality(Roomy) /\ Cardinality(Roomy) \in Nat
    BY <1>5, <1>8 DEF Ascending
  <2> QED BY <2>1, LenIs
<1> QED BY <1>8, <1>9, <1>10 DEF events

\* BucketsHold of ScanRun.
THEOREM BucketsAreExact == Spec => []BucketsHold
<1>1. SeriesInv => BucketsHold
  <2> SUFFICES ASSUME SeriesInv, NEW r \in DOMAIN out, job.scan \in BucketScans \cup {"anova", "event_window"}
               PROVE  /\ job.scan \in BucketScans => BucketsOf(out[r])
                      /\ job.scan = "anova" => GroupsOf(out[r])
                      /\ job.scan = "event_window" => EventsOf(out[r])
    BY DEF BucketsHold
  <2>0. job.scan \notin PairKinds
    BY DEF PairKinds, BucketScans
  <2>1. SeriesFeed /\ SeriesAccepted /\ found \in Kernel /\ r \in DOMAIN found /\ out[r] = found[r]
    BY <2>0, WrittenAreFound
  <2>2. ASSUME job.scan \in BucketScans PROVE BucketsOf(out[r])
    BY <2>1, <2>2, BucketScansHold DEF BucketsOf
  <2>3. ASSUME job.scan = "anova" PROVE GroupsOf(out[r])
    <3>1. out[r] = AnovaFound
      BY <2>1, <2>3 DEF Kernel
    <3> QED BY <2>1, <2>3, <3>1, AnovaHolds DEF GroupsOf
  <2>4. ASSUME job.scan = "event_window" PROVE EventsOf(out[r])
    <3>1. out[r] = EventFound
      BY <2>1, <2>4 DEF Kernel
    <3> QED BY <2>1, <2>4, <3>1, EventHolds DEF EventsOf
  <2> QED BY <2>2, <2>3, <2>4
<1> QED BY <1>1, SeriesInvariant, PTL

----------------------------------------------------------------------------
(* Regimes. *)

\* The least and the largest of a set of natural numbers.
LEMMA MinOfNats ==
  ASSUME NEW S \in SUBSET Nat, S # {}
  PROVE  Min(S) \in S /\ \A y \in S : Min(S) <= y
<1>1. PICK x \in S : \A y \in S : x <= y
  BY Sums!LeastNat
<1>2. \A y \in S : y \in Int /\ x <= y
  BY <1>1
<1>3. Min(S) = x
  BY <1>2, MinIs
<1> QED BY <1>1, <1>3

\* The largest of bounded natural numbers is there.
LEMMA MaxOfNats ==
  ASSUME NEW n \in Nat, NEW S \in SUBSET (0..n), S # {}
  PROVE  Max(S) \in S /\ \A y \in S : y <= Max(S)
<1> DEFINE T == {v \in 0..n : n - v \in S}
<1>1. T \in SUBSET Nat /\ T # {}
  <2>1. PICK x \in S : TRUE
    OBVIOUS
  <2>2. n - x \in 0..n /\ n - (n - x) = x
    OBVIOUS
  <2>3. n - x \in T
    BY <2>1, <2>2
  <2>4. \A v \in T : v \in Nat
    OBVIOUS
  <2> HIDE DEF T
  <2> QED BY <2>3, <2>4
<1>2. PICK t \in T : \A y \in T : t <= y
  BY <1>1, Sums!LeastNat
<1>3. t \in 0..n /\ n - t \in S
  BY <1>2
<1>4. \A y \in S : y <= n - t
  <2> TAKE y \in S
  <2>1. n - y \in 0..n /\ n - (n - y) = y
    OBVIOUS
  <2>2. n - y \in T
    BY <2>1
  <2>3. t <= n - y
    BY <1>2, <2>2
  <2> QED BY <1>3, <2>1, <2>3
<1>5. Max(S) = n - t
  <2>1. \A y \in S : y \in Int
    OBVIOUS
  <2> QED BY <1>3, <1>4, <2>1, MaxIs
<1> QED BY <1>3, <1>4, <1>5

\* The returns after the a-th up to the b-th.
LEMMA StretchIs ==
  ASSUME SeriesFeed, NEW a \in 0..N, NEW b \in 0..N, a < b
  PROVE  /\ Cardinality(Stretch(a, b)) = b - a
         /\ Min(Stretch(a, b)) = Returns[a + 1].at /\ Max(Stretch(a, b)) = Returns[b].at
<1>0. /\ Column(Returns, N, 1) /\ N \in Nat /\ \A i \in 1..N : Returns[i].at \in Int
      /\ \A i, j \in 1..N : i < j => Returns[i].at < Returns[j].at
  <2>1. Column(Returns, N, 1)
    BY TheColumns
  <2> QED BY <2>1 DEF Column
<1>1. PICK c \in 1..N : c = a + 1 /\ c <= b
  <2>1. a + 1 \in 1..N /\ a + 1 <= b
    BY <1>0
  <2> QED BY <2>1
<1>2. Stretch(a, b) = {Returns[i].at : i \in c..b}
  BY <1>1 DEF Stretch
<1>3. c \in 1..(N + 1) /\ c <= b + 1 /\ b - c + 1 = b - a /\ b \in 1..N /\ b \in c..b /\ c \in c..b
  BY <1>0, <1>1
<1>4. Cardinality({Returns[i].at : i \in c..b}) = b - c + 1
  BY ONLY <1>0, <1>3, b \in 0..N, StretchCount
<1>5. \A t \in Stretch(a, b) : t \in Int /\ Returns[c].at <= t /\ t <= Returns[b].at
  <2> SUFFICES ASSUME NEW i \in c..b
               PROVE  Returns[i].at \in Int /\ Returns[c].at <= Returns[i].at /\ Returns[i].at <= Returns[b].at
    BY <1>2
  <2>1. i \in 1..N /\ (i = c \/ c < i) /\ (i = b \/ i < b)
    BY <1>0, <1>1
  <2>2. c < i => Returns[c].at < Returns[i].at
    BY <1>0, <2>1
  <2>3. i < b => Returns[i].at < Returns[b].at
    BY <1>0, <1>3, <2>1
  <2>4. Returns[i].at \in Int /\ Returns[c].at \in Int /\ Returns[b].at \in Int
    BY <1>0, <1>3, <2>1
  <2> QED BY <2>1, <2>2, <2>3, <2>4
<1>6. Returns[c].at \in Stretch(a, b) /\ Returns[b].at \in Stretch(a, b)
  BY <1>2, <1>3
<1>7. Min(Stretch(a, b)) = Returns[c].at
  BY <1>5, <1>6, MinIs
<1>8. Max(Stretch(a, b)) = Returns[b].at
  BY <1>5, <1>6, MaxIs
<1> QED BY <1>1, <1>2, <1>3, <1>4, <1>7, <1>8

\* The breaks on either side of one, or the ends of the returns.
Lower(kind, j) == Max({0} \cup {i \in Segment(kind) : i < j})
Upper(kind, j) == Min({N} \cup {i \in Segment(kind) : i > j})

\* A break is min_segment apart from the break before and after it, of its kind.
LEMMA NeighboursAre ==
  ASSUME SeriesFeed, ~job.odd, CusumAccepts, NEW kind, NEW j \in Segment(kind)
  PROVE  /\ j \in 1..(N - 1) /\ Lower(kind, j) \in 0..N /\ Upper(kind, j) \in 0..N
         /\ j - Lower(kind, j) >= MinSegment /\ Upper(kind, j) - j >= MinSegment
         /\ MinSegment \in Nat /\ MinSegment >= 2 /\ N \in Nat
         /\ \A i \in Segment(kind) : /\ i \in 0..N
                                     /\ i < j => i <= Lower(kind, j) /\ Lower(kind, j) \in Segment(kind)
                                     /\ i > j => Upper(kind, j) <= i /\ Upper(kind, j) \in Segment(kind)
         /\ Lower(kind, j) \in Segment(kind) \/ Lower(kind, j) = 0
         /\ Upper(kind, j) \in Segment(kind) \/ Upper(kind, j) = N
<1> DEFINE S == Segment(kind)
           A == {0} \cup {i \in S : i < j}
           B == {N} \cup {i \in S : i > j}
           m == MinSegment
<1>0. N \in Nat /\ m \in Nat /\ m >= 2
  BY BarColumns, CusumParams
<1>1. S \in SUBSET (m..(N - m)) /\ \A a, b \in S : a < b => b - a >= m
  BY SegmentInts
<1>2. Lower(kind, j) = Max(A) /\ Upper(kind, j) = Min(B) /\ j \in S
  BY DEF Lower, Upper
<1> HIDE DEF S, m
<1>3. A \in SUBSET (0..N) /\ A # {} /\ B \in SUBSET Nat /\ B # {} /\ \A b \in B : b \in 0..N
  <2>1. \A i \in S : i \in 0..N
    BY <1>0, <1>1
  <2>2. 0 \in 0..N /\ N \in 0..N
    BY <1>0
  <2>3. \A a \in A : a \in 0..N
    BY <2>1, <2>2
  <2>4. \A b \in B : b \in 0..N
    BY <2>1, <2>2
  <2>5. 0 \in A /\ N \in B
    OBVIOUS
  <2> HIDE DEF A, B
  <2> QED BY <1>0, <2>3, <2>4, <2>5
<1>4. Max(A) \in A /\ \A y \in A : y <= Max(A)
  BY <1>0, <1>3, MaxOfNats
<1>5. Min(B) \in B /\ \A y \in B : Min(B) <= y
  BY <1>3, MinOfNats
<1>6. j \in m..(N - m)
  BY <1>1, <1>2
<1>7. \A a \in A : a \in 0..N /\ j - a >= m
  BY <1>0, <1>1, <1>2, <1>6
<1>8. \A b \in B : b \in 0..N /\ b - j >= m
  BY <1>0, <1>1, <1>2, <1>6
<1>9. \A i \in S : i \in 0..N
  BY <1>0, <1>1
<1>10. \A i \in S : i < j => i <= Max(A) /\ Max(A) \in S
  <2> SUFFICES ASSUME NEW i \in S, i < j PROVE i <= Max(A) /\ Max(A) \in S
    OBVIOUS
  <2>1. i \in A /\ i \in Nat /\ i >= m
    BY <1>0, <1>1
  <2>2. i <= Max(A) /\ Max(A) \in Nat
    BY <1>3, <1>4, <2>1
  <2>3. Max(A) # 0
    BY <1>0, <2>1, <2>2
  <2> QED BY <1>4, <2>2, <2>3
<1>11. \A i \in S : i > j => Min(B) <= i /\ Min(B) \in S
  <2> SUFFICES ASSUME NEW i \in S, i > j PROVE Min(B) <= i /\ Min(B) \in S
    OBVIOUS
  <2>1. i \in B /\ i \in Nat /\ i <= N - m
    BY <1>0, <1>1
  <2>2. Min(B) <= i /\ Min(B) \in Nat
    BY <1>3, <1>5, <2>1
  <2>3. Min(B) # N
    BY <1>0, <2>1, <2>2
  <2> QED BY <1>5, <2>2, <2>3
<1>12. j \in 1..(N - 1)
  BY <1>0, <1>6
<1>13. (Max(A) \in S \/ Max(A) = 0) /\ (Min(B) \in S \/ Min(B) = N)
  BY <1>4, <1>5
<1>14. Max(A) \in 0..N /\ j - Max(A) >= m /\ Min(B) \in 0..N /\ Min(B) - j >= m
  BY <1>4, <1>5, <1>7, <1>8
<1> HIDE DEF A, B
<1> QED BY <1>0, <1>2, <1>9, <1>10, <1>11, <1>12, <1>13, <1>14 DEF S, m

\* The regime before a break is the one after the break before it.
LEMMA NextLower ==
  ASSUME SeriesFeed, ~job.odd, CusumAccepts, NEW kind, NEW i \in Segment(kind), NEW j \in Segment(kind),
         j = Upper(kind, i)
  PROVE  Lower(kind, j) = i
<1>1. i < j /\ i \in Int /\ j \in Int
  BY NeighboursAre
<1>2. \A k \in Segment(kind) : k \in Int /\ (k > i => j <= k)
  BY NeighboursAre
<1>3. Lower(kind, j) \in Segment(kind) /\ i <= Lower(kind, j) /\ Lower(kind, j) < j /\ Lower(kind, j) \in Int
  BY <1>1, NeighboursAre
<1> QED BY <1>1, <1>2, <1>3

\* What a break written says of its regimes.
LEMMA RegimeIs ==
  ASSUME SeriesFeed, ~job.odd, CusumAccepts, NEW kind, NEW j \in Segment(kind), NEW b, b = Regime(kind, j)
  PROVE  /\ b.kind = kind /\ b.index = j
         /\ b.pre = Stretch(Lower(kind, j), j) /\ b.post = Stretch(j, Upper(kind, j))
         /\ Cardinality(b.pre) >= MinSegment /\ Cardinality(b.post) >= MinSegment
         /\ Max(b.pre) = Returns[j].at /\ Min(b.post) = Returns[j + 1].at
         /\ Min(b.pre) = Returns[Lower(kind, j) + 1].at /\ Max(b.post) = Returns[Upper(kind, j)].at
         /\ j \in 1..N /\ j + 1 \in 1..N /\ bars[j + 2].ts = Returns[j + 1].at
         /\ Between(Max(b.pre), bars[j + 2].ts) = 1
<1> DEFINE lo == Lower(kind, j)
           hi == Upper(kind, j)
<1>0. /\ j \in 1..(N - 1) /\ lo \in 0..N /\ hi \in 0..N
      /\ j - lo >= MinSegment /\ hi - j >= MinSegment
      /\ MinSegment \in Nat /\ MinSegment >= 2 /\ N \in Nat
  BY NeighboursAre
<1>1. b.kind = kind /\ b.index = j /\ b.pre = Stretch(lo, j) /\ b.post = Stretch(j, hi)
  BY DEF Regime, Lower, Upper
<1> HIDE DEF lo, hi
<1>2. j \in 0..N /\ lo < j /\ j < hi /\ j \in 1..N /\ j + 1 \in 1..N
  BY <1>0
<1>3. /\ Cardinality(Stretch(lo, j)) = j - lo
      /\ Min(Stretch(lo, j)) = Returns[lo + 1].at /\ Max(Stretch(lo, j)) = Returns[j].at
  BY <1>0, <1>2, StretchIs
<1>4. /\ Cardinality(Stretch(j, hi)) = hi - j
      /\ Min(Stretch(j, hi)) = Returns[j + 1].at /\ Max(Stretch(j, hi)) = Returns[hi].at
  BY <1>0, <1>2, StretchIs
<1>5. PICK i \in 1..N : i = j + 1
  BY <1>2
<1>6. Returns[i].at = bars[i + 1].ts /\ i + 1 = j + 2
  BY <1>0, <1>5, ReturnsAre
<1>7. Between(Returns[j].at, Returns[i].at) = 1
  <2>1. RankOf(Returns[i].at) = i + 1 /\ RankOf(Returns[j].at) = j + 1
    BY <1>2, TheColumns DEF Column
  <2>2. (i + 1) - (j + 1) = 1
    BY <1>0, <1>5
  <2> QED BY <2>1, <2>2 DEF Between
<1>8. Cardinality(b.pre) >= MinSegment /\ Cardinality(b.post) >= MinSegment
  BY <1>0, <1>1, <1>3, <1>4
<1> QED BY <1>1, <1>2, <1>3, <1>4, <1>5, <1>6, <1>7, <1>8 DEF lo, hi

\* The breaks in the order they are found.
LEMMA BreaksInOrder ==
  ASSUME SeriesFeed, ~job.odd, CusumAccepts
  PROVE  /\ Len(BreakPoints) \in Nat /\ DOMAIN BreakPoints = 1..Len(BreakPoints)
         /\ \A i \in DOMAIN BreakPoints :
              LET b == BreakPoints[i]
              IN b.kind \in Kinds /\ b.index \in Segment(b.kind) /\ b = Regime(b.kind, b.index) /\ b.index \in 1..(N - 1)
         /\ \A k \in Kinds : \A j \in Segment(k) :
              \E i \in DOMAIN BreakPoints : BreakPoints[i].kind = k /\ BreakPoints[i].index = j
         /\ \A i, j \in DOMAIN BreakPoints :
              i < j => /\ BreakPoints[i].index <= BreakPoints[j].index
                       /\ BreakPoints[i].kind = BreakPoints[j].kind => BreakPoints[i].index < BreakPoints[j].index
<1>1. /\ Len(BreakPoints) \in Nat /\ DOMAIN BreakPoints = 1..Len(BreakPoints)
      /\ \A i \in DOMAIN BreakPoints : \E k \in Kinds : \E j \in Segment(k) : BreakPoints[i] = Regime(k, j)
      /\ \A k \in Kinds : \A j \in Segment(k) : \E i \in DOMAIN BreakPoints : BreakPoints[i] = Regime(k, j)
      /\ \A i, j \in DOMAIN BreakPoints : i < j => Rank2(BreakPoints[i]) < Rank2(BreakPoints[j])
  BY BreakPointsAre
<1>2. \A k : \A j : Regime(k, j).kind = k /\ Regime(k, j).index = j
  BY DEF Regime
<1>3. \A k : \A j \in Segment(k) : j \in 1..(N - 1)
  BY NeighboursAre
<1>4. ASSUME NEW i \in DOMAIN BreakPoints
      PROVE  LET b == BreakPoints[i]
             IN b.kind \in Kinds /\ b.index \in Segment(b.kind) /\ b = Regime(b.kind, b.index) /\ b.index \in 1..(N - 1)
  <2>1. PICK k \in Kinds : \E j \in Segment(k) : BreakPoints[i] = Regime(k, j)
    BY <1>1
  <2>2. PICK j \in Segment(k) : BreakPoints[i] = Regime(k, j)
    BY <2>1
  <2>3. BreakPoints[i].kind = k /\ BreakPoints[i].index = j
    BY <1>2, <2>2
  <2> QED BY <1>3, <2>2, <2>3
<1>5. ASSUME NEW i \in DOMAIN BreakPoints, NEW j \in DOMAIN BreakPoints, i < j
      PROVE  /\ BreakPoints[i].index <= BreakPoints[j].index
             /\ BreakPoints[i].kind = BreakPoints[j].kind => BreakPoints[i].index < BreakPoints[j].index
  <2> DEFINE a == BreakPoints[i].index
             b == BreakPoints[j].index
             c == IF BreakPoints[i].kind = "vol" THEN 1 ELSE 0
             d == IF BreakPoints[j].kind = "vol" THEN 1 ELSE 0
  <2>1. 2 * a + c < 2 * b + d
    BY <1>1, <1>5 DEF Rank2
  <2>2. a \in Int /\ b \in Int
    BY <1>4
  <2>3. c \in 0..1 /\ d \in 0..1 /\ (BreakPoints[i].kind = BreakPoints[j].kind => c = d)
    OBVIOUS
  <2> HIDE DEF a, b, c, d
  <2>4. a <= b /\ (c = d => a < b)
    BY <2>1, <2>2, <2>3
  <2> QED BY <2>3, <2>4 DEF a, b
<1> QED BY <1>1, <1>2, <1>4, <1>5

\* The returns go from the first to the last bar.
LEMMA EndsOfReturns ==
  ASSUME SeriesFeed, N >= 1
  PROVE  Returns[1].at = Min(ReturnTimes) /\ Returns[N].at = Max(BarTimes)
<1> DEFINE n == Len(bars)
<1>0. /\ Column(Levels, n, 0) /\ Column(Returns, N, 1) /\ BarTimes = Times(Levels) /\ ReturnTimes = Times(Returns)
      /\ N \in Nat /\ n \in Nat /\ N = IF n = 0 THEN 0 ELSE n - 1
  BY TheColumns, BarColumns
<1>1. /\ DOMAIN Levels = 1..n /\ \A i \in 1..n : Levels[i].at \in Int
      /\ \A i, j \in 1..n : i < j => Levels[i].at < Levels[j].at
      /\ DOMAIN Returns = 1..N /\ \A i \in 1..N : Returns[i].at \in Int
      /\ \A i, j \in 1..N : i < j => Returns[i].at < Returns[j].at
  BY <1>0 DEF Column
<1> HIDE DEF n
<1>2. /\ BarTimes = {Levels[i].at : i \in 1..n} /\ ReturnTimes = {Returns[i].at : i \in 1..N}
      /\ 1 \in 1..N /\ n \in 1..n /\ N \in 1..N /\ N + 1 = n
  BY <1>0, <1>1 DEF Times
<1>3. \A t \in ReturnTimes : t \in Int /\ Returns[1].at <= t
  <2> SUFFICES ASSUME NEW i \in 1..N PROVE Returns[i].at \in Int /\ Returns[1].at <= Returns[i].at
    BY <1>2
  <2>1. (i = 1 \/ 1 < i) /\ 1 \in 1..N
    BY <1>2
  <2>2. 1 < i => Returns[1].at < Returns[i].at
    BY <1>1, <1>2
  <2>3. Returns[1].at \in Int /\ Returns[i].at \in Int
    BY <1>1, <1>2
  <2> QED BY <2>1, <2>2, <2>3
<1>4. \A t \in BarTimes : t \in Int /\ t <= Levels[n].at
  <2> SUFFICES ASSUME NEW i \in 1..n PROVE Levels[i].at \in Int /\ Levels[i].at <= Levels[n].at
    BY <1>2
  <2>1. i = n \/ i < n
    BY <1>0
  <2>2. i < n => Levels[i].at < Levels[n].at
    BY <1>1, <1>2
  <2>3. Levels[n].at \in Int /\ Levels[i].at \in Int
    BY <1>1, <1>2
  <2> QED BY <2>1, <2>2, <2>3
<1>5. Returns[1].at \in ReturnTimes /\ Levels[n].at \in BarTimes
  BY <1>2
<1>6. Min(ReturnTimes) = Returns[1].at
  BY <1>3, <1>5, MinIs
<1>7. Max(BarTimes) = Levels[n].at
  BY <1>4, <1>5, MaxIs
<1>8. Returns[N].at = bars[N + 1].ts /\ Levels[n].at = bars[n].ts
  BY <1>2, ReturnsAre, LevelsAre DEF n
<1> QED BY <1>2, <1>6, <1>7, <1>8

\* What a written break says of the ones before and after it.
LEMMA BreaksFollow ==
  ASSUME SeriesInv, job.scan = "cusum", NEW r \in DOMAIN out
  PROVE  RegimeFollows(r)
<1> DEFINE at(i) == out[i].numbers[1].at
           p(i) == out[i].numbers[1].point
           same == {i \in DOMAIN out : p(i).kind = p(r).kind}
           later == {i \in same : i > r}
           k == BreakPoints[r].kind
           j == BreakPoints[r].index
<1>1. job.scan \notin PairKinds
  BY DEF PairKinds
<1>2. SeriesFeed /\ SeriesControl /\ SeriesAccepted /\ found \in Kernel /\ r \in DOMAIN found
  BY <1>1, WrittenAreFound
<1>3. ~job.odd /\ CusumAccepts
  BY <1>2 DEF SeriesAccepted
<1>4. found = CusumFound(BreakPoints)
  BY <1>1, <1>2, KernelIs
<1>5. /\ Len(BreakPoints) \in Nat /\ DOMAIN BreakPoints = 1..Len(BreakPoints)
      /\ \A i \in DOMAIN BreakPoints :
           LET b == BreakPoints[i]
           IN b.kind \in Kinds /\ b.index \in Segment(b.kind) /\ b = Regime(b.kind, b.index) /\ b.index \in 1..(N - 1)
      /\ \A kk \in Kinds : \A jj \in Segment(kk) :
           \E i \in DOMAIN BreakPoints : BreakPoints[i].kind = kk /\ BreakPoints[i].index = jj
      /\ \A i, h \in DOMAIN BreakPoints :
           i < h => /\ BreakPoints[i].index <= BreakPoints[h].index
                    /\ BreakPoints[i].kind = BreakPoints[h].kind => BreakPoints[i].index < BreakPoints[h].index
  BY <1>2, <1>3, BreaksInOrder
<1>6. /\ DOMAIN found = DOMAIN BreakPoints
      /\ \A i \in DOMAIN found : /\ found[i].numbers[1].point = BreakPoints[i]
                                 /\ found[i].numbers[1].at = bars[BreakPoints[i].index + 2].ts
  BY <1>4 DEF CusumFound, Found
<1>7. PICK m \in Nat : DOMAIN out = 1..m /\ Len(out) = m /\ m <= Len(BreakPoints)
  <2>1. Len(out) \in Nat /\ DOMAIN out = 1..Len(out) /\ Len(out) <= Len(found)
    BY <1>2, LenProperties DEF SeriesControl
  <2>2. Len(found) = Len(BreakPoints)
    BY <1>5, <1>6, LenIs
  <2> QED BY <2>1, <2>2
<1>8. \A i \in 1..m : /\ i \in DOMAIN BreakPoints /\ i \in Nat
                      /\ p(i) = BreakPoints[i] /\ at(i) = bars[BreakPoints[i].index + 2].ts
  <2> TAKE i \in 1..m
  <2>1. i \in DOMAIN out /\ i \in DOMAIN BreakPoints /\ i \in Nat
    BY <1>5, <1>7
  <2>2. out[i] = found[i]
    BY <1>2, <2>1 DEF SeriesControl
  <2> QED BY <1>6, <2>1, <2>2
<1>9. r \in 1..m /\ r \in DOMAIN BreakPoints
  BY <1>7, <1>8
<1>10. /\ same = {i \in 1..m : BreakPoints[i].kind = k}
       /\ later = {i \in 1..m : BreakPoints[i].kind = k /\ i > r}
  BY <1>7, <1>8, <1>9
<1> HIDE DEF at, p, same, later
<1>11. ASSUME NEW i \in DOMAIN BreakPoints
       PROVE  /\ BreakPoints[i].index \in Segment(BreakPoints[i].kind) /\ BreakPoints[i].kind \in Kinds
              /\ BreakPoints[i].index \in 1..N /\ BreakPoints[i].index + 1 \in 1..N
              /\ BreakPoints[i].pre = Stretch(Lower(BreakPoints[i].kind, BreakPoints[i].index), BreakPoints[i].index)
              /\ BreakPoints[i].post = Stretch(BreakPoints[i].index, Upper(BreakPoints[i].kind, BreakPoints[i].index))
              /\ bars[BreakPoints[i].index + 2].ts = Returns[BreakPoints[i].index + 1].at
  <2>1. PICK b : b = BreakPoints[i]
    OBVIOUS
  <2>2. PICK kk : kk = b.kind
    OBVIOUS
  <2>3. PICK jj \in Segment(kk) : jj = b.index
    BY <1>5, <2>1, <2>2
  <2>4. b = Regime(kk, jj) /\ kk \in Kinds
    BY <1>5, <2>1, <2>2, <2>3
  <2>5. /\ b.pre = Stretch(Lower(kk, jj), jj) /\ b.post = Stretch(jj, Upper(kk, jj))
        /\ jj \in 1..N /\ jj + 1 \in 1..N /\ bars[jj + 2].ts = Returns[jj + 1].at
    BY <1>2, <1>3, <2>4, RegimeIs
  <2> QED BY <2>1, <2>2, <2>3, <2>4, <2>5
<1>12. /\ k \in Kinds /\ j \in Segment(k) /\ BreakPoints[r] = Regime(k, j)
  BY <1>5, <1>9
<1>13. PICK b : b = BreakPoints[r]
  OBVIOUS
<1>14. p(r) = b /\ at(r) = bars[j + 2].ts /\ b = Regime(k, j)
  BY <1>8, <1>9, <1>12, <1>13
<1> HIDE DEF k, j
<1>15. /\ b.kind = k /\ b.index = j
       /\ b.pre = Stretch(Lower(k, j), j) /\ b.post = Stretch(j, Upper(k, j))
       /\ Cardinality(b.pre) >= MinSegment /\ Cardinality(b.post) >= MinSegment
       /\ Max(b.pre) = Returns[j].at /\ Min(b.post) = Returns[j + 1].at
       /\ Min(b.pre) = Returns[Lower(k, j) + 1].at /\ Max(b.post) = Returns[Upper(k, j)].at
       /\ j \in 1..N /\ j + 1 \in 1..N /\ bars[j + 2].ts = Returns[j + 1].at
       /\ Between(Max(b.pre), bars[j + 2].ts) = 1
  BY <1>2, <1>3, <1>12, <1>14, RegimeIs
<1>16. \A i \in DOMAIN out : i < r => at(i) < at(r) \/ (at(i) = at(r) /\ i \notin same)
  <2> SUFFICES ASSUME NEW i \in 1..m, i < r PROVE at(i) < at(r) \/ (at(i) = at(r) /\ i \notin same)
    BY <1>7
  <2>1. i \in DOMAIN BreakPoints
    BY <1>8
  <2>2. PICK h \in 1..N : h = BreakPoints[i].index /\ h + 1 \in 1..N /\ at(i) = Returns[h + 1].at
    BY <1>8, <1>11, <2>1
  <2>3. h <= j /\ (BreakPoints[i].kind = k => h < j)
    BY <1>5, <1>9, <2>1, <2>2 DEF k, j
  <2>4. CASE h < j
    <3>1. PICK x \in 1..N : x = h + 1
      BY <2>2
    <3>2. PICK y \in 1..N : y = j + 1
      BY <1>15
    <3>3. x < y
      BY <2>4, <3>1, <3>2, <1>15, BarColumns, <1>2
    <3>4. Returns[x].at < Returns[y].at
      BY <1>2, <3>3, TheColumns DEF Column
    <3> QED BY <1>14, <1>15, <2>2, <3>1, <3>2, <3>4
  <2>5. CASE h = j
    <3>1. BreakPoints[i].kind # k
      BY <2>3, <2>5, <1>15
    <3>2. i \notin same
      BY <1>10, <3>1
    <3> QED BY <1>14, <1>15, <2>2, <2>5, <3>2
  <2>6. h < j \/ h = j
    BY <1>2, <1>15, <2>3, BarColumns
  <2> QED BY <2>4, <2>5, <2>6
<1>17. \A i \in DOMAIN BreakPoints : \A h \in DOMAIN BreakPoints :
         BreakPoints[i].kind = k /\ BreakPoints[h].kind = k /\ BreakPoints[i].index < BreakPoints[h].index => i < h
  <2> SUFFICES ASSUME NEW i \in DOMAIN BreakPoints, NEW h \in DOMAIN BreakPoints,
                      BreakPoints[i].kind = k, BreakPoints[h].kind = k,
                      BreakPoints[i].index < BreakPoints[h].index
               PROVE  i < h
    OBVIOUS
  <2>1. i \in Int /\ h \in Int /\ BreakPoints[i].index \in Int /\ BreakPoints[h].index \in Int
    BY <1>2, <1>5, <1>11, BarColumns
  <2>2. ~(h < i)
    <3> SUFFICES ASSUME h < i PROVE FALSE
      OBVIOUS
    <3>1. BreakPoints[h].index < BreakPoints[i].index
      BY <1>5
    <3> QED BY <2>1, <3>1
  <2>3. i # h
    BY <2>1
  <2> QED BY <2>1, <2>2, <2>3
<1>18. later # {} => p(Min(later)).pre = b.post
  <2> SUFFICES ASSUME later # {} PROVE p(Min(later)).pre = b.post
    OBVIOUS
  <2>1. later \in SUBSET Nat
    BY <1>8, <1>10
  <2>2. PICK s : s = Min(later) /\ s \in later /\ \A y \in later : s <= y
    BY <2>1, MinOfNats
  <2>3. s \in 1..m /\ s \in DOMAIN BreakPoints /\ BreakPoints[s].kind = k /\ s > r /\ s \in Nat
    BY <1>8, <1>10, <2>2
  <2>4. PICK h \in Segment(k) : h = BreakPoints[s].index /\ h > j
    <3>1. r < s /\ BreakPoints[r].kind = BreakPoints[s].kind
      BY <1>9, <2>1, <2>2, <2>3 DEF k
    <3>2. BreakPoints[r].index < BreakPoints[s].index
      BY <1>5, <1>9, <2>3, <3>1
    <3>3. BreakPoints[s].index \in Segment(k) /\ BreakPoints[s].index \in 1..N
      BY <1>11, <2>3
    <3>4. BreakPoints[s].index > j
      BY <1>2, <1>15, <3>2, <3>3, BarColumns DEF j
    <3> QED BY <3>3, <3>4
  <2>5. PICK u \in Segment(k) : u = Upper(k, j) /\ u <= h
    BY <1>2, <1>3, <1>12, <2>4, NeighboursAre DEF k, j
  <2>6. u > j /\ u \in 0..N /\ h \in 0..N /\ j \in 0..N
    BY <1>2, <1>3, <1>15, <2>4, <2>5, NeighboursAre, <1>12 DEF k, j
  <2>7. u = h
    <3> SUFFICES ASSUME u < h PROVE FALSE
      BY <2>5, <2>6, <1>2, BarColumns
    <3>1. PICK i \in DOMAIN BreakPoints : BreakPoints[i].kind = k /\ BreakPoints[i].index = u
      BY <1>5, <1>12 DEF k
    <3>2. r < i
      BY <1>9, <1>13, <1>15, <1>17, <2>6, <3>1 DEF k, j
    <3>3. i < s
      BY <1>17, <2>3, <2>4, <3>1
    <3>4. i \in 1..m
      BY <1>5, <1>7, <2>3, <3>3
    <3>5. i \in later
      BY <1>10, <3>1, <3>2, <3>4, <1>9
    <3> QED BY <2>2, <2>3, <3>3, <3>4, <3>5
  <2>8. Lower(k, h) = j
    <3>1. PICK x \in Segment(k) : x = j
      BY <1>12
    <3>2. h = Upper(k, x)
      BY <2>5, <2>7, <3>1
    <3>3. Lower(k, h) = x
      BY ONLY <1>2, <1>3, <3>2, x \in Segment(k), h \in Segment(k), NextLower
    <3> QED BY <3>1, <3>3
  <2>9. p(s).pre = Stretch(Lower(k, h), h)
    BY <1>8, <1>11, <2>3, <2>4
  <2> QED BY <1>15, <2>2, <2>5, <2>7, <2>8, <2>9
<1>19. res = "Ok" /\ ~cancel /\ later = {} => Max(b.post) = Max(BarTimes)
  <2> SUFFICES ASSUME res = "Ok", ~cancel, later = {} PROVE Max(b.post) = Max(BarTimes)
    OBVIOUS
  <2>1. DOMAIN BreakPoints = 1..m
    <3>1. Len(out) = Len(found)
      BY <1>2 DEF SeriesControl
    <3>2. Len(found) = Len(BreakPoints)
      BY <1>5, <1>6, LenIs
    <3> QED BY <1>5, <1>7, <3>1, <3>2
  <2>2. Upper(k, j) \notin Segment(k)
    <3> SUFFICES ASSUME NEW u \in Segment(k), u = Upper(k, j) PROVE FALSE
      OBVIOUS
    <3>1. u > j
      BY <1>2, <1>3, <1>12, <1>15, NeighboursAre DEF k, j
    <3>2. PICK i \in DOMAIN BreakPoints : BreakPoints[i].kind = k /\ BreakPoints[i].index = u
      BY <1>5, <1>12 DEF k
    <3>3. r < i
      BY <1>9, <1>13, <1>15, <1>17, <3>1, <3>2 DEF k, j
    <3>4. i \in later
      BY <1>9, <1>10, <2>1, <3>2, <3>3
    <3> QED BY <3>4
  <2>3. Upper(k, j) = N
    BY <1>2, <1>3, <1>12, <2>2, NeighboursAre DEF k, j
  <2>4. N >= 1
    BY <1>2, <1>15, BarColumns
  <2> QED BY <1>2, <1>15, <2>3, <2>4, EndsOfReturns
<1>20. r = Min(same) => Min(b.pre) = Min(ReturnTimes)
  <2> SUFFICES ASSUME r = Min(same) PROVE Min(b.pre) = Min(ReturnTimes)
    OBVIOUS
  <2>1. same \in SUBSET Nat /\ r \in same
    BY <1>8, <1>9, <1>10 DEF k
  <2>2. \A y \in same : r <= y
    BY <2>1, MinOfNats
  <2>3. Lower(k, j) \notin Segment(k)
    <3> SUFFICES ASSUME NEW u \in Segment(k), u = Lower(k, j) PROVE FALSE
      OBVIOUS
    <3>1. u < j
      BY <1>2, <1>3, <1>12, <1>15, NeighboursAre DEF k, j
    <3>2. PICK i \in DOMAIN BreakPoints : BreakPoints[i].kind = k /\ BreakPoints[i].index = u
      BY <1>5, <1>12 DEF k
    <3>3. i < r
      BY <1>9, <1>13, <1>15, <1>17, <3>1, <3>2 DEF k, j
    <3>4. i \in 1..m /\ i \in Nat
      BY <1>5, <1>7, <1>9, <3>3
    <3>5. i \in same
      BY <1>10, <3>2, <3>4
    <3> QED BY <1>8, <1>9, <2>2, <3>3, <3>4, <3>5
  <2>4. Lower(k, j) = 0
    BY <1>2, <1>3, <1>12, <2>3, NeighboursAre DEF k, j
  <2>5. N >= 1
    BY <1>2, <1>15, BarColumns
  <2>6. 0 + 1 = 1
    OBVIOUS
  <2> QED BY <1>2, <1>15, <2>4, <2>5, <2>6, EndsOfReturns
<1>21. at(r) = Min(b.post) /\ Between(Max(b.pre), at(r)) = 1
  BY <1>14, <1>15
<1> QED BY <1>14, <1>15, <1>16, <1>18, <1>19, <1>20, <1>21 DEF RegimeFollows, at, p, same, later

\* RegimesFollow of ScanRun.
THEOREM RegimesHold == Spec => []RegimesFollow
<1>1. SeriesInv => RegimesFollow
  BY BreaksFollow DEF RegimesFollow
<1> QED BY <1>1, SeriesInvariant, PTL

----------------------------------------------------------------------------
(* No accepted request panics, but for the variance test. *)

\* Four whole blocks make three pairs of neighbours.
LEMMA ThreePairs ==
  ASSUME SeriesFeed, NEW k \in Nat \ {0}, N \div k >= 4
  PROVE  Cardinality(BlockPairs(k)) \in Nat /\ Cardinality(BlockPairs(k)) >= 3
<1>0. N \in Nat /\ \A i, j \in 1..N : i < j => Returns[i].at < Returns[j].at
  <2>1. \A i \in 1..N : Returns[i].at \in Int
    BY BarColumns, ReturnsAre
  <2>2. DOMAIN Returns = 1..N /\ N \in Nat
    BY BarColumns
  <2> QED BY <2>2, BesideBars DEF Beside
<1>1. \A i \in 1..N : Returns[i].at \in Int
  BY BarColumns, ReturnsAre
<1> DEFINE q == N \div k
           pair(b) == <<Block(k, b), Block(k, b + 1)>>
<1>2. q \in Nat /\ q >= 4
  BY <1>0
<1>3. BlockPairs(k) = {pair(b) : b \in 0..(q - 2)}
  BY DEF BlockPairs
<1>4. ASSUME NEW b \in 0..(q - 2)
      PROVE  Block(k, b)[1] \in Int /\ Block(k, b + 1)[1] \in Int /\ Block(k, b)[1] < Block(k, b + 1)[1]
  <2>1. PICK c \in Nat : /\ c + 1 \in 1..N /\ c + k + 1 \in 1..N
                         /\ Block(k, b) = <<Returns[c + 1].at, Returns[c + k].at>>
                         /\ Block(k, b + 1) = <<Returns[c + k + 1].at, Returns[c + k + k].at>>
    BY BlockIs
  <2>2. c + 1 < c + k + 1
    OBVIOUS
  <2>3. Returns[c + 1].at < Returns[c + k + 1].at
    BY <1>0, <2>1, <2>2
  <2>4. Returns[c + 1].at \in Int /\ Returns[c + k + 1].at \in Int
    BY <1>1, <2>1
  <2>5. Block(k, b)[1] = Returns[c + 1].at /\ Block(k, b + 1)[1] = Returns[c + k + 1].at
    BY <2>1
  <2> QED BY <2>3, <2>4, <2>5
<1>5. IsFiniteSet(BlockPairs(k))
  <2> DEFINE f == [b \in 0..(q - 2) |-> pair(b)]
  <2>1. f \in Surjection(0..(q - 2), BlockPairs(k))
    BY <1>3 DEF Surjection
  <2>2. IsFiniteSet(0..(q - 2))
    BY <1>2, FS_Interval
  <2> QED BY <2>1, <2>2, FS_Surjection
<1>6. PICK a \in Nat, b \in Nat, c \in Nat : a = 0 /\ b = a + 1 /\ c = b + 1
  <2>1. \E a \in Nat, b \in Nat, c \in Nat : a = 0 /\ b = a + 1 /\ c = b + 1
    <3> WITNESS 0 \in Nat, 1 \in Nat, 2 \in Nat
    <3> QED OBVIOUS
  <2> QED BY <2>1
<1>7. a \in 0..(q - 2) /\ b \in 0..(q - 2) /\ c \in 0..(q - 2)
  BY <1>2, <1>6
<1> HIDE DEF q
<1>8. /\ Block(k, a)[1] \in Int /\ Block(k, b)[1] \in Int /\ Block(k, c)[1] \in Int
      /\ Block(k, a)[1] < Block(k, b)[1] /\ Block(k, b)[1] < Block(k, c)[1]
  BY <1>4, <1>6, <1>7
<1>9. \A x : pair(x)[1] = Block(k, x)
  OBVIOUS
<1>10. {pair(a), pair(b), pair(c)} \subseteq BlockPairs(k)
  BY <1>3, <1>7
<1> HIDE DEF pair
<1>11. pair(a) # pair(b) /\ pair(b) # pair(c) /\ pair(a) # pair(c)
  BY <1>8, <1>9
<1>12. Cardinality({pair(a), pair(b), pair(c)}) = 3
  <2> DEFINE x == pair(a)
             y == pair(b)
             z == pair(c)
  <2> HIDE DEF x, y, z
  <2>0. x # y /\ y # z /\ x # z
    BY <1>11 DEF x, y, z
  <2>1. IsFiniteSet({x}) /\ Cardinality({x}) = 1
    BY FS_Singleton
  <2>2. IsFiniteSet({x} \cup {y}) /\ Cardinality({x} \cup {y}) = 2
    BY <2>0, <2>1, FS_AddElement
  <2>3. Cardinality(({x} \cup {y}) \cup {z}) = 3
    BY <2>0, <2>2, FS_AddElement
  <2>4. ({x} \cup {y}) \cup {z} = {x, y, z}
    OBVIOUS
  <2>5. Cardinality({x, y, z}) = 3
    BY <2>3, <2>4
  <2> QED BY <2>5 DEF x, y, z
<1>13. Cardinality({pair(a), pair(b), pair(c)}) <= Cardinality(BlockPairs(k)) /\ Cardinality(BlockPairs(k)) \in Nat
  BY <1>5, <1>10, FS_Subset, FS_CardinalityType
<1> QED BY <1>12, <1>13

\* The momentum scan has three pairs of blocks wherever it takes their correlation.
LEMMA TsmomNeverPanics ==
  ASSUME SeriesFeed, ~job.odd, TsmomAccepts
  PROVE  ~TsmomPanics
<1> SUFFICES ASSUME NEW i \in DOMAIN Holds PROVE ~(Cardinality(BlockPairs(Holds[i])) - 2 < 1)
  BY DEF TsmomPanics
<1>1. Holds[i] >= 1 /\ N \div Holds[i] >= 4
  BY DEF TsmomAccepts
<1>2. Holds[i] \in Int
  <2>1. CASE Given("k_values")
    <3>1. Holds \in Seq(Int)
      BY <2>1 DEF Holds, Param, Given, SeriesFeed, Typed
    <3> QED BY <3>1, LenProperties
  <2>2. CASE ~Given("k_values")
    <3>1. Holds = <<1, 5, 10, 20>>
      BY <2>2 DEF Holds, Param
    <3> QED BY <3>1
  <2> QED BY <2>1, <2>2
<1>3. Holds[i] \in Nat \ {0}
  BY <1>1, <1>2
<1> QED BY <1>1, <1>3, ThreePairs

\* There are finitely many returns.
LEMMA ReturnTimesFinite == ASSUME SeriesFeed PROVE IsFiniteSet(ReturnTimes)
<1>1. ReturnTimes = Times(Returns) /\ DOMAIN Returns = 1..N /\ N \in Nat
  BY TheColumns, BarColumns
<1> DEFINE f == [i \in 1..N |-> Returns[i].at]
<1>2. f \in Surjection(1..N, ReturnTimes)
  BY <1>1 DEF Surjection, Times
<1>3. IsFiniteSet(1..N)
  BY <1>1, FS_Interval
<1> QED BY <1>2, <1>3, FS_Surjection

\* The degrees of freedom within the groups of the variance test are none only when
\* every group is a single return.
LEMMA AnovaPanicsOnSingles ==
  ASSUME SeriesFeed, SeriesAccepted, job.scan = "anova", AnovaPanics
  PROVE  MinGroup = 1 /\ \A b \in Groups : Cardinality(DerivedGroups[b]) = 1
<1> DEFINE v == [b \in Groups |-> Cardinality(DerivedGroups[b]) - 1]
           D(g, s) ==
             IF s = {} THEN 0
             ELSE LET x == CHOOSE x \in s : TRUE
                  IN  (Cardinality(DerivedGroups[x]) - 1) + g[s \ {x}]
           it[s \in SUBSET Groups] == D(it, s)
<1>0. /\ IsFiniteSet(Groups) /\ Groups \subseteq DOMAIN DerivedGroups
      /\ \A b \in DOMAIN DerivedGroups : DerivedGroups[b] = {t \in ReturnTimes : Belongs(Via, FxMajor, 3, t, b)}
  BY GroupsAre
<1>1. FreedomWithin = it[Groups]
  BY DEF FreedomWithin, MapThenSumSet, MapThenFoldSet
<1>2. it = CHOOSE h : h = [s \in SUBSET Groups |-> D(h, s)]
  BY DEF it
<1>3. \A b \in Groups : v[b] = Cardinality(DerivedGroups[b]) - 1
  OBVIOUS
<1>31. MinGroup \in Int /\ MinGroup >= 1 /\ Cardinality(Groups) >= 2
  <2>1. MinGroup \in Int
    BY DEF MinGroup, Param, Given, SeriesFeed, Typed, SeriesAccepted
  <2> QED BY <2>1 DEF SeriesAccepted, AnovaAccepts
<1>4. ASSUME NEW b \in Groups
      PROVE  Cardinality(DerivedGroups[b]) \in Nat /\ Cardinality(DerivedGroups[b]) >= MinGroup
  <2>1. IsFiniteSet(ReturnTimes)
    BY ReturnTimesFinite
  <2>2. DerivedGroups[b] \subseteq ReturnTimes
    BY <1>0
  <2>3. IsFiniteSet(DerivedGroups[b])
    BY <2>1, <2>2, FS_Subset
  <2> QED BY <2>3, FS_CardinalityType DEF Groups
<1>5. Sums!IsFiniteSet(Groups)
  BY <1>0 DEF IsFiniteSet, Sums!IsFiniteSet
<1> HIDE DEF it, v
<1>6. PICK h : Sums!Totals(h, v, Groups)
  BY <1>5, Sums!TotalsExist
<1>7. \A g, s : s \in SUBSET Groups => Sums!AddedUp(v, g, s) = D(g, s)
  BY <1>3 DEF Sums!AddedUp, Sums!OneOf
<1>8. \A g : [s \in SUBSET Groups |-> Sums!AddedUp(v, g, s)] = [s \in SUBSET Groups |-> D(g, s)]
  BY <1>7
<1> HIDE DEF D
<1>9. Sums!Totals(it, v, Groups)
  <2>1. h = [s \in SUBSET Groups |-> D(h, s)]
    BY <1>6, <1>8 DEF Sums!Totals
  <2>2. it = [s \in SUBSET Groups |-> D(it, s)]
    BY <1>2, <2>1, Zenon
  <2>3. it = [s \in SUBSET Groups |-> Sums!AddedUp(v, it, s)]
    BY <1>8, <2>2
  <2> QED BY <2>3 DEF Sums!Totals
<1>10. \A b \in Groups : v[b] \in Int /\ v[b] >= 0
  BY <1>3, <1>31, <1>4
<1>11. it[Groups] \in Int /\ \A b \in Groups : v[b] <= it[Groups]
  BY <1>5, <1>9, <1>10, Sums!TotalsAre
<1>12. it[Groups] < 1
  BY <1>1 DEF AnovaPanics
<1>13. \A b \in Groups : Cardinality(DerivedGroups[b]) = 1
  BY <1>3, <1>4, <1>10, <1>11, <1>12
<1>14. Groups # {}
  BY <1>31, FS_EmptySet
<1> QED BY <1>4, <1>13, <1>14, <1>31

\* A scan over two legs panics never.
PairCalm == job.scan \in PairKinds => res # "Panic"

\* No step over two legs panics,
LEMMA PairCalmNext == IndInv /\ PairCalm /\ [Next]_vars => PairCalm'
<1> SUFFICES ASSUME IndInv, PairCalm, [Next]_vars, job'.scan \in PairKinds PROVE res' # "Panic"
  BY DEF PairCalm
<1>1. UNCHANGED job
  BY DEF Next, Interrupt, PairNext, Enter, JoinStep, Resolve, PollBefore, RunKernel, PollAfter,
         EmitAll, FitWindow, FitsDone, EmitWindow, Start, Params, PollRow, RunSeries, WriteFound, Stopped,
         vars, dataVars
<1>2. pc \in PairPcs /\ res # "Panic"
  BY <1>1 DEF IndInv, PairInv, Written, PairCalm
<1>3. CASE PairNext
  BY <1>2, <1>3 DEF PairNext, Enter, JoinStep, Resolve, PollBefore, RunKernel, PollAfter, EmitAll, FitWindow,
                    FitsDone, EmitWindow, PollThen, Goto, Return
<1>4. CASE Interrupt \/ Stopped \/ UNCHANGED vars
  BY <1>2, <1>4 DEF Interrupt, Stopped, vars
<1> QED BY <1>2, <1>3, <1>4 DEF Next, PairPcs, Start, Params, PollRow, RunSeries, WriteFound

\* and nothing has panicked at the start.
LEMMA PairCalmInit == Init => PairCalm
BY DEF Init, PairCalm

\* NoPanic of ScanRun.
LEMMA PanicsAsSaid == IndInv /\ PairCalm /\ SeriesInv => NoPanic
<1> SUFFICES ASSUME IndInv, PairCalm, SeriesInv PROVE NoPanic
  OBVIOUS
<1>1. CASE job.scan \in PairKinds
  <2>1. res # "Panic" /\ (res = "Kernel" => out = <<>>)
    BY <1>1 DEF PairCalm, IndInv, PairInv, Written
  <2> QED BY <2>1 DEF NoPanic
<1>2. CASE job.scan \notin PairKinds
  <2>1. SeriesFeed /\ (res \in {"Kernel", "Panic"} => out = <<>>) /\ (res = "Panic" => SeriesAccepted /\ Panics)
    BY <1>2 DEF SeriesInv, SeriesControl
  <2>2. ASSUME res = "Panic" PROVE /\ job.scan = "anova" /\ MinGroup = 1
                                   /\ \A b \in Groups : Cardinality(DerivedGroups[b]) = 1
    <3>1. SeriesAccepted /\ Panics
      BY <2>1, <2>2
    <3>2. CASE job.scan = "tsmom" /\ TsmomPanics
      <4>1. ~job.odd /\ TsmomAccepts
        BY <3>1, <3>2 DEF SeriesAccepted
      <4> QED BY <2>1, <3>2, <4>1, TsmomNeverPanics
    <3>3. CASE job.scan = "anova" /\ AnovaPanics
      BY <2>1, <3>1, <3>3, AnovaPanicsOnSingles
    <3> QED BY <3>1, <3>2, <3>3 DEF Panics
  <2> QED BY <2>1, <2>2 DEF NoPanic
<1> QED BY <1>1, <1>2

----------------------------------------------------------------------------
(* What the catalogue says of a scan over one instrument. *)

Takes(key, values) == Given(key) => job.p[key] \in values
ReadAs(key, value) == ~Given(key) => Resolved(key) = value

\* A number that is large enough is a value the schema names.
LEMMA AtLeastIs == ASSUME NEW v \in Int, NEW k \in Nat, v >= k PROVE v \in AtLeast(k)
BY DEF AtLeast

\* A request over one instrument carries its parameters as they were given.
LEMMA SeriesArgs == ASSUME job.scan \notin PairKinds PROVE Args = job.p
BY DEF Args

\* A request is what a declaration asks for when its required parameters are given, the
\* given ones are taken and the others read as the default.
LEMMA AskedAs ==
  ASSUME job.scan \notin PairKinds, NEW params, NEW required, NEW defaults, NEW series, NEW hygiene,
         \A k \in required : Given(k),
         \A k \in DOMAIN params \ {"min_periods"} : Takes(k, params[k]),
         \A k \in DOMAIN defaults : ReadAs(k, defaults[k])
  PROVE  AskedFor(Declaration(params, required, defaults, series, hygiene))
<1> DEFINE d == Declaration(params, required, defaults, series, hygiene)
<1>1. d.params = params /\ d.required = required /\ d.defaults = defaults
  BY DEF Declaration
<1> HIDE DEF d
<1>2. Args = job.p
  BY SeriesArgs
<1>3. AskedFor(d)
  BY <1>1, <1>2 DEF AskedFor, Takes, ReadAs, Given
<1> QED BY <1>3 DEF d

\* Each scan takes and reads what its declaration says. First the tests,
LEMMA LjungBoxAsked ==
  ASSUME SeriesFeed, ~job.odd, LjungBoxAccepts, job.scan \notin PairKinds
  PROVE  AskedFor(LjungBoxScan) /\ AskedFor(LjungBoxSqScan)
<1> DEFINE params == [lags |-> AtLeast(1)]
<1>1. Takes("lags", AtLeast(1))
  <2> SUFFICES ASSUME Given("lags") PROVE job.p["lags"] \in AtLeast(1)
    BY DEF Takes
  <2>1. job.p["lags"] \in Int /\ Lags = job.p["lags"]
    BY DEF SeriesFeed, Typed, Given, Lags, Param
  <2> QED BY <2>1, AtLeastIs DEF LjungBoxAccepts
<1>2. \A k \in DOMAIN params \ {"min_periods"} : Takes(k, params[k])
  BY <1>1
<1>3. \A k \in {} : Given(k)
  OBVIOUS
<1>4. \A k \in DOMAIN NoDefaults : ReadAs(k, NoDefaults[k])
  BY DEF NoDefaults
<1> HIDE DEF params
<1>5. AskedFor(Declaration(params, {}, NoDefaults, "returns", EveryHygiene))
  BY <1>2, <1>3, <1>4, AskedAs
<1> QED BY <1>5 DEF LjungBoxScan, LjungBoxSqScan, params

\* the unit-root test,
LEMMA AdfAsked ==
  ASSUME SeriesFeed, ~job.odd, AdfAccepts, job.scan \notin PairKinds
  PROVE  AskedFor(AdfScan)
<1> DEFINE params == [max_lag |-> Nat, regression |-> {"nc", "c", "ct", "ctt"},
                      autolag |-> {"AIC", "BIC", "None"}]
           defaults == [regression |-> "c", autolag |-> "AIC"]
<1>1. Takes("max_lag", Nat) /\ Takes("regression", {"nc", "c", "ct", "ctt"})
      /\ Takes("autolag", {"AIC", "BIC", "None"})
  BY DEF Takes, SeriesFeed, Typed, Given, MaxLag, Regression, Autolag, Param, AdfAccepts, DetCount
<1>2. \A k \in DOMAIN params \ {"min_periods"} : Takes(k, params[k])
  BY <1>1
<1>3. ReadAs("regression", "c") /\ ReadAs("autolag", "AIC")
  BY DEF ReadAs, Resolved, Regression, Autolag, Param
<1>4. \A k \in DOMAIN defaults : ReadAs(k, defaults[k])
  BY <1>3
<1>5. \A k \in {} : Given(k)
  OBVIOUS
<1> HIDE DEF params, defaults
<1>6. AskedFor(Declaration(params, {}, defaults, "closes", EveryHygiene))
  BY <1>2, <1>4, <1>5, AskedAs
<1> QED BY <1>6 DEF AdfScan, params, defaults

\* the stationarity test,
LEMMA KpssAsked ==
  ASSUME SeriesFeed, ~job.odd, KpssAccepts, job.scan \notin PairKinds
  PROVE  AskedFor(KpssScan)
<1> DEFINE params == [regression |-> {"c", "ct"}, nlags |-> Nat \cup {AutoLag}]
           defaults == [regression |-> "c", nlags |-> AutoLag]
<1>1. Takes("regression", {"c", "ct"}) /\ Takes("nlags", Nat \cup {AutoLag})
  BY DEF Takes, SeriesFeed, Typed, Given, Regression, Nlags, Param, KpssAccepts
<1>2. \A k \in DOMAIN params \ {"min_periods"} : Takes(k, params[k])
  BY <1>1
<1>3. ReadAs("regression", "c") /\ ReadAs("nlags", AutoLag)
  BY DEF ReadAs, Resolved, Regression, Nlags, Param
<1>4. \A k \in DOMAIN defaults : ReadAs(k, defaults[k])
  BY <1>3
<1>5. \A k \in {} : Given(k)
  OBVIOUS
<1> HIDE DEF params, defaults
<1>6. AskedFor(Declaration(params, {}, defaults, "closes", EveryHygiene))
  BY <1>2, <1>4, <1>5, AskedAs
<1> QED BY <1>6 DEF KpssScan, params, defaults

\* A list whose elements lie in T is a list of T.
LEMMA SeqWithin ==
  ASSUME NEW S, NEW T, NEW s \in Seq(S), \A i \in DOMAIN s : s[i] \in T
  PROVE  s \in Seq(T)
<1>1. Len(s) \in Nat /\ DOMAIN s = 1..Len(s) /\ s \in [1..Len(s) -> T]
  BY LenProperties
<1> QED BY <1>1

\* A list of numbers that are large enough is a value the schema names.
LEMMA SeqAtLeast ==
  ASSUME NEW s \in Seq(Int), NEW k \in Nat, \A i \in DOMAIN s : s[i] >= k
  PROVE  s \in Seq(AtLeast(k))
<1>1. \A i \in DOMAIN s : s[i] \in AtLeast(k)
  BY LenProperties, AtLeastIs
<1> QED BY <1>1, SeqWithin

\* The least number of returns in a bucket is one the schema names.
LEMMA MinObsTaken ==
  ASSUME SeriesFeed, ~job.odd, BucketAccepts
  PROVE  Takes("min_obs_per_bucket", AtLeast(1))
<1> SUFFICES ASSUME Given("min_obs_per_bucket") PROVE job.p["min_obs_per_bucket"] \in AtLeast(1)
  BY DEF Takes
<1>1. job.p["min_obs_per_bucket"] \in Int /\ MinObs = job.p["min_obs_per_bucket"]
  BY DEF SeriesFeed, Typed, Given, MinObs, Param
<1> QED BY <1>1, AtLeastIs DEF BucketAccepts

\* the horizons,
LEMMA VrAsked ==
  ASSUME SeriesFeed, ~job.odd, VrAccepts, job.scan # "tsmom", job.scan \notin PairKinds
  PROVE  AskedFor(VarianceRatioScan)
<1> DEFINE params == [k_values |-> Seq(AtLeast(2)), robust |-> BOOLEAN]
           list == <<2, 4, 8, 16>>
           yes == TRUE
           defaults == [k_values |-> list, robust |-> yes]
<1>1. Takes("k_values", Seq(AtLeast(2))) /\ Takes("robust", BOOLEAN)
  <2>1. Takes("robust", BOOLEAN)
    BY DEF Takes, SeriesFeed, Typed, Given
  <2>2. ASSUME Given("k_values") PROVE job.p["k_values"] \in Seq(AtLeast(2))
    <3>1. VrHorizons = job.p["k_values"] /\ VrHorizons \in Seq(Int)
      BY <2>2 DEF VrHorizons, Param, Given, SeriesFeed, Typed
    <3>2. \A i \in DOMAIN VrHorizons : VrHorizons[i] >= 2
      BY DEF VrAccepts
    <3> QED BY <3>1, <3>2, SeqAtLeast
  <2> QED BY <2>1, <2>2 DEF Takes
<1>2. \A k \in DOMAIN params \ {"min_periods"} : Takes(k, params[k])
  BY <1>1
<1>3. ReadAs("k_values", list) /\ ReadAs("robust", yes)
  BY DEF ReadAs, Resolved, VrHorizons, Robust, Param
<1> HIDE DEF list, yes
<1>4. \A k \in DOMAIN defaults : ReadAs(k, defaults[k])
  BY <1>3
<1>5. \A k \in {} : Given(k)
  OBVIOUS
<1> HIDE DEF params, defaults
<1>6. AskedFor(Declaration(params, {}, defaults, "returns", EveryHygiene))
  BY <1>2, <1>4, <1>5, AskedAs
<1> QED BY <1>6 DEF VarianceRatioScan, params, defaults, list, yes

\* the momentum scan,
LEMMA TsmomAsked ==
  ASSUME SeriesFeed, ~job.odd, TsmomAccepts, job.scan = "tsmom", job.scan \notin PairKinds
  PROVE  AskedFor(TsmomScan)
<1> DEFINE params == [k_values |-> Seq(AtLeast(1)), scaling |-> BOOLEAN]
           list == <<1, 5, 10, 20>>
           yes == TRUE
           defaults == [k_values |-> list, scaling |-> yes]
<1>1. Takes("k_values", Seq(AtLeast(1))) /\ Takes("scaling", BOOLEAN)
  <2>1. Takes("scaling", BOOLEAN)
    BY DEF Takes, SeriesFeed, Typed, Given
  <2>2. ASSUME Given("k_values") PROVE job.p["k_values"] \in Seq(AtLeast(1))
    <3>1. Holds = job.p["k_values"] /\ Holds \in Seq(Int)
      BY <2>2 DEF Holds, Param, Given, SeriesFeed, Typed
    <3>2. \A i \in DOMAIN Holds : Holds[i] >= 1
      BY DEF TsmomAccepts
    <3> QED BY <3>1, <3>2, SeqAtLeast
  <2> QED BY <2>1, <2>2 DEF Takes
<1>2. \A k \in DOMAIN params \ {"min_periods"} : Takes(k, params[k])
  BY <1>1
<1>3. ReadAs("k_values", list) /\ ReadAs("scaling", yes)
  BY DEF ReadAs, Resolved, Holds, Scaling, Param
<1> HIDE DEF list, yes
<1>4. \A k \in DOMAIN defaults : ReadAs(k, defaults[k])
  BY <1>3
<1>5. \A k \in {} : Given(k)
  OBVIOUS
<1> HIDE DEF params, defaults
<1>6. AskedFor(Declaration(params, {}, defaults, "returns", {}))
  BY <1>2, <1>4, <1>5, AskedAs
<1> QED BY <1>6 DEF TsmomScan, params, defaults, list, yes

\* the scans over one column,
LEMMA ArchAsked ==
  ASSUME SeriesFeed, ~job.odd, ArchAccepts, job.scan \notin PairKinds
  PROVE  AskedFor(ArchLmScan)
<1> DEFINE params == [lag |-> AtLeast(1)]
           defaults == [lag |-> 5]
<1>1. Takes("lag", AtLeast(1))
  <2> SUFFICES ASSUME Given("lag") PROVE job.p["lag"] \in AtLeast(1)
    BY DEF Takes
  <2>1. job.p["lag"] \in Int /\ Lag = job.p["lag"]
    BY DEF SeriesFeed, Typed, Given, Lag, Param
  <2> QED BY <2>1, AtLeastIs DEF ArchAccepts
<1>2. \A k \in DOMAIN params \ {"min_periods"} : Takes(k, params[k])
  BY <1>1
<1>3. ReadAs("lag", 5)
  BY DEF ReadAs, Resolved, Lag, Param
<1>4. \A k \in DOMAIN defaults : ReadAs(k, defaults[k])
  BY <1>3
<1>5. \A k \in {} : Given(k)
  OBVIOUS
<1> HIDE DEF params, defaults
<1>6. AskedFor(Declaration(params, {}, defaults, "returns", EveryHygiene))
  BY <1>2, <1>4, <1>5, AskedAs
<1> QED BY <1>6 DEF ArchLmScan, params, defaults

\* the scans that only choose their series,
LEMMA SeriesAsked ==
  ASSUME SeriesFeed, ~job.odd, NEW least, SeriesAccepts(least), job.scan \notin PairKinds
  PROVE  AskedFor(JarqueBeraScan) /\ AskedFor(SummaryWelfordScan) /\ AskedFor(DrawdownProfileScan)
<1> DEFINE params == [series |-> {"log_returns", "close"}]
           defaults == [series |-> "log_returns"]
<1>1. Takes("series", {"log_returns", "close"})
  BY DEF Takes, SeriesAccepts, Param, Given
<1>2. \A k \in DOMAIN params \ {"min_periods"} : Takes(k, params[k])
  BY <1>1
<1>3. ReadAs("series", "log_returns")
  BY DEF ReadAs, Resolved, SeriesName, Param
<1>4. \A k \in DOMAIN defaults : ReadAs(k, defaults[k])
  BY <1>3
<1>5. \A k \in {} : Given(k)
  OBVIOUS
<1> HIDE DEF params, defaults
<1>6. /\ AskedFor(Declaration(params, {}, defaults, "returns", Bootstrap))
      /\ AskedFor(Declaration(params, {}, defaults, "returns", {}))
  BY <1>2, <1>4, <1>5, AskedAs
<1> QED BY <1>6 DEF JarqueBeraScan, SummaryWelfordScan, DrawdownProfileScan, Series, SeriesDefault,
                    params, defaults

\* the profile of returns,
LEMMA ReturnsAsked ==
  ASSUME SeriesFeed, ~job.odd, ReturnsAccepts, job.scan \notin PairKinds
  PROVE  AskedFor(ReturnsProfileScan)
<1> DEFINE params == [variant |-> {"log", "simple", "intraday", "overnight"}]
           defaults == [variant |-> "log"]
<1>1. Takes("variant", {"log", "simple", "intraday", "overnight"})
  BY DEF Takes, ReturnsAccepts, Variant, Param, Given
<1>2. \A k \in DOMAIN params \ {"min_periods"} : Takes(k, params[k])
  BY <1>1
<1>3. ReadAs("variant", "log")
  BY DEF ReadAs, Resolved, Variant, Param
<1>4. \A k \in DOMAIN defaults : ReadAs(k, defaults[k])
  BY <1>3
<1>5. \A k \in {} : Given(k)
  OBVIOUS
<1> HIDE DEF params, defaults
<1>6. AskedFor(Declaration(params, {}, defaults, "returns", {}))
  BY <1>2, <1>4, <1>5, AskedAs
<1> QED BY <1>6 DEF ReturnsProfileScan, params, defaults

\* mean reversion,
LEMMA MeanrevAsked ==
  ASSUME SeriesFeed, ~job.odd, MeanrevAccepts, job.scan \notin PairKinds
  PROVE  AskedFor(OuHalfLifeScan)
<1> DEFINE params == [on |-> {"level", "returns"}, min_n |-> AtLeast(3)]
           defaults == [on |-> "level", min_n |-> 30]
<1>1. Takes("on", {"level", "returns"}) /\ Takes("min_n", AtLeast(3))
  <2>1. Takes("on", {"level", "returns"})
    BY DEF Takes, MeanrevAccepts, Basis, Param, Given
  <2>2. ASSUME Given("min_n") PROVE job.p["min_n"] \in AtLeast(3)
    <3>1. job.p["min_n"] \in Int /\ MinN = job.p["min_n"]
      BY <2>2 DEF SeriesFeed, Typed, Given, MinN, Param
    <3> QED BY <3>1, AtLeastIs DEF MeanrevAccepts
  <2> QED BY <2>1, <2>2 DEF Takes
<1>2. \A k \in DOMAIN params \ {"min_periods"} : Takes(k, params[k])
  BY <1>1
<1>3. ReadAs("on", "level") /\ ReadAs("min_n", 30)
  BY DEF ReadAs, Resolved, Basis, MinN, Param
<1>4. \A k \in DOMAIN defaults : ReadAs(k, defaults[k])
  BY <1>3
<1>5. \A k \in {} : Given(k)
  OBVIOUS
<1> HIDE DEF params, defaults
<1>6. AskedFor(Declaration(params, {}, defaults, "closes", EveryHygiene))
  BY <1>2, <1>4, <1>5, AskedAs
<1> QED BY <1>6 DEF OuHalfLifeScan, params, defaults

\* rolling volatility,
LEMMA VolAsked ==
  ASSUME SeriesFeed, ~job.odd, VolAccepts, job.scan \notin PairKinds
  PROVE  AskedFor(VolRollingScan)
<1> DEFINE params == [window |-> AtLeast(2), min_periods |-> AtLeast(2),
                      series |-> {"log_returns", "close"}]
           defaults == [series |-> "log_returns"]
<1>1. Takes("window", AtLeast(2)) /\ Takes("series", {"log_returns", "close"})
  <2>1. Takes("series", {"log_returns", "close"})
    BY DEF Takes, VolAccepts, SeriesAccepts, Param, Given
  <2>2. ASSUME Given("window") PROVE job.p["window"] \in AtLeast(2)
    <3>1. job.p["window"] \in Int
      BY <2>2 DEF SeriesFeed, Typed, Given
    <3> QED BY <3>1, AtLeastIs DEF VolAccepts
  <2> QED BY <2>1, <2>2 DEF Takes
<1>2. \A k \in DOMAIN params \ {"min_periods"} : Takes(k, params[k])
  BY <1>1
<1>3. ReadAs("series", "log_returns")
  BY DEF ReadAs, Resolved, SeriesName, Param
<1>4. \A k \in DOMAIN defaults : ReadAs(k, defaults[k])
  BY <1>3
<1>5. \A k \in {"window"} : Given(k)
  BY DEF VolAccepts
<1> HIDE DEF params, defaults
<1>6. AskedFor(Declaration(params, {"window"}, defaults, "returns", Bootstrap))
  BY <1>2, <1>4, <1>5, AskedAs
<1> QED BY <1>6 DEF VolRollingScan, Series, SeriesDefault, params, defaults

\* outliers,
LEMMA OutliersAsked ==
  ASSUME SeriesFeed, ~job.odd, OutlierAccepts, job.scan \notin PairKinds
  PROVE  AskedFor(OutliersZAndMadScan)
<1> DEFINE params == [z_threshold |-> Nat, modified_z_threshold |-> Nat, series |-> {"log_returns", "close"}]
           defaults == [z_threshold |-> 30, modified_z_threshold |-> 35, series |-> "log_returns"]
<1>1. /\ Takes("z_threshold", Nat) /\ Takes("modified_z_threshold", Nat)
      /\ Takes("series", {"log_returns", "close"})
  BY DEF Takes, OutlierAccepts, SeriesAccepts, ZThreshold, ModifiedZThreshold, SeriesFeed, Typed, Param, Given
<1>2. \A k \in DOMAIN params \ {"min_periods"} : Takes(k, params[k])
  BY <1>1
<1>3. /\ ReadAs("z_threshold", 30) /\ ReadAs("modified_z_threshold", 35)
      /\ ReadAs("series", "log_returns")
  BY DEF ReadAs, Resolved, ZThreshold, ModifiedZThreshold, SeriesName, Param
<1>4. \A k \in DOMAIN defaults : ReadAs(k, defaults[k])
  BY <1>3
<1>5. \A k \in {} : Given(k)
  OBVIOUS
<1> HIDE DEF params, defaults
<1>6. AskedFor(Declaration(params, {}, defaults, "returns", {}))
  BY <1>2, <1>4, <1>5, AskedAs
<1> QED BY <1>6 DEF OutliersZAndMadScan, Series, SeriesDefault, params, defaults

\* the breaks, under every detector,
LEMMA CusumAsked ==
  ASSUME SeriesFeed, ~job.odd, CusumAccepts, job.scan \notin PairKinds
  PROVE  AskedFor(CusumBreakScan)
<1> DEFINE params == [target |-> {"mean", "vol", "both"}, threshold |-> AtLeast(1) \X AtLeast(1),
                      min_segment |-> AtLeast(2)]
           defaults == [target |-> "both", threshold |-> DefaultThreshold, min_segment |-> 30]
<1>1. /\ Takes("target", {"mean", "vol", "both"}) /\ Takes("threshold", AtLeast(1) \X AtLeast(1))
      /\ Takes("min_segment", AtLeast(2))
  <2>1. Takes("target", {"mean", "vol", "both"})
    BY DEF Takes, CusumAccepts, Target, Param, Given
  <2>2. ASSUME Given("min_segment") PROVE job.p["min_segment"] \in AtLeast(2)
    <3>1. job.p["min_segment"] \in Int /\ MinSegment = job.p["min_segment"]
      BY <2>2 DEF SeriesFeed, Typed, Given, MinSegment, Param
    <3> QED BY <3>1, AtLeastIs DEF CusumAccepts
  <2>3. ASSUME Given("threshold") PROVE job.p["threshold"] \in AtLeast(1) \X AtLeast(1)
    <3>1. job.p["threshold"] \in Int \X (Nat \ {0}) /\ Bar = job.p["threshold"]
      BY <2>3 DEF SeriesFeed, Typed, Given, Bar, Param
    <3>2. PICK a \in Int, b \in Nat \ {0} : Bar = <<a, b>>
      BY <3>1
    <3>3. a > 0
      BY <3>2 DEF CusumAccepts
    <3>4. a \in AtLeast(1) /\ b \in AtLeast(1)
      BY <3>3 DEF AtLeast
    <3> QED BY <3>1, <3>2, <3>4
  <2> QED BY <2>1, <2>2, <2>3 DEF Takes
<1>2. \A k \in DOMAIN params \ {"min_periods"} : Takes(k, params[k])
  BY <1>1
<1>3. /\ ReadAs("target", "both") /\ ReadAs("threshold", DefaultThreshold)
      /\ ReadAs("min_segment", 30)
  BY DEF ReadAs, Resolved, Target, Bar, MinSegment, Param
<1>4. \A k \in DOMAIN defaults : ReadAs(k, defaults[k])
  BY <1>3
<1>5. \A k \in {} : Given(k)
  OBVIOUS
<1> HIDE DEF params, defaults
<1>6. AskedFor(Declaration(params, {}, defaults, "closes", {}))
  BY <1>2, <1>4, <1>5, AskedAs
<1> QED BY <1>6 DEF CusumBreakScan, params, defaults

\* the scans by time,
LEMMA BucketAsked ==
  ASSUME SeriesFeed, ~job.odd, BucketAccepts, job.scan # "gap", job.scan \notin PairKinds
  PROVE  AskedFor(HourOfDayScan) /\ AskedFor(DayOfWeekScan)
<1> DEFINE params == [min_obs_per_bucket |-> AtLeast(1)]
           defaults == [min_obs_per_bucket |-> 5]
<1>1. Takes("min_obs_per_bucket", AtLeast(1))
  BY MinObsTaken
<1>2. \A k \in DOMAIN params \ {"min_periods"} : Takes(k, params[k])
  BY <1>1
<1>3. ReadAs("min_obs_per_bucket", 5)
  BY DEF ReadAs, Resolved, MinObs, Param
<1>4. \A k \in DOMAIN defaults : ReadAs(k, defaults[k])
  BY <1>3
<1>5. \A k \in {} : Given(k)
  OBVIOUS
<1> HIDE DEF params, defaults
<1>6. AskedFor(Declaration(params, {}, defaults, "returns", Bootstrap))
  BY <1>2, <1>4, <1>5, AskedAs
<1> QED BY <1>6 DEF HourOfDayScan, DayOfWeekScan, Occupied, OccupiedDefault, params, defaults

\* the sessions,
LEMMA SessionAsked ==
  ASSUME SeriesFeed, ~job.odd, SessionAccepts, job.scan # "gap", job.scan \notin PairKinds
  PROVE  AskedFor(SessionScan)
<1> DEFINE params == [sessions |-> Seq(SessionDefs), min_obs_per_bucket |-> AtLeast(1)]
           defaults == [sessions |-> FxMajor, min_obs_per_bucket |-> 5]
<1>1. Takes("sessions", Seq(SessionDefs)) /\ Takes("min_obs_per_bucket", AtLeast(1))
  <2>1. Takes("min_obs_per_bucket", AtLeast(1))
    BY MinObsTaken DEF SessionAccepts
  <2>2. ASSUME Given("sessions") PROVE job.p["sessions"] \in Seq(SessionDefs)
    <3> DEFINE s == job.p["sessions"]
               records == [name : STRING, start : Int, end : Int]
    <3>1. s \in Seq(records) /\ Sessions = s
      BY <2>2 DEF SeriesFeed, Typed, Given, Sessions, Param
    <3>2. \A i \in DOMAIN s : s[i].name # "" /\ s[i].start \in 0..23 /\ s[i].end \in 0..23
      BY <3>1 DEF SessionAccepts
    <3>3. \A i \in DOMAIN s : s[i] \in records
      <4>1. \A S : \A t \in Seq(S) : \A i \in DOMAIN t : t[i] \in S
        BY LenProperties
      <4> HIDE DEF s, records
      <4> QED BY <3>1, <4>1
    <3>4. \A i \in DOMAIN s : s[i] \in SessionDefs
      BY <3>2, <3>3 DEF SessionDefs
    <3> HIDE DEF s, records
    <3>5. s \in Seq(SessionDefs)
      BY <3>1, <3>4, SeqWithin
    <3> QED BY <3>5 DEF s
  <2> QED BY <2>1, <2>2 DEF Takes
<1>2. \A k \in DOMAIN params \ {"min_periods"} : Takes(k, params[k])
  BY <1>1
<1>3. ReadAs("sessions", FxMajor) /\ ReadAs("min_obs_per_bucket", 5)
  BY DEF ReadAs, Resolved, MinObs, Sessions, Param
<1>4. \A k \in DOMAIN defaults : ReadAs(k, defaults[k])
  BY <1>3
<1>5. \A k \in {} : Given(k)
  OBVIOUS
<1> HIDE DEF params, defaults
<1>6. AskedFor(Declaration(params, {}, defaults, "returns", Bootstrap))
  BY <1>2, <1>4, <1>5, AskedAs
<1> QED BY <1>6 DEF SessionScan, Occupied, OccupiedDefault, params, defaults

\* the turn of the month,
LEMMA EomSomAsked ==
  ASSUME SeriesFeed, ~job.odd, EomSomAccepts, job.scan # "gap", job.scan \notin PairKinds
  PROVE  AskedFor(EomSomScan)
<1> DEFINE params == [cutoff_n |-> 1..MaxCutoff, min_obs_per_bucket |-> AtLeast(1)]
           defaults == [cutoff_n |-> 3, min_obs_per_bucket |-> 5]
<1>1. Takes("cutoff_n", 1..MaxCutoff) /\ Takes("min_obs_per_bucket", AtLeast(1))
  <2>1. Takes("min_obs_per_bucket", AtLeast(1))
    BY MinObsTaken DEF EomSomAccepts
  <2>2. Takes("cutoff_n", 1..MaxCutoff)
    BY DEF Takes, EomSomAccepts, Cutoff, Param, Given
  <2> QED BY <2>1, <2>2
<1>2. \A k \in DOMAIN params \ {"min_periods"} : Takes(k, params[k])
  BY <1>1
<1>3. ReadAs("cutoff_n", 3) /\ ReadAs("min_obs_per_bucket", 5)
  BY DEF ReadAs, Resolved, MinObs, Cutoff, Param
<1>4. \A k \in DOMAIN defaults : ReadAs(k, defaults[k])
  BY <1>3
<1>5. \A k \in {} : Given(k)
  OBVIOUS
<1> HIDE DEF params, defaults
<1>6. AskedFor(Declaration(params, {}, defaults, "returns", Bootstrap))
  BY <1>2, <1>4, <1>5, AskedAs
<1> QED BY <1>6 DEF EomSomScan, Occupied, OccupiedDefault, params, defaults

\* the groups of the variance test, with the via it names,
LEMMA AnovaAsked ==
  ASSUME SeriesFeed, ~job.odd, AnovaAccepts, job.scan \notin PairKinds
  PROVE  AskedFor(AnovaKruskalScan)
<1> DEFINE params == [buckets_via |-> {"hour_of_day", "day_of_week", "session", "eom_som"},
                      min_obs_per_group |-> AtLeast(1)]
           defaults == [min_obs_per_group |-> 5]
<1>1. /\ Takes("buckets_via", {"hour_of_day", "day_of_week", "session", "eom_som"})
      /\ Takes("min_obs_per_group", AtLeast(1))
  <2>1. Takes("buckets_via", {"hour_of_day", "day_of_week", "session", "eom_som"})
    BY DEF Takes, AnovaAccepts, Via
  <2>2. ASSUME Given("min_obs_per_group") PROVE job.p["min_obs_per_group"] \in AtLeast(1)
    <3>1. job.p["min_obs_per_group"] \in Int /\ MinGroup = job.p["min_obs_per_group"]
      BY <2>2 DEF SeriesFeed, Typed, Given, MinGroup, Param
    <3> QED BY <3>1, AtLeastIs DEF AnovaAccepts
  <2> QED BY <2>1, <2>2 DEF Takes
<1>2. \A k \in DOMAIN params \ {"min_periods"} : Takes(k, params[k])
  BY <1>1
<1>3. ReadAs("min_obs_per_group", 5)
  BY DEF ReadAs, Resolved, MinGroup, Param
<1>4. \A k \in DOMAIN defaults : ReadAs(k, defaults[k])
  BY <1>3
<1>5. \A k \in {"buckets_via"} : Given(k)
  BY DEF AnovaAccepts, Via
<1> HIDE DEF params, defaults
<1>6. AskedFor(Declaration(params, {"buckets_via"}, defaults, "returns", {}))
  BY <1>2, <1>4, <1>5, AskedAs
<1> QED BY <1>6 DEF AnovaKruskalScan, params, defaults

\* the events,
LEMMA EventAsked ==
  ASSUME SeriesFeed, ~job.odd, EventAccepts, job.scan \notin PairKinds
  PROVE  AskedFor(EventWindowScan)
<1> DEFINE stamps == Seq(Int) \ {<<>>}
           params == [event_timestamps |-> stamps, pre_window_bars |-> AtLeast(1),
                      post_window_bars |-> AtLeast(1)]
           defaults == [pre_window_bars |-> 5, post_window_bars |-> 5]
<1>1. /\ Takes("event_timestamps", stamps) /\ Takes("pre_window_bars", AtLeast(1))
      /\ Takes("post_window_bars", AtLeast(1))
  <2>1. Takes("event_timestamps", Seq(Int) \ {<<>>})
    BY DEF Takes, EventAccepts, SeriesFeed, Typed, Given
  <2>2. ASSUME Given("pre_window_bars") PROVE job.p["pre_window_bars"] \in AtLeast(1)
    <3>1. job.p["pre_window_bars"] \in Int /\ Pre = job.p["pre_window_bars"]
      BY <2>2 DEF SeriesFeed, Typed, Given, Pre, Param
    <3> QED BY <3>1, AtLeastIs DEF EventAccepts
  <2>3. ASSUME Given("post_window_bars") PROVE job.p["post_window_bars"] \in AtLeast(1)
    <3>1. job.p["post_window_bars"] \in Int /\ Post = job.p["post_window_bars"]
      BY <2>3 DEF SeriesFeed, Typed, Given, Post, Param
    <3> QED BY <3>1, AtLeastIs DEF EventAccepts
  <2> QED BY <2>1, <2>2, <2>3 DEF Takes
<1> HIDE DEF stamps
<1>2. \A k \in DOMAIN params \ {"min_periods"} : Takes(k, params[k])
  BY <1>1
<1>3. ReadAs("pre_window_bars", 5) /\ ReadAs("post_window_bars", 5)
  BY DEF ReadAs, Resolved, Pre, Post, Param
<1>4. \A k \in DOMAIN defaults : ReadAs(k, defaults[k])
  BY <1>3
<1>5. \A k \in {"event_timestamps"} : Given(k)
  BY DEF EventAccepts
<1> HIDE DEF params, defaults
<1>6. AskedFor(Declaration(params, {"event_timestamps"}, defaults, "returns", Bootstrap))
  BY <1>2, <1>4, <1>5, AskedAs
<1> QED BY <1>6 DEF EventWindowScan, params, defaults, stamps

\* and the gaps.
LEMMA GapAsked ==
  ASSUME SeriesFeed, ~job.odd, GapAccepts, job.scan = "gap", job.scan \notin PairKinds
  PROVE  AskedFor(OvernightGapScan)
<1> DEFINE one == AtLeast(1)
           edges == Seq(AtLeast(1))
           params == [boundary_gap_minutes |-> one, size_bucket_edges |-> edges,
                      min_gap_threshold |-> Nat, fill_lookahead_bars |-> one,
                      hold_floor_bars |-> one, sparse_gap_min_count |-> one,
                      min_obs_per_bucket |-> one]
           defaults == [size_bucket_edges |-> <<5, 10, 20>>, min_gap_threshold |-> 0,
                        fill_lookahead_bars |-> 48, hold_floor_bars |-> 12,
                        sparse_gap_min_count |-> 20, min_obs_per_bucket |-> 5]
<1>1. /\ Takes("boundary_gap_minutes", one) /\ Takes("size_bucket_edges", edges)
      /\ Takes("min_gap_threshold", Nat) /\ Takes("fill_lookahead_bars", one)
      /\ Takes("hold_floor_bars", one) /\ Takes("sparse_gap_min_count", one)
      /\ Takes("min_obs_per_bucket", one)
  <2>0. Boundary >= 1 /\ {Lookahead, GapMinObs, HoldFloor, SparseMin} \subseteq Nat \ {0} /\ GapThreshold >= 0
    BY DEF GapAccepts
  <2>1. Takes("boundary_gap_minutes", AtLeast(1))
    <3> SUFFICES ASSUME Given("boundary_gap_minutes") PROVE job.p["boundary_gap_minutes"] \in AtLeast(1)
      BY DEF Takes
    <3>1. job.p["boundary_gap_minutes"] \in Int /\ Boundary = job.p["boundary_gap_minutes"]
      BY DEF SeriesFeed, Typed, Given, Boundary, Param
    <3>2. job.p["boundary_gap_minutes"] >= 1
      BY <2>0, <3>1
    <3> QED BY <3>1, <3>2, AtLeastIs
  <2>2. Takes("fill_lookahead_bars", AtLeast(1))
    <3> SUFFICES ASSUME Given("fill_lookahead_bars") PROVE job.p["fill_lookahead_bars"] \in AtLeast(1)
      BY DEF Takes
    <3>1. job.p["fill_lookahead_bars"] \in Int /\ Lookahead = job.p["fill_lookahead_bars"]
      BY DEF SeriesFeed, Typed, Given, Lookahead, Param
    <3>2. job.p["fill_lookahead_bars"] >= 1
      BY <2>0, <3>1
    <3> QED BY <3>1, <3>2, AtLeastIs
  <2>3. Takes("hold_floor_bars", AtLeast(1))
    <3> SUFFICES ASSUME Given("hold_floor_bars") PROVE job.p["hold_floor_bars"] \in AtLeast(1)
      BY DEF Takes
    <3>1. job.p["hold_floor_bars"] \in Int /\ HoldFloor = job.p["hold_floor_bars"]
      BY DEF SeriesFeed, Typed, Given, HoldFloor, Param
    <3>2. job.p["hold_floor_bars"] >= 1
      BY <2>0, <3>1
    <3> QED BY <3>1, <3>2, AtLeastIs
  <2>4. Takes("sparse_gap_min_count", AtLeast(1))
    <3> SUFFICES ASSUME Given("sparse_gap_min_count") PROVE job.p["sparse_gap_min_count"] \in AtLeast(1)
      BY DEF Takes
    <3>1. job.p["sparse_gap_min_count"] \in Int /\ SparseMin = job.p["sparse_gap_min_count"]
      BY DEF SeriesFeed, Typed, Given, SparseMin, Param
    <3>2. job.p["sparse_gap_min_count"] >= 1
      BY <2>0, <3>1
    <3> QED BY <3>1, <3>2, AtLeastIs
  <2>5. Takes("min_obs_per_bucket", AtLeast(1))
    <3> SUFFICES ASSUME Given("min_obs_per_bucket") PROVE job.p["min_obs_per_bucket"] \in AtLeast(1)
      BY DEF Takes
    <3>1. job.p["min_obs_per_bucket"] \in Int /\ GapMinObs = job.p["min_obs_per_bucket"]
      BY DEF SeriesFeed, Typed, Given, GapMinObs, Param
    <3>2. job.p["min_obs_per_bucket"] >= 1
      BY <2>0, <3>1
    <3> QED BY <3>1, <3>2, AtLeastIs
  <2>6. Takes("min_gap_threshold", Nat)
    BY <2>0 DEF Takes, SeriesFeed, Typed, Given, GapThreshold, Param
  <2>7. ASSUME Given("size_bucket_edges") PROVE job.p["size_bucket_edges"] \in Seq(AtLeast(1))
    <3>1. Edges = job.p["size_bucket_edges"] /\ Edges \in Seq(Int)
      BY <2>7 DEF Edges, Param, Given, SeriesFeed, Typed
    <3>2. \A i \in DOMAIN Edges : Edges[i] >= 1
      <4> TAKE i \in DOMAIN Edges
      <4>1. Edges[i] \in Int /\ Edges[i] > 0
        BY <3>1, LenProperties DEF GapAccepts
      <4> QED BY <4>1
    <3> QED BY <3>1, <3>2, SeqAtLeast
  <2> QED BY <2>1, <2>2, <2>3, <2>4, <2>5, <2>6, <2>7 DEF Takes
<1> HIDE DEF one, edges
<1>2. \A k \in DOMAIN params \ {"min_periods"} : Takes(k, params[k])
  BY <1>1
<1>3. /\ ReadAs("size_bucket_edges", <<5, 10, 20>>) /\ ReadAs("min_gap_threshold", 0)
      /\ ReadAs("fill_lookahead_bars", 48) /\ ReadAs("hold_floor_bars", 12)
      /\ ReadAs("sparse_gap_min_count", 20) /\ ReadAs("min_obs_per_bucket", 5)
  BY DEF ReadAs, Resolved, Edges, GapThreshold, Lookahead, HoldFloor, SparseMin, GapMinObs, Param
<1>4. \A k \in DOMAIN defaults : ReadAs(k, defaults[k])
  BY <1>3
<1>5. \A k \in {} : Given(k)
  OBVIOUS
<1> HIDE DEF params, defaults, one, edges
<1>6. AskedFor(Declaration(params, {}, defaults, "gaps", {}))
  BY <1>2, <1>4, <1>5, AskedAs
<1> QED BY <1>6 DEF OvernightGapScan, Occupied, OccupiedDefault, params, defaults, one, edges

\* The entries of the registry: the series a scan says it writes, and whether it takes
\* part in the hygiene step.
Entry(d, series, hygienic) == d.series = series /\ (d.hygiene # {} <=> hygienic)

\* The three sets of hygiene steps are not empty.
LEMMA HygieneSets == Bootstrap # {} /\ RollingHygiene # {} /\ EveryHygiene # {}
BY DEF Bootstrap, RollingHygiene, EveryHygiene

\* What a declaration says of the series and of hygiene is what it was made with.
LEMMA EntryIs ==
  ASSUME NEW params, NEW required, NEW defaults, NEW series, NEW hygiene, NEW yes \in BOOLEAN,
         hygiene # {} <=> yes
  PROVE  Entry(Declaration(params, required, defaults, series, hygiene), series, yes)
BY DEF Entry, Declaration

\* The series and the hygiene of each declaration over one instrument.
LEMMA SeriesEntries ==
  /\ Entry(LjungBoxScan, "returns", TRUE) /\ Entry(LjungBoxSqScan, "returns", TRUE)
  /\ Entry(AdfScan, "closes", TRUE) /\ Entry(KpssScan, "closes", TRUE)
  /\ Entry(VarianceRatioScan, "returns", TRUE) /\ Entry(TsmomScan, "returns", FALSE)
  /\ Entry(ArchLmScan, "returns", TRUE) /\ Entry(JarqueBeraScan, "returns", TRUE)
  /\ Entry(SummaryWelfordScan, "returns", TRUE) /\ Entry(DrawdownProfileScan, "returns", FALSE)
  /\ Entry(ReturnsProfileScan, "returns", FALSE) /\ Entry(OuHalfLifeScan, "closes", TRUE)
  /\ Entry(VolRollingScan, "returns", TRUE) /\ Entry(OutliersZAndMadScan, "returns", FALSE)
  /\ Entry(CusumBreakScan, "closes", FALSE) /\ Entry(HourOfDayScan, "returns", TRUE)
  /\ Entry(DayOfWeekScan, "returns", TRUE) /\ Entry(SessionScan, "returns", TRUE)
  /\ Entry(EomSomScan, "returns", TRUE) /\ Entry(AnovaKruskalScan, "returns", FALSE)
  /\ Entry(EventWindowScan, "returns", TRUE) /\ Entry(OvernightGapScan, "gaps", FALSE)
BY HygieneSets, EntryIs DEF LjungBoxScan, LjungBoxSqScan, AdfScan, KpssScan, VarianceRatioScan,
       TsmomScan, ArchLmScan, JarqueBeraScan, SummaryWelfordScan, DrawdownProfileScan,
       ReturnsProfileScan, OuHalfLifeScan, VolRollingScan, OutliersZAndMadScan, CusumBreakScan,
       HourOfDayScan, DayOfWeekScan, SessionScan, EomSomScan, AnovaKruskalScan, EventWindowScan,
       OvernightGapScan

\* The declaration of each registered scan.
LEMMA RegisteredAs ==
  /\ job.scan = "ljung_box" => Declared = LjungBoxScan
  /\ job.scan = "ljung_box_sq" => Declared = LjungBoxSqScan
  /\ job.scan = "adf" => Declared = AdfScan
  /\ job.scan = "kpss" => Declared = KpssScan
  /\ job.scan = "variance_ratio" => Declared = VarianceRatioScan
  /\ job.scan = "tsmom" => Declared = TsmomScan
  /\ job.scan = "arch_lm" => Declared = ArchLmScan
  /\ job.scan = "jarque_bera" => Declared = JarqueBeraScan
  /\ job.scan = "summary" => Declared = SummaryWelfordScan
  /\ job.scan = "drawdown" => Declared = DrawdownProfileScan
  /\ job.scan = "returns" => Declared = ReturnsProfileScan
  /\ job.scan = "meanrev" => Declared = OuHalfLifeScan
  /\ job.scan = "vol" => Declared = VolRollingScan
  /\ job.scan = "outliers" => Declared = OutliersZAndMadScan
  /\ job.scan = "cusum" => Declared = CusumBreakScan
  /\ job.scan = "hour_of_day" => Declared = HourOfDayScan
  /\ job.scan = "day_of_week" => Declared = DayOfWeekScan
  /\ job.scan = "session" => Declared = SessionScan
  /\ job.scan = "eom_som" => Declared = EomSomScan
  /\ job.scan = "anova" => Declared = AnovaKruskalScan
  /\ job.scan = "event_window" => Declared = EventWindowScan
  /\ job.scan = "gap" => Declared = OvernightGapScan
  /\ job.scan = "corr" => Declared = PearsonRollingScan
  /\ job.scan = "ols" => Declared = OlsRollingScan
  /\ job.scan = "lead_lag" => Declared = LeadLagCcfScan
  /\ job.scan = "engle_granger" => Declared = EngleGrangerScan
  /\ job.scan = "cointegration" => Declared = CointegrationRollingScan
BY DEF Declared, Registered

\* An accepted request over one instrument is one its declaration asks for.
LEMMA SeriesAskedFor ==
  ASSUME SeriesFeed, SeriesAccepted, job.scan \notin PairKinds
  PROVE  AskedFor(Declared)
<1>0. ~job.odd /\ job.scan \in DOMAIN Registered
  BY DEF SeriesAccepted, SeriesFeed
<1>1. CASE job.scan = "ljung_box"
  <2>1. LjungBoxAccepts
    BY <1>1 DEF SeriesAccepted
  <2> QED BY <1>0, <1>1, <2>1, LjungBoxAsked, RegisteredAs
<1>2. CASE job.scan = "ljung_box_sq"
  <2>1. LjungBoxAccepts
    BY <1>2 DEF SeriesAccepted
  <2> QED BY <1>0, <1>2, <2>1, LjungBoxAsked, RegisteredAs
<1>3. CASE job.scan = "adf"
  <2>1. AdfAccepts
    BY <1>3 DEF SeriesAccepted
  <2> QED BY <1>0, <1>3, <2>1, AdfAsked, RegisteredAs
<1>4. CASE job.scan = "kpss"
  <2>1. KpssAccepts
    BY <1>4 DEF SeriesAccepted
  <2> QED BY <1>0, <1>4, <2>1, KpssAsked, RegisteredAs
<1>5. CASE job.scan = "variance_ratio"
  <2>1. VrAccepts
    BY <1>5 DEF SeriesAccepted
  <2> QED BY <1>0, <1>5, <2>1, VrAsked, RegisteredAs
<1>6. CASE job.scan = "tsmom"
  <2>1. TsmomAccepts
    BY <1>6 DEF SeriesAccepted
  <2> QED BY <1>0, <1>6, <2>1, TsmomAsked, RegisteredAs
<1>7. CASE job.scan = "arch_lm"
  <2>1. ArchAccepts
    BY <1>7 DEF SeriesAccepted
  <2> QED BY <1>0, <1>7, <2>1, ArchAsked, RegisteredAs
<1>8. CASE job.scan = "jarque_bera"
  <2>1. SeriesAccepts(4)
    BY <1>8 DEF SeriesAccepted
  <2> QED BY <1>0, <1>8, <2>1, SeriesAsked, RegisteredAs
<1>9. CASE job.scan = "summary"
  <2>1. SeriesAccepts(1)
    BY <1>9 DEF SeriesAccepted
  <2> QED BY <1>0, <1>9, <2>1, SeriesAsked, RegisteredAs
<1>10. CASE job.scan = "drawdown"
  <2>1. SeriesAccepts(2)
    BY <1>10 DEF SeriesAccepted
  <2> QED BY <1>0, <1>10, <2>1, SeriesAsked, RegisteredAs
<1>11. CASE job.scan = "returns"
  <2>1. ReturnsAccepts
    BY <1>11 DEF SeriesAccepted
  <2> QED BY <1>0, <1>11, <2>1, ReturnsAsked, RegisteredAs
<1>12. CASE job.scan = "meanrev"
  <2>1. MeanrevAccepts
    BY <1>12 DEF SeriesAccepted
  <2> QED BY <1>0, <1>12, <2>1, MeanrevAsked, RegisteredAs
<1>13. CASE job.scan = "vol"
  <2>1. VolAccepts
    BY <1>13 DEF SeriesAccepted
  <2> QED BY <1>0, <1>13, <2>1, VolAsked, RegisteredAs
<1>14. CASE job.scan = "outliers"
  <2>1. OutlierAccepts
    BY <1>14 DEF SeriesAccepted
  <2> QED BY <1>0, <1>14, <2>1, OutliersAsked, RegisteredAs
<1>15. CASE job.scan = "cusum"
  <2>1. CusumAccepts
    BY <1>15 DEF SeriesAccepted
  <2> QED BY <1>0, <1>15, <2>1, CusumAsked, RegisteredAs
<1>16. CASE job.scan = "hour_of_day"
  <2>1. BucketAccepts
    BY <1>16 DEF SeriesAccepted
  <2> QED BY <1>0, <1>16, <2>1, BucketAsked, RegisteredAs
<1>17. CASE job.scan = "day_of_week"
  <2>1. BucketAccepts
    BY <1>17 DEF SeriesAccepted
  <2> QED BY <1>0, <1>17, <2>1, BucketAsked, RegisteredAs
<1>18. CASE job.scan = "session"
  <2>1. SessionAccepts
    BY <1>18 DEF SeriesAccepted
  <2> QED BY <1>0, <1>18, <2>1, SessionAsked, RegisteredAs
<1>19. CASE job.scan = "eom_som"
  <2>1. EomSomAccepts
    BY <1>19 DEF SeriesAccepted
  <2> QED BY <1>0, <1>19, <2>1, EomSomAsked, RegisteredAs
<1>20. CASE job.scan = "anova"
  <2>1. AnovaAccepts
    BY <1>20 DEF SeriesAccepted
  <2> QED BY <1>0, <1>20, <2>1, AnovaAsked, RegisteredAs
<1>21. CASE job.scan = "event_window"
  <2>1. EventAccepts
    BY <1>21 DEF SeriesAccepted
  <2> QED BY <1>0, <1>21, <2>1, EventAsked, RegisteredAs
<1>22. CASE job.scan = "gap"
  <2>1. GapAccepts
    BY <1>22 DEF SeriesAccepted
  <2> QED BY <1>0, <1>22, <2>1, GapAsked, RegisteredAs
<1> QED BY <1>0, <1>1, <1>2, <1>3, <1>4, <1>5, <1>6, <1>7, <1>8, <1>9, <1>10, <1>11, <1>12, <1>13,
           <1>14, <1>15, <1>16, <1>17, <1>18, <1>19, <1>20, <1>21, <1>22 DEF Registered, PairKinds

\* The raw series a finding carries.
RawOf(x, f) == \E numbers, effect : f = Found(x, numbers, effect)

\* A close is made of one bar,
LEMMA LevelsRaw ==
  ASSUME SeriesFeed, NEW f, RawOf(Levels, f), NEW i \in DOMAIN f.raw
  PROVE  Cardinality(f.raw[i].of) = 1
<1>1. f.raw = Levels
  BY DEF RawOf, Found
<1>2. i \in 1..Len(bars)
  BY <1>1, BarColumns
<1>3. f.raw[i].of = {bars[i].ts}
  BY <1>1, <1>2, LevelsAre
<1> QED BY <1>3, FS_Singleton

\* a return of two.
LEMMA TwoBars ==
  ASSUME SeriesFeed, NEW i \in 1..N
  PROVE  Cardinality(Returns[i].of) = 2
<1>1. PICK k \in 1..Len(bars), l \in 1..Len(bars) :
        k = i /\ l = i + 1 /\ Returns[i].of = {bars[k].ts, bars[l].ts}
  BY ReturnsAre
<1>2. k < l
  <2>1. i \in Int
    BY BarColumns
  <2> QED BY <1>1, <2>1
<1>3. bars[k].ts # bars[l].ts
  <2>1. bars[k].ts < bars[l].ts /\ bars[k].ts \in Int /\ bars[l].ts \in Int
    BY <1>2, BarColumns DEF SeriesFeed
  <2> QED BY <2>1
<1> DEFINE x == bars[k].ts
           y == bars[l].ts
<1> HIDE DEF x, y
<1>4. IsFiniteSet({x}) /\ Cardinality({x}) = 1
  BY FS_Singleton
<1>5. x # y
  BY <1>3 DEF x, y
<1>6. Cardinality({x} \cup {y}) = 2
  BY <1>4, <1>5, FS_AddElement
<1>7. {x} \cup {y} = Returns[i].of
  BY <1>1 DEF x, y
<1> QED BY <1>6, <1>7

\* So are the values of a raw series of returns,
LEMMA ReturnsRaw ==
  ASSUME SeriesFeed, NEW f, NEW x \in {Returns, Profile}, RawOf(x, f), NEW i \in DOMAIN f.raw
  PROVE  Cardinality(f.raw[i].of) = 2
<1>1. f.raw = x /\ DOMAIN Returns = 1..N
  BY BarColumns DEF RawOf, Found
<1>2. CASE x = Returns
  BY <1>1, <1>2, TwoBars
<1>3. CASE x = Profile
  <2>1. \A j \in DOMAIN Profile : \E k \in 1..N : Profile[j] = Returns[k]
    BY ProfileIs
  <2> QED BY <1>1, <1>3, <2>1, TwoBars
<1> QED BY <1>2, <1>3

\* and those of the series a request chooses.
LEMMA ChosenRaw ==
  ASSUME SeriesFeed, NEW f, RawOf(Chosen, f), NEW i \in DOMAIN f.raw
  PROVE  Cardinality(f.raw[i].of) = 2 \/ (Given("series") /\ job.p["series"] = "close")
<1>1. CASE Param("series", "log_returns") = "close"
  BY <1>1 DEF Param
<1>2. CASE Param("series", "log_returns") # "close"
  <2>1. Chosen = Returns
    BY <1>2 DEF Chosen
  <2> QED BY <2>1, ReturnsRaw
<1> QED BY <1>1, <1>2

\* Every finding carries the raw series its declaration names.
LEMMA KernelRaw ==
  ASSUME SeriesFeed, SeriesAccepted, job.scan \notin PairKinds, NEW f \in Kernel, NEW r \in DOMAIN f
  PROVE  RawSeries(Declared, f[r])
<1>0. job.scan \in DOMAIN Registered
  BY DEF SeriesFeed
<1>1. CASE job.scan \in {"adf", "kpss", "meanrev", "cusum"}
  <2>1. RawOf(Levels, f[r])
    <3>1. CASE job.scan = "adf"
      <4>1. PICK k \in AdfLags : f[r] = AdfFound(k)
        BY <3>1 DEF Kernel
      <4> QED BY <4>1 DEF AdfFound, RawOf
    <3>2. CASE job.scan = "kpss"
      BY <3>2 DEF Kernel, RawOf, KpssFound
    <3>3. CASE job.scan = "meanrev"
      BY <3>3 DEF Kernel, RawOf, MeanrevFound
    <3>4. CASE job.scan = "cusum"
      BY <3>4 DEF Kernel, RawOf, CusumFound
    <3> QED BY <1>1, <3>1, <3>2, <3>3, <3>4
  <2>2. Declared.series = "closes"
    BY <1>1, RegisteredAs, SeriesEntries DEF Entry
  <2> QED BY <2>1, <2>2, LevelsRaw DEF RawSeries
<1>2. CASE job.scan \in {"ljung_box", "ljung_box_sq", "variance_ratio", "tsmom", "arch_lm", "hour_of_day",
                        "day_of_week", "session", "eom_som", "anova", "event_window"}
  <2>1. RawOf(Returns, f[r])
    <3>1. CASE job.scan \in {"ljung_box", "ljung_box_sq", "variance_ratio"}
      BY <3>1 DEF Kernel, RawOf, LjungBoxFound, LjungBoxSqFound, VrFound
    <3>3. CASE job.scan = "tsmom"
      <4>1. PICK sel \in Selectable : f[r] = TsmomFound(sel)
        BY <3>3 DEF Kernel
      <4> QED BY <4>1 DEF TsmomFound, RawOf
    <3>4. CASE job.scan = "arch_lm"
      BY <3>4 DEF Kernel, RawOf, ArchFound
    <3>2. CASE job.scan \in {"hour_of_day", "day_of_week"}
      BY <3>2 DEF Kernel, RawOf, HourFound, DayFound, BucketsFound
    <3>5. CASE job.scan \in {"session", "eom_som"}
      BY <3>5 DEF Kernel, RawOf, SessionFound, EomSomFound, BucketsFound
    <3>6. CASE job.scan = "anova"
      BY <3>6 DEF Kernel, RawOf, AnovaFound
    <3>7. CASE job.scan = "event_window"
      BY <3>7 DEF Kernel, RawOf, EventFound
    <3> QED BY <1>2, <3>1, <3>2, <3>3, <3>4, <3>5, <3>6, <3>7
  <2>2. Declared.series = "returns"
    BY <1>2, RegisteredAs, SeriesEntries DEF Entry
  <2> QED BY <2>1, <2>2, ReturnsRaw DEF RawSeries
<1>3. CASE job.scan = "returns"
  <2>1. RawOf(Profile, f[r])
    BY <1>3 DEF Kernel, RawOf, ReturnsFound
  <2>2. Declared.series = "returns"
    BY <1>3, RegisteredAs, SeriesEntries DEF Entry
  <2> QED BY <2>1, <2>2, ReturnsRaw DEF RawSeries
<1>4. CASE job.scan \in {"jarque_bera", "summary", "drawdown", "vol", "outliers"}
  <2>1. RawOf(Chosen, f[r])
    BY <1>4 DEF Kernel, RawOf, JarqueBeraFound, SummaryFound, DrawdownFound, VolFound, OutliersFound
  <2>2. Declared.series = "returns"
    BY <1>4, RegisteredAs, SeriesEntries DEF Entry
  <2> QED BY <2>1, <2>2, ChosenRaw DEF RawSeries
<1>5. CASE job.scan = "gap"
  <2>1. Declared.series = "gaps"
    BY <1>5, RegisteredAs, SeriesEntries DEF Entry
  <2> QED BY <2>1 DEF RawSeries
<1> QED BY <1>0, <1>1, <1>2, <1>3, <1>4, <1>5 DEF Registered, PairKinds

\* A scan over one instrument stands in the table of the hygiene step if it says so.
LEMMA SeriesWired ==
  ASSUME SeriesFeed, SeriesAccepted, job.scan \notin PairKinds
  PROVE  Wired <=> Declared.hygiene # {} /\ ~NoDraws
<1>0. /\ job.scan \in DOMAIN Registered /\ Len(bars) \in Nat
      /\ N = IF Len(bars) = 0 THEN 0 ELSE Len(bars) - 1
  BY BarColumns DEF SeriesFeed
<1>1. Wired <=> InputSeries # "none"
  BY DEF Wired
<1>2. CASE job.scan \in {"tsmom", "drawdown", "returns", "outliers", "cusum", "anova", "gap"}
  <2>1. InputSeries = "none"
    BY <1>2 DEF InputSeries, ReturnScans, LevelScans, BucketScans
  <2>2. Declared.hygiene = {}
    BY <1>2, RegisteredAs, SeriesEntries DEF Entry
  <2> QED BY <1>1, <2>1, <2>2
<1>3. CASE job.scan = "meanrev"
  <2>1. InputSeries = "none"
    BY <1>3 DEF InputSeries, ReturnScans, LevelScans, BucketScans
  <2> QED BY <1>1, <1>3, <2>1 DEF NoDraws
<1>4. CASE job.scan \in {"ljung_box", "ljung_box_sq", "variance_ratio", "arch_lm", "jarque_bera", "vol",
                        "hour_of_day", "day_of_week", "session", "eom_som", "event_window"}
  <2>1. Len(bars) >= 2
    <3>1. CASE job.scan \in {"jarque_bera", "vol"}
      <4>1. Len(Chosen) >= 2
        <5>1. CASE job.scan = "jarque_bera"
          <6>1. Len(Chosen) >= 4 /\ Len(Chosen) \in Nat
            BY <5>1, ChosenColumn DEF SeriesAccepted, SeriesAccepts, Column
          <6> QED BY <6>1
        <5>2. CASE job.scan = "vol"
          <6>1. job.p["window"] \in Int /\ Len(Chosen) \in Nat
            BY <5>2, ChosenColumn DEF SeriesAccepted, VolAccepts, Given, SeriesFeed, Typed, Column
          <6>2. job.p["window"] >= 2 /\ job.p["window"] <= Len(Chosen)
            BY <5>2 DEF SeriesAccepted, VolAccepts
          <6> QED BY <6>1, <6>2
        <5> QED BY <3>1, <5>1, <5>2
      <4>2. Len(Chosen) \in {Len(bars), N}
        BY ChosenColumn, BarColumns
      <4> QED BY <1>0, <4>1, <4>2
    <3>2. CASE job.scan \notin {"jarque_bera", "vol"}
      <4>1. N >= 2 \/ N >= 4 \/ Len(bars) >= 2
        BY <1>4, <3>2 DEF SeriesAccepted, LjungBoxAccepts, VrAccepts, ArchAccepts, BucketAccepts, SessionAccepts,
                          EomSomAccepts, EventAccepts
      <4> QED BY <1>0, <4>1
    <3> QED BY <3>1, <3>2
  <2>2. InputSeries # "none"
    BY <1>0, <1>4, <2>1 DEF InputSeries, ReturnScans, LevelScans, BucketScans
  <2>3. Declared.hygiene # {}
    BY <1>4, RegisteredAs, SeriesEntries DEF Entry
  <2> QED BY <1>1, <1>4, <2>2, <2>3 DEF NoDraws
<1>5. CASE job.scan \in {"adf", "kpss"}
  <2>1. Len(bars) >= 4
    BY <1>5 DEF SeriesAccepted, AdfAccepts, KpssAccepts
  <2>2. InputSeries # "none"
    BY <1>0, <1>5, <2>1 DEF InputSeries, ReturnScans, LevelScans, BucketScans
  <2>3. Declared.hygiene # {}
    BY <1>5, RegisteredAs, SeriesEntries DEF Entry
  <2> QED BY <1>1, <1>5, <2>2, <2>3 DEF NoDraws
<1>6. CASE job.scan = "summary"
  <2>1. Len(bars) >= 1
    BY <1>6 DEF SeriesAccepted, SeriesAccepts
  <2>2. InputSeries # "none" <=> Len(bars) # 1
    <3>0. PICK n \in Nat : n = Len(bars)
      BY <1>0
    <3>9. n >= 1 /\ (n < 2 <=> n = 1)
      <4>1. n >= 1
        BY <2>1, <3>0
      <4> QED BY <4>1
    <3>1. CASE Len(bars) < 2
      <4>1. Len(bars) = 1
        BY <3>0, <3>1, <3>9
      <4>2. InputSeries = "none"
        BY <1>6, <3>1 DEF InputSeries, ReturnScans, LevelScans, BucketScans
      <4> QED BY <4>1, <4>2
    <3>2. CASE ~(Len(bars) < 2)
      <4>1. Len(bars) # 1
        BY <3>0, <3>2, <3>9
      <4>2. InputSeries # "none"
        BY <1>6, <3>2 DEF InputSeries, ReturnScans, LevelScans, BucketScans
      <4> QED BY <4>1, <4>2
    <3> QED BY <3>1, <3>2
  <2>3. Declared.hygiene # {}
    BY <1>6, RegisteredAs, SeriesEntries DEF Entry
  <2> QED BY <1>1, <1>6, <2>2, <2>3 DEF NoDraws
<1> QED BY <1>0, <1>2, <1>3, <1>4, <1>5, <1>6 DEF Registered, PairKinds

----------------------------------------------------------------------------
(* What the catalogue says of a scan over two legs. *)

\* The parameters of a job by their names on the wire.
Wire == [window |-> job.size, max_lag |-> job.size, step |-> job.step, min_aligned_n |-> job.floor]

\* The parameters a request over two legs gives, by name.
LEMMA PairArgs ==
  ASSUME job.scan \in PairKinds
  PROVE  /\ DOMAIN Args = {k \in DOMAIN Wire \cap DOMAIN Declared.params : Wire[k] # Absent}
         /\ \A k \in DOMAIN Args : Args[k] = Wire[k]
<1>1. Args = [k \in {k \in DOMAIN Wire \cap DOMAIN Declared.params : Wire[k] # Absent} |-> Wire[k]]
  BY DEF Args, Wire
<1> QED BY <1>1, Zenon

\* The same as AskedAs over two legs.
LEMMA PairAskedAs ==
  ASSUME job.scan \in PairKinds, NEW d, d = Declared,
         \A k \in d.required : k \in DOMAIN Wire /\ k \in DOMAIN d.params /\ Wire[k] # Absent,
         \A k \in DOMAIN d.params : k \in DOMAIN Wire => (Wire[k] = Absent \/ Wire[k] \in d.params[k]),
         \A k \in DOMAIN d.defaults : k \in DOMAIN Wire /\ k \in DOMAIN d.params
                                      /\ (Wire[k] = Absent => Resolved(k) = d.defaults[k])
  PROVE  AskedFor(Declared)
<1> DEFINE w == Wire
           a == Args
<1>1. /\ DOMAIN a = {k \in DOMAIN w \cap DOMAIN d.params : w[k] # Absent}
      /\ \A k \in DOMAIN a : a[k] = w[k]
  BY PairArgs
<1> HIDE DEF w, a
<1>2. d.required \subseteq DOMAIN a
  BY <1>1 DEF w
<1>3. \A k \in (DOMAIN a \cap DOMAIN d.params) \ {"min_periods"} : a[k] \in d.params[k]
  BY <1>1 DEF w
<1>4. \A k \in DOMAIN d.defaults \ DOMAIN a : Resolved(k) = d.defaults[k]
  BY <1>1 DEF w
<1> QED BY <1>2, <1>3, <1>4 DEF AskedFor, a

\* The parts of a declaration.
LEMMA PartsOf ==
  ASSUME NEW params, NEW required, NEW defaults, NEW series, NEW hygiene, NEW d,
         d = Declaration(params, required, defaults, series, hygiene)
  PROVE  /\ d.params = params /\ d.required = required /\ d.defaults = defaults
         /\ d.series = series /\ d.hygiene = hygiene
BY DEF Declaration

\* An accepted request over two legs is one its declaration asks for.
LEMMA PairAskedFor ==
  ASSUME PairInv, Passed, job.scan \in PairKinds
  PROVE  AskedFor(Declared)
<1> DEFINE d == Declared
<1>0. /\ job.size \in Int /\ job.step \in Int /\ job.floor \in Int /\ Accepts(job)
      /\ DOMAIN Wire = {"window", "max_lag", "step", "min_aligned_n"}
      /\ Wire["window"] = job.size /\ Wire["max_lag"] = job.size /\ Wire["step"] = job.step
      /\ Wire["min_aligned_n"] = job.floor
  BY DEF PairInv, Feed, Passed, Wire
<1>1. CASE job.scan \in {"corr", "ols"}
  <2>1. d = Declaration(RollingSchema, {"window"}, NoDefaults, "legs", RollingHygiene)
    BY <1>1, RegisteredAs DEF PearsonRollingScan, OlsRollingScan
  <2>2. d.params = RollingSchema /\ d.required = {"window"} /\ d.defaults = NoDefaults
    BY <2>1, PartsOf
  <2>3. job.size >= 3
    BY <1>0, <1>1 DEF Accepts, RollingAccepts
  <2>4. job.size # Absent /\ job.size \in AtLeast(3)
    BY <1>0, <2>3 DEF Absent, AtLeast
  <2>5. DOMAIN d.params = {"window"} /\ d.params["window"] = AtLeast(3) /\ DOMAIN d.defaults = {}
    BY <2>2 DEF RollingSchema, NoDefaults
  <2> HIDE DEF d
  <2>6. d = Declared
    BY DEF d
  <2>7. \A k \in d.required : k \in DOMAIN Wire /\ k \in DOMAIN d.params /\ Wire[k] # Absent
    BY <1>0, <2>2, <2>4, <2>5
  <2>8. \A k \in DOMAIN d.params : k \in DOMAIN Wire => (Wire[k] = Absent \/ Wire[k] \in d.params[k])
    BY <1>0, <2>4, <2>5
  <2>9. \A k \in DOMAIN d.defaults : k \in DOMAIN Wire /\ k \in DOMAIN d.params
                                     /\ (Wire[k] = Absent => Resolved(k) = d.defaults[k])
    BY <2>5
  <2> QED BY <2>6, <2>7, <2>8, <2>9, PairAskedAs
<1>2. CASE job.scan = "lead_lag"
  <2>1. d = Declaration([max_lag |-> AtLeast(1)], {}, [max_lag |-> DefaultMaxLag], "legs", EveryHygiene)
    BY <1>2, RegisteredAs DEF LeadLagCcfScan
  <2>2. d.params = [max_lag |-> AtLeast(1)] /\ d.required = {} /\ d.defaults = [max_lag |-> DefaultMaxLag]
    BY <2>1, PartsOf
  <2>3. job.size = Absent \/ job.size \in AtLeast(1)
    <3>1. job.size = Absent \/ job.size >= 1
      BY <1>0, <1>2 DEF Accepts, LeadLagAccepts
    <3> QED BY <1>0, <3>1 DEF AtLeast
  <2>4. DOMAIN d.params = {"max_lag"} /\ d.params["max_lag"] = AtLeast(1)
        /\ DOMAIN d.defaults = {"max_lag"} /\ d.defaults["max_lag"] = DefaultMaxLag
    BY <2>2
  <2>5. job.size = Absent => Resolved("max_lag") = DefaultMaxLag
    BY DEF Resolved, OrDefault
  <2> HIDE DEF d
  <2>6. d = Declared
    BY DEF d
  <2>7. \A k \in d.required : k \in DOMAIN Wire /\ k \in DOMAIN d.params /\ Wire[k] # Absent
    BY <2>2
  <2>8. \A k \in DOMAIN d.params : k \in DOMAIN Wire => (Wire[k] = Absent \/ Wire[k] \in d.params[k])
    BY <1>0, <2>3, <2>4
  <2>9. \A k \in DOMAIN d.defaults : k \in DOMAIN Wire /\ k \in DOMAIN d.params
                                     /\ (Wire[k] = Absent => Resolved(k) = d.defaults[k])
    BY <1>0, <2>4, <2>5
  <2> QED BY <2>6, <2>7, <2>8, <2>9, PairAskedAs
<1>3. CASE job.scan = "engle_granger"
  <2>1. d.params = <<>> /\ d.required = {} /\ d.defaults = NoDefaults
    BY <1>3, RegisteredAs DEF EngleGrangerScan, Declaration
  <2>2. DOMAIN d.params = {} /\ DOMAIN d.defaults = {}
    BY <2>1 DEF NoDefaults
  <2> HIDE DEF d
  <2>3. d = Declared
    BY DEF d
  <2>7. \A k \in d.required : k \in DOMAIN Wire /\ k \in DOMAIN d.params /\ Wire[k] # Absent
    BY <2>1
  <2>8. \A k \in DOMAIN d.params : k \in DOMAIN Wire => (Wire[k] = Absent \/ Wire[k] \in d.params[k])
    BY <2>2
  <2>9. \A k \in DOMAIN d.defaults : k \in DOMAIN Wire /\ k \in DOMAIN d.params
                                     /\ (Wire[k] = Absent => Resolved(k) = d.defaults[k])
    BY <2>2
  <2> QED BY <2>3, <2>7, <2>8, <2>9, PairAskedAs
<1>4. CASE job.scan = "cointegration"
  <2> DEFINE params == [window |-> AtLeast(2), step |-> AtLeast(1), min_aligned_n |-> AtLeast(2)]
             defaults == [step |-> 1, min_aligned_n |-> MinAlignedN]
  <2>1. d = Declaration(params, {"window"}, defaults, "legs", RollingHygiene)
    BY <1>4, RegisteredAs DEF CointegrationRollingScan
  <2>2. d.params = params /\ d.required = {"window"} /\ d.defaults = defaults
    BY <2>1, PartsOf
  <2>3. CointegrationAccepts(job)
    BY <1>0, <1>4 DEF Accepts
  <2>4. /\ job.size # Absent /\ job.size \in AtLeast(2)
        /\ job.step = Absent \/ job.step \in AtLeast(1)
        /\ job.floor = Absent \/ job.floor \in AtLeast(2)
    BY <1>0, <2>3 DEF CointegrationAccepts, Absent, AtLeast
  <2>5. /\ DOMAIN d.params = {"window", "step", "min_aligned_n"} /\ d.params["window"] = AtLeast(2)
        /\ d.params["step"] = AtLeast(1) /\ d.params["min_aligned_n"] = AtLeast(2)
        /\ DOMAIN d.defaults = {"step", "min_aligned_n"} /\ d.defaults["step"] = 1
        /\ d.defaults["min_aligned_n"] = MinAlignedN
    BY <2>2
  <2>6. /\ job.step = Absent => Resolved("step") = 1
        /\ job.floor = Absent => Resolved("min_aligned_n") = MinAlignedN
    BY DEF Resolved, OrDefault, Step
  <2> HIDE DEF d
  <2>10. d = Declared
    BY DEF d
  <2>7. \A k \in d.required : k \in DOMAIN Wire /\ k \in DOMAIN d.params /\ Wire[k] # Absent
    BY <1>0, <2>2, <2>4, <2>5
  <2>8. \A k \in DOMAIN d.params : k \in DOMAIN Wire => (Wire[k] = Absent \/ Wire[k] \in d.params[k])
    BY <1>0, <2>4, <2>5
  <2>9. \A k \in DOMAIN d.defaults : k \in DOMAIN Wire /\ k \in DOMAIN d.params
                                     /\ (Wire[k] = Absent => Resolved(k) = d.defaults[k])
    BY <1>0, <2>5, <2>6
  <2> QED BY <2>7, <2>8, <2>9, <2>10, PairAskedAs
<1> QED BY <1>1, <1>2, <1>3, <1>4 DEF PairKinds

\* A scan over two legs writes no raw series, and stands in the table but for
\* cross.cointegration.rolling.
LEMMA PairEntries ==
  /\ job.scan \in PairKinds => Declared.series = "legs" /\ Declared.hygiene # {}
<1> SUFFICES ASSUME job.scan \in PairKinds PROVE Declared.series = "legs" /\ Declared.hygiene # {}
  OBVIOUS
<1>1. CASE job.scan \in {"corr", "ols"}
  BY <1>1, RegisteredAs, HygieneSets DEF PearsonRollingScan, OlsRollingScan, Declaration
<1>2. CASE job.scan = "lead_lag"
  BY <1>2, RegisteredAs, HygieneSets DEF LeadLagCcfScan, Declaration
<1>3. CASE job.scan = "engle_granger"
  BY <1>3, RegisteredAs, HygieneSets DEF EngleGrangerScan, Declaration
<1>4. CASE job.scan = "cointegration"
  BY <1>4, RegisteredAs, HygieneSets DEF CointegrationRollingScan, Declaration
<1> QED BY <1>1, <1>2, <1>3, <1>4 DEF PairKinds

\* Over two legs no scan but cross.cointegration.rolling is left out of the table.
LEMMA PairWired ==
  ASSUME PairInv, Passed, job.scan \in PairKinds
  PROVE  Wired <=> ~NoDraws
<1>0. AlignedN \in Nat /\ ReturnsN = AlignedN - 1 /\ Accepts(job)
  BY Bounds DEF PairInv, Passed
<1>1. Wired <=> PairInput # "none"
  BY DEF Wired
<1>2. CASE job.scan \in {"corr", "ols", "lead_lag"}
  <2>1. AlignedN # 0 /\ ~(AlignedN < 2)
    BY <1>0, <1>2 DEF Accepts, RollingAccepts, LeadLagAccepts
  <2>2. PairInput = "returns"
    BY <1>2, <2>1 DEF PairInput
  <2> QED BY <1>1, <1>2, <2>2 DEF NoDraws
<1>3. CASE job.scan = "engle_granger"
  <2>1. AlignedN >= MinAlignedN
    BY <1>0, <1>3 DEF Accepts, EngleGrangerAccepts
  <2>2. AlignedN # 0 /\ ~(AlignedN < 4)
    BY <1>0, <2>1, TableAssumption, PairAssumption
  <2>3. PairInput = "close"
    BY <1>3, <2>2 DEF PairInput
  <2> QED BY <1>1, <1>3, <2>3 DEF NoDraws
<1>4. CASE job.scan = "cointegration"
  <2>1. PairInput = "none"
    BY <1>4 DEF PairInput
  <2> QED BY <1>1, <1>4, <2>1 DEF NoDraws
<1> QED BY <1>2, <1>3, <1>4 DEF PairKinds

\* AsDeclared of ScanRun: what run accepts and writes is what the catalogue declares.
THEOREM ScansAsDeclared == Spec => []AsDeclared
<1>1. IndInv /\ PairCalm /\ SeriesInv => AsDeclared
  <2> SUFFICES ASSUME IndInv, PairCalm, SeriesInv PROVE AsDeclared
    OBVIOUS
  <2>1. NoPanic
    BY PanicsAsSaid
  <2>2. ASSUME out # <<>>
        PROVE  AskedFor(Declared) /\ RawSeries(Declared, out[1]) /\ (Wired <=> Declared.hygiene # {} /\ ~NoDraws)
    <3>1. CASE job.scan \in PairKinds
      <4>1. PairInv /\ Passed
        BY <2>2, <3>1 DEF IndInv, PairInv, Written
      <4>2. AskedFor(Declared) /\ (Wired <=> ~NoDraws)
        BY <3>1, <4>1, PairAskedFor, PairWired
      <4>3. Declared.series = "legs" /\ Declared.hygiene # {}
        BY <3>1, PairEntries
      <4>4. RawSeries(Declared, out[1])
        BY <4>3 DEF RawSeries
      <4> QED BY <4>2, <4>3, <4>4
    <3>2. CASE job.scan \notin PairKinds
      <4>1. 1 \in DOMAIN out
        <5>1. Len(out) \in Nat /\ DOMAIN out = 1..Len(out) /\ Len(out) # 0
          BY <2>2, <3>2, LenProperties, EmptySeq DEF SeriesInv, SeriesControl
        <5> QED BY <5>1
      <4>2. SeriesFeed /\ SeriesAccepted /\ found \in Kernel /\ 1 \in DOMAIN found /\ out[1] = found[1]
        BY <3>2, <4>1, WrittenAreFound
      <4>3. AskedFor(Declared) /\ (Wired <=> Declared.hygiene # {} /\ ~NoDraws)
        BY <3>2, <4>2, SeriesAskedFor, SeriesWired
      <4>4. RawSeries(Declared, out[1])
        BY <3>2, <4>2, KernelRaw
      <4> QED BY <4>3, <4>4
    <3> QED BY <3>1, <3>2
  <2> QED BY <2>1, <2>2 DEF AsDeclared, DeclarationHolds
<1>2. IndInv /\ PairCalm /\ [Next]_vars => (IndInv /\ PairCalm)'
  BY NextInv, PairCalmNext
<1>3. Spec => [](IndInv /\ PairCalm)
  BY <1>2, InitInv, PairCalmInit, PTL DEF Spec
<1> QED BY <1>1, <1>3, SeriesInvariant, PTL

----------------------------------------------------------------------------
(* The dispatch table of the hygiene step computes what the finding carries. *)

\* The statistic of the Results of a scan.
OfKernel(e) == \A f \in Kernel : f[1].effect = e

\* What the table hands a closure is as long as what the scan looks at.
LEMMA SeriesTable ==
  ASSUME SeriesFeed, InputSeries # "none"
  PROVE  /\ job.scan \in ReturnScans => InputSeries = "returns" /\ SliceLen = N
         /\ job.scan = "ljung_box_sq" => InputSeries = "squares" /\ SliceLen = N
         /\ job.scan \in LevelScans => InputSeries = "close" /\ SliceLen = Len(bars)
BY DEF InputSeries, SliceLen, ReturnScans, LevelScans, BucketScans

\* Each closure computes over the whole sample what its scan has reported: the tests,
LEMMA LjungBoxAgain ==
  ASSUME SeriesFeed, ~job.odd, LjungBoxAccepts, job.scan \in {"ljung_box", "ljung_box_sq"}, InputSeries # "none"
  PROVE  OfKernel(SeriesClosure)
<1>1. SliceLen = N /\ InputSeries = IF job.scan = "ljung_box" THEN "returns" ELSE "squares"
  BY SeriesTable DEF ReturnScans
<1>2. LjungBoxClosure = Effect("ljung_box_q", Lags, InputSeries)
  <2>1. Param("lags", DefaultLags(SliceLen)) = Lags
    BY <1>1 DEF Lags
  <2>2. ~(Lags < 1 \/ Lags >= N)
    BY LagsInt, BarColumns DEF LjungBoxAccepts
  <2> QED BY <1>1, <2>1, <2>2 DEF LjungBoxClosure
<1>3. SeriesClosure = LjungBoxClosure
  BY DEF SeriesClosure, BucketScans
<1>4. CASE job.scan = "ljung_box"
  BY <1>1, <1>2, <1>3, <1>4 DEF OfKernel, Kernel, LjungBoxFound, Found
<1>5. CASE job.scan = "ljung_box_sq"
  BY <1>1, <1>2, <1>3, <1>5 DEF OfKernel, Kernel, LjungBoxSqFound, Found
<1> QED BY <1>4, <1>5

\* The table recomputes the number of the unit-root test,
LEMMA AdfAgain ==
  ASSUME SeriesFeed, ~job.odd, AdfAccepts, job.scan = "adf", InputSeries # "none"
  PROVE  OfKernel(SeriesClosure)
<1>1. SliceLen = Len(bars) /\ InputSeries = "close"
  BY SeriesTable DEF LevelScans
<1>2. AdfClosure = Effect("adf_tau", <<Regression, Autolag, MaxLag>>, "close")
  <2>1. Param("max_lag", Schwert(12, SliceLen)) = MaxLag
    BY <1>1 DEF MaxLag
  <2>2. ~(MaxLag >= Len(bars))
    BY MaxLagInt, BarColumns DEF AdfAccepts
  <2> QED BY <1>1, <2>1, <2>2 DEF AdfClosure
<1>3. SeriesClosure = AdfClosure
  BY DEF SeriesClosure, BucketScans
<1>4. ASSUME NEW f \in Kernel PROVE f[1].effect = SeriesClosure
  <2>1. PICK k \in AdfLags : f = <<AdfFound(k)>>
    BY <1>4 DEF Kernel
  <2> QED BY <1>2, <1>3, <2>1 DEF AdfFound, Found
<1> QED BY <1>4 DEF OfKernel

\* of the stationarity test,
LEMMA KpssAgain ==
  ASSUME SeriesFeed, job.scan = "kpss", InputSeries # "none"
  PROVE  OfKernel(SeriesClosure)
<1>1. InputSeries = "close"
  BY SeriesTable DEF LevelScans
<1>2. SeriesClosure = KpssClosure
  BY DEF SeriesClosure, BucketScans
<1> QED BY <1>1, <1>2 DEF OfKernel, Kernel, KpssClosure, KpssFound, Found

\* and of the variance ratio.
LEMMA VrAgain ==
  ASSUME SeriesFeed, ~job.odd, VrAccepts, job.scan = "variance_ratio", InputSeries # "none"
  PROVE  OfKernel(SeriesClosure)
<1>1. SliceLen = N /\ InputSeries = "returns" /\ N \in Nat
  BY SeriesTable, BarColumns DEF ReturnScans
<1> DEFINE k == Last(VrHorizons)
<1>2. k \in Int /\ k >= 2 /\ k <= N \div 2 /\ N >= 4
  <2>1. VrHorizons \in Seq(Int) /\ VrHorizons # <<>>
    BY DEF VrHorizons, Param, Given, SeriesFeed, Typed, VrAccepts
  <2>2. Len(VrHorizons) \in DOMAIN VrHorizons /\ \A i \in DOMAIN VrHorizons : VrHorizons[i] \in Int
    <3>1. Len(VrHorizons) \in Nat /\ DOMAIN VrHorizons = 1..Len(VrHorizons) /\ Len(VrHorizons) # 0
      BY <2>1, LenProperties, EmptySeq
    <3> QED BY <2>1, <3>1, LenProperties
  <2>3. k = VrHorizons[Len(VrHorizons)]
    BY DEF Last
  <2> QED BY <2>2, <2>3 DEF VrAccepts
<1>3. Param("k_values", <<2, 4, 8, 16>>) = VrHorizons /\ Param("robust", TRUE) = Robust
  BY DEF VrHorizons, Robust
<1> HIDE DEF k
<1>4. VrClosure = Effect("variance_ratio", <<k, Robust>>, "returns")
  <2>1. ~(N < 4 \/ k < 2 \/ k > N \div 2)
    <3>1. N \div 2 \in Int
      BY <1>1
    <3> QED BY <1>1, <1>2, <3>1
  <2> QED BY <1>1, <1>3, <2>1 DEF VrClosure, k
<1>5. SeriesClosure = VrClosure
  BY DEF SeriesClosure, BucketScans
<1> QED BY <1>4, <1>5 DEF OfKernel, Kernel, VrFound, Found, k

\* the test for conditional variance where the lag is given,
LEMMA ArchAgain ==
  ASSUME SeriesFeed, ~job.odd, ArchAccepts, Given("lag"), job.scan = "arch_lm", InputSeries # "none"
  PROVE  OfKernel(SeriesClosure)
<1>1. SliceLen = N /\ InputSeries = "returns" /\ N \in Nat
  BY SeriesTable, BarColumns DEF ReturnScans
<1>2. Lag \in Int /\ Lag >= 1 /\ Lag <= N \div 3 /\ Param("lag", 12) = Lag
  BY DEF Lag, Param, Given, SeriesFeed, Typed, ArchAccepts
<1>3. SeriesClosure = ArchClosure
  BY DEF SeriesClosure, BucketScans
<1>4. ASSUME NEW f \in Kernel PROVE f[1].effect = SeriesClosure
  <2>1. ArchFits /\ f = <<ArchFound>>
    BY <1>4 DEF Kernel
  <2>2. ~(N < 4 \/ Lag < 1 \/ Lag > N \div 3)
    <3>1. N \div 3 \in Int
      BY <1>1
    <3>2. N >= 4
      BY <1>1, <1>2, <2>1 DEF ArchFits
    <3> QED BY <1>1, <1>2, <3>1, <3>2
  <2>3. ArchClosure = Effect("arch_lm", Lag, "returns")
    BY <1>1, <1>2, <2>2 DEF ArchClosure
  <2> QED BY <1>3, <2>1, <2>3 DEF ArchFound, Found
<1> QED BY <1>4 DEF OfKernel

\* the numbers over one column,
LEMMA WholeAgain ==
  ASSUME SeriesFeed, ~job.odd, SeriesAccepted, job.scan \in {"jarque_bera", "summary", "vol"},
         SeriesName # "close", InputSeries # "none"
  PROVE  OfKernel(SeriesClosure)
<1>1. SliceLen = N /\ InputSeries = "returns" /\ N \in Nat /\ Len(Returns) = N
  BY SeriesTable, BarColumns DEF ReturnScans
<1>2. SeriesName = "returns" /\ Chosen = Returns
  BY DEF SeriesName, Chosen
<1>3. CASE job.scan = "jarque_bera"
  <2>1. ~(N < 4)
    BY <1>1, <1>2, <1>3 DEF SeriesAccepted, SeriesAccepts
  <2>2. SeriesClosure = Effect("jarque_bera", 0, "returns")
    BY <1>1, <1>3, <2>1 DEF SeriesClosure, JarqueBeraClosure, BucketScans
  <2> QED BY <1>2, <1>3, <2>2 DEF OfKernel, Kernel, JarqueBeraFound, Found
<1>4. CASE job.scan = "summary"
  <2>1. SeriesClosure = Effect("mean", 0, "returns")
    BY <1>1, <1>4 DEF SeriesClosure, MeanClosure, BucketScans
  <2> QED BY <1>2, <1>4, <2>1 DEF OfKernel, Kernel, SummaryFound, Found
<1>5. CASE job.scan = "vol"
  <2> DEFINE w == job.p["window"]
  <2>1. Given("window") /\ w >= 2 /\ w <= N
    BY <1>1, <1>2, <1>5 DEF SeriesAccepted, VolAccepts
  <2>2. w \in Int
    BY <2>1 DEF SeriesFeed, Typed, Given
  <2>3. ~(~Given("window") \/ w < 2) /\ ~(N < w)
    BY <1>1, <2>1, <2>2
  <2>4. SeriesClosure = Effect("last_vol", w, "returns")
    BY <1>1, <1>5, <2>3 DEF SeriesClosure, VolClosure, BucketScans
  <2> QED BY <1>2, <1>5, <2>4 DEF OfKernel, Kernel, VolFound, Found
<1> QED BY <1>3, <1>4, <1>5

\* the scans by time,
LEMMA BucketsAgain ==
  ASSUME SeriesFeed, job.scan \in BucketScans, job.scan = "session" => ~Given("sessions"), InputSeries # "none"
  PROVE  OfKernel(SeriesClosure)
<1>1. InputSeries = "returns"
  BY SeriesTable DEF ReturnScans
<1>2. SeriesClosure = Effect("max_abs_t", <<SeasGroups, Floor>>, "returns")
  BY <1>1 DEF SeriesClosure, BucketClosure, BucketScans
<1>3. Kernel = {<<BucketsFound(SeasGroups)>>}
  <2>1. CASE job.scan = "hour_of_day"
    BY <2>1 DEF Kernel, SeasGroups, HourFound
  <2>2. CASE job.scan = "day_of_week"
    BY <2>2 DEF Kernel, SeasGroups, DayFound
  <2>3. CASE job.scan = "session"
    <3>1. Sessions = FxMajor
      BY <2>3 DEF Sessions, Param
    <3> QED BY <2>3, <3>1 DEF Kernel, SeasGroups, SessionFound
  <2>4. CASE job.scan = "eom_som"
    BY <2>4 DEF Kernel, SeasGroups, EomSomFound
  <2> QED BY <2>1, <2>2, <2>3, <2>4 DEF BucketScans
<1>4. BucketsFound(SeasGroups).effect = Effect("max_abs_t", <<SeasGroups, Floor>>, "returns")
  BY DEF BucketsFound, Found
<1> QED BY <1>2, <1>3, <1>4 DEF OfKernel

\* all but those that read the parameters differently,
LEMMA SeriesAgain ==
  ASSUME SeriesFeed, SeriesAccepted, job.scan \notin PairKinds, Wired, ~ReadDifferently
  PROVE  OfKernel(SeriesClosure)
<1>0. InputSeries # "none" /\ ~job.odd /\ job.scan \in ReturnScans \cup {"ljung_box_sq"} \cup LevelScans
  BY DEF Wired, InputSeries, SeriesAccepted
<1>1. CASE job.scan \in {"ljung_box", "ljung_box_sq"}
  <2>1. LjungBoxAccepts
    BY <1>1 DEF SeriesAccepted
  <2> QED BY <1>0, <1>1, <2>1, LjungBoxAgain
<1>2. CASE job.scan = "adf"
  <2>1. AdfAccepts
    BY <1>2 DEF SeriesAccepted
  <2> QED BY <1>0, <1>2, <2>1, AdfAgain
<1>3. CASE job.scan = "kpss"
  BY <1>0, <1>3, KpssAgain
<1>4. CASE job.scan = "variance_ratio"
  <2>1. VrAccepts
    BY <1>4 DEF SeriesAccepted
  <2> QED BY <1>0, <1>4, <2>1, VrAgain
<1>5. CASE job.scan = "arch_lm"
  <2>1. ArchAccepts /\ Given("lag")
    BY <1>5 DEF SeriesAccepted, ReadDifferently
  <2> QED BY <1>0, <1>5, <2>1, ArchAgain
<1>6. CASE job.scan \in {"jarque_bera", "summary", "vol"}
  <2>1. SeriesName # "close"
    BY <1>6 DEF ReadDifferently
  <2> QED BY <1>0, <1>6, <2>1, WholeAgain
<1>7. CASE job.scan \in BucketScans
  <2>1. job.scan = "session" => ~Given("sessions")
    BY DEF ReadDifferently
  <2> QED BY <1>0, <1>7, <2>1, BucketsAgain
<1>8. job.scan # "event_window"
  BY DEF ReadDifferently
<1> QED BY <1>0, <1>1, <1>2, <1>3, <1>4, <1>5, <1>6, <1>7, <1>8 DEF ReturnScans, LevelScans, BucketScans

\* and the scans over two legs.
LEMMA PairAgain ==
  ASSUME PairInv, Passed, job.scan \in PairKinds, Wired
  PROVE  PairClosure = PairEffect
<1>0. /\ job.size \in Int /\ AlignedN \in Nat /\ ReturnsN = AlignedN - 1 /\ AlignedN >= 1 /\ Accepts(job)
      /\ job.scan \in {"corr", "ols"} => 3 <= job.size /\ job.size <= ReturnsN
      /\ job.scan # "cointegration" /\ PairInput # "none"
  BY Bounds DEF PairInv, Passed, Wired, PairInput
<1>1. CASE job.scan \in {"corr", "ols"}
  <2>1. ~(job.size < 2) /\ ~(job.size < 3) /\ ~(ReturnsN < job.size)
    BY <1>0, <1>1
  <2>2. PairInput = "returns"
    BY <1>0, <1>1 DEF PairInput
  <2>3. LastWindowClosure(2) = Effect("last_window", Last(CorrWindows(job.size)), "returns")
        /\ LastWindowClosure(3) = Effect("last_window", Last(CorrWindows(job.size)), "returns")
    BY <2>1, <2>2 DEF LastWindowClosure
  <2>4. OlsWindows(job.size) = CorrWindows(job.size)
    BY DEF OlsWindows, CorrWindows
  <2> QED BY <1>1, <2>3, <2>4 DEF PairClosure, PairEffect
<1>2. CASE job.scan = "lead_lag"
  <2> DEFINE l == OrDefault(job.size, DefaultMaxLag)
  <2>1. ReturnsN >= 4 /\ (job.size = Absent \/ job.size >= 1) /\ l < ReturnsN \div 2
    BY <1>0, <1>2 DEF Accepts, LeadLagAccepts
  <2>2. l \in Nat /\ l # 0
    BY <1>0, <2>1, PairAssumption DEF OrDefault, Absent
  <2> HIDE DEF l
  <2>3. ~(ReturnsN < 2 \/ l = 0 \/ l >= ReturnsN \div 2)
    <3>1. ReturnsN \div 2 \in Int
      BY <1>0
    <3> QED BY <1>0, <2>1, <2>2, <3>1
  <2>4. PairInput = "returns"
    BY <1>0, <1>2 DEF PairInput
  <2>5. PairClosure = LeadLagClosure /\ PairEffect = Effect("argmax_lag", l, "returns")
    BY <1>2 DEF PairClosure, PairEffect, l
  <2>6. LeadLagClosure = Effect("argmax_lag", l, "returns")
    BY <2>3, <2>4 DEF LeadLagClosure, l
  <2> QED BY <2>5, <2>6
<1>3. CASE job.scan = "engle_granger"
  <2>1. PairInput = "close"
    BY <1>0, <1>3 DEF PairInput
  <2> QED BY <1>3, <2>1 DEF PairClosure, PairEffect
<1> QED BY <1>0, <1>1, <1>2, <1>3 DEF PairKinds

\* ResampledIsReported of ScanRun: what is drawn again is what the finding carries.
THEOREM ResampledAsReported == Spec => []ResampledIsReported
<1>1. IndInv /\ SeriesInv => ResampledIsReported
  <2> SUFFICES ASSUME IndInv, SeriesInv PROVE ResampledIsReported
    OBVIOUS
  <2>1. SameSide
    BY DEF SameSide, TailFor, PValueSide
  <2>2. ASSUME ~ReadDifferently, out # <<>>, Wired PROVE Closure = Reported
    <3>1. CASE job.scan \in PairKinds
      <4>1. PairInv /\ Passed
        BY <2>2, <3>1 DEF IndInv, PairInv, Written
      <4> QED BY <2>2, <3>1, <4>1, PairAgain DEF Closure, Reported
    <3>2. CASE job.scan \notin PairKinds
      <4>1. 1 \in DOMAIN out
        <5>1. Len(out) \in Nat /\ DOMAIN out = 1..Len(out) /\ Len(out) # 0
          BY <2>2, <3>2, LenProperties, EmptySeq DEF SeriesInv, SeriesControl
        <5> QED BY <5>1
      <4>2. SeriesFeed /\ SeriesAccepted /\ found \in Kernel /\ 1 \in DOMAIN found /\ out[1] = found[1]
        BY <3>2, <4>1, WrittenAreFound
      <4>3. found[1].effect = SeriesClosure
        BY <2>2, <3>2, <4>2, SeriesAgain DEF OfKernel
      <4> QED BY <3>2, <4>2, <4>3 DEF Closure, Reported
    <3> QED BY <3>1, <3>2
  <2> QED BY <2>1, <2>2 DEF ResampledIsReported, SameAsReported
<1>2. Spec => []IndInv
  BY InitInv, NextInv, PTL DEF Spec
<1> QED BY <1>1, <1>2, SeriesInvariant, PTL

----------------------------------------------------------------------------
(* The walk over the drawdowns. *)

Walking == INSTANCE Induction WITH Op <- Visit, Base <- Calm

\* A sum of integers.
LEMMA TotalInt ==
  ASSUME NEW n \in Nat, NEW s, DOMAIN s = 1..n, \A i \in 1..n : s[i] \in Int
  PROVE  Total(s) \in Int
<1> DEFINE W == [i \in 0..n |-> Int]
<1>1. Sums!Keeps(W, n, s)
  BY DEF Sums!Keeps, Plus
<1>2. Sums!Fold(s) \in W[n]
  <2> HIDE DEF W
  <2> QED BY <1>1, Sums!FoldInvariant
<1>3. Sums!Fold(s) = Total(s)
  BY Zenon DEF Sums!Fold, Sums!MapThenFoldSet, Sums!Top, Plus, Total, FoldLeft, MapThenFoldSet, Max
<1> QED BY <1>2, <1>3

\* Every value of a column is an integer, and so is the equity.
LEMMA ChosenValues ==
  ASSUME SeriesFeed, NEW i \in 1..Len(Chosen)
  PROVE  Chosen[i].v \in Int
<1>1. CASE Chosen = Levels
  <2>1. i \in 1..Len(bars) /\ bars[i].close \in Int /\ i \in DOMAIN bars
    BY <1>1, BarColumns
  <2> QED BY <1>1, <2>1 DEF Levels
<1>2. CASE Chosen = Returns
  <2>1. i \in 1..N /\ i \in 1..Len(bars) /\ i + 1 \in 1..Len(bars)
    BY <1>2, BarColumns
  <2>2. bars[i].close \in Int /\ bars[i + 1].close \in Int
    BY <2>1, BarColumns
  <2>3. Returns[i].v = bars[i + 1].close - bars[i].close
    BY <2>1, BarColumns DEF Returns
  <2> QED BY <1>2, <2>2, <2>3
<1> QED BY <1>1, <1>2, ChosenColumn

\* The equity of a drawdown is a number for every value of the chosen series.
LEMMA EquityInt ==
  ASSUME SeriesFeed
  PROVE  /\ Len(Chosen) \in Nat /\ DOMAIN Chosen = 1..Len(Chosen)
         /\ DOMAIN Equity = 1..Len(Chosen) /\ Len(Equity) = Len(Chosen)
         /\ \A i \in 1..Len(Chosen) : Equity[i] \in Int /\ Chosen[i].at \in Int
<1> DEFINE n == Len(Chosen)
<1>1. /\ n \in Nat /\ DOMAIN Chosen = 1..n /\ \A i \in 1..n : Chosen[i].at \in Int
  BY ChosenColumn DEF Column
<1>2. SeriesName = "close" => Chosen = Levels
  BY DEF SeriesName, Chosen
<1>3. DOMAIN Equity = 1..n
  BY <1>1, <1>2 DEF Equity, Values
<1>4. Len(Equity) = n
  BY <1>1, <1>3, LenIs
<1>5. ASSUME NEW i \in 1..n PROVE Equity[i] \in Int
  <2>1. CASE SeriesName = "close"
    <3>1. Equity[i] = Chosen[i].v
      BY <1>1, <1>2, <2>1 DEF Equity, Values
    <3> QED BY <3>1, ChosenValues
  <2>2. CASE SeriesName # "close"
    <3> DEFINE s == SubSeq(Chosen, 1, i)
               v == Values(s)
    <3>1. Equity[i] = Total(v)
      BY <1>1, <2>2 DEF Equity, SumOf
    <3>2. DOMAIN v = 1..i /\ \A k \in 1..i : v[k] \in Int
      <4>1. DOMAIN s = 1..i /\ \A k \in 1..i : s[k] = Chosen[k]
        <5>1. \A k \in 1..i : k \in 1..n
          BY <1>1
        <5> DEFINE S == {Chosen[k] : k \in 1..n}
        <5>2. \A k \in 1..i : Chosen[k] \in S
          BY <5>1
        <5> HIDE DEF S
        <5>3. /\ SubSeq(Chosen, 1, i) \in Seq(S) /\ Len(SubSeq(Chosen, 1, i)) = i
              /\ \A k \in 1..i : SubSeq(Chosen, 1, i)[k] = Chosen[k]
          <6>1. /\ SubSeq(Chosen, 1, i) \in Seq(S)
                /\ Len(SubSeq(Chosen, 1, i)) = IF 1 <= i THEN i - 1 + 1 ELSE 0
                /\ \A k \in 1..(i - 1 + 1) : SubSeq(Chosen, 1, i)[k] = Chosen[1 + k - 1]
            BY <1>1, <5>2, SubSeqProperties
          <6> QED BY <1>1, <6>1
        <5> QED BY <5>3, LenProperties
      <4>2. \A k \in 1..i : k \in 1..n
        BY <1>1
      <4> QED BY <4>1, <4>2, ChosenValues DEF Values
    <3> HIDE DEF v
    <3>3. i \in Nat
      BY <1>1
    <3> QED BY <3>1, <3>2, <3>3, TotalInt
  <2> QED BY <2>1, <2>2
<1> QED BY <1>1, <1>3, <1>4, <1>5

\* The value at p is as high as any before it and higher than any after it, up to t.
HighestSo(p, t) == /\ \A q \in 1..p : Equity[q] <= Equity[p]
                   /\ \A q \in (p + 1)..t : Equity[q] < Equity[p]

\* The first lowest value from p to t is the one at l.
Lowest(l, p, t) == /\ l \in (p + 1)..t
                   /\ \A q \in p..t : Equity[l] <= Equity[q]
                   /\ \A q \in p..(l - 1) : Equity[l] < Equity[q]

\* The fall from p is made good by the value at b.
Closed(p, b) == p \in Nat /\ p >= 1 /\ p + 1 < b /\ HighestSo(p, b - 1) /\ Equity[p] <= Equity[b]

EpisodeIs(e, b) ==
  /\ Closed(e.peak, b) /\ Lowest(e.trough, e.peak, b - 1)
  /\ e.fall = Chosen[e.trough].at - Chosen[e.peak].at
  /\ e.recover = Chosen[b].at - Chosen[e.trough].at

\* Where the walk stands after t values: its peak, its deepest fall and its episodes.
Standing(s, t) ==
  /\ s.peak \in 1..t /\ HighestSo(s.peak, t)
  /\ ~s.in => s.peak = t
  /\ s.in => s.from = s.peak /\ Lowest(s.trough, s.peak, t)

Deepest(d, t) ==
  /\ d <= 0 /\ \A p \in 1..t : \A q \in p..t : d <= Equity[q] - Equity[p]
  /\ d = 0 \/ \E p \in 1..t : \E q \in p..t : d = Equity[q] - Equity[p]

Ended(eps, t) ==
  /\ \A i \in DOMAIN eps : \E b \in 1..t : EpisodeIs(eps[i], b)
  /\ \A b \in 1..t : \A p \in 1..t : Closed(p, b) => \E i \in DOMAIN eps : eps[i].peak = p
  /\ \A i, j \in DOMAIN eps : eps[i].peak = eps[j].peak => i = j

Episode == [peak : Nat, trough : Nat, fall : Int, recover : Int]
WalkStates == [in : BOOLEAN, peak : Nat, from : Nat, trough : Nat, maxDd : Int, episodes : Seq(Episode)]

Walked(t) == {s \in WalkStates : Standing(s, t) /\ Deepest(s.maxDd, t) /\ Ended(s.episodes, t)}

\* There is one last highest value.
LEMMA OnePeak ==
  ASSUME SeriesFeed, NEW t \in 1..Len(Chosen), NEW p \in 1..t, NEW r \in 1..t,
         HighestSo(p, t), HighestSo(r, t)
  PROVE  p = r
<1>1. Equity[p] \in Int /\ Equity[r] \in Int
  BY EquityInt
<1>2. CASE p < r
  <2>1. Equity[r] < Equity[p]
    BY <1>2 DEF HighestSo
  <2>2. Equity[p] <= Equity[r]
    BY <1>2 DEF HighestSo
  <2> QED BY <1>1, <2>1, <2>2
<1>3. CASE r < p
  <2>1. Equity[p] < Equity[r]
    BY <1>3 DEF HighestSo
  <2>2. Equity[r] <= Equity[p]
    BY <1>3 DEF HighestSo
  <2> QED BY <1>1, <2>1, <2>2
<1> QED BY <1>2, <1>3

\* One value more that is as high as the peak.
LEMMA HighestNext ==
  ASSUME SeriesFeed, NEW t \in Nat, t + 1 \in 1..Len(Chosen), NEW p \in 1..t, HighestSo(p, t)
  PROVE  /\ Equity[t + 1] >= Equity[p] => HighestSo(t + 1, t + 1)
         /\ Equity[t + 1] < Equity[p] => HighestSo(p, t + 1)
<1>0. Len(Chosen) \in Nat
  BY EquityInt
<1>1. \A q \in 1..(t + 1) : Equity[q] \in Int
  BY <1>0, EquityInt
<1>2. \A q \in 1..t : Equity[q] <= Equity[p]
  BY <1>1 DEF HighestSo
<1>3. ASSUME Equity[t + 1] >= Equity[p] PROVE HighestSo(t + 1, t + 1)
  <2>1. \A q \in 1..(t + 1) : Equity[q] <= Equity[t + 1]
    BY <1>1, <1>2, <1>3
  <2> QED BY <2>1 DEF HighestSo
<1>4. ASSUME Equity[t + 1] < Equity[p] PROVE HighestSo(p, t + 1)
  BY <1>4 DEF HighestSo
<1> QED BY <1>3, <1>4

\* The fields of the next state of the walk.
Fields(s, in, peak, from, trough, maxDd, eps) ==
  s.in = in /\ s.peak = peak /\ s.from = from /\ s.trough = trough /\ s.maxDd = maxDd /\ s.episodes = eps

Closing(s, t) == [peak |-> s.from, trough |-> s.trough, fall |-> Chosen[s.trough].at - Chosen[s.from].at,
                  recover |-> Chosen[t].at - Chosen[s.trough].at]

\* The record a step at a peak makes, field by field,
LEMMA ExceptAtPeak ==
  ASSUME NEW s \in WalkStates, NEW no \in BOOLEAN, NEW t \in Nat, NEW eps \in Seq(Episode), NEW u,
         u = [s EXCEPT !.in = no, !.peak = t, !.episodes = eps]
  PROVE  u \in WalkStates /\ Fields(u, no, t, s.from, s.trough, s.maxDd, eps)
<1> DEFINE Eps == Seq(Episode)
           B == BOOLEAN
           R == [in : B, peak : Nat, from : Nat, trough : Nat, maxDd : Int, episodes : Eps]
<1>1. s \in R /\ no \in B /\ eps \in Eps
  BY DEF WalkStates
<1> HIDE DEF Eps, B
<1>2. u \in R
  BY <1>1
<1>3. /\ u.in = no /\ u.peak = t /\ u.from = s.from /\ u.trough = s.trough /\ u.maxDd = s.maxDd
      /\ u.episodes = eps
  BY <1>1
<1> QED BY <1>2, <1>3 DEF WalkStates, Fields, Eps, B

\* and the one a step below it makes.
LEMMA ExceptBelow ==
  ASSUME NEW s \in WalkStates, NEW yes \in BOOLEAN, NEW d \in Int, NEW f \in Nat, NEW l \in Nat, NEW u,
         u = [s EXCEPT !.in = yes, !.maxDd = d, !.from = f, !.trough = l]
  PROVE  u \in WalkStates /\ Fields(u, yes, s.peak, f, l, d, s.episodes)
<1> DEFINE Eps == Seq(Episode)
           B == BOOLEAN
           R == [in : B, peak : Nat, from : Nat, trough : Nat, maxDd : Int, episodes : Eps]
<1>1. s \in R /\ yes \in B
  BY DEF WalkStates
<1> HIDE DEF Eps, B
<1>2. u \in R
  BY <1>1
<1>3. /\ u.in = yes /\ u.peak = s.peak /\ u.from = f /\ u.trough = l /\ u.maxDd = d
      /\ u.episodes = s.episodes
  BY <1>1
<1> QED BY <1>2, <1>3 DEF WalkStates, Fields, Eps, B

\* A step at a peak ends the episode it is in, and only then.
LEMMA AtPeakIs ==
  ASSUME NEW s \in WalkStates, NEW t \in Nat, NEW eps \in Seq(Episode),
         eps = IF s.in THEN Append(s.episodes, Closing(s, t)) ELSE s.episodes
  PROVE  AtPeak(s, t) \in WalkStates /\ Fields(AtPeak(s, t), FALSE, t, s.from, s.trough, s.maxDd, eps)
<1>1. AtPeak(s, t) = [s EXCEPT !.in = FALSE, !.peak = t, !.episodes = eps]
  BY DEF AtPeak, Closing
<1>2. PICK no \in BOOLEAN : no = FALSE
  OBVIOUS
<1> QED BY <1>1, <1>2, ExceptAtPeak

\* A step below the peak begins an episode or goes on with it.
LEMMA BelowStateIs ==
  ASSUME NEW s \in WalkStates, NEW t \in Nat, NEW d \in Int, NEW f \in Nat, NEW l \in Nat,
         d = Min({s.maxDd, Equity[t] - Equity[s.peak]}), f = IF s.in THEN s.from ELSE s.peak,
         l = IF s.in /\ Equity[t] >= Equity[s.trough] THEN s.trough ELSE t
  PROVE  Below(s, t) \in WalkStates /\ Fields(Below(s, t), TRUE, s.peak, f, l, d, s.episodes)
<1>1. Below(s, t) = [s EXCEPT !.in = TRUE, !.maxDd = d, !.from = f, !.trough = l]
  BY DEF Below
<1>2. PICK yes \in BOOLEAN : yes = TRUE
  OBVIOUS
<1>3. PICK u : u = Below(s, t)
  OBVIOUS
<1>4. u = [s EXCEPT !.in = yes, !.maxDd = d, !.from = f, !.trough = l]
  BY <1>1, <1>2, <1>3
<1>5. u \in WalkStates /\ Fields(u, yes, s.peak, f, l, d, s.episodes)
  BY ONLY <1>4, s \in WalkStates, yes \in BOOLEAN, d \in Int, f \in Nat, l \in Nat, ExceptBelow
<1> QED BY ONLY <1>2, <1>3, <1>5

\* The walk comes to a value as high as its peak.
LEMMA VisitPeak ==
  ASSUME SeriesFeed, NEW t \in Nat, t >= 1, t + 1 \in 1..Len(Chosen), NEW s \in Walked(t),
         Equity[t + 1] >= Equity[s.peak]
  PROVE  AtPeak(s, t + 1) \in Walked(t + 1)
<1> DEFINE u == AtPeak(s, t + 1)
           eps == IF s.in THEN Append(s.episodes, Closing(s, t + 1)) ELSE s.episodes
           n == Len(s.episodes)
<1>0. /\ Len(Chosen) \in Nat
      /\ \A i \in 1..(t + 1) : i \in 1..Len(Chosen) /\ Equity[i] \in Int /\ Chosen[i].at \in Int
  BY EquityInt
<1>1. /\ s \in WalkStates /\ Standing(s, t) /\ Deepest(s.maxDd, t) /\ Ended(s.episodes, t)
      /\ s.peak \in 1..t /\ HighestSo(s.peak, t)
  BY DEF Walked, Standing
<1>2. s.in => /\ s.from = s.peak /\ s.trough \in (s.peak + 1)..t /\ Lowest(s.trough, s.peak, t)
              /\ s.trough \in 1..t /\ s.peak < t
  BY <1>1 DEF Standing, Lowest
<1>3. s.in => Closing(s, t + 1) \in Episode
  <2> SUFFICES ASSUME s.in PROVE Closing(s, t + 1) \in Episode
    OBVIOUS
  <2>1. /\ s.from \in Nat /\ s.trough \in Nat
        /\ Chosen[s.trough].at \in Int /\ Chosen[s.from].at \in Int /\ Chosen[t + 1].at \in Int
    BY <1>0, <1>1, <1>2
  <2> QED BY <2>1 DEF Closing, Episode
<1>4. n \in Nat /\ DOMAIN s.episodes = 1..n /\ s.episodes \in Seq(Episode)
  BY <1>1, LenProperties DEF WalkStates
<1>5. /\ eps \in Seq(Episode)
      /\ s.in => DOMAIN eps = 1..(n + 1) /\ eps[n + 1] = Closing(s, t + 1)
      /\ \A i \in 1..n : eps[i] = s.episodes[i]
      /\ ~s.in => DOMAIN eps = 1..n
  <2>1. CASE s.in
    <3>1. eps = Append(s.episodes, Closing(s, t + 1))
      BY <2>1
    <3> QED BY <1>3, <1>4, <2>1, <3>1, AppendProperties, LenProperties
  <2>2. CASE ~s.in
    BY <1>4, <2>2
  <2> QED BY <2>1, <2>2
<1>6. u \in WalkStates /\ Fields(u, FALSE, t + 1, s.from, s.trough, s.maxDd, eps)
  <2>1. PICK k \in Nat : k = t + 1
    OBVIOUS
  <2>2. PICK e \in Seq(Episode) : e = eps
    BY <1>5
  <2>3. e = IF s.in THEN Append(s.episodes, Closing(s, k)) ELSE s.episodes
    BY <2>1, <2>2
  <2>4. AtPeak(s, k) \in WalkStates /\ Fields(AtPeak(s, k), FALSE, k, s.from, s.trough, s.maxDd, e)
    BY <1>1, <2>3, AtPeakIs
  <2> QED BY <2>1, <2>2, <2>4
<1> HIDE DEF u, eps, n
<1>7. Standing(u, t + 1)
  <2>1. HighestSo(t + 1, t + 1)
    BY <1>1, HighestNext
  <2> QED BY <1>6, <2>1 DEF Standing, Fields
<1>8. Deepest(u.maxDd, t + 1)
  <2> DEFINE d == s.maxDd
  <2>1. d \in Int /\ u.maxDd = d
    BY <1>1, <1>6 DEF WalkStates, Fields
  <2> HIDE DEF d
  <2>2. d <= 0 /\ \A p \in 1..t : \A q \in p..t : d <= Equity[q] - Equity[p]
    BY <1>1 DEF Deepest, d
  <2>3. \A p \in 1..(t + 1) : Equity[p] <= Equity[t + 1]
    <3>1. HighestSo(t + 1, t + 1)
      BY <1>1, HighestNext
    <3> QED BY <3>1 DEF HighestSo
  <2>4. ASSUME NEW p \in 1..(t + 1), NEW q \in p..(t + 1) PROVE d <= Equity[q] - Equity[p]
    <3>1. CASE q = t + 1
      <4>1. Equity[p] <= Equity[q] /\ Equity[p] \in Int /\ Equity[q] \in Int
        BY <1>0, <2>3, <3>1
      <4> QED BY <2>1, <2>2, <4>1
    <3>2. CASE q # t + 1
      <4>1. p \in 1..t /\ q \in p..t
        BY <3>2
      <4> QED BY <2>2, <4>1
    <3> QED BY <3>1, <3>2
  <2>5. d = 0 \/ \E p \in 1..(t + 1) : \E q \in p..(t + 1) : d = Equity[q] - Equity[p]
    <3>1. CASE d = 0
      BY <3>1
    <3>2. CASE d # 0
      <4>0. PICK p \in 1..t : \E q \in p..t : d = Equity[q] - Equity[p]
        BY <1>1, <3>2 DEF Deepest, d
      <4>1. PICK q \in p..t : d = Equity[q] - Equity[p]
        BY <4>0
      <4>2. p \in 1..(t + 1) /\ q \in p..(t + 1)
        OBVIOUS
      <4> QED BY <4>1, <4>2
    <3> QED BY <3>1, <3>2
  <2> QED BY <2>1, <2>2, <2>4, <2>5 DEF Deepest
<1>9. s.in => EpisodeIs(Closing(s, t + 1), t + 1) /\ Closing(s, t + 1).peak = s.peak
  <2> SUFFICES ASSUME s.in PROVE EpisodeIs(Closing(s, t + 1), t + 1) /\ Closing(s, t + 1).peak = s.peak
    OBVIOUS
  <2>1. /\ Closing(s, t + 1).peak = s.peak /\ Closing(s, t + 1).trough = s.trough
        /\ Closing(s, t + 1).fall = Chosen[s.trough].at - Chosen[s.peak].at
        /\ Closing(s, t + 1).recover = Chosen[t + 1].at - Chosen[s.trough].at
    BY <1>2 DEF Closing
  <2>2. Closed(s.peak, t + 1)
    <3>1. (t + 1) - 1 = t
      OBVIOUS
    <3> QED BY <1>1, <1>2, <3>1 DEF Closed
  <2>3. Lowest(s.trough, s.peak, (t + 1) - 1)
    <3>1. (t + 1) - 1 = t
      OBVIOUS
    <3> QED BY <1>2, <3>1
  <2> QED BY <2>1, <2>2, <2>3 DEF EpisodeIs
<1>10. ASSUME NEW p \in 1..(t + 1), Closed(p, t + 1) PROVE s.in /\ p = s.peak
  <2>1. p \in 1..t /\ p < t /\ HighestSo(p, t)
    <3>1. (t + 1) - 1 = t
      OBVIOUS
    <3>2. p + 1 < t + 1 /\ HighestSo(p, (t + 1) - 1)
      BY <1>10 DEF Closed
    <3> QED BY <3>1, <3>2
  <2>2. p = s.peak
    <3>1. t \in 1..Len(Chosen)
      BY <1>0
    <3> QED BY <1>1, <2>1, <3>1, OnePeak
  <2> QED BY <1>1, <2>1, <2>2 DEF Standing
<1>11. \A i \in 1..n : s.episodes[i].peak # s.peak
  <2> SUFFICES ASSUME NEW i \in 1..n, s.episodes[i].peak = s.peak PROVE FALSE
    OBVIOUS
  <2>1. PICK b \in 1..t : Closed(s.peak, b)
    BY <1>1, <1>4 DEF Ended, EpisodeIs
  <2>2. s.peak < b /\ Equity[s.peak] <= Equity[b]
    BY <1>1, <2>1 DEF Closed
  <2>3. Equity[b] < Equity[s.peak]
    BY <1>1, <2>2 DEF HighestSo
  <2>4. Equity[b] \in Int /\ Equity[s.peak] \in Int
    BY <1>0, <1>1
  <2> QED BY <2>2, <2>3, <2>4
<1>12. Ended(eps, t + 1)
  <2>1. ASSUME NEW i \in DOMAIN eps PROVE \E b \in 1..(t + 1) : EpisodeIs(eps[i], b)
    <3>1. CASE i \in 1..n
      <4>1. PICK b \in 1..t : EpisodeIs(s.episodes[i], b)
        BY <1>1, <1>4, <3>1 DEF Ended
      <4> QED BY <1>5, <3>1, <4>1
    <3>2. CASE i \notin 1..n
      <4>1. s.in /\ i = n + 1
        BY <1>4, <1>5, <3>2
      <4>2. EpisodeIs(eps[i], t + 1) /\ t + 1 \in 1..(t + 1)
        BY <1>5, <1>9, <4>1
      <4> QED BY <4>2
    <3> QED BY <3>1, <3>2
  <2>2. ASSUME NEW b \in 1..(t + 1), NEW p \in 1..(t + 1), Closed(p, b)
        PROVE  \E i \in DOMAIN eps : eps[i].peak = p
    <3>1. CASE b = t + 1
      <4>1. s.in /\ p = s.peak
        BY <1>10, <2>2, <3>1
      <4>2. n + 1 \in DOMAIN eps /\ eps[n + 1].peak = p
        BY <1>4, <1>5, <1>9, <4>1
      <4> QED BY <4>2
    <3>2. CASE b # t + 1
      <4>1. b \in 1..t /\ p \in 1..t
        BY <2>2, <3>2 DEF Closed
      <4>2. PICK i \in DOMAIN s.episodes : s.episodes[i].peak = p
        BY <1>1, <2>2, <4>1 DEF Ended
      <4>3. i \in DOMAIN eps /\ eps[i].peak = p
        BY <1>4, <1>5, <4>2
      <4> QED BY <4>3
    <3> QED BY <3>1, <3>2
  <2>3. ASSUME NEW i \in DOMAIN eps, NEW j \in DOMAIN eps, eps[i].peak = eps[j].peak PROVE i = j
    <3>1. CASE i \in 1..n /\ j \in 1..n
      <4>1. s.episodes[i].peak = s.episodes[j].peak
        BY <1>5, <2>3, <3>1
      <4> QED BY <1>1, <1>4, <3>1, <4>1 DEF Ended
    <3>2. CASE i \in 1..n /\ j \notin 1..n
      <4>1. s.in /\ j = n + 1
        BY <1>4, <1>5, <3>2
      <4>2. s.episodes[i].peak = s.peak
        BY <1>5, <1>9, <2>3, <3>2, <4>1
      <4> QED BY <1>11, <3>2, <4>2
    <3>3. CASE i \notin 1..n /\ j \in 1..n
      <4>1. s.in /\ i = n + 1
        BY <1>4, <1>5, <3>3
      <4>2. s.episodes[j].peak = s.peak
        BY <1>5, <1>9, <2>3, <3>3, <4>1
      <4> QED BY <1>11, <3>3, <4>2
    <3>4. CASE i \notin 1..n /\ j \notin 1..n
      BY <1>4, <1>5, <3>4
    <3> QED BY <3>1, <3>2, <3>3, <3>4
  <2> QED BY <2>1, <2>2, <2>3 DEF Ended
<1>13. u.episodes = eps
  BY <1>6 DEF Fields
<1>14. u \in Walked(t + 1)
  BY <1>6, <1>7, <1>8, <1>12, <1>13 DEF Walked
<1> QED BY <1>14 DEF u

\* The smaller of two numbers.
LEMMA MinTwo ==
  ASSUME NEW a \in Int, NEW b \in Int
  PROVE  Min({a, b}) \in Int /\ Min({a, b}) \in {a, b} /\ Min({a, b}) <= a /\ Min({a, b}) <= b
<1> PICK S : S = {a, b}
  OBVIOUS
<1>1. CASE a <= b
  <2>1. a \in S /\ \A y \in S : y \in Int /\ a <= y
    BY <1>1
  <2>2. Min(S) = a
    BY <2>1, MinIs
  <2> QED BY <1>1, <2>2
<1>2. CASE ~(a <= b)
  <2>1. b \in S /\ \A y \in S : y \in Int /\ b <= y
    BY <1>2
  <2>2. Min(S) = b
    BY <2>1, MinIs
  <2> QED BY <1>2, <2>2
<1> QED BY <1>1, <1>2

\* The walk comes to a value below its peak.
LEMMA VisitBelow ==
  ASSUME SeriesFeed, NEW t \in Nat, t >= 1, t + 1 \in 1..Len(Chosen), NEW s \in Walked(t),
         Equity[t + 1] < Equity[s.peak]
  PROVE  Below(s, t + 1) \in Walked(t + 1)
<1> DEFINE u == Below(s, t + 1)
           x == Equity[t + 1] - Equity[s.peak]
           d == Min({s.maxDd, x})
           l == IF s.in /\ Equity[t + 1] >= Equity[s.trough] THEN s.trough ELSE t + 1
<1>0. /\ Len(Chosen) \in Nat
      /\ \A i \in 1..(t + 1) : i \in 1..Len(Chosen) /\ Equity[i] \in Int
  BY EquityInt
<1>1. /\ s \in WalkStates /\ Standing(s, t) /\ Deepest(s.maxDd, t) /\ Ended(s.episodes, t)
      /\ s.peak \in 1..t /\ HighestSo(s.peak, t) /\ s.maxDd \in Int
  BY DEF Walked, Standing, WalkStates
<1>2. s.in => /\ s.from = s.peak /\ s.trough \in (s.peak + 1)..t /\ Lowest(s.trough, s.peak, t)
              /\ s.trough \in 1..t /\ s.peak < t
  BY <1>1 DEF Standing, Lowest
<1>3. x \in Int /\ x < 0
  BY <1>0, <1>1
<1>4. /\ d \in Int /\ d \in {s.maxDd, x} /\ d <= s.maxDd /\ d <= x
  <2>1. PICK a \in Int, b \in Int : a = s.maxDd /\ b = x
    BY <1>1, <1>3
  <2> HIDE DEF x
  <2>2. Min({a, b}) \in Int /\ Min({a, b}) \in {a, b} /\ Min({a, b}) <= a /\ Min({a, b}) <= b
    BY MinTwo
  <2> QED BY <2>1, <2>2
<1>5. u \in WalkStates /\ Fields(u, TRUE, s.peak, s.peak, l, d, s.episodes)
  <2>1. PICK k \in Nat : k = t + 1
    OBVIOUS
  <2>2. PICK v \in Int : v = d
    BY <1>4
  <2>3. PICK f \in Nat : f = s.peak
    BY <1>1
  <2>4. PICK m \in Nat : m = l
    BY <1>2
  <2>5. /\ v = Min({s.maxDd, Equity[k] - Equity[s.peak]})
        /\ f = IF s.in THEN s.from ELSE s.peak
        /\ m = IF s.in /\ Equity[k] >= Equity[s.trough] THEN s.trough ELSE k
    BY <1>2, <2>1, <2>2, <2>3, <2>4
  <2>6. Below(s, k) \in WalkStates /\ Fields(Below(s, k), TRUE, s.peak, f, m, v, s.episodes)
    BY ONLY <1>1, <2>5, k \in Nat, v \in Int, f \in Nat, m \in Nat, BelowStateIs
  <2> QED BY <2>1, <2>2, <2>3, <2>4, <2>6
<1>6. HighestSo(s.peak, t + 1)
  BY <1>1, HighestNext
<1>7. Lowest(l, s.peak, t + 1)
  <2>1. CASE s.in /\ Equity[t + 1] >= Equity[s.trough]
    <3>1. l = s.trough
      BY <2>1
    <3>2. \A q \in s.peak..(t + 1) : Equity[s.trough] <= Equity[q]
      BY <1>2, <2>1 DEF Lowest
    <3> QED BY <1>2, <2>1, <3>1, <3>2 DEF Lowest
  <2>2. CASE s.in /\ ~(Equity[t + 1] >= Equity[s.trough])
    <3>1. l = t + 1 /\ Equity[t + 1] < Equity[s.trough]
      BY <1>0, <1>2, <2>2
    <3>2. \A q \in s.peak..t : Equity[s.trough] <= Equity[q] /\ Equity[q] \in Int
      BY <1>0, <1>1, <1>2, <2>2 DEF Lowest
    <3>3. Equity[t + 1] \in Int /\ Equity[s.trough] \in Int
      BY <1>0, <1>2, <2>2
    <3>4. \A q \in s.peak..t : Equity[t + 1] < Equity[q]
      BY <3>1, <3>2, <3>3
    <3>5. \A q \in s.peak..(t + 1) : Equity[t + 1] <= Equity[q]
      <4> TAKE q \in s.peak..(t + 1)
      <4>1. CASE q = t + 1
        BY <3>3, <4>1
      <4>2. CASE q # t + 1
        <5>1. q \in s.peak..t
          BY <1>1, <4>2
        <5> QED BY <3>2, <3>3, <3>4, <5>1
      <4> QED BY <4>1, <4>2
    <3>6. t + 1 \in (s.peak + 1)..(t + 1) /\ (t + 1) - 1 = t
      BY <1>1
    <3> QED BY <3>1, <3>4, <3>5, <3>6 DEF Lowest
  <2>3. CASE ~s.in
    <3>1. s.peak = t /\ l = t + 1
      BY <1>1, <2>3 DEF Standing
    <3>2. Equity[t] \in Int /\ Equity[t + 1] \in Int /\ Equity[t + 1] < Equity[t]
      BY <1>0, <3>1
    <3> QED BY <3>1, <3>2 DEF Lowest
  <2> QED BY <2>1, <2>2, <2>3
<1> HIDE DEF u, l
<1>8. Standing(u, t + 1)
  <2>1. s.peak \in 1..(t + 1)
    BY <1>1
  <2> QED BY <1>5, <1>6, <1>7, <2>1 DEF Standing, Fields
<1>9. Deepest(d, t + 1)
  <2>1. s.maxDd <= 0 /\ \A p \in 1..t : \A q \in p..t : s.maxDd <= Equity[q] - Equity[p]
    BY <1>1 DEF Deepest
  <2>2. \A p \in 1..(t + 1) : Equity[p] <= Equity[s.peak]
    <3>1. \A p \in 1..(t + 1) : p \in 1..s.peak \/ p \in (s.peak + 1)..(t + 1)
      BY <1>1
    <3>2. Equity[s.peak] \in Int
      BY <1>0, <1>1
    <3> QED BY <1>0, <1>6, <3>1, <3>2 DEF HighestSo
  <2> HIDE DEF d
  <2>3. ASSUME NEW p \in 1..(t + 1), NEW q \in p..(t + 1) PROVE d <= Equity[q] - Equity[p]
    <3>1. CASE q = t + 1
      <4>1. Equity[p] <= Equity[s.peak] /\ Equity[p] \in Int /\ Equity[t + 1] \in Int /\ Equity[s.peak] \in Int
        BY <1>0, <1>1, <2>2
      <4> QED BY <1>4, <3>1, <4>1
    <3>2. CASE q # t + 1
      <4>1. p \in 1..t /\ q \in p..t /\ q \in 1..(t + 1)
        BY <3>2
      <4>2. s.maxDd <= Equity[q] - Equity[p] /\ Equity[q] - Equity[p] \in Int
        BY <1>0, <2>1, <4>1
      <4> HIDE DEF x
      <4> QED BY <1>1, <1>4, <4>2
    <3> QED BY <3>1, <3>2
  <2>4. d = 0 \/ \E p \in 1..(t + 1) : \E q \in p..(t + 1) : d = Equity[q] - Equity[p]
    <3>1. CASE d = x
      <4>1. s.peak \in 1..(t + 1) /\ t + 1 \in s.peak..(t + 1)
        BY <1>1
      <4> QED BY <3>1, <4>1
    <3>2. CASE d # x
      <4>1. d = s.maxDd
        BY <1>4, <3>2
      <4>2. CASE s.maxDd = 0
        BY <4>1, <4>2
      <4>3. CASE s.maxDd # 0
        <5>1. PICK p \in 1..t : \E q \in p..t : s.maxDd = Equity[q] - Equity[p]
          BY <1>1, <4>3 DEF Deepest
        <5>2. PICK q \in p..t : s.maxDd = Equity[q] - Equity[p]
          BY <5>1
        <5>3. p \in 1..(t + 1) /\ q \in p..(t + 1)
          OBVIOUS
        <5> QED BY <4>1, <5>2, <5>3
      <4> QED BY <4>2, <4>3
    <3> QED BY <3>1, <3>2
  <2>5. d <= 0
    <3> HIDE DEF x
    <3> QED BY <1>1, <1>4, <2>1
  <2> QED BY <2>3, <2>4, <2>5 DEF Deepest
<1>10. ASSUME NEW p \in 1..(t + 1), Closed(p, t + 1) PROVE FALSE
  <2>1. p \in 1..t /\ HighestSo(p, t) /\ Equity[p] <= Equity[t + 1]
    <3>1. (t + 1) - 1 = t
      OBVIOUS
    <3>2. p + 1 < t + 1 /\ HighestSo(p, (t + 1) - 1) /\ Equity[p] <= Equity[t + 1]
      BY <1>10 DEF Closed
    <3> QED BY <3>1, <3>2
  <2>2. p = s.peak
    <3>1. t \in 1..Len(Chosen)
      BY <1>0
    <3> QED BY <1>1, <2>1, <3>1, OnePeak
  <2>3. Equity[t + 1] \in Int /\ Equity[p] \in Int
    BY <1>0
  <2> QED BY <2>1, <2>2, <2>3
<1>11. Ended(s.episodes, t + 1)
  <2> DEFINE eps == s.episodes
  <2>0. Ended(eps, t)
    BY <1>1
  <2> HIDE DEF eps
  <2>1. ASSUME NEW i \in DOMAIN eps PROVE \E b \in 1..(t + 1) : EpisodeIs(eps[i], b)
    <3>1. PICK b \in 1..t : EpisodeIs(eps[i], b)
      BY <2>0 DEF Ended
    <3> QED BY <3>1
  <2>2. ASSUME NEW b \in 1..(t + 1), NEW p \in 1..(t + 1), Closed(p, b)
        PROVE  \E i \in DOMAIN eps : eps[i].peak = p
    <3>1. b # t + 1
      BY <1>10, <2>2
    <3>2. b \in 1..t /\ p \in 1..t
      BY <2>2, <3>1 DEF Closed
    <3> QED BY <2>0, <2>2, <3>2 DEF Ended
  <2>3. \A i, j \in DOMAIN eps : eps[i].peak = eps[j].peak => i = j
    BY <2>0 DEF Ended
  <2>4. Ended(eps, t + 1)
    BY <2>1, <2>2, <2>3 DEF Ended
  <2> QED BY <2>4 DEF eps
<1>12. u.episodes = s.episodes /\ u.maxDd = d
  BY <1>5 DEF Fields
<1>13. u \in Walked(t + 1)
  BY <1>5, <1>8, <1>9, <1>11, <1>12 DEF Walked
<1> QED BY <1>13 DEF u

\* The first value.
LEMMA VisitFirst ==
  ASSUME SeriesFeed, Len(Chosen) >= 1
  PROVE  Visit(Calm, 1) \in Walked(1)
<1> DEFINE u == AtPeak(Calm, 1)
<1>0. 1 \in 1..Len(Chosen) /\ Equity[1] \in Int
  BY EquityInt
<1>1. PICK e \in Seq(Episode) : e = <<>>
  BY EmptySeq
<1>2. PICK no \in BOOLEAN : no = FALSE
  OBVIOUS
<1>3. Calm = [in |-> no, peak |-> 1, from |-> 1, trough |-> 1, maxDd |-> 0, episodes |-> e]
  BY <1>1, <1>2 DEF Calm
<1>4. Calm \in WalkStates /\ Fields(Calm, no, 1, 1, 1, 0, e)
  <2> DEFINE Eps == Seq(Episode)
             B == BOOLEAN
  <2>1. e \in Eps /\ no \in B
    OBVIOUS
  <2> HIDE DEF Eps, B
  <2>2. /\ Calm \in [in : B, peak : Nat, from : Nat, trough : Nat, maxDd : Int, episodes : Eps]
        /\ Calm.in = no /\ Calm.peak = 1 /\ Calm.from = 1 /\ Calm.trough = 1 /\ Calm.maxDd = 0 /\ Calm.episodes = e
    BY <1>3, <2>1
  <2> QED BY <2>2 DEF WalkStates, Fields, Eps, B
<1>5. Visit(Calm, 1) = u
  <2>1. Calm.peak = 1
    BY <1>4 DEF Fields
  <2> QED BY <1>0, <2>1 DEF Visit
<1>6. u \in WalkStates /\ Fields(u, FALSE, 1, 1, 1, 0, e)
  <2>1. PICK k \in Nat : k = 1
    OBVIOUS
  <2>2. e = IF Calm.in THEN Append(Calm.episodes, Closing(Calm, k)) ELSE Calm.episodes
    BY <1>2, <1>4 DEF Fields
  <2>3. AtPeak(Calm, k) \in WalkStates /\ Fields(AtPeak(Calm, k), FALSE, k, Calm.from, Calm.trough, Calm.maxDd, e)
    BY <1>4, <2>2, AtPeakIs
  <2> QED BY <1>4, <2>1, <2>3 DEF Fields
<1> HIDE DEF u
<1>7. Standing(u, 1)
  <2>1. HighestSo(1, 1)
    BY <1>0 DEF HighestSo
  <2> QED BY <1>6, <2>1 DEF Standing, Fields
<1>8. Deepest(0, 1)
  BY <1>0 DEF Deepest
<1>9. Ended(e, 1)
  <2>1. DOMAIN e = {}
    BY <1>1
  <2>2. \A b \in 1..1 : \A p \in 1..1 : ~Closed(p, b)
    BY DEF Closed
  <2> QED BY <2>1, <2>2 DEF Ended
<1> QED BY <1>5, <1>6, <1>7, <1>8, <1>9 DEF Walked, Fields

\* The walk over the whole column.
LEMMA WalkIs ==
  ASSUME SeriesFeed, Len(Chosen) >= 1
  PROVE  Walk \in Walked(Len(Chosen))
<1> DEFINE n == Len(Chosen)
           s == [t \in DOMAIN Chosen |-> t]
           W == [t \in 0..n |-> IF t = 0 THEN {Calm} ELSE Walked(t)]
<1>0. n \in Nat /\ DOMAIN s = 1..n /\ \A t \in 1..n : s[t] = t
  BY EquityInt
<1>1. ASSUME NEW t \in 1..n, NEW v \in W[t - 1] PROVE Visit(v, s[t]) \in W[t]
  <2>1. CASE t = 1
    <3>1. W[t - 1] = {Calm} /\ W[t] = Walked(1) /\ s[t] = 1
      BY <1>0, <2>1
    <3> QED BY <3>1, VisitFirst
  <2>2. CASE t # 1
    <3>1. PICK k \in Nat : k >= 1 /\ t = k + 1
      <4>1. t - 1 \in Nat /\ t - 1 >= 1 /\ t = (t - 1) + 1
        BY <1>0, <2>2
      <4> QED BY <4>1
    <3>2. W[t - 1] = Walked(k) /\ W[t] = Walked(k + 1) /\ s[t] = k + 1
      <4>1. t - 1 = k /\ k \in 0..n /\ k # 0 /\ t \in 0..n /\ t # 0
        BY <1>0, <3>1
      <4> QED BY <1>0, <3>1, <4>1
    <3> HIDE DEF W, s
    <3>3. k + 1 \in 1..Len(Chosen) /\ v \in Walked(k)
      BY <3>1, <3>2
    <3>4. Equity[k + 1] \in Int /\ Equity[v.peak] \in Int
      <4>1. v.peak \in 1..k
        BY <3>3 DEF Walked, Standing
      <4>2. v.peak \in 1..Len(Chosen)
        BY <1>0, <3>3, <4>1
      <4> QED BY <3>3, <4>2, EquityInt
    <3>5. CASE Equity[k + 1] >= Equity[v.peak]
      <4>1. AtPeak(v, k + 1) \in Walked(k + 1)
        BY <3>1, <3>3, <3>5, VisitPeak
      <4> QED BY <3>2, <3>5, <4>1 DEF Visit
    <3>6. CASE ~(Equity[k + 1] >= Equity[v.peak])
      <4>1. Below(v, k + 1) \in Walked(k + 1)
        BY <3>1, <3>3, <3>4, <3>6, VisitBelow
      <4> QED BY <3>2, <3>6, <4>1 DEF Visit
    <3> QED BY <3>5, <3>6
  <2> QED BY <2>1, <2>2
<1>2. Calm \in W[0]
  BY <1>0
<1>3. W[n] = Walked(n)
  BY <1>0
<1>4. Walk = FoldLeft(Visit, Calm, s)
  BY DEF Walk
<1> HIDE DEF W, s, n
<1>5. Walking!Keeps(W, n, s)
  BY <1>1, <1>2 DEF Walking!Keeps
<1>6. Walking!Fold(s) \in W[n]
  BY <1>0, <1>5, Walking!FoldInvariant
<1>7. Walking!Fold(s) = FoldLeft(Visit, Calm, s)
  BY Zenon DEF Walking!Fold, Walking!MapThenFoldSet, Walking!Top, FoldLeft, MapThenFoldSet, Max
<1> QED BY <1>3, <1>4, <1>6, <1>7 DEF n

\* An episode of the walk is a dip.
LEMMA DipIs ==
  ASSUME SeriesFeed, NEW p \in 1..Len(Chosen), NEW b \in 1..Len(Chosen), Closed(p, b)
  PROVE  Dip(p) = p..b
<1> DEFINE back == {t \in (p + 1)..Len(Equity) : Equity[t] >= Equity[p]}
<1>0. /\ Len(Chosen) \in Nat /\ Len(Equity) = Len(Chosen)
      /\ \A i \in 1..Len(Chosen) : Equity[i] \in Int
  BY EquityInt
<1>1. /\ p + 1 < b /\ Equity[p] <= Equity[b] /\ \A q \in 1..p : Equity[q] <= Equity[p]
      /\ \A q \in (p + 1)..(b - 1) : Equity[q] < Equity[p]
  BY DEF Closed, HighestSo
<1>2. b \in back
  BY <1>0, <1>1
<1>3. \A y \in back : y \in Int /\ b <= y
  <2> TAKE y \in back
  <2>1. y \in (p + 1)..Len(Chosen) /\ Equity[y] >= Equity[p] /\ y \in 1..Len(Chosen)
    BY <1>0
  <2>2. ~(y \in (p + 1)..(b - 1))
    BY <1>0, <1>1, <2>1
  <2> QED BY <1>0, <2>1, <2>2
<1> HIDE DEF back
<1>4. Min(back) = b
  BY <1>2, <1>3, MinIs
<1>5. back # {} /\ Min(back) > p + 1
  BY <1>1, <1>2, <1>4
<1> QED BY <1>1, <1>4, <1>5 DEF Dip, back

\* A dip that is there has come back.
LEMMA DipCloses ==
  ASSUME SeriesFeed, NEW p \in 1..Len(Chosen), Dip(p) # {}
  PROVE  \E b \in 1..Len(Chosen) : Closed(p, b)
<1> DEFINE back == {t \in (p + 1)..Len(Equity) : Equity[t] >= Equity[p]}
<1>0. /\ Len(Chosen) \in Nat /\ Len(Equity) = Len(Chosen)
      /\ \A i \in 1..Len(Chosen) : Equity[i] \in Int
  BY EquityInt
<1>1. (\A q \in 1..p : Equity[q] <= Equity[p]) /\ back # {} /\ Min(back) > p + 1
  BY DEF Dip
<1>2. back \in SUBSET Nat
  BY <1>0
<1> HIDE DEF back
<1>3. PICK b \in back : b = Min(back) /\ \A y \in back : b <= y
  BY <1>1, <1>2, MinOfNats
<1>4. b \in (p + 1)..Len(Chosen) /\ b \in 1..Len(Chosen) /\ Equity[b] >= Equity[p]
  BY <1>0, <1>3 DEF back
<1>5. ASSUME NEW q \in (p + 1)..(b - 1) PROVE Equity[q] < Equity[p]
  <2>1. q \in (p + 1)..Len(Equity) /\ q \in 1..Len(Chosen) /\ q < b
    BY <1>0, <1>4
  <2>2. q \notin back
    BY <1>3, <1>4, <2>1
  <2>3. ~(Equity[q] >= Equity[p])
    BY <2>1, <2>2 DEF back
  <2> QED BY <1>0, <2>1, <2>3
<1>6. Closed(p, b)
  BY <1>0, <1>1, <1>3, <1>4, <1>5 DEF Closed, HighestSo
<1> QED BY <1>4, <1>6

\* What an episode says of its dip.
LEMMA EpisodeOfDip ==
  ASSUME SeriesFeed, NEW e, NEW b \in 1..Len(Chosen), EpisodeIs(e, b), e.peak \in 1..Len(Chosen)
  PROVE  LET dip == Dip(e.peak)
             low == {t \in dip : \A u \in dip : Equity[t] <= Equity[u]}
             at(t) == Chosen[t].at
         IN /\ e.trough = Min(low)
            /\ e.fall = at(Min(low)) - at(e.peak)
            /\ e.fall + e.recover = at(Max(dip)) - at(e.peak)
<1> DEFINE p == e.peak
           l == e.trough
           low == {t \in p..b : \A u \in p..b : Equity[t] <= Equity[u]}
<1>0. /\ Len(Chosen) \in Nat /\ \A i \in 1..Len(Chosen) : Equity[i] \in Int /\ Chosen[i].at \in Int
  BY EquityInt
<1>1. Closed(p, b) /\ Lowest(l, p, b - 1) /\ p + 1 < b /\ Equity[p] <= Equity[b]
  BY DEF EpisodeIs, Closed
<1>2. e.fall = Chosen[l].at - Chosen[p].at /\ e.recover = Chosen[b].at - Chosen[l].at
  BY DEF EpisodeIs
<1>3. Dip(p) = p..b
  BY <1>1, DipIs
<1>4. /\ l \in (p + 1)..(b - 1) /\ l \in 1..Len(Chosen) /\ l \in p..b /\ p \in p..(b - 1)
      /\ \A q \in p..(b - 1) : Equity[l] <= Equity[q]
      /\ \A q \in p..(l - 1) : Equity[l] < Equity[q]
  BY <1>0, <1>1 DEF Lowest
<1>5. \A u \in p..b : u \in 1..Len(Chosen) /\ Equity[u] \in Int
  BY <1>0
<1> HIDE DEF p, l
<1>6. \A u \in p..b : Equity[l] <= Equity[u]
  <2> TAKE u \in p..b
  <2>1. CASE u = b
    <3>1. Equity[l] <= Equity[p]
      BY <1>4
    <3>2. p \in p..b
      BY <1>1, <1>4 DEF p
    <3> QED BY <1>1, <1>4, <1>5, <2>1, <3>1, <3>2
  <2>2. CASE u # b
    <3>1. u \in p..(b - 1)
      BY <2>2, <1>4 DEF p
    <3> QED BY <1>4, <3>1
  <2> QED BY <2>1, <2>2
<1>7. l \in low
  BY <1>4, <1>6
<1>8. \A y \in low : y \in Int /\ l <= y
  <2> TAKE y \in low
  <2>1. y \in p..b /\ Equity[y] <= Equity[l] /\ Equity[y] \in Int /\ Equity[l] \in Int
    BY <1>4, <1>5
  <2>2. ~(y \in p..(l - 1))
    BY <1>4, <2>1
  <2> QED BY <1>4, <2>1, <2>2 DEF p
<1> HIDE DEF low
<1>9. Min(low) = l
  BY <1>7, <1>8, MinIs
<1>10. Max(p..b) = b
  <2>1. b \in p..b /\ \A y \in p..b : y \in Int /\ y <= b
    BY <1>1, <1>4 DEF p
  <2>2. PICK S : S = p..b
    OBVIOUS
  <2>3. Max(S) = b
    BY <2>1, <2>2, MaxIs
  <2> QED BY <2>2, <2>3
<1>11. e.fall + e.recover = Chosen[b].at - Chosen[p].at
  <2>1. Chosen[l].at \in Int /\ Chosen[p].at \in Int /\ Chosen[b].at \in Int
    BY <1>0, <1>4 DEF p
  <2> QED BY <1>2, <2>1
<1> QED BY <1>2, <1>3, <1>9, <1>10, <1>11 DEF p, l, low

\* The episodes of a finding are as its reference has them.
LEMMA DrawdownHolds ==
  ASSUME SeriesFeed, Len(Chosen) >= 1
  PROVE  EpisodesOf(DrawdownFound)
<1> DEFINE n == Len(Chosen)
           f == DrawdownFound
           ep == f.numbers
           d == f.effect.reads
           over == {p \in DOMAIN Equity : Dip(p) # {}}
           falls == {Equity[p[2]] - Equity[p[1]] : p \in {q \in (DOMAIN Equity) \X (DOMAIN Equity) : q[1] <= q[2]}}
<1>0. /\ n \in Nat /\ DOMAIN Equity = 1..n /\ \A i \in 1..n : Equity[i] \in Int
  BY EquityInt
<1>1. /\ Walk \in WalkStates /\ Deepest(d, n) /\ Ended(ep, n) /\ ep = Walk.episodes /\ d = Walk.maxDd
  <2>1. ep = Walk.episodes /\ d = Walk.maxDd
    BY DEF DrawdownFound, Found, Effect
  <2> HIDE DEF ep, d
  <2> QED BY <2>1, WalkIs DEF Walked
<1>3. Len(ep) \in Nat /\ DOMAIN ep = 1..Len(ep) /\ \A i \in DOMAIN ep : ep[i].peak \in Nat
  <2>1. ep \in Seq(Episode)
    BY <1>1 DEF WalkStates
  <2>2. \A i \in DOMAIN ep : ep[i] \in Episode
    BY <2>1, LenProperties
  <2> QED BY <2>1, <2>2, LenProperties DEF Episode
<1>4. d \in Int
  BY <1>1 DEF WalkStates
<1> HIDE DEF ep, d, f
<1>5. ASSUME NEW i \in DOMAIN ep
      PROVE  \E b \in 1..n : EpisodeIs(ep[i], b) /\ ep[i].peak \in 1..n /\ Closed(ep[i].peak, b)
  <2>1. PICK b \in 1..n : EpisodeIs(ep[i], b)
    BY <1>1 DEF Ended
  <2>2. Closed(ep[i].peak, b)
    BY <2>1 DEF EpisodeIs
  <2>3. ep[i].peak \in 1..n
    BY <1>0, <2>2 DEF Closed
  <2> QED BY <2>1, <2>2, <2>3
<1>6. {ep[i].peak : i \in DOMAIN ep} = over
  <2>1. ASSUME NEW i \in DOMAIN ep PROVE ep[i].peak \in over
    <3>1. PICK b \in 1..n : ep[i].peak \in 1..n /\ Closed(ep[i].peak, b)
      BY <1>5
    <3>2. PICK p \in 1..n : p = ep[i].peak
      BY <3>1
    <3>3. Dip(p) = p..b /\ p + 1 < b
      BY <3>1, <3>2, DipIs DEF Closed
    <3>4. p \in Dip(p)
      BY <3>3
    <3> QED BY <1>0, <3>2, <3>4
  <2>2. ASSUME NEW p \in over PROVE \E i \in DOMAIN ep : ep[i].peak = p
    <3>1. p \in 1..n /\ Dip(p) # {}
      BY <1>0
    <3>2. PICK b \in 1..n : Closed(p, b)
      BY <3>1, DipCloses
    <3> QED BY <1>1, <3>1, <3>2 DEF Ended
  <2> QED BY <2>1, <2>2
<1>7. Len(ep) = Cardinality(over)
  <2> DEFINE g == [i \in 1..Len(ep) |-> ep[i].peak]
  <2>1. \A i, j \in DOMAIN ep : ep[i].peak = ep[j].peak => i = j
    BY <1>1 DEF Ended
  <2> HIDE DEF over
  <2>2. g \in Bijection(1..Len(ep), over)
    BY <1>3, <1>6, <2>1 DEF Bijection, Injection, Surjection, IsInjective
  <2>3. IsFiniteSet(1..Len(ep)) /\ Cardinality(1..Len(ep)) = Len(ep)
    <3>1. PICK m \in Nat : m = Len(ep)
      BY <1>3
    <3>2. Cardinality(1..m) = m /\ IsFiniteSet(1..m)
      <4>1. PICK one \in Int : one = 1
        OBVIOUS
      <4>2. IsFiniteSet(one..m) /\ Cardinality(one..m) = IF one > m THEN 0 ELSE m - one + 1
        BY FS_Interval
      <4> QED BY <4>1, <4>2
    <3> QED BY <3>1, <3>2
  <2>4. ExistsBijection(1..Len(ep), over)
    BY <2>2 DEF ExistsBijection
  <2> QED BY <2>3, <2>4, FS_Bijection, FS_SameCardinalityBij
<1>8. d = Min(falls)
  <2>1. d \in falls
    <3>1. \E p \in 1..n : \E q \in p..n : d = Equity[q] - Equity[p]
      <4>1. CASE d = 0
        <5>1. 1 \in 1..n /\ 1 \in 1..n
          BY <1>0
        <5>2. Equity[1] - Equity[1] = 0
          BY <1>0, <5>1
        <5> QED BY <4>1, <5>1, <5>2
      <4>2. CASE d # 0
        BY <1>1, <4>2 DEF Deepest
      <4> QED BY <4>1, <4>2
    <3>2. PICK p \in 1..n : \E q \in p..n : d = Equity[q] - Equity[p]
      BY <3>1
    <3>3. PICK q \in p..n : d = Equity[q] - Equity[p]
      BY <3>2
    <3> DEFINE z == <<p, q>>
    <3>4. z \in (DOMAIN Equity) \X (DOMAIN Equity) /\ z[1] <= z[2] /\ d = Equity[z[2]] - Equity[z[1]]
      BY <1>0, <3>3
    <3> QED BY <3>4
  <2>2. ASSUME NEW y \in falls PROVE y \in Int /\ d <= y
    <3>1. PICK z \in (DOMAIN Equity) \X (DOMAIN Equity) : z[1] <= z[2] /\ y = Equity[z[2]] - Equity[z[1]]
      OBVIOUS
    <3>2. PICK p \in 1..n, q \in 1..n : p = z[1] /\ q = z[2]
      BY <1>0, <3>1
    <3>3. q \in p..n /\ y = Equity[q] - Equity[p] /\ Equity[p] \in Int /\ Equity[q] \in Int
      BY <1>0, <3>1, <3>2
    <3> QED BY <1>1, <3>3 DEF Deepest
  <2> HIDE DEF falls
  <2> QED BY <2>1, <2>2, MinIs
<1>9. ASSUME NEW i \in DOMAIN ep
      PROVE  LET dip == Dip(ep[i].peak)
                 low == {t \in dip : \A u \in dip : Equity[t] <= Equity[u]}
                 at(t) == Chosen[t].at
             IN /\ ep[i].trough = Min(low)
                /\ ep[i].fall = at(Min(low)) - at(ep[i].peak)
                /\ ep[i].fall + ep[i].recover = at(Max(dip)) - at(ep[i].peak)
  <2>1. PICK b \in 1..n : EpisodeIs(ep[i], b) /\ ep[i].peak \in 1..n
    BY <1>5
  <2>2. PICK e : e = ep[i]
    OBVIOUS
  <2>3. EpisodeIs(e, b) /\ e.peak \in 1..n
    BY <2>1, <2>2
  <2> QED BY <2>2, <2>3, EpisodeOfDip
<1> HIDE DEF f
<1>10. EpisodesOf(f)
  BY <1>6, <1>7, <1>8, <1>9 DEF EpisodesOf, ep, d, over, falls
<1> QED BY <1>10 DEF f

----------------------------------------------------------------------------
(* The gaps. *)

\* A list that is two of one length in turn.
InTurn(u, s, t, m) == /\ DOMAIN u = 1..(m + m)
                      /\ \A i \in 1..(m + m) : u[i] = IF i <= m THEN s[i] ELSE t[i - m]

\* Two lists of one length, joined.
LEMMA TwoLists ==
  ASSUME NEW m \in Nat, NEW s, Listed(s, m), NEW t, Listed(t, m)
  PROVE  InTurn(s \o t, s, t, m)
<1> DEFINE S == {s[j] : j \in 1..m} \cup {t[j] : j \in 1..m}
<1>1. s \in [1..m -> S] /\ t \in [1..m -> S]
  BY DEF Listed
<1> HIDE DEF S
<1>2. s \in Seq(S) /\ t \in Seq(S)
  BY <1>1
<1>3. Len(s) = m /\ Len(t) = m
  BY LenIs DEF Listed
<1>4. /\ s \o t \in Seq(S) /\ Len(s \o t) = m + m
      /\ \A j \in 1..(m + m) : (s \o t)[j] = IF j <= m THEN s[j] ELSE t[j - m]
  <2>1. /\ s \o t \in Seq(S) /\ Len(s \o t) = Len(s) + Len(t)
        /\ \A j \in 1..(Len(s) + Len(t)) : (s \o t)[j] = IF j <= Len(s) THEN s[j] ELSE t[j - Len(s)]
    BY <1>2, ConcatProperties
  <2> QED BY <1>3, <2>1
<1> QED BY <1>4, LenProperties DEF InTurn

\* A list of the sizes of the parts of a whole.
Tallied(tally, P, whole, m) ==
  /\ DOMAIN tally = 1..m /\ IsFiniteSet(whole)
  /\ \A b \in 1..m : P[b] \subseteq whole /\ tally[b].count = Cardinality(P[b])
  /\ \A b, c \in 1..m : b # c => P[b] \cap P[c] = {}
  /\ \A k \in whole : \E b \in 1..m : k \in P[b]

\* The sum over it is the size of the whole.
LEMMA PartsAddUp ==
  ASSUME NEW m \in Nat, NEW tally, NEW P, NEW whole, Tallied(tally, P, whole, m)
  PROVE  MapThenSumSet(LAMBDA b : tally[b].count, DOMAIN tally) = Cardinality(whole)
<1> USE DEF Tallied
<1> DEFINE S == DOMAIN tally
           v == [b \in S |-> tally[b].count]
           D(g, s) == IF s = {} THEN 0
                      ELSE LET x == CHOOSE x \in s : TRUE
                           IN  tally[x].count + g[s \ {x}]
           it[s \in SUBSET S] == D(it, s)
<1>1. MapThenSumSet(LAMBDA b : tally[b].count, DOMAIN tally) = it[S]
  BY DEF MapThenSumSet, MapThenFoldSet
<1>2. it = CHOOSE h : h = [s \in SUBSET S |-> D(h, s)]
  BY DEF it
<1>3. \A b \in S : v[b] = tally[b].count
  OBVIOUS
<1>4. S = 1..m
  OBVIOUS
<1>5. Sums!IsFiniteSet(S)
  <2>1. PICK one \in Int : one = 1
    OBVIOUS
  <2>2. IsFiniteSet(one..m)
    BY FS_Interval
  <2> HIDE DEF S
  <2>3. IsFiniteSet(S)
    BY <1>4, <2>1, <2>2
  <2> QED BY <2>3 DEF IsFiniteSet, Sums!IsFiniteSet
<1> HIDE DEF it, v, S
<1>6. PICK h : Sums!Totals(h, v, S)
  BY <1>5, Sums!TotalsExist
<1>7. \A g, s : s \in SUBSET S => Sums!AddedUp(v, g, s) = D(g, s)
  BY <1>3 DEF Sums!AddedUp, Sums!OneOf
<1>8. \A g : [s \in SUBSET S |-> Sums!AddedUp(v, g, s)] = [s \in SUBSET S |-> D(g, s)]
  BY <1>7
<1> HIDE DEF D
<1>9. Sums!Totals(it, v, S)
  <2>1. h = [s \in SUBSET S |-> D(h, s)]
    BY <1>6, <1>8 DEF Sums!Totals
  <2>2. it = [s \in SUBSET S |-> D(it, s)]
    BY <1>2, <2>1, Zenon
  <2>3. it = [s \in SUBSET S |-> Sums!AddedUp(v, it, s)]
    BY <1>8, <2>2
  <2> QED BY <2>3 DEF Sums!Totals
<1>10. ASSUME NEW T PROVE Sums!Cardinality(T) = Cardinality(T)
  BY DEF Cardinality, Sums!Cardinality
<1>11. \A b \in S : Sums!IsFiniteSet(P[b])
  <2>1. \A b \in S : IsFiniteSet(P[b])
    BY <1>4, FS_Subset
  <2> QED BY <2>1 DEF IsFiniteSet, Sums!IsFiniteSet
<1>12. \A b \in S : v[b] = Sums!Cardinality(P[b])
  <2>1. \A b \in S : v[b] = Cardinality(P[b])
    BY <1>3, <1>4
  <2> QED BY <1>10, <2>1
<1>13. it[S] = Sums!Cardinality(UNION {P[b] : b \in S})
  <2>1. \A b, c \in S : b # c => P[b] \cap P[c] = {}
    BY <1>4
  <2>2. Sums!Counts(it, v, P, S)
    BY <1>5, <1>9, <1>11, <1>12, <2>1 DEF Sums!Counts
  <2> QED BY <2>2, Sums!TotalsOfParts
<1>14. UNION {P[b] : b \in S} = whole
  BY <1>4
<1> QED BY <1>1, <1>10, <1>13, <1>14

\* A gap is in one of the buckets.
LEMMA SizeBucketIn ==
  ASSUME NEW i, NEW e \in Nat, DOMAIN Edges = 1..e, Len(Edges) = e
  PROVE  SizeBucket(i) \in 0..e
<1> DEFINE above == {j \in DOMAIN Edges : Size(i) < Edges[j] * bars[i].close}
<1>1. SizeBucket(i) = IF above = {} THEN e ELSE Min(above) - 1
  BY DEF SizeBucket
<1>2. above \in SUBSET (1..e)
  OBVIOUS
<1> HIDE DEF above
<1>3. CASE above = {}
  BY <1>1, <1>3
<1>4. CASE above # {}
  <2>1. above \in SUBSET Nat
    BY <1>2
  <2>2. Min(above) \in above
    BY <1>4, <2>1, MinOfNats
  <2>3. PICK a \in 1..e : a = Min(above)
    BY <1>2, <2>2
  <2> QED BY <1>1, <1>4, <2>3
<1> QED BY <1>3, <1>4

\* What a gap is filled by: the first bar that reaches the close before it.
LEMMA FillIs ==
  ASSUME SeriesFeed, NEW i \in 1..(Len(bars) - 1), Lookahead \in Nat \ {0}
  PROVE  LET f == ToFill(i)
             up == Jump(i) > 0
             last == IF f > 0 THEN f ELSE Lookahead + 1
         IN /\ \A j \in (i + 1)..Min({i + last - 1, Len(bars)}) : ~Reaches(up, i, j)
            /\ f > 0 => f <= Lookahead /\ Reaches(up, i, i + f)
<1> DEFINE n == Len(bars)
           up == Jump(i) > 0
           far == Min({i + Lookahead, n})
           S == Fills(i)
           f == ToFill(i)
           last == IF f > 0 THEN f ELSE Lookahead + 1
<1>0. n \in Nat /\ i \in 1..(n - 1) /\ Lookahead \in Nat
  BY BarColumns
<1>1. S = {j \in (i + 1)..far : Reaches(up, i, j)}
  BY DEF Fills, Reaches
<1>2. f = IF S = {} THEN 0 ELSE Min(S) - i
  BY DEF ToFill
<1> HIDE DEF S, f, n, up
<1>3. far \in Int /\ far <= i + Lookahead /\ far <= n /\ (far = i + Lookahead \/ far = n)
  <2>1. PICK a \in Int : a = i + Lookahead
    BY <1>0
  <2>2. PICK b \in Int : b = n
    BY <1>0
  <2>3. Min({a, b}) \in Int /\ Min({a, b}) \in {a, b} /\ Min({a, b}) <= a /\ Min({a, b}) <= b
    BY MinTwo
  <2> QED BY <2>1, <2>2, <2>3 DEF far
<1> HIDE DEF far
<1>4. CASE S = {}
  <2>1. f = 0 /\ last = Lookahead + 1
    BY <1>2, <1>4
  <2>2. i + last - 1 = i + Lookahead
    BY <1>0, <2>1
  <2>3. Min({i + last - 1, n}) = far
    BY <2>2 DEF far
  <2> QED BY <1>1, <1>4, <2>1, <2>3 DEF f, n, up
<1>5. CASE S # {}
  <2>1. S \in SUBSET Nat
    BY <1>0, <1>1, <1>3
  <2>2. PICK m \in S : m = Min(S)
    BY <1>5, <2>1, MinOfNats
  <2>3. m \in (i + 1)..far /\ Reaches(up, i, m) /\ \A j \in S : m <= j
    BY <1>1, <1>5, <2>1, <2>2, MinOfNats
  <2>4. f = m - i /\ f \in Int /\ f > 0 /\ last = f
    BY <1>0, <1>2, <1>3, <1>5, <2>2, <2>3
  <2>5. i + f = m /\ f <= Lookahead /\ i + last - 1 = m - 1
    BY <1>0, <1>3, <2>3, <2>4
  <2>6. ASSUME NEW j \in (i + 1)..Min({i + last - 1, n}) PROVE ~Reaches(up, i, j)
    <3>1. PICK a \in Int : a = m - 1
      BY <1>0, <1>3, <2>3
    <3>2. PICK b \in Int : b = n
      BY <1>0
    <3>3. PICK c \in Int : c = Min({a, b}) /\ c <= a
      BY MinTwo
    <3>4. j \in (i + 1)..c
      BY <2>5, <2>6, <3>1, <3>2, <3>3
    <3>5. j \in (i + 1)..far /\ j < m
      BY <1>0, <1>3, <2>3, <3>1, <3>3, <3>4
    <3> QED BY <1>1, <2>3, <3>5
  <2> QED BY <2>3, <2>4, <2>5, <2>6 DEF f, n, up
<1> QED BY <1>4, <1>5

\* The gaps of one direction that fall into one bucket.
GapsIn(up, b) == {k \in DOMAIN Gaps : (Jump(Gaps[k]) > 0) = up /\ SizeBucket(Gaps[k]) = b}

\* The edges are a list of numbers.
LEMMA EdgesAre ==
  ASSUME SeriesFeed, ~job.odd
  PROVE  Len(Edges) \in Nat /\ DOMAIN Edges = 1..Len(Edges)
<1>1. Edges \in Seq(Int)
  BY DEF Edges, Param, Given, SeriesFeed, Typed
<1> QED BY <1>1, LenProperties

\* The list of tallies: one for every direction and bucket.
LEMMA TallyIs ==
  ASSUME NEW m \in Nat
  PROVE  m = Len(Edges) + 1 =>
           /\ DOMAIN GapFound.numbers = 1..(m + m)
           /\ \A b \in 1..(m + m) :
                GapFound.numbers[b] = IF b <= m THEN Tally(TRUE, b - 1) ELSE Tally(FALSE, b - m - 1)
<1>0. SUFFICES ASSUME m = Len(Edges) + 1
               PROVE  /\ DOMAIN GapFound.numbers = 1..(m + m)
                      /\ \A b \in 1..(m + m) :
                           GapFound.numbers[b] = IF b <= m THEN Tally(TRUE, b - 1)
                                                 ELSE Tally(FALSE, b - m - 1)
  OBVIOUS
<1> DEFINE s == [b \in 1..(Len(Edges) + 1) |-> Tally(TRUE, b - 1)]
           t == [b \in 1..(Len(Edges) + 1) |-> Tally(FALSE, b - 1)]
<1>1. GapFound.numbers = s \o t
  BY DEF GapFound, Found
<1>2. Listed(s, m) /\ Listed(t, m)
  BY <1>0 DEF Listed
<1>3. \A b \in 1..m : s[b] = Tally(TRUE, b - 1) /\ t[b] = Tally(FALSE, b - 1)
  BY <1>0
<1> HIDE DEF s, t
<1>4. /\ DOMAIN (s \o t) = 1..(m + m)
      /\ \A i \in 1..(m + m) : (s \o t)[i] = IF i <= m THEN s[i] ELSE t[i - m]
  <2>1. InTurn(s \o t, s, t, m)
    BY <1>2, TwoLists
  <2> QED BY <2>1 DEF InTurn
<1>5. ASSUME NEW b \in 1..(m + m), ~(b <= m)
      PROVE  (s \o t)[b] = Tally(FALSE, b - m - 1)
  <2>1. PICK c \in Int : c = b - m
    BY <1>5
  <2>2. c \in 1..m
    BY <1>5, <2>1
  <2> QED BY <1>3, <1>4, <1>5, <2>1, <2>2
<1>6. ASSUME NEW b \in 1..(m + m), b <= m
      PROVE  (s \o t)[b] = Tally(TRUE, b - 1)
  <2>1. b \in 1..m
    BY <1>6
  <2> QED BY <1>3, <1>4, <1>6, <2>1
<1> QED BY <1>1, <1>4, <1>5, <1>6

\* A tally counts the gaps of its direction and bucket, and those of them that are filled.
LEMMA TallyCounts ==
  ASSUME NEW up \in BOOLEAN, NEW b
  PROVE  LET t == Tally(up, b)
         IN /\ t.label = b /\ (t.name = "up") = up
            /\ t.count = Cardinality(GapsIn(up, b))
            /\ t.filled # -1 => t.filled = Cardinality({k \in GapsIn(up, b) : ToFill(Gaps[k]) > 0})
BY DEF Tally, GapsIn

\* Every gap is counted once.
LEMMA GapsCounted ==
  ASSUME SeriesFeed, ~job.odd
  PROVE  MapThenSumSet(LAMBDA b : GapFound.numbers[b].count, DOMAIN GapFound.numbers) = Len(Gaps)
<1>1. PICK m \in Nat : m = Len(Edges) + 1
  BY EdgesAre
<1> DEFINE tally == GapFound.numbers
           P == [b \in 1..(m + m) |-> IF b <= m THEN GapsIn(TRUE, b - 1) ELSE GapsIn(FALSE, b - m - 1)]
           whole == DOMAIN Gaps
<1>2. PICK n \in Nat : n = m + m
  OBVIOUS
<1>3. DOMAIN tally = 1..n
  BY <1>1, <1>2, TallyIs
<1>4. \A b \in 1..n : P[b] = IF b <= m THEN GapsIn(TRUE, b - 1) ELSE GapsIn(FALSE, b - m - 1)
  BY <1>2
<1>5. \A b \in 1..n : tally[b] = IF b <= m THEN Tally(TRUE, b - 1) ELSE Tally(FALSE, b - m - 1)
  BY <1>1, <1>2, TallyIs
<1>6. Len(Gaps) \in Nat /\ whole = 1..Len(Gaps)
  BY GapsAscend DEF Ascending
<1> HIDE DEF tally, P
<1>7. IsFiniteSet(whole) /\ Cardinality(whole) = Len(Gaps)
  <2>1. PICK one \in Int : one = 1
    OBVIOUS
  <2>2. PICK l \in Nat : l = Len(Gaps)
    BY <1>6
  <2>3. IsFiniteSet(one..l) /\ Cardinality(one..l) = IF one > l THEN 0 ELSE l - one + 1
    BY FS_Interval
  <2> QED BY <1>6, <2>1, <2>2, <2>3
<1> HIDE DEF whole
<1>8. ASSUME NEW b \in 1..n PROVE P[b] \subseteq whole /\ tally[b].count = Cardinality(P[b])
  <2>1. \A up, c : GapsIn(up, c) \subseteq whole
    BY DEF GapsIn, whole
  <2>2. \A up \in BOOLEAN : \A c : Tally(up, c).count = Cardinality(GapsIn(up, c))
    BY TallyCounts
  <2>3. CASE b <= m
    <3>1. P[b] = GapsIn(TRUE, b - 1) /\ tally[b] = Tally(TRUE, b - 1)
      BY <1>4, <1>5, <2>3
    <3>2. Tally(TRUE, b - 1).count = Cardinality(GapsIn(TRUE, b - 1))
      BY <2>2
    <3> QED BY <2>1, <3>1, <3>2
  <2>4. CASE ~(b <= m)
    <3>1. P[b] = GapsIn(FALSE, b - m - 1) /\ tally[b] = Tally(FALSE, b - m - 1)
      BY <1>4, <1>5, <2>4
    <3>2. Tally(FALSE, b - m - 1).count = Cardinality(GapsIn(FALSE, b - m - 1))
      BY <2>2
    <3> QED BY <2>1, <3>1, <3>2
  <2> QED BY <2>3, <2>4
<1>9. ASSUME NEW b \in 1..n, NEW c \in 1..n, b # c PROVE P[b] \cap P[c] = {}
  <2>1. \A c1, c2, u1, u2 : c1 # c2 \/ u1 # u2 => GapsIn(u1, c1) \cap GapsIn(u2, c2) = {}
    BY DEF GapsIn
  <2>2. TRUE # FALSE
    OBVIOUS
  <2>3. b - 1 # c - 1 /\ b - m - 1 # c - m - 1
    BY <1>9
  <2> QED BY <1>4, <2>1, <2>2, <2>3
<1>10. ASSUME NEW k \in whole PROVE \E b \in 1..n : k \in P[b]
  <2>1. PICK c \in 0..(m - 1) : c = SizeBucket(Gaps[k])
    <3>1. PICK e \in Nat : e = Len(Edges) /\ DOMAIN Edges = 1..e /\ m = e + 1
      BY <1>1, EdgesAre
    <3>2. SizeBucket(Gaps[k]) \in 0..e
      BY <3>1, SizeBucketIn
    <3> QED BY <3>1, <3>2
  <2>2. (Jump(Gaps[k]) > 0) \in BOOLEAN
    <3>1. \A x \in Int : (x > 0) \in BOOLEAN
      OBVIOUS
    <3>2. Jump(Gaps[k]) \in Int
      <4>1. /\ Gaps[k] \in 1..Len(bars) /\ Gaps[k] + 1 \in 1..Len(bars)
        BY <1>6, GapsAscend, BarColumns DEF whole
      <4>2. \A i \in 1..Len(bars) : bars[i] \in BarRecords
        BY LenProperties DEF SeriesFeed
      <4>3. PICK g \in 1..Len(bars), q \in 1..Len(bars) : g = Gaps[k] /\ q = g + 1
        BY <4>1
      <4>4. bars[g].close \in Int /\ bars[q].open \in Int
        BY <4>2 DEF BarRecords
      <4> QED BY <4>3, <4>4 DEF Jump
    <3> QED BY <3>1, <3>2
  <2>3. CASE (Jump(Gaps[k]) > 0) = TRUE
    <3>1. k \in GapsIn(TRUE, c)
      BY <2>1, <2>3 DEF GapsIn, whole
    <3>2. PICK b \in 1..n : b = c + 1 /\ b <= m /\ b - 1 = c
      BY <1>2
    <3> QED BY <1>4, <3>1, <3>2
  <2>4. CASE (Jump(Gaps[k]) > 0) = FALSE
    <3>1. k \in GapsIn(FALSE, c)
      BY <2>1, <2>4 DEF GapsIn, whole
    <3>2. PICK b \in 1..n : b = c + m + 1
      BY <1>2
    <3>3. ~(b <= m) /\ b - m - 1 = c
      BY <3>2
    <3>4. P[b] = GapsIn(FALSE, c)
      BY <1>4, <3>3
    <3> QED BY <3>1, <3>4
  <2> QED BY <2>2, <2>3, <2>4
<1>11. MapThenSumSet(LAMBDA b : tally[b].count, DOMAIN tally) = Cardinality(whole)
  <2>1. Tallied(tally, P, whole, n)
    BY <1>3, <1>7, <1>8, <1>9, <1>10 DEF Tallied
  <2> QED BY <2>1, PartsAddUp
<1> QED BY <1>7, <1>11 DEF tally

\* The gaps of a finding are as its reference has them.
LEMMA GapsHold ==
  ASSUME SeriesFeed, ~job.odd, GapAccepts
  PROVE  GapsOf(GapFound)
<1> DEFINE gaps == GapFound.raw
           tally == GapFound.numbers
<1>1. Lookahead \in Nat \ {0}
  BY DEF GapAccepts
<1>2. DOMAIN gaps = DOMAIN Gaps /\ Len(gaps) = Len(Gaps) /\ Len(Gaps) \in Nat
  <2>1. DOMAIN gaps = DOMAIN Gaps
    BY DEF GapFound, Found
  <2>2. Len(Gaps) \in Nat /\ DOMAIN Gaps = 1..Len(Gaps)
    BY GapsAscend DEF Ascending
  <2>3. PICK l \in Nat : l = Len(Gaps)
    BY <2>2
  <2>4. DOMAIN gaps = 1..l
    BY <2>1, <2>2, <2>3
  <2> HIDE DEF gaps
  <2>5. Len(gaps) = l
    BY <2>4, LenIs
  <2> QED BY <2>1, <2>2, <2>3, <2>5
<1>3. ASSUME NEW k \in DOMAIN Gaps
      PROVE  /\ gaps[k].at = bars[Gaps[k] + 1].ts /\ gaps[k].v = Jump(Gaps[k])
             /\ gaps[k].bucket = SizeBucket(Gaps[k]) /\ gaps[k].fill = ToFill(Gaps[k])
  BY DEF GapFound, Found
<1> HIDE DEF gaps, tally
<1>4. ASSUME NEW k \in DOMAIN gaps
      PROVE  LET i == RankOf(gaps[k].at) - 1
                 last == IF gaps[k].fill > 0 THEN gaps[k].fill ELSE Lookahead + 1
             IN /\ \A j \in (i + 1)..Min({i + last - 1, Len(bars)}) : ~Reaches(gaps[k].v > 0, i, j)
                /\ gaps[k].fill > 0 => /\ gaps[k].fill <= Lookahead
                                       /\ Reaches(gaps[k].v > 0, i, i + gaps[k].fill)
  <2>1. PICK g \in 1..(Len(bars) - 1) : g = Gaps[k]
    BY <1>2, <1>4, GapsAscend
  <2>2. gaps[k].v = Jump(g) /\ gaps[k].fill = ToFill(g) /\ gaps[k].at = bars[g + 1].ts
    BY <1>2, <1>3, <1>4, <2>1
  <2>3. RankOf(gaps[k].at) - 1 = g
    <3>1. PICK q \in 1..Len(bars) : q = g + 1
      BY BarColumns
    <3>2. RankOf(bars[q].ts) = q
      BY RankIs
    <3> QED BY <2>2, <3>1, <3>2
  <2> QED BY <1>1, <2>2, <2>3, FillIs
<1>5. MapThenSumSet(LAMBDA b : tally[b].count, DOMAIN tally) = Len(gaps)
  BY <1>2, GapsCounted DEF tally
<1>6. ASSUME NEW b \in DOMAIN tally, tally[b].filled # -1
      PROVE  tally[b].filled = Cardinality({k \in DOMAIN gaps : /\ gaps[k].bucket = tally[b].label
                                                                /\ (gaps[k].v > 0) = (tally[b].name = "up")
                                                                /\ gaps[k].fill > 0})
  <2>1. PICK up \in BOOLEAN : \E c : tally[b] = Tally(up, c)
    <3>1. PICK m \in Nat : m = Len(Edges) + 1
      BY EdgesAre
    <3>2. /\ DOMAIN tally = 1..(m + m)
          /\ \A c \in 1..(m + m) : tally[c] = IF c <= m THEN Tally(TRUE, c - 1) ELSE Tally(FALSE, c - m - 1)
      BY <3>1, TallyIs DEF tally
    <3>3. tally[b] = Tally(TRUE, b - 1) \/ tally[b] = Tally(FALSE, b - m - 1)
      BY <1>6, <3>2
    <3> QED BY <3>3
  <2>2. PICK c : tally[b] = Tally(up, c)
    BY <2>1
  <2>3. /\ tally[b].label = c /\ (tally[b].name = "up") = up
        /\ tally[b].filled = Cardinality({k \in GapsIn(up, c) : ToFill(Gaps[k]) > 0})
    BY <1>6, <2>2, TallyCounts
  <2>4. {k \in GapsIn(up, c) : ToFill(Gaps[k]) > 0}
          = {k \in DOMAIN gaps : /\ gaps[k].bucket = tally[b].label
                                 /\ (gaps[k].v > 0) = (tally[b].name = "up")
                                 /\ gaps[k].fill > 0}
    BY <1>2, <1>3, <2>3 DEF GapsIn
  <2> QED BY <2>3, <2>4
<1> QED BY <1>4, <1>5, <1>6 DEF GapsOf, gaps, tally

\* Episodes of ScanRun: the walk reports every dip that has come back, over its lowest
\* value, and every gap is filled by the first bar that reaches it and counted once.
THEOREM EpisodesHold == Spec => []Episodes
<1>1. SeriesInv => Episodes
  <2> SUFFICES ASSUME SeriesInv, NEW r \in DOMAIN out
               PROVE  /\ job.scan = "drawdown" => EpisodesOf(out[r])
                      /\ job.scan = "gap" => GapsOf(out[r])
    BY DEF Episodes
  <2>1. CASE job.scan = "drawdown"
    <3>1. job.scan \notin PairKinds
      BY <2>1 DEF PairKinds
    <3>2. SeriesFeed /\ SeriesAccepted /\ found \in Kernel /\ r \in DOMAIN found /\ out[r] = found[r]
      BY <3>1, WrittenAreFound
    <3>3. found = <<DrawdownFound>>
      BY <2>1, <3>2 DEF Kernel
    <3>4. out[r] = DrawdownFound
      BY <3>2, <3>3
    <3>5. SeriesAccepts(2)
      BY <2>1, <3>2 DEF SeriesAccepted
    <3>6. Len(Chosen) >= 1
      <4>1. Len(Chosen) \in Int
        BY <3>2, BarColumns, ChosenColumn
      <4> QED BY <3>5, <4>1 DEF SeriesAccepts
    <3>7. EpisodesOf(DrawdownFound)
      BY <3>2, <3>6, DrawdownHolds
    <3> QED BY <2>1, <3>4, <3>7
  <2>2. CASE job.scan = "gap"
    <3>1. job.scan \notin PairKinds
      BY <2>2 DEF PairKinds
    <3>2. SeriesFeed /\ SeriesAccepted /\ found \in Kernel /\ r \in DOMAIN found /\ out[r] = found[r]
      BY <3>1, WrittenAreFound
    <3>3. found = <<GapFound>>
      BY <2>2, <3>2 DEF Kernel
    <3>4. out[r] = GapFound
      BY <3>2, <3>3
    <3>5. ~job.odd /\ GapAccepts
      BY <2>2, <3>2 DEF SeriesAccepted
    <3>6. GapsOf(GapFound)
      BY <3>2, <3>5, GapsHold
    <3> QED BY <2>2, <3>4, <3>6
  <2> QED BY <2>1, <2>2
<1> QED BY <1>1, SeriesInvariant, PTL
=============================================================================
