----------------------------- MODULE AnomScans -----------------------------
(***************************************************************************)
(* The fifteen stats.* scans over one instrument: which requests and data  *)
(* they refuse, which bars each number of their finding is made of and     *)
(* under which label it is written.                                        *)
(***************************************************************************)
EXTENDS ScanData

CONSTANT DefaultThreshold   \* 1.358 of cusum_break, as a pair <<p, q>> for p/q

----------------------------------------------------------------------------
(* stats.autocorr.ljung_box and ljung_box_sq (over the squares). *)

DefaultLags(n) == Min({10, n \div 5})
Lags == Param("lags", DefaultLags(N))

LjungBoxAccepts == N >= 2 /\ Lags >= 1 /\ Lags < N

\* ljung_box_q_and_p adds up biased_acf: Q at lag k is made of the lags up to k.
QStats(x, lags) ==
  [k \in 1..lags |-> Number("q", k, UNION {Products(x, j) : j \in 1..k})]

LjungBoxFound ==
  Found(Returns, QStats(Returns, Lags), Effect("ljung_box_q", Lags, "returns"))
LjungBoxSqFound ==
  Found(Returns, QStats(Returns, Lags), Effect("ljung_box_q", Lags, "squares"))

----------------------------------------------------------------------------
(* stats.stationarity.adf. *)

\* floor(c (n/100)^(1/4)), the rule of thumb of Schwert.
Fourth(v) == v * v * v * v
Schwert(c, n) == CHOOSE v \in 0..c :
                   /\ Fourth(v) * 100 <= Fourth(c) * n
                   /\ v = c \/ Fourth(v + 1) * 100 > Fourth(c) * n

Regression == Param("regression", "c")
DetCount == [nc |-> 0, c |-> 1, ct |-> 2, ctt |-> 3]
Autolag == Param("autolag", "AIC")
MaxLag == Param("max_lag", Schwert(12, Len(bars)))

AdfAccepts == /\ Len(bars) >= 4
              /\ Regression \in DOMAIN DetCount
              /\ Autolag \in {"AIC", "BIC", "None"}
              /\ MaxLag >= 0 /\ MaxLag < Len(bars)

\* fit_adf_regression has rows enough for lag k.
Fittable(k) == LET nobs == Len(bars) - 1 - k
           IN nobs >= 4 /\ nobs > DetCount[Regression] + 1 + k

\* The lags the selection may settle on; a fit that is singular is passed over.
AdfLags == {k \in IF Autolag = "None" THEN {MaxLag} ELSE 0..MaxLag : Fittable(k)}

\* Row t reads y[t] and the k + 1 values before it.
AdfFound(k) ==
  Found(Levels, <<Number("tau", k, Spans(Levels, k + 2))>>,
        Effect("adf_tau", <<Regression, Autolag, MaxLag>>, "close"))

----------------------------------------------------------------------------
(* stats.stationarity.kpss. *)

AutoLag == -1
Nlags == Param("nlags", AutoLag)
Truncation == IF Nlags = AutoLag THEN Schwert(4, Len(bars)) ELSE Nlags

KpssAccepts == /\ Len(bars) >= 4
               /\ Regression \in {"c", "ct"}
               /\ Nlags = AutoLag \/ (Nlags >= 0 /\ Nlags < Len(bars))

\* The long-run variance adds the autocovariances up to the truncation lag.
KpssNumbers == <<Number("eta", Truncation, UNION {Products(Levels, j) : j \in 0..Truncation})>>

KpssFound ==
  Found(Levels, KpssNumbers,
        Effect("kpss_eta", <<Regression, Nlags>>, "close"))

----------------------------------------------------------------------------
(* stats.variance_ratio.lo_mackinlay and stats.tsmom.profile. *)

VrHorizons == Param("k_values", <<2, 4, 8, 16>>)
Robust == Param("robust", TRUE)

VrAccepts == /\ N >= 4 /\ VrHorizons # <<>>
             /\ \A i \in DOMAIN VrHorizons : VrHorizons[i] >= 2 /\ VrHorizons[i] <= N \div 2

\* Overlapping sums of k returns.
VrNumbers == [i \in DOMAIN VrHorizons |->
                Number("vr", VrHorizons[i], Spans(Returns, VrHorizons[i]))]

\* Effect.value is the last of the list.
VrFound ==
  Found(Returns, VrNumbers,
        Effect("variance_ratio", <<Last(VrHorizons), Robust>>, "returns"))

Holds == Param("k_values", <<1, 5, 10, 20>>)
Scaling == Param("scaling", TRUE)

\* Mutant of TsmomAccepts: three blocks, one pair of which is left for the error.
TsmomAcceptsThree ==
  /\ N >= 4 /\ Holds # <<>>
  /\ \A i \in DOMAIN Holds : Holds[i] >= 1 /\ N \div Holds[i] >= 3

TsmomAccepts ==
  /\ N >= 4 /\ Holds # <<>>
  /\ \A i \in DOMAIN Holds : Holds[i] >= 1 /\ N \div Holds[i] >= 4

\* Non-overlapping sums of k returns, each with the one after it.
Block(k, b) == <<Returns[b * k + 1].at, Returns[(b + 1) * k].at>>
BlockPairs(k) == {<<Block(k, b), Block(k, b + 1)>> : b \in 0..(N \div k - 2)}

\* vol_normalize: the 20 returns before, or the whole sample when they are too few.
VolWindow == 20
Scale(i) == LET past == Max({1, i - VolWindow})..(i - 1)
            IN IF ~Scaling THEN {}
               ELSE {Returns[j].at : j \in IF Cardinality(past) >= 2 THEN past ELSE 1..N}

\* select_hold_index: whichever horizon the t-statistics single out.
Selectable == DOMAIN Holds

TsmomFound(sel) ==
  Found(Returns,
        [i \in DOMAIN Holds |-> Number("continuation", Holds[i], BlockPairs(Holds[i]))]
        \o [i \in 1..N |-> Number("scale", Returns[i].at, Scale(i))],
        Effect("continuation", Holds[sel], "returns"))

\* The t-distribution of a horizon has as many degrees of freedom as pairs less two.
TsmomPanics == \E i \in DOMAIN Holds : Cardinality(BlockPairs(Holds[i])) - 2 < 1

----------------------------------------------------------------------------
(* stats.heteroskedasticity.arch_lm. *)

Lag == Param("lag", 5)

ArchAccepts == Len(bars) >= 2 /\ Lag >= 1 /\ Lag <= N \div 3

\* Too few rows for the F-statistic is an error of the kernel, not of the request.
ArchFits == N >= 2 * Lag + 2

\* A row of the auxiliary regression is a square and the Lag before it.
ArchNumbers == <<Number("lm", Lag, Spans(Returns, Lag + 1))>>

ArchFound == Found(Returns, ArchNumbers, Effect("arch_lm", Lag, "returns"))

----------------------------------------------------------------------------
(* stats.normality.jarque_bera, stats.summary.welford, stats.returns.profile,  *)
(* stats.meanrev.ou_halflife.                                                  *)

SeriesAccepts(least) == /\ Param("series", "log_returns") \in {"log_returns", "close"}
                        /\ Len(bars) >= 1 /\ Len(Chosen) >= least

SeriesName == IF Param("series", "log_returns") = "close" THEN "close" ELSE "returns"

Whole(x) == {<<x[1].at, Last(x).at>>}

JarqueBeraNumbers == <<Number("jb", N, Whole(Chosen))>>
JarqueBeraFound == Found(Chosen, JarqueBeraNumbers, Effect("jarque_bera", 0, SeriesName))

\* welford, iqr and min_max go over the same values.
SummaryNumbers == <<Number("mean", Len(Chosen), Whole(Chosen))>>
SummaryFound == Found(Chosen, SummaryNumbers, Effect("mean", 0, SeriesName))

SameDay(i) == DayOf(bars[i].ts) = DayOf(bars[i + 1].ts)

Variant == Param("variant", "log")

\* dispatch_variant and compute_timestamps_ms walk the bars by one rule.
Kept == LET keeps(i) == CASE Variant \in {"log", "simple"} -> TRUE
                          [] Variant = "intraday"  -> SameDay(i)
                          [] Variant = "overnight" -> ~SameDay(i)
        IN Ascend({i \in 1..N : keeps(i)})

Profile == [j \in DOMAIN Kept |-> Returns[Kept[j]]]

ReturnsAccepts == /\ Variant \in {"log", "simple", "intraday", "overnight"}
                  /\ Len(bars) >= 2 /\ Len(Profile) >= 2

ReturnsFound == Found(Profile, <<>>, Effect("mean", Variant, "returns"))

\* Mutant of MinN: not the default of the schema.
MinNTen == Param("min_n", 10)

MinN == Param("min_n", 30)
Basis == Param("on", "level")

MeanrevAccepts == Basis \in {"level", "returns"} /\ MinN >= 3 /\ Len(bars) >= MinN

\* ar1_fit: a fit of fewer than three values is NaN and goes on the wire as such.
Ar1(x) == <<Number("rho", Len(x) - 1, IF Len(x) < 3 THEN {} ELSE Products(x, 1))>>

MeanrevFound == Found(Levels, Ar1(IF Basis = "level" THEN Levels ELSE Returns),
                      Effect("ou_lambda", Basis, Basis))

----------------------------------------------------------------------------
(* stats.vol.rolling: the windows, and the windows of windows. *)

\* Mutant of VolAccepts: a window of one.
VolAcceptsOne == /\ SeriesAccepts(1) /\ Given("window")
                 /\ job.p["window"] >= 1 /\ job.p["window"] <= Len(Chosen)

VolAccepts == /\ SeriesAccepts(1) /\ Given("window")
              /\ job.p["window"] >= 2 /\ job.p["window"] <= Len(Chosen)

VolWindows == Len(Chosen) - job.p["window"] + 1

RollingStd(w) ==
  [i \in 1..VolWindows |-> Number("vol", Chosen[i].at, {<<Chosen[i].at, Chosen[i + w - 1].at>>})]

VolOfVol(w) ==
  [j \in 1..(VolWindows - w + 1) |->
     Number("vol_of_vol", j, {Chosen[i].at : i \in j..(j + w - 1)})]

VolFound ==
  LET w == job.p["window"]
  IN Found(Chosen, RollingStd(w) \o VolOfVol(w), Effect("last_vol", w, SeriesName))

----------------------------------------------------------------------------
(* stats.outliers.z_and_mad.  Thresholds are in tenths; everything below is *)
(* doubled or squared until it is an integer.                               *)

ZThreshold == Param("z_threshold", 30)
ModifiedZThreshold == Param("modified_z_threshold", 35)

OutlierAccepts == SeriesAccepts(2) /\ ZThreshold >= 0 /\ ModifiedZThreshold >= 0

AbsInt(i) == IF i < 0 THEN -i ELSE i

Mad4(x) == LET med == Median2(Values(x))
           IN Median2([i \in DOMAIN x |-> AbsInt(2 * x[i].v - med)])

\* |z| > t/10 and |modified z| > t/10.
ZFlag(x, i, t) ==
  LET n == Len(x)
      off == n * x[i].v - SumOf(x)
      var == n * Squares(x) - SumOf(x) * SumOf(x)
  IN var > 0 /\ 100 * off * off > t * t * var
MadFlag(x, i, t) == 6745 * 2 * AbsInt(2 * x[i].v - Median2(Values(x))) > 1000 * t * Mad4(x)

Flagged(x) == {i \in DOMAIN x : \/ ZFlag(x, i, ZThreshold)
                                \/ MadFlag(x, i, ModifiedZThreshold)}

\* outlier_indices count from zero.
OutliersFound ==
  LET order == Ascend(Flagged(Chosen))
  IN Found(Chosen, [j \in DOMAIN order |->
                      Number("outlier", order[j] - 1, {Chosen[order[j]].at})],
           Effect("count", Len(order), SeriesName))

----------------------------------------------------------------------------
(* stats.drawdown.profile. *)

\* cumulative_log_equity; the closes themselves otherwise.
Equity == IF SeriesName = "close" THEN Values(Levels)
          ELSE [i \in DOMAIN Chosen |-> SumOf(SubSeq(Chosen, 1, i))]

\* compute_drawdown_profile: the state of the walk after t values.
Calm == [in |-> FALSE, peak |-> 1, from |-> 1, trough |-> 1, maxDd |-> 0, episodes |-> <<>>]

AtPeak(s, t) ==
  [s EXCEPT !.in = FALSE, !.peak = t,
            !.episodes = IF s.in
                         THEN Append(@, [peak |-> s.from, trough |-> s.trough,
                                         fall |-> Chosen[s.trough].at - Chosen[s.from].at,
                                         recover |-> Chosen[t].at - Chosen[s.trough].at])
                         ELSE @]

\* Mutant of Below: the last of the lowest values is the trough.
BelowLast(s, t) ==
  [s EXCEPT !.in = TRUE, !.maxDd = Min({@, Equity[t] - Equity[s.peak]}),
            !.from = IF s.in THEN @ ELSE s.peak,
            !.trough = IF s.in /\ Equity[t] > Equity[@] THEN @ ELSE t]

Below(s, t) ==
  [s EXCEPT !.in = TRUE, !.maxDd = Min({@, Equity[t] - Equity[s.peak]}),
            !.from = IF s.in THEN @ ELSE s.peak,
            !.trough = IF s.in /\ Equity[t] >= Equity[@] THEN @ ELSE t]

Visit(s, t) == IF Equity[t] >= Equity[s.peak] THEN AtPeak(s, t) ELSE Below(s, t)
Walk == FoldLeft(Visit, Calm, [t \in DOMAIN Chosen |-> t])

DrawdownFound ==
  LET end == Walk
  IN Found(Chosen, end.episodes, Effect("max_dd", end.maxDd, SeriesName))

----------------------------------------------------------------------------
(* stats.regime.cusum_break.  Statistics are compared squared. *)

Target == Param("target", "both")
Bar == Param("threshold", DefaultThreshold)
MinSegment == Param("min_segment", 30)

CusumAccepts == /\ Target \in {"mean", "vol", "both"}
                /\ Bar[1] > 0
                /\ MinSegment >= 2

Square(v) == v * v

\* The sum of x[lo..hi], and n^2 times that of the squared deviations up to `to`.
Move(lo, hi) == bars[hi + 1].close - bars[lo + 1].close
Deviation(lo, hi, to) ==
  MapThenSumSet(LAMBDA i : Square((hi - lo) * Move(i - 1, i) - Move(lo, hi)), (lo + 1)..to)

\* n times the bridge of the values, n^3 times that of their squared deviations.
Bridges(kind, lo, hi) ==
  [k \in 1..(hi - lo) |->
     AbsInt(IF kind = "mean"
            THEN (hi - lo) * Move(lo, lo + k) - k * Move(lo, hi)
            ELSE (hi - lo) * Deviation(lo, hi, lo + k) - k * Deviation(lo, hi, hi))]

\* The first k with the largest bridge, none when the bridge is flat or ends there.
Candidates(kind, lo, hi) ==
  LET bridges == Bridges(kind, lo, hi)
  IN {k \in 1..(hi - lo - 1) : /\ bridges[k] > 0
                               /\ \A j \in DOMAIN bridges : bridges[j] <= bridges[k]
                               /\ \A j \in 1..(k - 1) : bridges[j] < bridges[k]}

Exceeds(kind, lo, hi, k) ==
  LET n == hi - lo
      lhs == (Bar[2] * Bridges(kind, lo, hi)[k])^2
      dev == Deviation(lo, hi, hi)
  IN IF kind = "mean" THEN lhs * (n - 1) > Bar[1]^2 * n * dev
                      ELSE lhs > Bar[1]^2 * 2 * n * dev^2

\* Mutant of Splits: nothing keeps a split away from the ends of its segment.
SplitsAnywhere(kind, lo, hi) ==
  {k \in Candidates(kind, lo, hi) : hi - lo >= 2 * MinSegment /\ Exceeds(kind, lo, hi, k)}

\* Where x[lo..hi] is split, if it is.
Splits(kind, lo, hi) ==
  {k \in Candidates(kind, lo, hi) : /\ hi - lo >= 2 * MinSegment
                                    /\ Exceeds(kind, lo, hi, k)
                                    /\ k >= MinSegment /\ hi - lo - k >= MinSegment}

\* segment: binary segmentation of x[lo..hi].
Segment(kind) ==
  LET f[s \in (0..N) \X (0..N)] ==
        UNION {{s[1] + k} \cup f[<<s[1], s[1] + k>>] \cup f[<<s[1] + k, s[2]>>] :
                 k \in Splits(kind, s[1], s[2])}
  IN f[<<0, N>>]

Stretch(lo, hi) == {Returns[i].at : i \in (lo + 1)..hi}

\* build_regimes: a break lies between the break before it and the one after it.
Regimes(kind, idx) ==
  {[kind |-> kind, index |-> i, regime |-> Cardinality({j \in idx : j <= i}),
    pre  |-> Stretch(Max({0} \cup {j \in idx : j < i}), i),
    post |-> Stretch(i, Min({N} \cup {j \in idx : j > i}))] : i \in idx}

\* By index, mean before vol.
BreakPoints ==
  Ordered(UNION {Regimes(k, Segment(k)) : k \in IF Target = "both" THEN {"mean", "vol"} ELSE {Target}},
          LAMBDA b : 2 * b.index + (IF b.kind = "vol" THEN 1 ELSE 0))

\* One Result per break, none when there is no break.  The break has the time of the
\* bar whose close ends the first return after it: close_idx = index + 1.
CusumFound(order) ==
  [j \in DOMAIN order |->
     Found(Levels, <<[at |-> bars[order[j].index + 2].ts, point |-> order[j]]>>,
           Effect("cusum", order[j].kind, "returns"))]
=============================================================================
