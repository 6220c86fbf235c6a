----------------------------- MODULE Catalogue -----------------------------
(***************************************************************************)
(* What a registered scan says of itself, which `miner scans` prints and   *)
(* preflight goes by: the values its schema admits for each parameter,     *)
(* which of them are required, the defaults it states, the series it       *)
(* writes, the steps of hygiene it takes part in, whether it wants its     *)
(* bars in one piece.                                                      *)
(*                                                                         *)
(* run reads its parameters with parsers of its own and nothing in the     *)
(* program compares the two.                                               *)
(***************************************************************************)
EXTENDS PairScans, AnomScans, SeasScans

Declaration(params, required, defaults, series, hygiene) ==
  [params |-> params, required |-> required, defaults |-> defaults, series |-> series,
   hygiene |-> hygiene, coalesce |-> FALSE]

AtLeast(k) == Nat \ 0..(k - 1)
NoDefaults == <<>>      \* none stated, or none to state

\* hygiene, by supports_bootstrap and supports_null_method.
Bootstrap == {"bootstrap"}
RollingHygiene == {"bootstrap", "circular_shift"}
EveryHygiene == {"bootstrap", "circular_shift", "phase_scramble"}

Series == [series |-> {"log_returns", "close"}]
SeriesDefault == [series |-> "log_returns"]

----------------------------------------------------------------------------
(* One instrument: stats.* *)

LjungBoxScan == Declaration([lags |-> AtLeast(1)], {}, NoDefaults, "returns", EveryHygiene)

LjungBoxSqScan == Declaration([lags |-> AtLeast(1)], {}, NoDefaults, "returns", EveryHygiene)

AdfScan ==
  Declaration([max_lag |-> Nat, regression |-> {"nc", "c", "ct", "ctt"},
               autolag |-> {"AIC", "BIC", "None"}],
              {}, [regression |-> "c", autolag |-> "AIC"], "closes", EveryHygiene)

\* The schema leaves nlags open, its description does not.
KpssScan == Declaration([regression |-> {"c", "ct"}, nlags |-> Nat \cup {AutoLag}],
                        {}, [regression |-> "c", nlags |-> AutoLag], "closes", EveryHygiene)

VarianceRatioScan ==
  Declaration([k_values |-> Seq(AtLeast(2)), robust |-> BOOLEAN],
              {}, [k_values |-> <<2, 4, 8, 16>>, robust |-> TRUE], "returns", EveryHygiene)

TsmomScan ==
  Declaration([k_values |-> Seq(AtLeast(1)), scaling |-> BOOLEAN],
              {}, [k_values |-> <<1, 5, 10, 20>>, scaling |-> TRUE], "returns", {})

ArchLmScan == Declaration([lag |-> AtLeast(1)], {}, [lag |-> 5], "returns", EveryHygiene)

JarqueBeraScan == Declaration(Series, {}, SeriesDefault, "returns", Bootstrap)
SummaryWelfordScan == Declaration(Series, {}, SeriesDefault, "returns", Bootstrap)
DrawdownProfileScan == Declaration(Series, {}, SeriesDefault, "returns", {})

ReturnsProfileScan ==
  Declaration([variant |-> {"log", "simple", "intraday", "overnight"}],
              {}, [variant |-> "log"], "returns", {})

OuHalfLifeScan == Declaration([on |-> {"level", "returns"}, min_n |-> AtLeast(3)],
                              {}, [on |-> "level", min_n |-> 30], "closes", EveryHygiene)

\* min_periods is declared and never read.
VolRollingScan ==
  Declaration([window |-> AtLeast(2), min_periods |-> AtLeast(2), series |-> Series.series],
              {"window"}, SeriesDefault, "returns", Bootstrap)

OutliersZAndMadScan ==
  Declaration([z_threshold |-> Nat, modified_z_threshold |-> Nat, series |-> Series.series],
              {}, [z_threshold |-> 30, modified_z_threshold |-> 35, series |-> SeriesDefault.series],
              "returns", {})

CusumBreakScan ==
  Declaration([target |-> {"mean", "vol", "both"}, threshold |-> AtLeast(1) \X AtLeast(1),
               min_segment |-> AtLeast(2)],
              {}, [target |-> "both", threshold |-> DefaultThreshold, min_segment |-> 30],
              "closes", {})

----------------------------------------------------------------------------
(* One instrument: seas.*  Their defaults stand in the descriptions. *)

Occupied == [min_obs_per_bucket |-> AtLeast(1)]
OccupiedDefault == [min_obs_per_bucket |-> 5]

HourOfDayScan == Declaration(Occupied, {}, OccupiedDefault, "returns", Bootstrap)
DayOfWeekScan == Declaration(Occupied, {}, OccupiedDefault, "returns", Bootstrap)

SessionDefs == [name : STRING \ {""}, start : 0..23, end : 0..23]
SessionScan ==
  Declaration([sessions |-> Seq(SessionDefs), min_obs_per_bucket |-> Occupied.min_obs_per_bucket],
              {}, [sessions |-> FxMajor, min_obs_per_bucket |-> 5], "returns", Bootstrap)

EomSomScan ==
  Declaration([cutoff_n |-> 1..MaxCutoff, min_obs_per_bucket |-> Occupied.min_obs_per_bucket],
              {}, [cutoff_n |-> 3, min_obs_per_bucket |-> 5], "returns", Bootstrap)

AnovaKruskalScan ==
  Declaration([buckets_via |-> {"hour_of_day", "day_of_week", "session", "eom_som"},
               min_obs_per_group |-> AtLeast(1)],
              {"buckets_via"}, [min_obs_per_group |-> 5], "returns", {})

EventWindowScan ==
  Declaration([event_timestamps |-> Seq(Int) \ {<<>>}, pre_window_bars |-> AtLeast(1),
               post_window_bars |-> AtLeast(1)],
              {"event_timestamps"}, [pre_window_bars |-> 5, post_window_bars |-> 5],
              "returns", Bootstrap)

OvernightGapScan ==
  Declaration([boundary_gap_minutes |-> AtLeast(1), size_bucket_edges |-> Seq(AtLeast(1)),
               min_gap_threshold |-> Nat, fill_lookahead_bars |-> AtLeast(1),
               hold_floor_bars |-> AtLeast(1), sparse_gap_min_count |-> AtLeast(1),
               min_obs_per_bucket |-> Occupied.min_obs_per_bucket],
              {}, [size_bucket_edges |-> <<5, 10, 20>>, min_gap_threshold |-> 0,
                   fill_lookahead_bars |-> 48, hold_floor_bars |-> 12,
                   sparse_gap_min_count |-> 20, min_obs_per_bucket |-> 5], "gaps", {})

----------------------------------------------------------------------------
(* Two legs.  The schemas of the model leave out what its jobs do not carry: the *)
(* threshold of a correlation, the regression of a fit, the limits of a breakdown. *)

RollingSchema == [window |-> AtLeast(3)]

PearsonRollingScan == Declaration(RollingSchema, {"window"}, NoDefaults, "legs", RollingHygiene)
OlsRollingScan == Declaration(RollingSchema, {"window"}, NoDefaults, "legs", RollingHygiene)

LeadLagCcfScan ==
  Declaration([max_lag |-> AtLeast(1)], {}, [max_lag |-> DefaultMaxLag], "legs", EveryHygiene)

\* The only scan that wants its bars in one piece.
EngleGrangerScan ==
  [Declaration(<<>>, {}, NoDefaults, "legs", EveryHygiene) EXCEPT !.coalesce = TRUE]

CointegrationRollingScan ==
  Declaration([window |-> AtLeast(2), step |-> AtLeast(1), min_aligned_n |-> AtLeast(2)],
              {"window"}, [step |-> 1, min_aligned_n |-> MinAlignedN], "legs", RollingHygiene)

----------------------------------------------------------------------------
\* bootstrap: ScanRegistry::register, once for each.
Registered ==
  [ljung_box |-> LjungBoxScan, ljung_box_sq |-> LjungBoxSqScan, adf |-> AdfScan, kpss |-> KpssScan,
   variance_ratio |-> VarianceRatioScan, tsmom |-> TsmomScan, arch_lm |-> ArchLmScan,
   jarque_bera |-> JarqueBeraScan, summary |-> SummaryWelfordScan, drawdown |-> DrawdownProfileScan,
   returns |-> ReturnsProfileScan, meanrev |-> OuHalfLifeScan, vol |-> VolRollingScan,
   outliers |-> OutliersZAndMadScan, cusum |-> CusumBreakScan, hour_of_day |-> HourOfDayScan,
   day_of_week |-> DayOfWeekScan, session |-> SessionScan, eom_som |-> EomSomScan,
   anova |-> AnovaKruskalScan, event_window |-> EventWindowScan, gap |-> OvernightGapScan,
   corr |-> PearsonRollingScan, ols |-> OlsRollingScan, lead_lag |-> LeadLagCcfScan,
   engle_granger |-> EngleGrangerScan, cointegration |-> CointegrationRollingScan]

ASSUME RegistryAssumption ==
  \A c \in PairCases \cup SeriesCases : \A j \in c.jobs : j.scan \in DOMAIN Registered

Declared == Registered[job.scan]

\* The parameters the request gives, a job over two legs by the names on the wire.
Args == IF job.scan \notin PairKinds THEN job.p
        ELSE LET all == [window |-> job.size, max_lag |-> job.size, step |-> job.step,
                         min_aligned_n |-> job.floor]
             IN [k \in {k \in DOMAIN all \cap DOMAIN Declared.params : all[k] # Absent} |-> all[k]]

\* What run reads for a parameter that is not given.
Resolved(key) ==
  CASE key = "regression"    -> Regression
    [] key = "autolag"       -> Autolag
    [] key = "nlags"         -> Nlags
    [] key = "k_values"      -> IF job.scan = "tsmom" THEN Holds ELSE VrHorizons
    [] key = "robust"        -> Robust
    [] key = "scaling"       -> Scaling
    [] key = "lag"           -> Lag
    [] key = "series"        -> IF SeriesName = "close" THEN "close" ELSE "log_returns"
    [] key = "variant"       -> Variant
    [] key = "on"            -> Basis
    [] key = "min_n"         -> MinN
    [] key = "z_threshold"   -> ZThreshold
    [] key = "modified_z_threshold" -> ModifiedZThreshold
    [] key = "target"        -> Target
    [] key = "threshold"     -> Bar
    [] key = "min_segment"   -> MinSegment
    [] key = "min_obs_per_bucket" -> IF job.scan = "gap" THEN GapMinObs ELSE MinObs
    [] key = "sessions"      -> Sessions
    [] key = "cutoff_n"      -> Cutoff
    [] key = "min_obs_per_group" -> MinGroup
    [] key = "pre_window_bars"   -> Pre
    [] key = "post_window_bars"  -> Post
    [] key = "size_bucket_edges" -> Edges
    [] key = "min_gap_threshold" -> GapThreshold
    [] key = "fill_lookahead_bars"  -> Lookahead
    [] key = "hold_floor_bars"      -> HoldFloor
    [] key = "sparse_gap_min_count" -> SparseMin
    [] key = "max_lag"       -> OrDefault(job.size, DefaultMaxLag)
    [] key = "step"          -> Step
    [] key = "min_aligned_n" -> OrDefault(job.floor, MinAlignedN)
=============================================================================
