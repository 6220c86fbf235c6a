---------------------------- MODULE StatClosures ----------------------------
(***************************************************************************)
(* The dispatch table of the hygiene step: over which series a scan's      *)
(* statistic is drawn again, and what the closure computes from it.  The   *)
(* closure reads the request by itself, with its own defaults, and never   *)
(* sees what the scan made of it; an Effect says which of the two it is.   *)
(*                                                                         *)
(* What stands here is the closure over the series as it is, the one draw  *)
(* of which the scan's own number is known.                                *)
(***************************************************************************)
EXTENDS Catalogue

\* pair_input_series_for wants four bars of the legs of engle_granger, which takes none
\* shorter than MIN_ALIGNED_N.
ASSUME TableAssumption == MinAlignedN >= 4

\* The scan is not in the table.
NotWired == Effect("none", 0, "none")

----------------------------------------------------------------------------
(* input_series_for. *)

\* Mutant of LevelScans: kpss is forgotten.
LevelScansAdf == {"adf"}

LevelScans == {"adf", "kpss"}
BucketScans == {"hour_of_day", "day_of_week", "session", "eom_som"}
ReturnScans == {"ljung_box", "summary", "vol", "variance_ratio", "arch_lm", "jarque_bera",
                "event_window"} \cup BucketScans

InputSeries == CASE job.scan \in ReturnScans    -> IF Len(bars) < 2 THEN "none" ELSE "returns"
                 [] job.scan = "ljung_box_sq"   -> IF Len(bars) < 2 THEN "none" ELSE "squares"
                 [] job.scan \in LevelScans     -> IF Len(bars) < 4 THEN "none" ELSE "close"
                 [] OTHER                       -> "none"

\* The length of that series.
SliceLen == IF InputSeries = "close" THEN Len(bars) ELSE N

----------------------------------------------------------------------------
(* stats.* *)

LjungBoxClosure ==
  LET lags == Param("lags", DefaultLags(SliceLen))
  IN IF lags < 1 \/ lags >= SliceLen THEN Zero ELSE Effect("ljung_box_q", lags, InputSeries)

MeanClosure == Effect("mean", 0, InputSeries)

VolClosure == IF ~Given("window") \/ job.p["window"] < 2 THEN NotWired
              ELSE IF SliceLen < job.p["window"] THEN Zero
              ELSE Effect("last_vol", job.p["window"], InputSeries)

VrClosure == LET k == Last(Param("k_values", <<2, 4, 8, 16>>))
             IN IF SliceLen < 4 \/ k < 2 \/ k > SliceLen \div 2 THEN Zero
                ELSE Effect("variance_ratio", <<k, Param("robust", TRUE)>>, InputSeries)

ArchClosure == LET lag == Param("lag", 12)
               IN IF SliceLen < 4 \/ lag < 1 \/ lag > SliceLen \div 3 THEN Zero
                  ELSE Effect("arch_lm", lag, InputSeries)

JarqueBeraClosure == IF SliceLen < 4 THEN Zero ELSE Effect("jarque_bera", 0, InputSeries)

AdfClosure == LET maxLag == Param("max_lag", Schwert(12, SliceLen))
              IN IF maxLag >= SliceLen THEN Zero
                 ELSE Effect("adf_tau", <<Regression, Autolag, maxLag>>, InputSeries)

KpssClosure == Effect("kpss_eta", <<Regression, Nlags>>, InputSeries)

----------------------------------------------------------------------------
(* seas.*: the buckets are taken from the times of the bars, not drawn again. *)

BucketClosure(groups) == Effect("max_abs_t", <<groups, Floor>>, InputSeries)

\* Mutant of SeasGroups: eom_som by its default cutoff.
SeasGroupsByDefault == CASE job.scan = "hour_of_day" -> ByHour
                         [] job.scan = "day_of_week" -> ByWeekday
                         [] job.scan = "session"     -> BySession(FxMajor)
                         [] job.scan = "eom_som"     -> ByMonth(3)

\* Sessions of the request are not read.
SeasGroups == CASE job.scan = "hour_of_day" -> ByHour
                [] job.scan = "day_of_week" -> ByWeekday
                [] job.scan = "session"     -> BySession(FxMajor)
                [] job.scan = "eom_som"     -> ByMonth(Cutoff)

\* The events are looked up under another name than the scan's, event_timestamps_ms.
EventClosure ==
  LET windows == EventWindows(Param("event_timestamps_ms", <<>>), Pre, Post)
  IN IF windows = <<>> THEN Zero
     ELSE Effect("mean_of_post_means", [j \in DOMAIN windows |-> windows[j].post], InputSeries)

\* stat_closure_for.
SeriesClosure ==
  CASE job.scan \in {"ljung_box", "ljung_box_sq"} -> LjungBoxClosure
    [] job.scan = "summary"        -> MeanClosure
    [] job.scan = "vol"            -> VolClosure
    [] job.scan = "variance_ratio" -> VrClosure
    [] job.scan = "arch_lm"        -> ArchClosure
    [] job.scan = "jarque_bera"    -> JarqueBeraClosure
    [] job.scan = "adf"            -> AdfClosure
    [] job.scan = "kpss"           -> KpssClosure
    [] job.scan \in BucketScans    -> BucketClosure(SeasGroups)
    [] job.scan = "event_window"   -> EventClosure

----------------------------------------------------------------------------
(* cross.*: pair_input_series_for joins the legs once more. *)

PairInput == CASE AlignedN = 0 -> "none"
               [] job.scan \in {"corr", "ols", "lead_lag"} -> IF AlignedN < 2 THEN "none" ELSE "returns"
               [] job.scan = "engle_granger"               -> IF AlignedN < 4 THEN "none" ELSE "close"
               [] OTHER                                    -> "none"

\* resolve_window; rolling_pearson(a, b, window).last().
LastWindowClosure(least) ==
  IF job.size < least THEN NotWired
  ELSE IF ReturnsN < job.size THEN Zero
  ELSE Effect("last_window", Last(CorrWindows(job.size)), PairInput)

LeadLagClosure ==
  LET maxLag == OrDefault(job.size, DefaultMaxLag)
  IN IF ReturnsN < 2 \/ maxLag = 0 \/ maxLag >= ReturnsN \div 2 THEN Zero
     ELSE Effect("argmax_lag", maxLag, PairInput)

\* pair_stat_closure_for.
PairClosure ==
  CASE job.scan = "corr"          -> LastWindowClosure(2)
    [] job.scan = "ols"           -> LastWindowClosure(3)
    [] job.scan = "lead_lag"      -> LeadLagClosure
    [] job.scan = "engle_granger" -> Effect("hedge_ratio", Closes(1, AlignedN), PairInput)

\* The Effect.value of a two-leg scan.
PairEffect ==
  CASE job.scan = "corr"          -> Effect("last_window", Last(CorrWindows(job.size)), "returns")
    [] job.scan = "ols"           -> Effect("last_window", Last(OlsWindows(job.size)), "returns")
    [] job.scan = "lead_lag"      ->
         Effect("argmax_lag", OrDefault(job.size, DefaultMaxLag), "returns")
    [] job.scan = "engle_granger" -> Effect("hedge_ratio", Closes(1, AlignedN), "close")

----------------------------------------------------------------------------
(* On which side of the reported value a draw of the null counts against it. *)

\* Mutant of TailFor: a scan that rejects below is forgotten.
TailForUpperOnly ==
  IF job.scan \in {"ljung_box", "ljung_box_sq", "arch_lm", "jarque_bera", "kpss"} THEN "upper" ELSE "both"

\* tail_for.
TailFor == CASE job.scan \in {"ljung_box", "ljung_box_sq", "arch_lm", "jarque_bera", "kpss"} -> "upper"
             [] job.scan = "adf" -> "lower"
             [] OTHER            -> "both"

\* Where the scans that put a p-value of their statistic beside it take it from:
\* 1 - cdf, kpss_p_value and mackinnon_p_value.
PValueSide == [ljung_box |-> "upper", ljung_box_sq |-> "upper", arch_lm |-> "upper",
               jarque_bera |-> "upper", kpss |-> "upper", adf |-> "lower"]

----------------------------------------------------------------------------
Wired == IF job.scan \in PairKinds THEN PairInput # "none" ELSE InputSeries # "none"
Closure == IF job.scan \in PairKinds THEN PairClosure ELSE SeriesClosure
=============================================================================
