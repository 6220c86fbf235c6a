------------------------------ MODULE ScanData ------------------------------
(***************************************************************************)
(* What a Scan::run is given and what it keeps: the request, the bars of   *)
(* one instrument or of two legs, the shared cancel flag, the Results it   *)
(* has found and written.                                                  *)
(*                                                                         *)
(* A bar is known by its opening time.  A number of a finding is known by  *)
(* the bars it is made of, so the model says which bars a kernel reads and *)
(* under which label the value goes on the wire, and leaves the arithmetic *)
(* out, but where it decides what is written: breaks, episodes, fills,     *)
(* outliers.  There prices are integers on a log scale, so that a return   *)
(* is a difference.  Times are minutes.                                    *)
(***************************************************************************)
EXTENDS Integers, Sequences, FiniteSets, SequencesExt, FiniteSetsExt

CONSTANTS
  PairCases,    \* jobs over two legs, and the bars the legs may have
  SeriesCases   \* jobs over one instrument, and the bars it may have

VARIABLES
  job,      \* scan, p (the parameters given), odd (one is of the wrong type)
  bars,     \* one instrument: a sequence of [ts, open, high, low, close]
  legs,     \* two legs: a pair of ascending sequences of times
  cancel,   \* the shared flag
  pc,       \* where run is
  turn,     \* one instrument: polls made in the loop over the rows
  found,    \* one instrument: the Results of the kernel
  out,      \* the Results written
  res       \* what run returned

dataVars == <<job, bars, legs>>
seriesVars == <<turn, found>>

\* A cache gives the bars of an instrument in order of time.
Ascends(times) == times \in Seq(Int) /\ \A i, k \in DOMAIN times : i < k => times[i] < times[k]
BarRecords == [ts : Int, open : Int, high : Int, low : Int, close : Int]

\* What run parses the parameters of a scan over one instrument to; a job is odd when
\* one is of another type.
Typed(p) ==
  \A k \in DOMAIN p :
    /\ k \in {"lags", "max_lag", "nlags", "lag", "window", "min_n", "z_threshold", "modified_z_threshold",
              "min_segment", "min_obs_per_bucket", "min_obs_per_group", "cutoff_n", "pre_window_bars",
              "post_window_bars", "min_gap_threshold", "boundary_gap_minutes", "fill_lookahead_bars",
              "hold_floor_bars", "sparse_gap_min_count"} => p[k] \in Int
    /\ k \in {"regression", "autolag", "series", "variant", "on", "target", "buckets_via"} => p[k] \in STRING
    /\ k \in {"robust", "scaling"} => p[k] \in BOOLEAN
    /\ k \in {"k_values", "event_timestamps", "size_bucket_edges"} => p[k] \in Seq(Int)
    /\ k = "threshold" => p[k] \in Int \X (Nat \ {0})
    /\ k = "sessions" => p[k] \in Seq([name : STRING, start : Int, end : Int])

ASSUME CasesAssumption ==
  /\ \A c \in PairCases   : \A l \in c.frames : Len(l) = 2 /\ Ascends(l[1]) /\ Ascends(l[2])
  /\ \A c \in SeriesCases : \A b \in c.frames : b \in Seq(BarRecords) /\ Ascends([i \in DOMAIN b |-> b[i].ts])
  /\ \A c \in PairCases \cup SeriesCases : \A j \in c.jobs : j.odd \in BOOLEAN
  /\ \A c \in SeriesCases : \A j \in c.jobs : (~j.odd => Typed(j.p)) /\ j.tf \in Nat

----------------------------------------------------------------------------
(* req.resolved_params.get(key) *)

Given(key) == key \in DOMAIN job.p
Param(key, default) == IF Given(key) THEN job.p[key] ELSE default

----------------------------------------------------------------------------
(* The two columns a single-series kernel works on.  of: the bars a value is made *)
(* of; at: the time that stands beside it.                                        *)

Levels == [i \in DOMAIN bars |->
             [at |-> bars[i].ts, of |-> {bars[i].ts}, v |-> bars[i].close]]

\* Mutant of Returns: a return stands beside the bar it starts at.
ReturnsBefore ==
  [i \in 1..Max({Len(bars) - 1, 0}) |->
     [at |-> bars[i].ts, of |-> {bars[i].ts, bars[i + 1].ts},
      v |-> bars[i + 1].close - bars[i].close]]

\* log_returns with ts_open_utc.skip(1).
Returns ==
  [i \in 1..Max({Len(bars) - 1, 0}) |->
     [at |-> bars[i + 1].ts, of |-> {bars[i].ts, bars[i + 1].ts},
      v |-> bars[i + 1].close - bars[i].close]]

\* resolve_series: log_returns unless the request says close.
Chosen == IF Param("series", "log_returns") = "close" THEN Levels ELSE Returns

Values(x) == [i \in DOMAIN x |-> x[i].v]
Times(x)  == {x[i].at : i \in DOMAIN x}
Total(s)  == FoldLeft(LAMBDA a, b : a + b, 0, s)
SumOf(x)  == Total(Values(x))
Squares(x) == Total([i \in DOMAIN x |-> x[i].v * x[i].v])

\* The elements of a set by a key no two of them share, lowest first.
Ordered(S, key(_)) ==
  [i \in 1..Cardinality(S) |-> CHOOSE a \in S : Cardinality({b \in S : key(b) <= key(a)}) = i]
Ascend(S) == Ordered(S, LAMBDA v : v)

\* A sorted copy of a sequence of numbers, ties in the order they stand, and its
\* median, doubled.
Place(s, i) == Cardinality({j \in DOMAIN s : s[j] < s[i] \/ (s[j] = s[i] /\ j <= i)})
Sorted(s) == [k \in DOMAIN s |-> s[CHOOSE i \in DOMAIN s : Place(s, i) = k]]
Median2(s) ==
  LET m == Len(s)
  IN IF m % 2 = 1 THEN 2 * Sorted(s)[m \div 2 + 1] ELSE Sorted(s)[m \div 2] + Sorted(s)[m \div 2 + 1]

DayOf(t) == t \div 1440

----------------------------------------------------------------------------
(* A Result of a single-series scan.  raw is the series beside its timestamps; a   *)
(* number has a name, the label it is written under and the values it is made of;  *)
(* effect says what Effect.value is: a statistic, what it reads, over which series. *)
(* A span is a pair of times, the first and the last value of a run.               *)

Effect(stat, reads, over) == [stat |-> stat, reads |-> reads, over |-> over]
Found(raw, numbers, effect) == [raw |-> raw, numbers |-> numbers, effect |-> effect]
Zero == Effect("zero", 0, "none")     \* the number 0, whatever the data
Number(name, label, uses) == [name |-> name, label |-> label, uses |-> uses]

N == Len(Returns)

\* Every run of len values of x, and every pair of values k apart.
Spans(x, len) == {<<x[i].at, x[i + len - 1].at>> : i \in 1..(Len(x) - len + 1)}
Products(x, k) == {<<x[i].at, x[i + k].at>> : i \in 1..(Len(x) - k)}

----------------------------------------------------------------------------
(* Control shared by every scan. *)

Goto(next) == pc' = next /\ UNCHANGED res
Return(r) == pc' = "done" /\ res' = r

\* if ctx.cancel.load(..) { return Ok(()) }
PollThen(next) == IF cancel THEN Return("Ok") ELSE Goto(next)
=============================================================================
