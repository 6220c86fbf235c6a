------------------------------ MODULE MCScans ------------------------------
(* Instances of ScanRun for TLC. *)
EXTENDS ScanRun

----------------------------------------------------------------------------
(* Two legs. *)

Clock == 1..7

Ascending(s) == SelectSeq([i \in Clock |-> i], LAMBDA t : t \in s)

\* One leg whole and the other with up to two bars missing anywhere, or three; each
\* lacking two of its own, or nothing in common.
SomeLegs ==
       {<<Ascending(Clock), Ascending(Clock \ s)>> :
          s \in {x \in SUBSET Clock : Cardinality(x) <= 2} \cup {{1, 2, 3}, {2, 4, 6}, {5, 6, 7}}}
  \cup {<<Ascending(Clock \ {1, 4}), Ascending(Clock \ {4, 6})>>,
        <<Ascending(Clock \ {2, 5}), Ascending(Clock \ {1, 7})>>,
        <<Ascending({1, 3, 5}), Ascending({2, 4, 6})>>,
        <<<<>>, Ascending(Clock)>>}

PairJob(s, z, st, f) == [scan |-> s, size |-> z, step |-> st, floor |-> f, odd |-> FALSE]

PairJobs == {PairJob(s, z, Absent, Absent) : s \in {"corr", "ols"}, z \in 2..7}
       \cup {PairJob("lead_lag", z, Absent, Absent) : z \in {Absent, 0, 1, 2, 3}}
       \cup {PairJob("engle_granger", Absent, Absent, Absent)}
       \cup {PairJob("cointegration", z, st, f) : z \in 4..8, st \in {Absent, 0, 2, 3}, f \in {Absent, 1}}
       \cup {[PairJob("cointegration", 4, 1, 2) EXCEPT !.odd = TRUE]}

\* Up to six windows.
LongJobs == {PairJob("cointegration", 2, Absent, 2)}

SomePairCases == {[jobs |-> PairJobs, frames |-> SomeLegs],
                  [jobs |-> LongJobs, frames |-> {<<Ascending(Clock), Ascending(Clock \ s)>> :
                                                    s \in {{}, {1}, {4}, {3, 5}}}]}

SomeFits == {[p |-> "low", beta |-> 4], [p |-> "mid", beta |-> 4], [p |-> "high", beta |-> 6],
             [p |-> "nan", beta |-> 0], [p |-> "high", beta |-> NaN]}

----------------------------------------------------------------------------
(* One instrument. *)

AboutThreshold == <<19, 14>>    \* 1.358

Job(scan, p) == [scan |-> scan, p |-> p, odd |-> FALSE, tf |-> 60]
None == <<>>
With(scans, ps) == {Job(s, p) : s \in scans, p \in ps}

Bar1(t, c) == [ts |-> t, open |-> c, high |-> c, low |-> c, close |-> c]
Frame(times, closes) == [i \in DOMAIN times |-> Bar1(times[i], closes[i])]
Flat(times) == Frame(times, [i \in DOMAIN times |-> (i * i) % 5])

\* Bars an hour apart, from none to nine; with holes and over midnight.
Hourly(n) == [i \in 1..n |-> 60 * i]
Holed == <<<<60, 180, 240, 300, 420, 480, 660, 720>>, <<1320, 1380, 1440, 1500, 2880, 2940, 3000>>>>
Frames == {Flat(t) : t \in {Hourly(n) : n \in 0..9} \cup ToSet(Holed)}
WithBars(jobs, frames) == {[jobs |-> jobs, frames |-> frames]}

ByPosition ==
       With({"ljung_box", "ljung_box_sq"}, {None} \cup {[lags |-> k] : k \in {0, 1, 2, 6, 7}})
  \cup With({"adf"}, {None, [regression |-> "ctt"], [regression |-> "x"], [autolag |-> "None"],
                      [autolag |-> "x"]} \cup {[max_lag |-> k] : k \in {-1, 0, 1, 4, 8}}
                     \cup {[autolag |-> "None", max_lag |-> 2]})
  \cup With({"kpss"}, {None, [regression |-> "ct"], [regression |-> "nc"]}
                      \cup {[nlags |-> k] : k \in {-2, 0, 1, 3, 9}})
  \cup With({"variance_ratio"}, {None} \cup {[k_values |-> k] : k \in {<<>>, <<2>>, <<3, 2>>, <<1>>, <<4>>}}
                                \cup {[robust |-> FALSE, k_values |-> <<2>>]})
  \cup With({"tsmom"}, {None, [scaling |-> FALSE, k_values |-> <<1>>]}
                       \cup {[k_values |-> k] : k \in {<<>>, <<0>>, <<1>>, <<2, 1>>, <<2>>, <<3>>}})
  \cup With({"arch_lm"}, {None} \cup {[lag |-> k] : k \in {0, 1, 2, 3}})
  \cup With({"jarque_bera", "summary", "outliers", "drawdown"},
            {None, [series |-> "close"], [series |-> "open"]})
  \cup With({"returns"}, {None} \cup {[variant |-> v] : v \in {"simple", "intraday", "overnight", "x"}})
  \cup With({"meanrev"}, {None, [min_n |-> 2], [min_n |-> 3, on |-> "returns"], [on |-> "x"]}
                         \cup {[min_n |-> k, on |-> "level"] : k \in {3, 6}})
  \cup With({"vol"}, {None, [window |-> 3, series |-> "close"], [window |-> 3, min_periods |-> 1],
                      [window |-> 2, windows |-> 3]} \cup {[window |-> w] : w \in {1, 2, 3, 7, 9}})
  \cup {[Job("summary", None) EXCEPT !.odd = TRUE]}

\* As many bars as the defaults ask for.
ByDefault ==
       WithBars(With({"ljung_box", "adf", "kpss", "variance_ratio", "arch_lm", "meanrev", "gap"}, {None}),
                {Flat(Hourly(33))})
  \cup WithBars(With({"tsmom"}, {None}), {Flat(Hourly(n)) : n \in {80, 81}})

\* Outliers and drawdowns depend on the values.
Cumulated(r) == [i \in 1..(Len(r) + 1) |-> Total(SubSeq(r, 1, i - 1))]
ByValue ==
       WithBars(With({"drawdown"}, {None, [series |-> "close"]}),
                {Frame(Hourly(6), c) : c \in [1..6 -> {0, 1, 2}]})
  \cup WithBars(With({"outliers"}, {[series |-> "close", z_threshold |-> 18, modified_z_threshold |-> 35],
                                    [series |-> "close", z_threshold |-> 10]}),
                {Frame(Hourly(5), c) : c \in [1..5 -> {0, 1, 6}]})
  \cup WithBars(With({"cusum"}, {[threshold |-> t, min_segment |-> 2, target |-> g] :
                                   t \in {<<1, 2>>, <<4, 5>>}, g \in {"mean", "vol"}}),
                {Frame(Hourly(7), Cumulated(r)) : r \in [1..6 -> {0, 1}]})
  \cup WithBars(With({"cusum"}, {[threshold |-> t, min_segment |-> 2, target |-> "both"] :
                                   t \in {<<1, 2>>, <<4, 5>>}}),
                {Frame(Hourly(Len(r) + 1), Cumulated(r)) : r \in [1..5 -> {-1, 0, 1}] \cup [1..8 -> {0, 1}]})
  \cup WithBars(With({"cusum"}, {None, [target |-> "x"], [threshold |-> <<0, 1>>], [min_segment |-> 1],
                                 [threshold |-> <<1, 2>>, min_segment |-> 3]}),
                {Flat(Hourly(n)) : n \in {0, 1, 5, 8}})

\* Every hour of a day and every weekday; months of ten days, at midday.
EveryHour == Flat([i \in 1..30 |-> 300 * i])
Middays(n) == Flat([i \in 1..n |-> 1440 * i + 720])
Custom == <<[name |-> "late", start |-> 22, end |-> 2], [name |-> "none", start |-> 5, end |-> 5],
            [name |-> "day", start |-> 8, end |-> 18]>>
ByTime ==
  WithBars(
       With({"hour_of_day", "day_of_week"}, {None, [min_obs_per_bucket |-> 0], [min_obs_per_bucket |-> 1]})
  \cup With({"session"}, {None, [sessions |-> Custom], [sessions |-> <<>>],
                          [sessions |-> <<[name |-> "", start |-> 1, end |-> 2]>>]})
  \cup With({"eom_som"}, {None} \cup {[cutoff_n |-> k] : k \in {0, 1, 2, 4, 11}})
  \cup With({"anova"}, {None} \cup {[buckets_via |-> v] : v \in {"hour_of_day", "x"}}
                       \cup {[buckets_via |-> v, min_obs_per_group |-> g] :
                               v \in {"hour_of_day", "day_of_week", "session", "eom_som"}, g \in 0..2})
  \cup With({"event_window"}, {None, [event_timestamps |-> <<>>], [event_timestamps |-> <<900>>],
                               [event_timestamps |-> <<900>>, pre_window_bars |-> 0]}
                              \cup {[event_timestamps |-> <<3000, e>>, pre_window_bars |-> 2,
                                     post_window_bars |-> 2] :
                                      e \in {0, 600, 601, 899, 900, 901, 8400, 8401, 8700, 9000, 9001}}),
  {Flat(Hourly(1)), Flat(Hourly(4)), EveryHour, Middays(26)})

\* Gaps of two and three hours between bars of one, up, down or none, and what comes after.
GapBar(t, o, c) == [ts |-> t, open |-> o, close |-> c, low |-> Min({o, c}), high |-> Max({o, c})]
ByGap ==
       WithBars(With({"gap"}, {[min_obs_per_bucket |-> 1, fill_lookahead_bars |-> 2],
                               [min_obs_per_bucket |-> 2, size_bucket_edges |-> <<150, 400>>]}),
                {[i \in 1..5 |-> GapBar(<<0, 60, 180, 240, 420>>[i], p[i][1], p[i][2])] :
                   p \in [1..5 -> {<<100, 100>>, <<102, 102>>, <<102, 100>>, <<105, 103>>}]})
  \cup WithBars(With({"gap"}, {None, [min_gap_threshold |-> -1], [size_bucket_edges |-> <<5, 5>>],
                               [fill_lookahead_bars |-> 0], [boundary_gap_minutes |-> 130, min_gap_threshold |-> 100]}),
                {Flat(Hourly(1)), Flat(Hourly(5)), Flat(Holed[1]), Flat(Holed[2])})

SomeSeriesCases == WithBars(ByPosition, Frames) \cup ByDefault \cup ByValue \cup ByTime \cup ByGap

\* The cases of the runs that refute a comment.
NoCases == {}
SingletonCases == WithBars(With({"anova"}, {[buckets_via |-> "hour_of_day", min_obs_per_group |-> g] : g \in {1, 2}}),
                           {Flat(Hourly(n)) : n \in 2..12})
EventCases == WithBars(With({"event_window"}, {[event_timestamps |-> <<e>>, pre_window_bars |-> 1,
                                                post_window_bars |-> w] : e \in {200, 300, 420}, w \in 1..3}),
                       {Flat(Hourly(n)) : n \in 3..9})
=============================================================================
