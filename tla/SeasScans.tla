----------------------------- MODULE SeasScans -----------------------------
(***************************************************************************)
(* The seven seas.* scans over one instrument: the bucket a return falls   *)
(* into by the time of its bar, the windows around events, the gaps        *)
(* between bars that are far apart and when the price comes back.          *)
(*                                                                         *)
(* Day 0 is a Monday.  Months have MonthDays days each, so that few bars   *)
(* reach over several of them.                                             *)
(***************************************************************************)
EXTENDS ScanData

CONSTANTS
  MonthDays,    \* days of a month, 28 to 31 in the code
  OpenWeekdays, \* weekdays Calendar::fx_major is open at midday
  MaxCutoff     \* MAX_CUTOFF_N, 10 in the code

ASSUME SeasAssumption == MonthDays \in Nat \ {0} /\ OpenWeekdays \subseteq 0..6 /\ MaxCutoff \in Nat

Hour(t) == (t \div 60) % 24
Weekday(t) == DayOf(t) % 7

MinObs == Param("min_obs_per_bucket", 5)

\* bucket_stats and bucket_stats_from_groups: a bucket always has its count, and its
\* mean, deviation, t-statistic and range when the count is not below the floor.
Floor == Max({MinObs, 2})

Bucket(key, times) ==
  [name |-> "bucket", label |-> key, uses |-> times, shown |-> Cardinality(times) >= Floor]

\* groups: the times of each bucket, from bucket 0.
BucketsFound(groups) ==
  Found(Returns, [i \in 1..Cardinality(DOMAIN groups) |-> Bucket(i - 1, groups[i - 1])],
        Effect("max_abs_t", <<groups, Floor>>, "returns"))

----------------------------------------------------------------------------
(* seas.bucket.hour_of_day, seas.bucket.day_of_week. *)

ByHour == [b \in 0..23 |-> {t \in Times(Returns) : Hour(t) = b}]
ByWeekday == [b \in 0..6 |-> {t \in Times(Returns) : Weekday(t) = b}]

HourFound == BucketsFound(ByHour)
DayFound == BucketsFound(ByWeekday)

BucketAccepts == N >= 2 /\ MinObs >= 1

----------------------------------------------------------------------------
(* seas.bucket.session: sessions overlap, and one may go over midnight. *)

FxMajor == <<[name |-> "asia", start |-> 22, end |-> 7], [name |-> "london", start |-> 7, end |-> 16],
             [name |-> "ny", start |-> 12, end |-> 21], [name |-> "overlap", start |-> 12, end |-> 16]>>

Sessions == Param("sessions", FxMajor)

SessionAccepts ==
  /\ BucketAccepts /\ Sessions # <<>>
  /\ \A i \in DOMAIN Sessions : /\ Sessions[i].name # ""
                                /\ Sessions[i].start \in 0..23 /\ Sessions[i].end \in 0..23

\* Mutant of HourInSession: the wrap around midnight is forgotten.
HourBetween(h, start, end) == h >= start /\ h < end

HourInSession(h, start, end) == IF start <= end THEN h >= start /\ h < end
                                                ELSE h >= start \/ h < end

BySession(sessions) ==
  [b \in 0..(Len(sessions) - 1) |->
     {t \in Times(Returns) : HourInSession(Hour(t), sessions[b + 1].start, sessions[b + 1].end)}]

SessionFound == BucketsFound(BySession(Sessions))

----------------------------------------------------------------------------
(* seas.bucket.eom_som. *)

Cutoff == Param("cutoff_n", 3)

EomSomAccepts == BucketAccepts /\ Cutoff \in 1..MaxCutoff

TradingDays(month) ==
  Ascend({d \in (month * MonthDays)..((month + 1) * MonthDays - 1) : d % 7 \in OpenWeekdays})

\* trading_day_of_month_bucket: the end of the month first, then its start; -1 for
\* the middle and for days that are closed.
MonthBucket(t, cutoff) ==
  LET days == TradingDays(DayOf(t) \div MonthDays)
      pos == CHOOSE i \in DOMAIN days : days[i] = DayOf(t)
      fromEnd == Len(days) - pos
  IN IF DayOf(t) \notin ToSet(days) THEN -1
     ELSE IF fromEnd < cutoff THEN cutoff - 1 - fromEnd
     ELSE IF pos - 1 < cutoff THEN cutoff + pos - 1 ELSE -1

ByMonth(cutoff) ==
  [b \in 0..(2 * cutoff - 1) |-> {t \in Times(Returns) : MonthBucket(t, cutoff) = b}]

EomSomFound == BucketsFound(ByMonth(Cutoff))

----------------------------------------------------------------------------
(* seas.anova_kw: the groups of the other scans, by their defaults. *)

Via == IF Given("buckets_via") THEN job.p["buckets_via"] ELSE "none"
MinGroup == Param("min_obs_per_group", 5)

DerivedGroups == CASE Via = "hour_of_day" -> ByHour
                   [] Via = "day_of_week" -> ByWeekday
                   [] Via = "session"     -> BySession(FxMajor)
                   [] Via = "eom_som"     -> ByMonth(3)

\* The buckets that are large enough, those without a return never.
Groups == {b \in DOMAIN DerivedGroups : Cardinality(DerivedGroups[b]) >= MinGroup}

AnovaAccepts == /\ N >= 2 /\ Via \in {"hour_of_day", "day_of_week", "session", "eom_som"}
                /\ MinGroup >= 1
                /\ Cardinality(Groups) >= 2

\* one_way_anova: N - k degrees of freedom within the groups.
FreedomWithin == MapThenSumSet(LAMBDA b : Cardinality(DerivedGroups[b]) - 1, Groups)

AnovaPanics == FreedomWithin < 1

AnovaFound ==
  LET order == Ascend(Groups)
  IN Found(Returns, [i \in DOMAIN order |->
                       [name |-> "group", label |-> i - 1, uses |-> DerivedGroups[order[i]],
                        shown |-> TRUE]],
           Effect("f", MinGroup, "returns"))

----------------------------------------------------------------------------
(* seas.event.pre_post_window. *)

Pre == Param("pre_window_bars", 5)
Post == Param("post_window_bars", 5)

EventAccepts == /\ N >= 2 /\ Pre >= 1 /\ Post >= 1
                /\ Given("event_timestamps") /\ job.p["event_timestamps"] # <<>>

\* partition_point: how many returns stand before the event, so that the event stands at
\* the first return at or after it.  (The module comment of event_window/kernel.rs, lines
\* 12-16, has the last bar at or before it, and the last bar for an event past the end.)
Before(e) == Cardinality({i \in 1..N : Returns[i].at < e})

\* Mutant of WindowsFit: an event whose window ends with the last return is left out.
WindowsInside(e, pre, post) == Before(e) >= pre /\ Before(e) + post < N

WindowsFit(e, pre, post) == Before(e) >= pre /\ Before(e) + post <= N

\* event_window_stats: the events whose windows do not fit are passed over.
EventWindows(events, pre, post) ==
  LET kept == Ascend({k \in DOMAIN events : WindowsFit(events[k], pre, post)})
      before(j) == Before(events[kept[j]])
  IN [j \in DOMAIN kept |->
        [pre  |-> {Returns[i].at : i \in (before(j) - pre + 1)..before(j)},
         post |-> {Returns[i].at : i \in (before(j) + 1)..(before(j) + post)}]]

EventFound ==
  LET windows == EventWindows(job.p["event_timestamps"], Pre, Post)
  IN Found(Returns, [j \in DOMAIN windows |-> Number("event", j, windows[j])],
           IF windows = <<>> THEN Zero
           ELSE Effect("mean_of_post_means", [j \in DOMAIN windows |-> windows[j].post], "returns"))

----------------------------------------------------------------------------
(* seas.gap.fill.  Prices are plain here; edges and the threshold are in ten- *)
(* thousandths of the previous close.                                          *)

Edges == Param("size_bucket_edges", <<5, 10, 20>>)
GapThreshold == Param("min_gap_threshold", 0)
Boundary == Param("boundary_gap_minutes", (job.tf * 3) \div 2)
Lookahead == Param("fill_lookahead_bars", 48)
GapMinObs == Param("min_obs_per_bucket", 5)
HoldFloor == Param("hold_floor_bars", 12)
SparseMin == Param("sparse_gap_min_count", 20)

GapAccepts ==
  /\ Len(bars) >= 2 /\ GapThreshold >= 0 /\ Boundary >= 1
  /\ \A i \in DOMAIN Edges : Edges[i] > 0 /\ (i > 1 => Edges[i] > Edges[i - 1])
  /\ {Lookahead, GapMinObs, HoldFloor, SparseMin} \subseteq Nat \ {0}

\* The move from the close of bar i to the open of the next.
Jump(i) == bars[i + 1].open - bars[i].close
Size(i) == 10000 * (IF Jump(i) < 0 THEN -Jump(i) ELSE Jump(i))

IsGap(i) == /\ bars[i + 1].ts - bars[i].ts > Boundary
            /\ bars[i].close # 0
            /\ Size(i) > GapThreshold * bars[i].close

\* size_bucket: the first edge above the size, or the bucket beyond the last.
SizeBucket(i) == LET above == {j \in DOMAIN Edges : Size(i) < Edges[j] * bars[i].close}
                 IN IF above = {} THEN Len(Edges) ELSE Min(above) - 1

\* Mutant of Fills: the bars after the one that opens the gap.
FillsLater(i) ==
  {j \in (i + 2)..Min({i + Lookahead, Len(bars)}) :
     IF Jump(i) > 0 THEN bars[j].low <= bars[i].close ELSE bars[j].high >= bars[i].close}

\* The bars that come back to the close before the gap.
Fills(i) ==
  {j \in (i + 1)..Min({i + Lookahead, Len(bars)}) :
     IF Jump(i) > 0 THEN bars[j].low <= bars[i].close ELSE bars[j].high >= bars[i].close}

\* bars_to_fill, 0 for none.
ToFill(i) == IF Fills(i) = {} THEN 0 ELSE Min(Fills(i)) - i

Gaps == Ascend({i \in 1..(Len(bars) - 1) : IsGap(i)})

\* fill_prob of a direction and a bucket, NaN as -1.
Tally(up, b) ==
  LET of == {k \in DOMAIN Gaps : (Jump(Gaps[k]) > 0) = up /\ SizeBucket(Gaps[k]) = b}
      filled == {k \in of : ToFill(Gaps[k]) > 0}
  IN [name |-> IF up THEN "up" ELSE "down", label |-> b, count |-> Cardinality(of),
      filled |-> IF Cardinality(of) < GapMinObs THEN -1 ELSE Cardinality(filled)]

\* linear_quantile of the bars to fill at one half, doubled; none as -1.
MedianFill2 ==
  LET filled == Ascend({k \in DOMAIN Gaps : ToFill(Gaps[k]) > 0})
      f == [j \in DOMAIN filled |-> ToFill(Gaps[filled[j]])]
  IN IF f = <<>> THEN -1 ELSE Median2(f)

GapFound ==
  Found([k \in DOMAIN Gaps |->
           [at |-> bars[Gaps[k] + 1].ts, v |-> Jump(Gaps[k]), bucket |-> SizeBucket(Gaps[k]),
            fill |-> ToFill(Gaps[k])]],
        [b \in 1..(Len(Edges) + 1) |-> Tally(TRUE, b - 1)]
        \o [b \in 1..(Len(Edges) + 1) |-> Tally(FALSE, b - 1)],
        Effect("fill_rate", [median2 |-> MedianFill2, sparse |-> Len(Gaps) < SparseMin,
                             caveat |-> MedianFill2 >= 0 /\ MedianFill2 < 2 * HoldFloor], "bars"))
=============================================================================
