------------------------------ MODULE ScanRun ------------------------------
(***************************************************************************)
(* Scan::run of every registered scan, over two legs (PairScans) or over   *)
(* one instrument (AnomScans, SeasScans), from the call to what it returns *)
(* and what it has written.                                                *)
(*                                                                         *)
(* A step runs from one poll of the cancel flag or one write to the next.  *)
(***************************************************************************)
EXTENDS StatClosures

CONSTANT PollRows   \* CANCEL_POLL_CADENCE of eom_som, 4096 in the code

vars == <<dataVars, cancel, pc, seriesVars, joinVars, fitVars, out, res>>

Init == /\ \/ \E c \in PairCases :
                job \in c.jobs /\ legs \in c.frames /\ bars = <<>> /\ pc = "enter"
           \/ \E c \in SeriesCases :
                job \in c.jobs /\ bars \in c.frames /\ legs = <<>> /\ pc = "start"
        /\ PairInit
        /\ turn = 0 /\ found = <<>>
        /\ cancel = FALSE
        /\ out = <<>>
        /\ res = "none"

Interrupt == /\ pc # "done" /\ ~cancel
             /\ cancel' = TRUE
             /\ UNCHANGED <<dataVars, pc, seriesVars, joinVars, fitVars, out, res>>

----------------------------------------------------------------------------
(* One instrument. *)

SeriesAccepted ==
  /\ ~job.odd
  /\ CASE job.scan \in {"ljung_box", "ljung_box_sq"} -> LjungBoxAccepts
       [] job.scan = "adf"            -> AdfAccepts
       [] job.scan = "kpss"           -> KpssAccepts
       [] job.scan = "variance_ratio" -> VrAccepts
       [] job.scan = "tsmom"          -> TsmomAccepts
       [] job.scan = "arch_lm"        -> ArchAccepts
       [] job.scan = "jarque_bera"    -> SeriesAccepts(4)
       [] job.scan = "summary"        -> SeriesAccepts(1)
       [] job.scan = "drawdown"       -> SeriesAccepts(2)
       [] job.scan = "returns"        -> ReturnsAccepts
       [] job.scan = "meanrev"        -> MeanrevAccepts
       [] job.scan = "vol"            -> VolAccepts
       [] job.scan = "outliers"       -> OutlierAccepts
       [] job.scan = "cusum"          -> CusumAccepts
       [] job.scan \in {"hour_of_day", "day_of_week"} -> BucketAccepts
       [] job.scan = "session"        -> SessionAccepts
       [] job.scan = "eom_som"        -> EomSomAccepts
       [] job.scan = "anova"          -> AnovaAccepts
       [] job.scan = "event_window"   -> EventAccepts
       [] job.scan = "gap"            -> GapAccepts

\* What the kernel may give: a function of the data, but for the choices the model
\* leaves open.
Kernel == CASE job.scan = "ljung_box"      -> {<<LjungBoxFound>>}
            [] job.scan = "ljung_box_sq"   -> {<<LjungBoxSqFound>>}
            [] job.scan = "adf"            -> {<<AdfFound(k)>> : k \in AdfLags}
            [] job.scan = "kpss"           -> {<<KpssFound>>}
            [] job.scan = "variance_ratio" -> {<<VrFound>>}
            [] job.scan = "tsmom"          -> {<<TsmomFound(sel)>> : sel \in Selectable}
            [] job.scan = "arch_lm"        -> IF ArchFits THEN {<<ArchFound>>} ELSE {}
            [] job.scan = "jarque_bera"    -> {<<JarqueBeraFound>>}
            [] job.scan = "summary"        -> {<<SummaryFound>>}
            [] job.scan = "drawdown"       -> {<<DrawdownFound>>}
            [] job.scan = "returns"        -> {<<ReturnsFound>>}
            [] job.scan = "meanrev"        -> {<<MeanrevFound>>}
            [] job.scan = "vol"            -> {<<VolFound>>}
            [] job.scan = "outliers"       -> IF Mad4(Chosen) = 0 THEN {} ELSE {<<OutliersFound>>}
            [] job.scan = "cusum"          -> {CusumFound(order) : order \in {BreakPoints}}
            [] job.scan = "hour_of_day"    -> {<<HourFound>>}
            [] job.scan = "day_of_week"    -> {<<DayFound>>}
            [] job.scan = "session"        -> {<<SessionFound>>}
            [] job.scan = "eom_som"        -> {<<EomSomFound>>}
            [] job.scan = "anova"          -> {<<AnovaFound>>}
            [] job.scan = "event_window"   -> {<<EventFound>>}
            [] job.scan = "gap"            -> {<<GapFound>>}

\* A distribution with no degrees of freedom: an expect that panics.
Panics == \/ job.scan = "tsmom" /\ TsmomPanics
          \/ job.scan = "anova" /\ AnovaPanics

\* A constant series, a singular regression.
MayFail == job.scan \in {"adf", "kpss", "variance_ratio", "tsmom", "arch_lm", "jarque_bera"}

\* Polls of the loop over the windows of vol, over the rows of eom_som.
Turns == CASE job.scan = "vol"     -> VolWindows
           [] job.scan = "eom_som" -> (N + PollRows - 1) \div PollRows
           [] OTHER                -> 0

Start == /\ pc = "start"
         /\ PollThen("params")
         /\ UNCHANGED <<dataVars, cancel, seriesVars, joinVars, fitVars, out>>

Params == /\ pc = "params"
          /\ IF SeriesAccepted THEN Goto("rows") ELSE Return("Kernel")
          /\ UNCHANGED <<dataVars, cancel, seriesVars, joinVars, fitVars, out>>

PollRow == /\ pc = "rows" /\ turn < Turns
           /\ PollThen("rows")
           /\ turn' = turn + 1
           /\ UNCHANGED <<dataVars, cancel, found, joinVars, fitVars, out>>

RunSeries == /\ pc = "rows" /\ turn = Turns
             /\ \/ /\ ~Panics
                   /\ \E f \in Kernel : found' = f /\ Goto("write")
                \/ /\ MayFail \/ Kernel = {}
                   /\ Return("Kernel") /\ UNCHANGED found
                \/ /\ Panics
                   /\ Return("Panic") /\ UNCHANGED found
             /\ UNCHANGED <<dataVars, cancel, turn, joinVars, fitVars, out>>

WriteFound == /\ pc = "write"
              /\ IF Len(out) = Len(found)
                 THEN Return("Ok") /\ UNCHANGED out
                 ELSE \/ out' = Append(out, found[Len(out) + 1]) /\ Goto("write")
                      \/ Return("Miner") /\ UNCHANGED out
              /\ UNCHANGED <<dataVars, cancel, seriesVars, joinVars, fitVars>>

Stopped == pc = "done" /\ UNCHANGED vars

Next == \/ Interrupt \/ PairNext
        \/ Start \/ Params \/ PollRow \/ RunSeries \/ WriteFound
        \/ Stopped

Spec == Init /\ [][Next]_vars

----------------------------------------------------------------------------
(* Properties.  The reference speaks of times and their ranks among the bars. *)

BarTimes == {bars[i].ts : i \in DOMAIN bars}
ReturnTimes == BarTimes \ {bars[1].ts}
RankOf(t) == Cardinality({u \in BarTimes : u <= t})
Between(s, t) == RankOf(t) - RankOf(s)

\* The pairs of S that stand d bars apart, for a d of ds.
Apart(S, ds) == {p \in S \X S : Between(p[1], p[2]) \in ds}

\* The values a number must be made of, by what its name and label say.
MadeOf(name, label, uses) ==
  CASE name = "q"    -> uses = Apart(ReturnTimes, 1..label)
    [] name = "tau"  -> label <= MaxLag /\ uses = Apart(BarTimes, {label + 1})
    [] name = "eta"  -> uses = Apart(BarTimes, 0..label)
    [] name = "vr"   -> uses = Apart(ReturnTimes, {label - 1})
    [] name = "lm"   -> uses = Apart(ReturnTimes, {label})
    [] name = "vol"  -> uses \in SUBSET Apart(Times(Chosen), {job.p["window"] - 1})
                        /\ {u[1] : u \in uses} = {label}
    [] name = "vol_of_vol" -> Cardinality(uses) = job.p["window"]
                              /\ \A u \in uses : Between(Min(uses), u) < job.p["window"]
    [] name = "continuation" ->
         \A u \in uses : /\ \A b \in {1, 2} : Between(u[b][1], u[b][2]) = label - 1
                         /\ Between(u[1][2], u[2][1]) = 1
                         /\ (RankOf(u[1][1]) - 2) % label = 0
    [] name = "scale" -> RankOf(label) > 3 => /\ \A u \in uses : u < label
                                              /\ Cardinality(uses) <= VolWindow
    [] name = "outlier" -> \A u \in uses : Cardinality({t \in Times(Chosen) : t < u}) = label
    [] name = "rho"  -> uses \subseteq Apart(BarTimes, {1})
    [] OTHER         -> \A u \in uses : u[1] = Min(Times(Chosen)) /\ u[2] = Max(BarTimes)

\* A finding says of itself what it is made of: a return stands beside the bar whose
\* close ends it, in order, whatever bars are missing; a number reads the values its
\* lag, horizon or window names, no more and no fewer; the scale of a return in
\* tsmom reads none that come after it, once three are there to read.
StandsFor ==
  job.scan \notin PairKinds =>
    \A r \in DOMAIN out :
      LET raw == out[r].raw
          numbers == out[r].numbers
      IN /\ job.scan # "gap" => \A i \in DOMAIN raw : raw[i].at = Max(raw[i].of)
         /\ \A i, j \in DOMAIN raw : i < j => raw[i].at < raw[j].at
         /\ job.scan \notin BucketScans \cup {"anova", "event_window", "gap", "drawdown", "cusum"} =>
              \A i \in DOMAIN numbers : MadeOf(numbers[i].name, numbers[i].label, numbers[i].uses)

\* The hours of a session, counted on from its start.
HoursOf(s) == {(s.start + k) % 24 : k \in 0..(((s.end - s.start) % 24) - 1)}

OpenDays(from, to) == Cardinality({d \in from..to : d % 7 \in OpenWeekdays})

\* Whether a return at t belongs to bucket b.
Belongs(scan, sessions, cutoff, t, b) ==
  CASE scan = "hour_of_day" -> Hour(t) = b
    [] scan = "day_of_week" -> Weekday(t) = b
    [] scan = "session"     -> Hour(t) \in HoursOf(sessions[b + 1])
    [] scan = "eom_som"     ->
         LET day == DayOf(t)
             first == (day \div MonthDays) * MonthDays
             toEnd == OpenDays(day + 1, first + MonthDays - 1)
         IN /\ day % 7 \in OpenWeekdays
            /\ IF b < cutoff THEN toEnd = cutoff - 1 - b
               ELSE toEnd >= cutoff /\ OpenDays(first, day - 1) = b - cutoff

BucketsOf(f) ==
  \A i \in DOMAIN f.numbers :
    LET n == f.numbers[i]
    IN n.uses = {t \in ReturnTimes : Belongs(job.scan, Sessions, Cutoff, t, n.label)}

GroupsOf(f) ==
  /\ Len(f.numbers) >= 2
  /\ \A i \in DOMAIN f.numbers :
       \E b \in 0..23 : /\ Via = "session" => b \in 0..3
                        /\ f.numbers[i].uses = {t \in ReturnTimes : Belongs(Via, FxMajor, 3, t, b)}

\* The events with returns enough on either side.
Roomy == {i \in DOMAIN job.p["event_timestamps"] :
            LET e == job.p["event_timestamps"][i]
            IN /\ Cardinality({t \in ReturnTimes : t < e}) >= Pre
               /\ Cardinality({t \in ReturnTimes : t >= e}) >= Post}

EventsOf(f) ==
  /\ Len(f.numbers) = Cardinality(Roomy)
  /\ \A i \in DOMAIN f.numbers :
       LET w == f.numbers[i].uses
       IN /\ Cardinality(w.pre) = Pre /\ Cardinality(w.post) = Post
          /\ \E k \in Roomy : /\ \A t \in w.pre : t < job.p["event_timestamps"][k]
                              /\ \A t \in w.post : t >= job.p["event_timestamps"][k]
          /\ Max(w.post) - Min(w.pre) = Max(w.post \cup w.pre) - Min(w.post \cup w.pre)

\* A bucket holds the returns that belong to it and no others, though sessions overlap
\* or go over midnight and the end and the start of a short month meet; a group of
\* the variance test is a bucket of the scan it is taken from; an event has as many
\* returns before and after it as asked, all of them on their side, so that one between
\* two bars has the later one first after it, and one past the end none.  That is the
\* schema ("AT-OR-AFTER the event") and the body of event_window_stats; the module
\* comment of event_window/kernel.rs (lines 12-16) has the earlier bar.
BucketsHold ==
  \A r \in DOMAIN out : /\ job.scan \in BucketScans => BucketsOf(out[r])
                        /\ job.scan = "anova" => GroupsOf(out[r])
                        /\ job.scan = "event_window" => EventsOf(out[r])

\* The values from p to the first that is not below it, with none higher before p.
Dip(p) == LET back == {t \in (p + 1)..Len(Equity) : Equity[t] >= Equity[p]}
          IN IF /\ \A q \in 1..p : Equity[q] <= Equity[p]
                /\ back # {} /\ Min(back) > p + 1
             THEN p..Min(back) ELSE {}

EpisodesOf(f) ==
  LET ep == f.numbers
      over == {p \in DOMAIN Equity : Dip(p) # {}}
  IN /\ {ep[i].peak : i \in DOMAIN ep} = over /\ Len(ep) = Cardinality(over)
     /\ \A i \in DOMAIN ep :
          LET dip == Dip(ep[i].peak)
              low == {t \in dip : \A u \in dip : Equity[t] <= Equity[u]}
              at(t) == Chosen[t].at
          IN /\ ep[i].trough = Min(low)
             /\ ep[i].fall = at(Min(low)) - at(ep[i].peak)
             /\ ep[i].fall + ep[i].recover = at(Max(dip)) - at(ep[i].peak)
     /\ f.effect.reads = Min({Equity[p[2]] - Equity[p[1]] :
                                p \in {q \in (DOMAIN Equity) \X (DOMAIN Equity) : q[1] <= q[2]}})

\* Whether bar j reaches the close of bar i, before a gap up or down.
Reaches(up, i, j) == IF up THEN bars[j].low <= bars[i].close ELSE bars[j].high >= bars[i].close

GapsOf(f) ==
  LET gaps == f.raw
      tally == f.numbers
  IN /\ \A k \in DOMAIN gaps :
          LET i == RankOf(gaps[k].at) - 1
              last == IF gaps[k].fill > 0 THEN gaps[k].fill ELSE Lookahead + 1
          IN /\ \A j \in (i + 1)..Min({i + last - 1, Len(bars)}) : ~Reaches(gaps[k].v > 0, i, j)
             /\ gaps[k].fill > 0 => /\ gaps[k].fill <= Lookahead
                                    /\ Reaches(gaps[k].v > 0, i, i + gaps[k].fill)
     /\ MapThenSumSet(LAMBDA b : tally[b].count, DOMAIN tally) = Len(gaps)
     /\ \A b \in DOMAIN tally : tally[b].filled # -1 =>
          tally[b].filled = Cardinality({k \in DOMAIN gaps : /\ gaps[k].bucket = tally[b].label
                                                            /\ (gaps[k].v > 0) = (tally[b].name = "up")
                                                            /\ gaps[k].fill > 0})

\* An episode of a drawdown goes from a last highest value over the first lowest to
\* the first that is as high again, every dip that has come back is one, and the
\* maximum is the deepest fall, come back or not.  A gap that is filled is filled by
\* the first bar that reaches the close before it, the bar that opens it included,
\* and every gap is counted once.
Episodes == \A r \in DOMAIN out : /\ job.scan = "drawdown" => EpisodesOf(out[r])
                                 /\ job.scan = "gap" => GapsOf(out[r])

RegimeFollows(r) ==
  LET at(i) == out[i].numbers[1].at
      p(i) == out[i].numbers[1].point
      same == {i \in DOMAIN out : p(i).kind = p(r).kind}
      later == {i \in same : i > r}
  IN /\ Cardinality(p(r).pre) >= MinSegment /\ Cardinality(p(r).post) >= MinSegment
     /\ at(r) = Min(p(r).post) /\ Between(Max(p(r).pre), at(r)) = 1
     /\ \A i \in DOMAIN out : i < r => at(i) < at(r) \/ (at(i) = at(r) /\ i \notin same)
     /\ later # {} => p(Min(later)).pre = p(r).post
     /\ res = "Ok" /\ ~cancel /\ later = {} => Max(p(r).post) = Max(BarTimes)
     /\ r = Min(same) => Min(p(r).pre) = Min(ReturnTimes)

\* The regimes of a kind follow each other without a hole, none shorter than
\* min_segment, and a break has the time of the first return after it; what is
\* written comes in order of time, a mean break before a volatility break.
RegimesFollow == job.scan = "cusum" => \A r \in DOMAIN out : RegimeFollows(r)

\* No accepted request panics, but for the variance test over groups of one return
\* each (NeverPanics), and a scan that fails has written nothing.
NoPanic == /\ res = "Panic" => /\ job.scan = "anova" /\ MinGroup = 1
                               /\ \A b \in Groups : Cardinality(DerivedGroups[b]) = 1
           /\ res \in {"Kernel", "Panic"} => out = <<>>

\* The scans that say they support the hygiene step and stand in no table of it; and
\* there is nothing to draw from the closes of a single bar.
NoDraws == job.scan \in {"meanrev", "cointegration"} \/ (job.scan = "summary" /\ Len(bars) = 1)

\* The request gives what is required, and to each parameter a value of the schema;
\* run reads the schema's default for one that it does not give.
AskedFor(d) ==
  /\ d.required \subseteq DOMAIN Args
  /\ \A k \in (DOMAIN Args \cap DOMAIN d.params) \ {"min_periods"} : Args[k] \in d.params[k]
  /\ \A k \in DOMAIN d.defaults \ DOMAIN Args : Resolved(k) = d.defaults[k]

RawSeries(d, f) ==
  /\ d.series = "closes"  => \A i \in DOMAIN f.raw : Cardinality(f.raw[i].of) = 1
  /\ d.series = "returns" => \A i \in DOMAIN f.raw :
       Cardinality(f.raw[i].of) = 2 \/ (Given("series") /\ job.p["series"] = "close")

\* What `miner scans` says of a scan is what run does: a request that got a finding
\* gave every required parameter, and to each it gave a value of the schema, but for
\* the one that is never read; one that it did not give was read as the schema's
\* default; the raw series is the one declared; and a scan takes part in the hygiene
\* step if it says so.  A parameter the schema does not name is passed over.
DeclarationHolds ==
  out # <<>> =>
    /\ AskedFor(Declared)
    /\ RawSeries(Declared, out[1])
    /\ Wired <=> Declared.hygiene # {} /\ ~NoDraws

\* A request that is accepted is one the catalogue declares, and run ends with it as
\* declared.
AsDeclared == NoPanic /\ DeclarationHolds

\* "The remaining group count k must be >= 2 and the total sample size N must satisfy
\* N > k", says the kernel, and expect repeats it: run does not see to the second.
NeverPanics == res # "Panic"

\* What run makes of a request and what the dispatch table makes of it are the same.
Reported == IF job.scan \in PairKinds THEN PairEffect ELSE out[1].effect
SameAsReported == out # <<>> /\ "bootstrap" \in Declared.hygiene /\ Wired => Closure = Reported

\* The requests the table reads differently.
ReadDifferently ==
  \/ job.scan = "arch_lm" /\ ~Given("lag")
  \/ job.scan = "event_window"
  \/ job.scan = "session" /\ Given("sessions")
  \/ job.scan \in {"summary", "vol", "jarque_bera"} /\ SeriesName = "close"

\* The surrogate p-value is put in the place of the scan's own and tests the same side.
SameSide == job.scan \in DOMAIN PValueSide => TailFor = PValueSide[job.scan]

\* The draws of the hygiene step are draws of the number in the finding: the table
\* resolves the parameters of a request, absent ones too, as run did, and counts the
\* draws on the side of the scan's p-value.
ResampledIsReported == SameSide /\ (~ReadDifferently => SameAsReported)

\* The stat closure is "a recipe that, given a resampled slice, recomputes the SAME
\* scalar statistic the scan's Effect.value carries".
SameStatistic == SameAsReported
=============================================================================
