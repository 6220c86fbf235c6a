------------------------------ MODULE GapPolicy ------------------------------
(***************************************************************************)
(* engine::gap_policy with scan::primitives::time_alignment::intersect_gaps: *)
(* from the gaps the detector reports for each leg of a request to the     *)
(* sub-ranges of the window a scan is run over, or an abort.               *)
(*                                                                         *)
(* Time is counted in minutes from 0.  A span is half-open, [from, to),    *)
(* and remembers whether its reason is a whole day without a usable file   *)
(* or minutes without a bar.                                               *)
(* The detector and the bars it reads are external (tradedesk-data).       *)
(***************************************************************************)
EXTENDS Calendar, FiniteSets, SequencesExt

CONSTANTS
  Horizon,     \* bound: minutes 0 .. Horizon - 1 are modelled
  Timeframes,  \* minutes of a bar
  Windows,     \* requested windows
  Calendars,   \* calendar tables, those that do not resolve included
  Checked,     \* minutes the detector's own calendar takes for open
  LegFeeds     \* what the cache may hold for the legs of a request

Minutes == 0..(Horizon - 1)
Days    == 0..(Horizon \div DayLength - 1)
Policies == {"strict", "continuous_only"}

\* What the cache holds for one leg: days without a usable file, and minutes
\* without a bar on the other days.
Feeds == [missing : SUBSET Days, holes : SUBSET Minutes]

ASSUME GapPolicyAssumption ==
  /\ Horizon \in Nat
  /\ Timeframes \subseteq Nat \ {0}
  /\ \A tf \in Timeframes : DayLength % tf = 0
  /\ Windows \subseteq [from : Nat, to : Nat]
  /\ \A w \in Windows : w.from < w.to /\ w.to <= Horizon
  /\ Calendars \subseteq Tables
  /\ Checked \subseteq Minutes
  /\ LegFeeds \subseteq Seq(Feeds)
  /\ \A l \in LegFeeds : Len(l) \in {1, 2}

VARIABLES
  legs,     \* the feeds of the legs
  window, policy, tf, cal,    \* of the request
  open,     \* the open minutes of its calendar
  pc,
  gaps,     \* the joint manifest
  subs,     \* sub-ranges, once dispatched
  aborted   \* GapDispatch::Aborted

request == <<legs, window, policy, tf, cal, open>>
vars == <<request, pc, gaps, subs, aborted>>

----------------------------------------------------------------------------
(* Spans. *)

Span(from, to)     == [from |-> from, to |-> to]
Gap(r, whole)      == [from |-> r.from, to |-> r.to, whole |-> whole]
Inside(s)          == s.from..(s.to - 1)
Covered(spans)     == UNION {Inside(spans[i]) : i \in DOMAIN spans}

\* The maximal runs of a set of minutes.
Runs(S) == {r \in {Span(a, b + 1) : a \in S, b \in S} :
              r.from < r.to /\ Inside(r) \subseteq S /\ r.from - 1 \notin S /\ r.to \notin S}

\* sort_spans: by start, end and reason.
Less(a, b) == \/ a.from < b.from
              \/ a.from = b.from /\ (a.to < b.to \/ (a.to = b.to /\ a.whole /\ ~b.whole))
Sorted(S) == [i \in 1..Cardinality(S) |->
                CHOOSE s \in S : Cardinality({t \in S : Less(t, s)}) = i - 1]

AlignUp(t) == ((t + tf - 1) \div tf) * tf
AlignDown(t) == LET up == AlignUp(t) IN IF up = t THEN t ELSE up - tf

Day(m) == m \div DayLength
BarOf(b) == b..(b + tf - 1)
Bars == {b \in Minutes : b % tf = 0}

----------------------------------------------------------------------------
(* Gaps. *)

\* GapDetector::detect: a span per day without a file, one per missing minute of
\* the window, where the detector's own calendar is open.
Detect(feed) ==
  Sorted({Gap(Span(d * DayLength, (d + 1) * DayLength), TRUE) :
            d \in {e \in feed.missing : \E m \in Inside(window) : Day(m) = e /\ m \in Checked}}
         \cup
         {Gap(Span(m, m + 1), FALSE) :
            m \in {n \in Inside(window) \cap feed.holes \cap Checked : Day(n) \notin feed.missing}})

\* Joins a span to the last one it overlaps or touches, under the graver reason.
Merge(out, s) ==
  IF out # <<>> /\ s.from <= Last(out).to
  THEN LET l == Last(out)
       IN [out EXCEPT ![Len(out)] = Gap(Span(l.from, IF s.to > l.to THEN s.to ELSE l.to),
                                        l.whole \/ s.whole)]
  ELSE Append(out, s)

\* intersect_gaps: the minutes either leg misses.
IntersectGaps(a, b) == FoldLeft(Merge, <<>>, Sorted(Range(a) \cup Range(b)))

\* The open runs of every span, under its reason.
WithoutClosedTime(manifest) ==
  Sorted(UNION {{Gap(r, manifest[i].whole) : r \in Runs(Inside(manifest[i]) \cap open)} :
                  i \in DOMAIN manifest})

\* bucket_has_no_open_data.
NoOpenData(b, missing) == BarOf(b) \cap open \subseteq missing

\* Mutant of Project: a bar is a gap when it holds a hole.
ProjectAny(manifest) ==
  LET intraday == {s \in Range(manifest) : ~s.whole}
      empty    == {b \in Bars : \E s \in intraday : BarOf(b) \cap Inside(s) # {}}
  IN Sorted({s \in Range(manifest) : s.whole}
            \cup {Gap(r, FALSE) : r \in Runs(UNION {BarOf(b) : b \in empty})})

\* project_onto_timeframe: whole-day spans stay; of the bars that holes touch,
\* those with no data in open time are gaps, neighbours as one.
Project(manifest) ==
  LET missing  == Covered(manifest)
      intraday == {s \in Range(manifest) : ~s.whole}
      empty    == {b \in Bars : /\ \E s \in intraday : BarOf(b) \cap Inside(s) # {}
                                /\ NoOpenData(b, missing)}
  IN Sorted({s \in Range(manifest) : s.whole}
            \cup {Gap(r, FALSE) : r \in Runs(UNION {BarOf(b) : b \in empty})})

----------------------------------------------------------------------------
(* Sub-ranges. *)

LaterOf(a, b)   == IF a > b THEN a ELSE b
EarlierOf(a, b) == IF a < b THEN a ELSE b

\* Mutant of Sweep: the cursor does not move over a gap inside another.
SweepBack(acc, gap) ==
  IF gap.to <= window.from \/ gap.from >= window.to THEN acc
  ELSE LET from == LaterOf(gap.from, window.from)
           to   == EarlierOf(gap.to, window.to)
       IN [ranges |-> IF from > acc.cursor THEN Append(acc.ranges, Span(acc.cursor, from))
                      ELSE acc.ranges,
           cursor |-> from]

\* One gap of dispatch's sweep: the open piece before it, then past it.
Sweep(acc, gap) ==
  IF gap.to <= window.from \/ gap.from >= window.to THEN acc
  ELSE LET from == LaterOf(gap.from, window.from)
           to   == EarlierOf(gap.to, window.to)
       IN [ranges |-> IF from > acc.cursor THEN Append(acc.ranges, Span(acc.cursor, from))
                      ELSE acc.ranges,
           cursor |-> LaterOf(acc.cursor, to)]

\* dispatch, when it does not abort.
Partition(manifest) ==
  LET swept == FoldLeft(Sweep, [ranges |-> <<>>, cursor |-> window.from], manifest)
  IN IF manifest = <<>> THEN <<window>>
     ELSE IF swept.cursor < window.to
          THEN Append(swept.ranges, Span(swept.cursor, window.to))
          ELSE swept.ranges

\* One sub-range: kept when the calendar opens some minute of it.
KeepOpen(out, r) == IF Inside(r) \cap open # {} THEN Append(out, r) ELSE out

\* drop_closed_subranges: the whole window stays whatever the calendar says.
DropClosed(ranges) ==
  IF ranges = <<window>> THEN ranges ELSE FoldLeft(KeepOpen, <<>>, ranges)

\* Mutant of KeepAligned: both bounds are rounded down.
KeepAlignedDown(out, r) ==
  LET s == Span(AlignDown(r.from), AlignDown(r.to))
  IN IF s.from < s.to THEN Append(out, s) ELSE out

\* One sub-range of snap_subranges_to_timeframe: the bars inside it, if any.
KeepAligned(out, r) ==
  LET s == Span(AlignUp(r.from), AlignDown(r.to))
  IN IF s.from < s.to THEN Append(out, s) ELSE out

\* snap_subranges_to_timeframe.
Snapped(ranges) == FoldLeft(KeepAligned, <<>>, ranges)

----------------------------------------------------------------------------

Init == /\ legs \in LegFeeds
        /\ window \in Windows
        /\ policy \in Policies
        /\ tf \in Timeframes
        /\ cal \in {c \in Calendars : Accepts(c)}
        /\ open = {m \in Minutes : IsOpenAt(cal, m)}
        /\ pc = "detect"
        /\ gaps = <<>> /\ subs = <<>> /\ aborted = FALSE

\* The gaps of the window, of both legs for a pair.
DetectGaps == /\ pc = "detect"
              /\ gaps' = IF Len(legs) = 1 THEN Detect(legs[1])
                         ELSE IntersectGaps(Detect(legs[1]), Detect(legs[2]))
              /\ pc' = "dispatch"
              /\ UNCHANGED <<request, subs, aborted>>

Effective == Project(WithoutClosedTime(gaps))

\* dispatch_at_timeframe, dispatch_pair_at_timeframe; the dry run's coverage takes
\* the same steps.
Dispatch == /\ pc = "dispatch"
            /\ IF policy = "strict" /\ Effective # <<>>
               THEN aborted' = TRUE /\ UNCHANGED subs
               ELSE subs' = DropClosed(Partition(Effective)) /\ UNCHANGED aborted
            /\ pc' = "snap"
            /\ UNCHANGED <<request, gaps>>

Snap == /\ pc = "snap"
        /\ subs' = Snapped(subs)
        /\ pc' = "done"
        /\ UNCHANGED <<request, gaps, aborted>>

Stopped == pc = "done" /\ UNCHANGED vars

Next == DetectGaps \/ Dispatch \/ Snap \/ Stopped

Spec == Init /\ [][Next]_vars

----------------------------------------------------------------------------
(* Properties. *)

\* The minutes for which leg i has no bar.
Missing(i) == {m \in Minutes : m \in legs[i].holes \/ Day(m) \in legs[i].missing}

\* Open minutes of the window the detector knows to lack a bar in some leg, and
\* open minutes at which every leg has one.
Holes    == {m \in Inside(window) \cap open \cap Checked : \E i \in DOMAIN legs : m \in Missing(i)}
WithData == {m \in Inside(window) \cap open : \A i \in DOMAIN legs : m \notin Missing(i)}

Chosen == {b \in Bars : \E i \in DOMAIN subs : BarOf(b) \subseteq Inside(subs[i])}

\* No scan is run over a hole: a bar inside a sub-range that has open minutes has
\* one that is not known to be missing, whatever mix of closures, missing files and
\* missing minutes the bar holds, in either leg.
NoEmptyBar ==
  pc = "done" => \A b \in Chosen : BarOf(b) \cap open # {} => ~(BarOf(b) \cap open \subseteq Holes)

\* The aggregator's demands and the order of the Results: sub-ranges start and end
\* on bars, lie in the window, are not empty, ascend and do not overlap.
OnBars ==
  pc = "done" =>
    /\ \A i \in DOMAIN subs : /\ subs[i].from % tf = 0 /\ subs[i].to % tf = 0
                              /\ window.from <= subs[i].from
                              /\ subs[i].from < subs[i].to
                              /\ subs[i].to <= window.to
    /\ \A i, j \in DOMAIN subs : i < j => subs[i].to <= subs[j].from

\* docs/gap_policy.md, "Timeframe-aware": a hole that does not empty a whole bar is
\* no gap. No data is given up: under continuous_only a bar of the window with data in open
\* time is in a sub-range.
KeepsData ==
  pc = "done" /\ policy = "continuous_only" =>
    \A b \in Bars : BarOf(b) \subseteq Inside(window) /\ BarOf(b) \cap WithData # {} => b \in Chosen

\* A strict run aborts over a bar without data and over nothing less: not over
\* closed time, nor over a minute that leaves its bar with data.
EmptyBar(b) == /\ BarOf(b) \cap open # {}
               /\ BarOf(b) \cap open \subseteq UNION {Missing(i) : i \in DOMAIN legs}
AbortsOnGap == aborted => \E b \in Bars : EmptyBar(b)

\* Closed time is what the table of the calendar says on the market's own clock, with
\* trading days that start in the evening, breaks over midnight, weeks that run over
\* Sunday and a clock that is changed; and a break that cannot be closes nothing.
ClosedAsWritten == pc = "detect" => open = {m \in Minutes : OpenAsWritten(cal, m)}

\* On one leg the policy is exact, both ways.
SingleLegExact == Len(legs) = 1 => KeepsData /\ AbortsOnGap
=============================================================================
