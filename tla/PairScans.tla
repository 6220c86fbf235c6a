----------------------------- MODULE PairScans -----------------------------
(***************************************************************************)
(* Scan::run of the six scans over two legs: inner_join of the legs, the   *)
(* parameters, the windows or lags the kernel reads, the times the finding *)
(* says they stand for, and the breakdown detector of                      *)
(* cross.cointegration.rolling.                                            *)
(*                                                                         *)
(* The close of a leg at a bar is the time of the bar.  What a fit gives   *)
(* is a choice from Fits.                                                  *)
(*                                                                         *)
(* A step runs from one poll of the cancel flag or one write to the next;  *)
(* the two loops over the data take a step per turn.                       *)
(***************************************************************************)
EXTENDS ScanData

CONSTANTS
  Fits,         \* what one Engle-Granger fit may give
  MinAlignedN,  \* MIN_ALIGNED_N, 30 in the code
  DefaultMaxLag,\* DEFAULT_MAX_LAG, 20 in the code
  Lookback,     \* BETA_MEDIAN_LOOKBACK, 20 in the code
  MinHistory    \* MIN_BETA_HISTORY, 5 in the code

PairKinds == {"corr",  \* cross.corr.pearson_rolling, spearman_rolling: one body
              "ols", "lead_lag", "engle_granger", "cointegration"}

Absent == -1

\* p: the residual ADF p-value against adf_p_enter <= adf_p_exit; beta: |beta|, scaled.
PValues == {"nan", "low", "mid", "high"}
NaN == -1

ASSUME PairAssumption ==
  /\ \A c \in PairCases : \A j \in c.jobs :
       j.scan \in PairKinds /\ {j.size, j.step, j.floor} \subseteq Int
  /\ \A c \in SeriesCases : \A j \in c.jobs : j.scan \notin PairKinds
  /\ \A f \in Fits : f.p \in PValues /\ f.beta \in Nat \cup {NaN}
  /\ {MinAlignedN, DefaultMaxLag, Lookback, MinHistory} \subseteq Nat \ {0}

VARIABLES
  ia, ib,   \* the cursors of inner_join, from 1
  aligned,  \* AlignedPair: time, close of leg a, close of leg b
  begin,    \* start of the next window, from 1
  fits,     \* RollingCointegrationResult
  ever,     \* ever_stationary
  history   \* abs_beta_history

joinVars == <<ia, ib, aligned>>
fitVars == <<begin, fits, ever, history>>

PairInit == /\ ia = 1 /\ ib = 1 /\ aligned = <<>>
            /\ begin = 1 /\ fits = <<>> /\ ever = FALSE /\ history = <<>>

Enter == /\ pc = "enter"
         /\ PollThen("join")
         /\ UNCHANGED <<dataVars, cancel, seriesVars, joinVars, fitVars, out>>

----------------------------------------------------------------------------
(* inner_join: two cursors over two ascending columns. *)

JoinStep == /\ pc = "join" /\ ia <= Len(legs[1]) /\ ib <= Len(legs[2])
            /\ LET ta == legs[1][ia]
                   tb == legs[2][ib]
               IN \/ ta < tb /\ ia' = ia + 1 /\ UNCHANGED <<ib, aligned>>
                  \/ ta > tb /\ ib' = ib + 1 /\ UNCHANGED <<ia, aligned>>
                  \/ /\ ta = tb
                     /\ aligned' = Append(aligned, [ts |-> ta, a |-> ta, b |-> tb])
                     /\ ia' = ia + 1 /\ ib' = ib + 1
            /\ UNCHANGED <<dataVars, cancel, seriesVars, pc, fitVars, out, res>>

----------------------------------------------------------------------------
(* Parameters. *)

AlignedN == Len(aligned)
ReturnsN == AlignedN - 1

OrDefault(value, default) == IF value = Absent THEN default ELSE value

RollingAccepts(j) == ReturnsN >= 3 /\ j.size >= 3 /\ j.size <= ReturnsN

LeadLagAccepts(j) == /\ ReturnsN >= 4
                     /\ j.size = Absent \/ j.size >= 1
                     /\ OrDefault(j.size, DefaultMaxLag) < ReturnsN \div 2

EngleGrangerAccepts == AlignedN >= MinAlignedN

CointegrationAccepts(j) == /\ j.floor = Absent \/ j.floor >= 2
                           /\ j.size >= 2
                           /\ j.size >= OrDefault(j.floor, MinAlignedN)
                           /\ j.size <= AlignedN
                           /\ j.step = Absent \/ j.step >= 1

\* j.odd: a parameter of the wrong type, a threshold out of its range, an unknown
\* regression.
Accepts(j) ==
  /\ AlignedN > 0 /\ ~j.odd
  /\ CASE j.scan \in {"corr", "ols"} -> RollingAccepts(j)
       [] j.scan = "lead_lag"        -> LeadLagAccepts(j)
       [] j.scan = "engle_granger"   -> EngleGrangerAccepts
       [] OTHER                      -> CointegrationAccepts(j)

Resolve == /\ pc = "join" /\ (ia > Len(legs[1]) \/ ib > Len(legs[2]))
           /\ IF Accepts(job) THEN Goto("before") ELSE Return("Kernel")
           /\ UNCHANGED <<dataVars, cancel, seriesVars, joinVars, fitVars, out>>

\* The poll before the kernel.
PollBefore == /\ pc = "before"
              /\ PollThen(IF job.scan = "cointegration" THEN "fit" ELSE "kernel")
              /\ UNCHANGED <<dataVars, cancel, seriesVars, joinVars, fitVars, out>>

----------------------------------------------------------------------------
(* The scans that put every window, or every lag, into one Result.  A number of *)
(* it has a label and the closes it is made of.                                 *)

\* Closes of the aligned bars from first to last.
Closes(first, last) == {<<1, aligned[i].a>> : i \in first..last}
                  \cup {<<2, aligned[i].b>> : i \in first..last}

\* Return t, from 1, goes from bar t to bar t + 1.
ReturnOf(leg, t) == IF leg = 1 THEN <<1, aligned[t].a, aligned[t + 1].a>>
                               ELSE <<2, aligned[t].b, aligned[t + 1].b>>

\* rolling_pearson, rolling_spearman; rolling_ols with fit_window.
CorrWindows(size) == [i \in 1..(ReturnsN - size + 1) |-> Closes(i, i + size)]
OlsWindows(size)  == [i \in 1..(ReturnsN - size + 1) |-> Closes(i, i + size)]

\* Mutant of Stamped: a window has the time of the bar its first return starts at.
StampedBefore(windows) ==
  [i \in DOMAIN windows |-> [label |-> aligned[i].ts, uses |-> windows[i]]]

\* window_starts_ms beside the values.
Stamped(windows) ==
  [i \in DOMAIN windows |-> [label |-> aligned[i + 1].ts, uses |-> windows[i]]]

\* lead_lag_ccf: the products of one lag.
LagNumbers(maxLag) ==
  [i \in 1..(2 * maxLag + 1) |->
     LET k == i - maxLag - 1
         m == IF k >= 0 THEN k ELSE -k
     IN [label |-> k,
         uses |-> {<<ReturnOf(1, IF k >= 0 THEN t ELSE t + m),
                     ReturnOf(2, IF k >= 0 THEN t + m ELSE t)>> : t \in 1..(ReturnsN - m)}]]

EngleGrangerNumbers == <<[label |-> Absent, uses |-> Closes(1, AlignedN)]>>

Numbers == CASE job.scan = "corr"          -> Stamped(CorrWindows(job.size))
             [] job.scan = "ols"           -> Stamped(OlsWindows(job.size))
             [] job.scan = "lead_lag"      -> LagNumbers(OrDefault(job.size, DefaultMaxLag))
             [] job.scan = "engle_granger" -> EngleGrangerNumbers

\* A constant leg, a singular regression: the whole run is a kernel error.
RunKernel == /\ pc = "kernel"
             /\ Goto("after") \/ Return("Kernel")
             /\ UNCHANGED <<dataVars, cancel, seriesVars, joinVars, fitVars, out>>

PollAfter == /\ pc = "after"
             /\ PollThen("emit")
             /\ UNCHANGED <<dataVars, cancel, seriesVars, joinVars, fitVars, out>>

EmitAll == /\ pc = "emit" /\ job.scan # "cointegration"
           /\ \/ out' = Append(out, Numbers) /\ Return("Ok")
              \/ Return("Miner") /\ UNCHANGED out
           /\ UNCHANGED <<dataVars, cancel, seriesVars, joinVars, fitVars>>

----------------------------------------------------------------------------
(* rolling_cointegration: one fit per window, the breakdown detector beside it. *)

Step == OrDefault(job.step, 1)

\* beta_band is 1/4 of the median; a median of 0 gives no band.
OutOfBand(beta, med2) == med2 > 0 /\ (8 * beta < 3 * med2 \/ 8 * beta > 5 * med2)

\* Mutant of BetaDrift: the whole history, not its tail.
DriftOverAll(beta, past) ==
  /\ Len(past) >= MinHistory /\ beta # NaN
  /\ OutOfBand(beta, Median2(past))

BetaDrift(beta, past) ==
  /\ Len(past) >= MinHistory /\ beta # NaN
  /\ OutOfBand(beta, Median2(SubSeq(past, Max({1, Len(past) - Lookback + 1}), Len(past))))

\* Mutant of MoreWindows: the window that ends at the last bar is left out.
MoreInside == begin + job.size - 1 < AlignedN

MoreWindows == begin + job.size - 1 <= AlignedN

FitWindow ==
  /\ pc = "fit" /\ MoreWindows
  /\ \E f \in Fits :
       /\ fits' = Append(fits, [from |-> begin, to |-> begin + job.size - 1,
                                p |-> f.p, beta |-> f.beta,
                                lost |-> ever /\ f.p = "high",
                                drift |-> BetaDrift(f.beta, history)])
       /\ ever' = (ever \/ f.p = "low")
       /\ history' = IF f.beta = NaN THEN history ELSE Append(history, f.beta)
  /\ begin' = begin + Step
  /\ UNCHANGED <<dataVars, cancel, seriesVars, pc, joinVars, out, res>>

\* One singular window anywhere is a kernel error of the whole run.
FitsDone == /\ pc = "fit" /\ ~MoreWindows
            /\ IF \E i \in DOMAIN fits : fits[i].beta = NaN THEN Return("Kernel") ELSE Goto("after")
            /\ UNCHANGED <<dataVars, cancel, seriesVars, joinVars, fitVars, out>>

\* One Result per window, the flag polled before each.
EmitWindow ==
  /\ pc = "emit" /\ job.scan = "cointegration"
  /\ IF Len(out) = Len(fits) \/ cancel
     THEN Return("Ok") /\ UNCHANGED out
     ELSE LET f == fits[Len(out) + 1]
          IN \/ /\ out' = Append(out, [start |-> aligned[f.from].ts, end |-> aligned[f.to].ts,
                                       uses |-> Closes(f.from, f.to),
                                       lost |-> f.lost, drift |-> f.drift])
                /\ Goto("emit")
             \/ Return("Miner") /\ UNCHANGED out
  /\ UNCHANGED <<dataVars, cancel, seriesVars, joinVars, fitVars>>

----------------------------------------------------------------------------

PairNext == \/ Enter \/ JoinStep \/ Resolve \/ PollBefore \/ RunKernel \/ PollAfter
            \/ EmitAll \/ FitWindow \/ FitsDone \/ EmitWindow

----------------------------------------------------------------------------
(* Properties.  The reference speaks of the bars both legs have, as a set. *)

Joint == ToSet(legs[1]) \cap ToSet(legs[2])
Rank(t) == Cardinality({u \in Joint : u <= t})
Bars(from, to) == {t \in Joint : Rank(t) \in from..to}
BothLegs(times) == {1, 2} \X times

\* The return of a leg over the bar t and the joint bar before it.
ReturnAt(leg, t) == <<leg, CHOOSE u \in Joint : Rank(u) = Rank(t) - 1, t>>
LaterBars == Bars(2, Cardinality(Joint))

\* A number of a finding is made of the closes its time, or its lag, says, of both
\* legs at the same bars, whichever bars each leg lacks: a window of returns starts
\* at the bar its first return ends at, a window of levels lies between its two
\* stamps, and lag k pairs all the returns k joint bars apart, leg a first.
AlignedWindows ==
  job.scan \in PairKinds => \A r \in DOMAIN out :
    IF job.scan = "cointegration"
    THEN LET inside == {t \in Joint : out[r].start <= t /\ t <= out[r].end}
         IN out[r].uses = BothLegs(inside) /\ Cardinality(inside) = job.size
    ELSE \A i \in DOMAIN out[r] :
      LET label == out[r][i].label
          uses  == out[r][i].uses
      IN CASE job.scan \in {"corr", "ols"} ->
                /\ label \in Joint
                /\ uses = BothLegs(Bars(Rank(label) - 1, Rank(label) + job.size - 1))
           [] job.scan = "lead_lag" ->
                uses = {<<ReturnAt(1, p[1]), ReturnAt(2, p[2])>> :
                          p \in {q \in LaterBars \X LaterBars : Rank(q[2]) - Rank(q[1]) = label}}
           [] OTHER -> uses = BothLegs(Joint)

\* What a finding, or the findings of a rolling fit, must have a number for.
Wanted ==
  LET n == Cardinality(Joint)
  IN CASE job.scan \in {"corr", "ols"} ->
            {t \in LaterBars : Rank(t) + job.size - 1 <= n}
       [] job.scan = "lead_lag" ->
            LET l == OrDefault(job.size, DefaultMaxLag) IN -l..l
       [] job.scan = "engle_granger" -> {Absent}
       [] OTHER -> {t \in Joint : (Rank(t) - 1) % Step = 0 /\ Rank(t) + job.size - 1 <= n}

LabelsGiven == IF job.scan = "cointegration" THEN [r \in DOMAIN out |-> out[r].start]
         ELSE IF out = <<>> THEN <<>> ELSE [i \in DOMAIN out[1] |-> out[1][i].label]

\* No window is lost or given twice: a run that is not cancelled and does not fail
\* has a number for every whole window, in order; what a SIGINT or a failing write
\* leaves has no hole before its end; and a kernel error has written nothing,
\* though the window that is singular may be the last (Engine takes this for what a
\* registered scan does).
EveryWindow ==
  job.scan \in PairKinds =>
  /\ out # <<>> \/ (res = "Ok" /\ ~cancel) =>
       /\ \A i, j \in DOMAIN LabelsGiven : i < j => LabelsGiven[i] < LabelsGiven[j]
       /\ \A g \in ToSet(LabelsGiven), w \in Wanted : w < g => w \in ToSet(LabelsGiven)
       /\ ToSet(LabelsGiven) \subseteq Wanted
       /\ res = "Ok" /\ ~cancel => ToSet(LabelsGiven) = Wanted
  /\ res = "Kernel" => out = <<>>

\* The k-th smallest |beta| of the windows w.
Ranked(k, w) == LET below(v, strict) == Cardinality({i \in w : IF strict THEN fits[i].beta < v
                                                              ELSE fits[i].beta <= v})
                IN CHOOSE v \in {fits[i].beta : i \in w} : below(v, TRUE) < k /\ k <= below(v, FALSE)

\* The verdict of a window rests on the windows before it and on nothing later: lost
\* stationarity wants an earlier stationary window, drift the median of the last
\* Lookback windows with the window itself left out.
BreakdownFromThePast ==
  job.scan = "cointegration" =>
    \A r \in DOMAIN out :
      LET past == Max({1, r - Lookback})..(r - 1)
          m == Cardinality(past)
          med2 == Ranked((m + 1) \div 2, past) + Ranked(m \div 2 + 1, past)
          gap == 2 * fits[r].beta - med2      \* twice the distance from the median
      IN /\ out[r].lost <=> fits[r].p = "high" /\ \E i \in 1..(r - 1) : fits[i].p = "low"
         /\ out[r].drift <=> /\ r > MinHistory
                             /\ med2 > 0 /\ (4 * gap > med2 \/ -4 * gap > med2)
=============================================================================
