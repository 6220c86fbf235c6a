-------------------------------- MODULE Sweep --------------------------------
(***************************************************************************)
(* sweep::executor::run_sweep_with_registry: preflight, RunStart, the job  *)
(* graph fanned out over the rayon pool, each job run by the engine into a *)
(* JobSink of its own, and one thread that drains the sinks in manifest    *)
(* order, counts, scopes the p-values into FDR families and closes the     *)
(* stream with SweepSummary and RunEnd.                                    *)
(*                                                                         *)
(* The workers interleave with each other and with the SIGINT handler; the *)
(* drain interleaves with the handler only.  Each write to the real sink   *)
(* may fail; a JobSink is a Vec and never does.  What the engine makes of  *)
(* one request is the subject of Engine; here a job's work is the sequence *)
(* of envelopes it buffers when nothing interrupts it.                     *)
(*                                                                         *)
(* A step runs from one poll of the cancel flag or one write to the next.  *)
(***************************************************************************)
EXTENDS Envelopes, Fdr

CONSTANTS
  N,        \* jobs the manifest expands to
  Works,    \* what a job may buffer: sequences of Units
  Threads,  \* threads of the rayon pool
  Scopes    \* scope_family of each job: a family, or NoFamily

Jobs == 1..N
NoFamily == "none"

\* An envelope of a job.  For a Result, what the drain reads of effect.p_value:
\* a number, NaN, or None.  synth marks the ScanError the worker makes of an Err
\* the engine returned.
Absent == -2
PValues == {NaN, Absent} \cup 0..Scale
Units == [kind : BodyKinds, p : PValues, synth : BOOLEAN]

ASSUME SweepAssumption ==
  /\ N \in Nat
  /\ Works \subseteq Seq(Units)
  /\ Threads \in Nat \ {0}
  /\ Scopes \in [Jobs -> STRING]

VARIABLES
  work,      \* what each job buffers when it runs undisturbed
  dryRun,    \* SweepOptions.dry_run
  cancel,    \* Arc<AtomicBool>, set by the SIGINT handler
  pc,        \* where the sweep's own thread is
  status,    \* of each job in the pool
  buf,       \* the JobSink of each job
  covered,   \* dry run: the jobs whose coverage was computed
  stream,    \* the envelopes on the real sink
  cur, fnd,  \* drain: the job, and how many of its findings are written
  totals,    \* SweepTotals
  families,  \* by_family: the Results of each family, in the order pushed
  outcome    \* what run_sweep_with_registry returned

drainVars == <<cur, fnd, totals, families>>
poolVars  == <<status, buf, covered>>
vars == <<work, dryRun, cancel, pc, poolVars, stream, drainVars, outcome>>

Pcs == {"enter", "open", "expand", "cover", "fanout", "drain", "giveup",
        "settle", "summary", "cut", "close", "done"}

Families == {Scopes[j] : j \in Jobs} \ {NoFamily}

Framing(k) == [kind |-> k, job |-> 0, idx |-> 0, run |-> 0]

\* Envelope i of job j.  RunId 0 is the sweep's own, j the one the engine made
\* for job j; a synthetic error carries the sweep's.
Finding(j, i) == [kind |-> buf[j][i].kind, job |-> j, idx |-> i,
                  run |-> IF buf[j][i].synth THEN 0 ELSE j]

Prefixes(s) == {SubSeq(s, 1, n) : n \in 0..Len(s)}

Init == /\ work \in [Jobs -> Works]
        /\ dryRun \in BOOLEAN
        /\ cancel \in BOOLEAN
        /\ pc = "enter"
        /\ status = [j \in Jobs |-> "waiting"]
        /\ buf = [j \in Jobs |-> <<>>]
        /\ covered = {}
        /\ stream = <<>>
        /\ cur = 0 /\ fnd = 0
        /\ totals = [jobs |-> 0, results |-> 0, errors |-> 0, gaps |-> 0]
        /\ families = [f \in Families |-> <<>>]
        /\ outcome = "none"

----------------------------------------------------------------------------
Goto(next) == pc' = next /\ UNCHANGED outcome
Finish(result) == pc' = "done" /\ outcome' = result

Written(e) == stream' = Append(stream, e)
WriteFails == Finish("SinkError") /\ UNCHANGED stream

Manifest == <<work, dryRun>>

----------------------------------------------------------------------------
(* SIGINT. *)

Interrupt == /\ pc # "done" /\ ~cancel
             /\ cancel' = TRUE
             /\ UNCHANGED <<Manifest, pc, poolVars, stream, drainVars, outcome>>

----------------------------------------------------------------------------
(* Entry, preflight, framing-open, expansion. *)

\* The poll at entry; then validate and validate_fence, which write nothing.
Enter == /\ pc = "enter"
         /\ \/ cancel /\ Finish("Ok")
            \/ ~cancel /\ Goto("open")
            \/ ~cancel /\ Finish("Preflight")
         /\ UNCHANGED <<Manifest, cancel, poolVars, stream, drainVars>>

OpenRun == /\ pc = "open"
           /\ \/ Written(Framing("RunStart")) /\ Goto("expand")
              \/ WriteFails
           /\ UNCHANGED <<Manifest, cancel, poolVars, drainVars>>

\* job_graph::expand parses what validate did not look at, after RunStart.
Expand == /\ pc = "expand"
          /\ \/ Goto(IF dryRun THEN "cover" ELSE "fanout")
             \/ Finish("Preflight")
          /\ UNCHANGED <<Manifest, cancel, poolVars, stream, drainVars>>

----------------------------------------------------------------------------
(* Dry run: coverage of each job in the pool, then DryRun and RunEnd. *)

Cover(j) == /\ pc = "cover" /\ status[j] = "waiting"
            /\ status' = [status EXCEPT ![j] = "done"]
            /\ covered' = IF cancel THEN covered ELSE covered \cup {j}
            /\ UNCHANGED <<Manifest, cancel, pc, buf, stream, drainVars, outcome>>

AllDone == \A j \in Jobs : status[j] = "done"

MakePlan == /\ pc = "cover" /\ AllDone
            /\ \/ Written(Framing("DryRun")) /\ Goto("cut")
               \/ WriteFails
            /\ UNCHANGED <<Manifest, cancel, poolVars, drainVars>>

----------------------------------------------------------------------------
(* The workers. *)

Running == {j \in Jobs : status[j] = "running"}

\* Mutant of StartJob: a job that sees the flag is not taken at all.
StartUnlessCancelled(j) ==
  /\ pc = "fanout" /\ status[j] = "waiting" /\ ~cancel
  /\ Cardinality(Running) < Threads
  /\ status' = [status EXCEPT ![j] = "running"]
  /\ UNCHANGED <<Manifest, cancel, pc, buf, covered, stream, drainVars, outcome>>

\* The poll at the top of the closure: a job that sees the flag buffers nothing.
StartJob(j) == /\ pc = "fanout" /\ status[j] = "waiting"
               /\ Cardinality(Running) < Threads
               /\ status' = [status EXCEPT ![j] = IF cancel THEN "done" ELSE "running"]
               /\ UNCHANGED <<Manifest, cancel, pc, buf, covered, stream, drainVars, outcome>>

\* run_one_with_registry returns: with the whole work of the job or, if the flag
\* was set meanwhile, with what it had written by the poll that saw it.
FinishJob(j) == /\ pc = "fanout" /\ status[j] = "running"
                /\ status' = [status EXCEPT ![j] = "done"]
                /\ \E b \in IF cancel THEN Prefixes(work[j]) ELSE {work[j]} :
                     buf' = [buf EXCEPT ![j] = b]
                /\ UNCHANGED <<Manifest, cancel, pc, covered, stream, drainVars, outcome>>

\* collect() returns when every closure has; the buffers are sorted by index.
Join == /\ pc = "fanout" /\ AllDone
        /\ Goto("drain")
        /\ UNCHANGED <<Manifest, cancel, poolVars, stream, drainVars>>

----------------------------------------------------------------------------
(* The drain. *)

JobDrained == cur > 0 => fnd = Len(buf[cur])

\* Mutants of NextJob: one job too many; buffers taken in any order, unsorted.
NextJobOver == /\ pc = "drain" /\ JobDrained
               /\ IF cur <= N
                  THEN /\ cur' = cur + 1 /\ fnd' = 0
                       /\ totals' = [totals EXCEPT !.jobs = @ + 1]
                       /\ UNCHANGED <<pc, outcome>>
                  ELSE Goto("settle") /\ UNCHANGED <<cur, fnd, totals>>
               /\ UNCHANGED <<Manifest, cancel, poolVars, stream, families>>
NextUnsorted == /\ pc = "drain" /\ JobDrained
                /\ IF totals.jobs < N
                   THEN /\ cur' \in Jobs \ {cur} /\ fnd' = 0
                        /\ totals' = [totals EXCEPT !.jobs = @ + 1]
                        /\ UNCHANGED <<pc, outcome>>
                   ELSE Goto("settle") /\ UNCHANGED <<cur, fnd, totals>>
                /\ UNCHANGED <<Manifest, cancel, poolVars, stream, families>>

NextJob == /\ pc = "drain" /\ JobDrained
           /\ IF cur < N
              THEN /\ cur' = cur + 1 /\ fnd' = 0
                   /\ totals' = [totals EXCEPT !.jobs = @ + 1]
                   /\ UNCHANGED <<pc, outcome>>
              ELSE Goto("settle") /\ UNCHANGED <<cur, fnd, totals>>
           /\ UNCHANGED <<Manifest, cancel, poolVars, stream, families>>

\* Mutant of CounterOf: a gap abort counted as a scan error.
CounterMixed == [Result |-> "results", ScanError |-> "errors", GapAborted |-> "errors"]

CounterOf == [Result |-> "results", ScanError |-> "errors", GapAborted |-> "gaps"]

Tally(u) == totals' = [totals EXCEPT ![CounterOf[u.kind]] = @ + 1]

\* Mutant of Scope: NaN p-values are kept.
ScopeNaN(j, i) == families' = IF buf[j][i].kind = "Result" /\ buf[j][i].p # Absent
                                 /\ Scopes[j] # NoFamily
                              THEN [families EXCEPT ![Scopes[j]] = Append(@, <<j, i>>)]
                              ELSE families

\* A Result with a p-value that is a number joins the family of its scan, under
\* the next index of that family; the entry names the Result.
Scope(j, i) == families' = IF buf[j][i].kind = "Result" /\ buf[j][i].p \notin {NaN, Absent}
                              /\ Scopes[j] # NoFamily
                           THEN [families EXCEPT ![Scopes[j]] = Append(@, <<j, i>>)]
                           ELSE families

\* Mutant of DrainOne: the drain does not poll.
DrainUnpolled == /\ pc = "drain" /\ ~JobDrained
                 /\ Tally(buf[cur][fnd + 1])
                 /\ Scope(cur, fnd + 1)
                 /\ Written(Finding(cur, fnd + 1))
                 /\ fnd' = fnd + 1
                 /\ UNCHANGED <<Manifest, cancel, poolVars, cur, pc, outcome>>

\* One finding: poll, count and scope it, then write it through.
DrainOne == /\ pc = "drain" /\ ~JobDrained
            /\ IF cancel
               THEN Goto("settle") /\ UNCHANGED <<stream, totals, families, fnd>>
               ELSE /\ Tally(buf[cur][fnd + 1])
                    /\ Scope(cur, fnd + 1)
                    /\ \/ /\ Written(Finding(cur, fnd + 1))
                          /\ fnd' = fnd + 1
                          /\ UNCHANGED <<pc, outcome>>
                       \/ Goto("giveup") /\ UNCHANGED <<stream, fnd>>
            /\ UNCHANGED <<Manifest, cancel, poolVars, cur>>

\* Mutant of GiveUp: the sink error is taken for a scan error.
GiveUpMild == /\ pc = "giveup"
              /\ stream' \in {stream, Append(stream, Framing("RunEnd"))}
              /\ Finish("HadScanErrors")
              /\ UNCHANGED <<Manifest, cancel, poolVars, drainVars>>

\* The sink refused a finding: a RunEnd if it still can be written, then Err.
GiveUp == /\ pc = "giveup"
          /\ stream' \in {stream, Append(stream, Framing("RunEnd"))}
          /\ Finish("SinkError")
          /\ UNCHANGED <<Manifest, cancel, poolVars, drainVars>>

----------------------------------------------------------------------------
(* The ends of a sweep. *)

\* Mutant of Settle: the flag is not read again.
SettleBlind == /\ pc = "settle"
               /\ Goto("summary")
               /\ UNCHANGED <<Manifest, cancel, poolVars, stream, drainVars>>

\* The poll after the drain: a cancelled sweep has no SweepSummary.
Settle == /\ pc = "settle"
          /\ Goto(IF cancel THEN "cut" ELSE "summary")
          /\ UNCHANGED <<Manifest, cancel, poolVars, stream, drainVars>>

\* The entries of a family, with the q-value of each.
FdrOf(f) ==
  LET q == BhFdr([n \in DOMAIN families[f] |-> buf[families[f][n][1]][families[f][n][2]].p])
  IN [n \in DOMAIN families[f] |-> [place |-> families[f][n], q |-> q[n]]]

Summarise == /\ pc = "summary"
             /\ \/ Written(Framing("SweepSummary")) /\ Goto("close")
                \/ WriteFails
             /\ UNCHANGED <<Manifest, cancel, poolVars, drainVars>>

\* Mutants of CloseCut: a cut sweep reports its scan errors; it returns without
\* RunEnd.
CutReports == /\ pc = "cut"
              /\ Written(Framing("RunEnd"))
              /\ Finish(IF totals.errors > 0 THEN "HadScanErrors" ELSE "Ok")
              /\ UNCHANGED <<Manifest, cancel, poolVars, drainVars>>
CutSilent == /\ pc = "cut" /\ Finish("Ok")
             /\ UNCHANGED <<Manifest, cancel, poolVars, stream, drainVars>>

\* RunEnd of a cancelled sweep or of a dry run: Ok, whatever was counted.
CloseCut == /\ pc = "cut"
            /\ \/ Written(Framing("RunEnd")) /\ Finish("Ok")
               \/ WriteFails
            /\ UNCHANGED <<Manifest, cancel, poolVars, drainVars>>

\* Mutant of Close: the scan errors are forgotten.
CloseOk == /\ pc = "close"
           /\ Written(Framing("RunEnd")) /\ Finish("Ok")
           /\ UNCHANGED <<Manifest, cancel, poolVars, drainVars>>

Close == /\ pc = "close"
         /\ \/ /\ Written(Framing("RunEnd"))
               /\ Finish(IF totals.errors > 0 THEN "HadScanErrors" ELSE "Ok")
            \/ WriteFails
         /\ UNCHANGED <<Manifest, cancel, poolVars, drainVars>>

----------------------------------------------------------------------------
Worker(j) == Cover(j) \/ StartJob(j) \/ FinishJob(j)

Main == \/ Enter \/ OpenRun \/ Expand \/ MakePlan \/ Join
        \/ NextJob \/ DrainOne \/ GiveUp
        \/ Settle \/ Summarise \/ CloseCut \/ Close

\* The sweep has returned to its caller.
Stopped == pc = "done" /\ UNCHANGED vars

Next == Interrupt \/ (\E j \in Jobs : Worker(j)) \/ Main \/ Stopped

Spec == Init /\ [][Next]_vars

----------------------------------------------------------------------------
(* Properties. *)

Envelope == [kind : Kinds, job : 0..N, idx : Nat, run : 0..N]

TypeOK ==
  /\ work \in [Jobs -> Seq(Units)]
  /\ dryRun \in BOOLEAN
  /\ cancel \in BOOLEAN
  /\ pc \in Pcs
  /\ status \in [Jobs -> {"waiting", "running", "done"}]
  /\ buf \in [Jobs -> Seq(Units)]
  /\ covered \in SUBSET Jobs
  /\ stream \in Seq(Envelope)
  /\ cur \in 0..N
  /\ fnd \in Nat
  /\ totals \in [jobs : Nat, results : Nat, errors : Nat, gaps : Nat]
  /\ families \in [Families -> Seq(Jobs \X Nat)]
  /\ outcome \in RunOutcomes \cup {"none"}

\* The envelopes of jobs on the stream, by their place in it.
Body == {k \in DOMAIN stream : stream[k].job # 0}
Has(k) == \E i \in DOMAIN stream : stream[i].kind = k

\* Manifest order: job by job, and within a job in the order it wrote.
Before(j1, i1, j2, i2) == j1 < j2 \/ (j1 = j2 /\ i1 < i2)

\* The stream is in manifest order and names no envelope twice, in whatever
\* order the workers finished.
DrainOrder ==
  \A k1, k2 \in Body :
    k1 < k2 => Before(stream[k1].job, stream[k1].idx, stream[k2].job, stream[k2].idx)

\* What envelope i of job j is when the job runs undisturbed.
Expected(j, i) == [kind |-> work[j][i].kind, job |-> j, idx |-> i,
                   run |-> IF work[j][i].synth THEN 0 ELSE j]
OnStream(e) == \E k \in DOMAIN stream : stream[k] = e

\* A stream cut by a SIGINT or a broken sink is a prefix of the whole one: an
\* envelope is never written while one before it, of any job, is missing.  A job
\* the flag cut short therefore leaves no trace, nor does any job after it.
PrefixOfComplete ==
  \A k \in Body : \A j \in Jobs : \A i \in DOMAIN work[j] :
    \/ OnStream(Expected(j, i))
    \/ Before(stream[k].job, stream[k].idx, j, i)

\* A SweepSummary speaks for the whole sweep: every envelope of every job is on
\* the stream before it, even when the SIGINT came while it was being made.
SummaryComplete ==
  Has("SweepSummary") =>
    \A j \in Jobs : \A i \in DOMAIN work[j] : OnStream(Expected(j, i))

\* The totals of SweepSummary and RunEnd are those of the stream; only when the
\* sink refused a finding do they count that one too.
TotalsMatch ==
  LET counted == totals.results + totals.errors + totals.gaps
  IN IF pc = "giveup" \/ (outcome = "SinkError" /\ Has("RunEnd"))
     THEN counted = Cardinality(Body) + 1
     ELSE outcome # "SinkError" =>
            /\ Has("SweepSummary") => totals.jobs = N
            /\ totals.results = CountOf(stream, "Result")
            /\ totals.errors = CountOf(stream, "ScanError")
            /\ totals.gaps = CountOf(stream, "GapAborted")

\* The Results of family f on the stream, in stream order.
FamilyResults(f) ==
  SelectSeq(stream, LAMBDA e : e.kind = "Result" /\ Scopes[e.job] = f)
Place(e) == <<e.job, e.idx>>

\* The p-values of family f, by the place on the stream of the Result that carries each.
Carries(f, e) == /\ e.kind = "Result" /\ Scopes[e.job] = f
                 /\ buf[e.job][e.idx].p \notin {NaN, Absent}
Tested(f) == [k \in {m \in DOMAIN stream : Carries(f, stream[m])} |->
                buf[stream[k].job][stream[k].idx].p]

\* How many of ps are no higher than p.
Within(ps, p) == Cardinality({m \in DOMAIN ps : ps[m] <= p})

\* The step-up test at a level rejects the hypothesis of p among those of ps when
\* some p-value from p on is within its share of the level.
Rejects(ps, level, p) ==
  \E k \in DOMAIN ps :
    p <= ps[k] /\ ps[k] * Cardinality(DOMAIN ps) * level.den <= level.num * Within(ps, ps[k])

\* The levels at which a verdict of the test on ps may change.
Levels(ps) ==
  {[num |-> ps[k] * Cardinality(DOMAIN ps), den |-> Within(ps, ps[k])] : k \in DOMAIN ps}

\* The entries of a family are the Results of its scans on the stream that carry
\* a p-value, each once and in stream order: what a reader who keeps the Results with
\* a p-value can index.  The q-value of each is the least level at which the step-up
\* test of the p-values on the stream rejects it: with ties, and where a higher
\* p-value has the lower quotient.
FamiliesMatch ==
  Has("SweepSummary") =>
    \A f \in Families :
      LET ps == Tested(f)
          nth(k) == Cardinality({m \in DOMAIN ps : m <= k})
      IN /\ Len(FdrOf(f)) = Cardinality(DOMAIN ps)
         /\ \A k \in DOMAIN ps :
              LET entry == FdrOf(f)[nth(k)]
              IN /\ entry.place = Place(stream[k])
                 /\ \A level \in Levels(ps) \cup {entry.q} :
                      Rejects(ps, level, ps[k]) <=> AtMost(entry.q, level)

\* HadScanErrors, exit code 2, is for a sweep that was not cut and whose stream
\* shows a ScanError; a job the engine rejected counts, through its synthetic one.
OutcomeMatches ==
  outcome = "HadScanErrors" <=>
    Has("SweepSummary") /\ Has("ScanError") /\ Has("RunEnd")

\* The framing contract of the stream.
Contract == INSTANCE RunStream WITH
              Sweeping <- TRUE,
              out <- KindsOf(stream),
              fate <- CASE outcome = "none" -> "running"
                        [] outcome \in {"Ok", "HadScanErrors"} -> "returned"
                        [] OTHER -> "failed"
FramingKept == Contract!Spec

----------------------------------------------------------------------------
(* What the repository says and the code does not do. *)

\* docs/sweep_manifest.md, docs/agent_integration.md: a sweep that preflight
\* rejects writes no RunStart.
RejectedInSilence == outcome = "Preflight" => stream = <<>>

\* docs/findings_envelope.md: finding_index is the position of the finding within
\* its family in the stream, where a reader looks its q-value up.
IndexIsPosition ==
  Has("SweepSummary") =>
    \A f \in Families : \A n \in DOMAIN families[f] :
      Place(FamilyResults(f)[n]) = families[f][n]
=============================================================================
