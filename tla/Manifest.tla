------------------------------ MODULE Manifest ------------------------------
(***************************************************************************)
(* The way of a sweep manifest into jobs: the configuration, the flags of  *)
(* miner sweep, sweep::manifest::validate and validate_fence before        *)
(* RunStart, sweep::job_graph::expand after it, and the preflight each job *)
(* meets again in the engine (engine::preflight).                          *)
(* The four look at the same manifest by code of their own, in different   *)
(* forms; the properties say what one may take from another.               *)
(*                                                                         *)
(* Instants are minutes.  A string that does not parse is a value of its   *)
(* own (BadTimeframe, ok = FALSE, "bad").                                  *)
(***************************************************************************)
EXTENDS Requests

CONSTANTS
  Registry,     \* scan id -> its record
  Manifests,    \* the manifests a file may hold
  Flags,        \* SweepArgs: what miner sweep is told beside it
  Fences,       \* not_after in the three layers of the configuration
  Ceiling,      \* HYGIENE_RESAMPLE_CEILING
  GridCeiling,  \* CARTESIAN_OUT_CEILING
  MaxCount,     \* bound: stands for u64::MAX
  MaxInstant,   \* bound: stands for DateTime::MAX_UTC
  DayLength,    \* minutes of a day
  DefaultPost   \* DEFAULT_POST_WINDOW_BARS

ScanRecords == [arity : {1, 2}, supports : SUBSET Methods, spans : BOOLEAN]

\* A value of params: an array of event timestamps, a number of bars, or neither.
Values == [form : {"events", "bars", "other"}, at : SUBSET Nat, n : Nat]
EmptyArray == [form |-> "events", at |-> {}, n |-> 0]
Axes == [array : {TRUE}, elems : Seq(Values)] \cup [array : {FALSE}, elems : [1..1 -> Values]]

Params == [{} -> Axes] \cup [{"event_timestamps"} -> Axes] \cup [{"post_window_bars"} -> Axes]
          \cup [{"event_timestamps", "post_window_bars"} -> Axes]

\* parse_iso_utc_window: ok is FALSE when it refuses the string; dateEnd when the
\* end is a date, start and end are the midnights then.
WindowStrings == [ok : BOOLEAN, start : Nat, end : Nat, dateEnd : BOOLEAN]

\* HygieneBlock: a method is absent, known or bad; n = 0 stands for unset.
Hygiene == [Methods -> [name : {"absent", "known", "bad"}, n : Nat]]

\* Elements of instruments: "SYMBOL:side", a pair of them, or anything else.
Blocks == [scan : STRING, array : BOOLEAN, instruments : Seq({"one", "two", "bad"}),
           timeframes : Seq(Nat), windows : Seq(WindowStrings),
           gap : {"absent", "strict", "bad"}, calendar : {"absent", "fx_utc", "bad"},
           params : Params,
           hygiene : Hygiene]

\* SweepManifest.
Files == [jobs : Seq(Blocks), calendar : {"absent", "fx_utc", "bad"}, hygiene : Hygiene,
          maxJobs : Nat, alphaOk : BOOLEAN, seed : Nat \cup {NoSeed}]

ASSUME ManifestAssumption ==
  /\ \A s \in DOMAIN Registry : Registry[s] \in ScanRecords
  /\ \A l \in Fences : /\ {l.flag, l.env} \subseteq Nat \cup {NoFence, BadFence}
                      /\ l.files \in [{"named", "native", "cwd"} ->
                                        Nat \cup {NoFence, BadFence, NoFile}]
  /\ Flags \subseteq [seed : Nat \cup {NoSeed}, hygiene : Hygiene]
  /\ \A n \in {Ceiling, GridCeiling, MaxCount, MaxInstant} : n \in Nat
  /\ DayLength \in Nat \ {0} /\ DefaultPost \in Nat \ {0}
  /\ Manifests \subseteq Files
  /\ \A m \in Manifests : m.maxJobs < MaxCount

VARIABLES
  asked,             \* the manifest file, the flags, the layers of the fence
  manifest, fence,   \* what the executor is given
  pc,
  estimated,         \* what validate returned
  jobs,              \* what expand returned
  refused            \* jobs the engine's preflight refuses

given == <<asked, manifest, fence>>
vars == <<given, pc, estimated, jobs, refused>>

----------------------------------------------------------------------------
(* The pieces. *)

Known(block) == block.scan \in DOMAIN Registry
ScanOf(block) == Registry[block.scan]

\* parse_instruments_grid accepts the shape for the arity.
ShapeFits(block) ==
  /\ block.array
  /\ \A i \in DOMAIN block.instruments :
       block.instruments[i] = IF ScanOf(block).arity = 1 THEN "one" ELSE "two"

\* Mutant of Saturating: the product wraps.
Wrapping(n) == n % (MaxCount + 1)

\* saturating_mul, saturating_add.
Saturating(n) == IF n > MaxCount THEN MaxCount ELSE n

\* The parameters in the order of their keys.
KeyOrder(params) ==
  LET at(k) == IF k \in DOMAIN params THEN <<k>> ELSE <<>>
  IN at("event_timestamps") \o at("post_window_bars")
ItemsOf(params) == [i \in DOMAIN KeyOrder(params) |->
                      [key |-> KeyOrder(params)[i], axis |-> params[KeyOrder(params)[i]]]]

\* params_cartesian_size, per key.
ChoiceCount(axis) == IF axis.array /\ axis.elems # <<>> THEN Len(axis.elems) ELSE 1
Times(a, b) == Saturating(a * b)
CountChoices(n, item) == Times(n, ChoiceCount(item.axis))
ParamCount(params) == FoldLeft(CountChoices, 1, ItemsOf(params))
SlotCount(block) == IF block.array THEN Len(block.instruments) ELSE 1
BlockCount(block) ==
  Times(Times(Times(SlotCount(block), Len(block.timeframes)), Len(block.windows)),
        ParamCount(block.params))

\* estimated_job_count.
CountBlock(n, block) == Saturating(n + BlockCount(block))
EstimatedCount(m) == FoldLeft(CountBlock, 0, m.jobs)

\* cartesian_params: the last key turns fastest; no point at all when there are
\* more than its ceiling.
ChoicesOf(axis) == IF axis.array /\ axis.elems = <<>> THEN <<EmptyArray>> ELSE axis.elems
WithKey(point, key, value) ==
  [k \in DOMAIN point \cup {key} |-> IF k = key THEN value ELSE point[k]]
With(points, item) ==
  LET choices == ChoicesOf(item.axis)
  IN FlattenSeq([i \in DOMAIN points |->
       [c \in DOMAIN choices |-> WithKey(points[i], item.key, choices[c])]])
NoParams == [k \in {} |-> EmptyArray]
Cartesian(params) ==
  IF ParamCount(params) > GridCeiling THEN <<>>
  ELSE FoldLeft(With, <<NoParams>>, ItemsOf(params))

\* Mutant of SpanEnd: the end wraps.
SpanEndWrapped(event, tf, post) == (((event + tf - 1) \div tf) * tf + post * tf) % (MaxInstant + 1)

\* EventWindowScan::param_spans: where the post window of an event ends; what no
\* timestamp can hold is the last one.
SpanEnd(event, tf, post) ==
  LET end == ((event + tf - 1) \div tf) * tf + post * tf
  IN IF end > MaxInstant THEN MaxInstant ELSE end
Post(point) == IF "post_window_bars" \notin DOMAIN point THEN DefaultPost
               ELSE IF point["post_window_bars"].form = "bars" THEN point["post_window_bars"].n
               ELSE 0
Events(point) == IF /\ "event_timestamps" \in DOMAIN point
                    /\ point["event_timestamps"].form = "events"
                 THEN point["event_timestamps"].at ELSE {}
SpanEnds(scan, tf, point) ==
  IF scan.spans /\ Post(point) >= 1
  THEN {SpanEnd(e, tf, Post(point)) : e \in Events(point)} ELSE {}

\* Mutant of ClosedReaches: a date-only end is taken for its midnight.
MidnightReaches(w) == w.end >= fence + (IF w.dateEnd THEN 1 ELSE 0)

\* closed_window_fence_bound with FenceBound::reaches: a date-only end includes its
\* day, an instant includes itself.
ClosedReaches(w) == IF w.dateEnd THEN w.end + DayLength > fence ELSE w.end >= fence
HalfOpenReaches(w) == w.end > fence
SpansReach(scan, tf, point) == \E end \in SpanEnds(scan, tf, point) : end > fence

----------------------------------------------------------------------------
(* validate. *)

Within(hygiene) == \A x \in Methods : hygiene[x].n <= Ceiling

\* Mutants of BlockFits: the merged numbers, or the block's calendar, are not
\* looked at.
BlockFitsLoosely(m, block) ==
  LET merged == Merge(m.hygiene, block.hygiene)
  IN /\ block.calendar # "bad" /\ Known(block) /\ ShapeFits(block)
     /\ \A x \in Methods : merged[x].name = "absent"
                           \/ (merged[x].name = "known" /\ x \in ScanOf(block).supports)

BlockFitsAnyCalendar(m, block) ==
  LET merged == Merge(m.hygiene, block.hygiene)
  IN /\ Known(block) /\ ShapeFits(block)
     /\ Within(merged)
     /\ \A x \in Methods : merged[x].name = "absent"
                           \/ (merged[x].name = "known" /\ x \in ScanOf(block).supports)

BlockFits(m, block) ==
  LET merged == Merge(m.hygiene, block.hygiene)
  IN /\ block.calendar # "bad" /\ Known(block) /\ ShapeFits(block)
     /\ Within(merged)
     /\ \A x \in Methods : merged[x].name = "absent"
                           \/ (merged[x].name = "known" /\ x \in ScanOf(block).supports)

Asked == [file : Manifests, flags : Flags, layers : Fences]

Init == /\ asked \in Asked
        /\ manifest = asked.file /\ fence = NoFence
        /\ pc = "configure"
        /\ estimated = 0 /\ jobs = <<>> /\ refused = {}

\* MinerConfig::resolve, at the start of the process.
Configure ==
  /\ pc = "configure"
  /\ IF NotAfter(asked.layers) = BadFence THEN pc' = "rejected" /\ UNCHANGED fence
     ELSE pc' = "load" /\ fence' = NotAfter(asked.layers)
  /\ UNCHANGED <<asked, manifest, estimated, jobs, refused>>

\* to_manifest: the file may be missing, or no manifest.
Load ==
  /\ pc = "load"
  /\ \/ pc' = "validate" /\ manifest' = Override(asked.file, asked.flags)
     \/ pc' = "rejected" /\ UNCHANGED manifest
  /\ UNCHANGED <<asked, fence, estimated, jobs, refused>>

\* The sizes first, before anything of the grid is made; then block by block.
Validate ==
  /\ pc = "validate"
  /\ IF /\ manifest.alphaOk
        /\ Within(manifest.hygiene)
        /\ EstimatedCount(manifest) <= manifest.maxJobs
        /\ manifest.calendar # "bad"
        /\ \A i \in DOMAIN manifest.jobs : BlockFits(manifest, manifest.jobs[i])
     THEN pc' = "fence" /\ estimated' = EstimatedCount(manifest)
     ELSE pc' = "rejected" /\ UNCHANGED estimated
  /\ UNCHANGED <<given, jobs, refused>>

----------------------------------------------------------------------------
(* validate_fence. *)

\* Mutant of FenceAllows: only the windows are looked at.
FenceAllowsWindows(block) ==
  \A i \in DOMAIN block.windows : block.windows[i].ok /\ ~ClosedReaches(block.windows[i])

FenceAllows(block) ==
  /\ \A i \in DOMAIN block.windows : block.windows[i].ok /\ ~ClosedReaches(block.windows[i])
  /\ \A i \in DOMAIN block.timeframes :
       /\ block.timeframes[i] # BadTimeframe
       /\ \A p \in Range(Cartesian(block.params)) :
            ~SpansReach(ScanOf(block), block.timeframes[i], p)

ValidateFence ==
  /\ pc = "fence"
  /\ pc' = IF fence = NoFence \/ \A i \in DOMAIN manifest.jobs : FenceAllows(manifest.jobs[i])
           THEN "expand" ELSE "rejected"
  /\ UNCHANGED <<given, estimated, jobs, refused>>

----------------------------------------------------------------------------
(* expand, after RunStart. *)

\* resolve_calendar: the block's, else the sweep's, else the default.
CalendarOf(block) == IF block.calendar # "absent" THEN block.calendar
                     ELSE IF manifest.calendar # "absent" THEN manifest.calendar
                     ELSE DefaultCalendar

\* What each turn of the loops parses: nothing of it when there is no slot.
Parses(block) ==
  /\ Known(block) /\ ShapeFits(block)
  /\ LET merged == Merge(manifest.hygiene, block.hygiene)
     IN \A x \in Methods : merged[x].name # "bad"
  /\ block.gap # "bad"
  /\ CalendarOf(block) # "bad"
  /\ block.instruments # <<>> =>
       /\ \A i \in DOMAIN block.timeframes : block.timeframes[i] # BadTimeframe
       /\ block.timeframes # <<>> => \A i \in DOMAIN block.windows : block.windows[i].ok

\* A ResolvedJob; the instruments of slot k are the k-th.
ResolvedJob(block, slot, tf, window, point) ==
  LET master == IF manifest.seed = NoSeed THEN 0 ELSE manifest.seed
      legs == <<block.instruments[slot], slot>>
  IN [scan |-> block.scan, legs |-> legs, tf |-> tf, window |-> window,
      gap |-> IF block.gap = "absent" THEN DefaultGapPolicy ELSE block.gap,
      calendar |-> CalendarOf(block), point |-> point,
      hygiene |-> Merge(manifest.hygiene, block.hygiene),
      master |-> master,
      seed |-> DeriveJobSeed(master, block.scan, legs, tf, window, point)]

JobsOf(block) ==
  LET points == Cartesian(block.params)
  IN FlattenSeq([a \in DOMAIN block.instruments |->
       FlattenSeq([t \in DOMAIN block.timeframes |->
         FlattenSeq([w \in DOMAIN block.windows |->
           [p \in DOMAIN points |->
              ResolvedJob(block, a, block.timeframes[t], block.windows[w], points[p])]])])])

Expand ==
  /\ pc = "expand"
  /\ IF \A i \in DOMAIN manifest.jobs : Parses(manifest.jobs[i])
     THEN pc' = "run" /\ jobs' = FlattenSeq([i \in DOMAIN manifest.jobs |-> JobsOf(manifest.jobs[i])])
     ELSE pc' = "broken" /\ UNCHANGED jobs
  /\ UNCHANGED <<given, estimated, refused>>

----------------------------------------------------------------------------
(* The engine's preflight of each job: validate_arity, validate_hygiene_support, *)
(* validate_scan_fence. *)

\* job_to_scan_request: the fields of the job, the seed it was given among them.
RequestOf(job) == job

Refuses(req) ==
  LET scan == Registry[req.scan]
  IN \/ scan.arity # IF req.legs[1] = "one" THEN 1 ELSE 2
     \/ \E x \in Methods : req.hygiene[x].name # "absent" /\ x \notin scan.supports
     \/ fence # NoFence /\ (HalfOpenReaches(req.window) \/ SpansReach(scan, req.tf, req.point))

RunJobs ==
  /\ pc = "run"
  /\ refused' = {k \in DOMAIN jobs : Refuses(RequestOf(jobs[k]))}
  /\ pc' = "done"
  /\ UNCHANGED <<given, estimated, jobs>>

Stopped == pc \in {"rejected", "broken", "done"} /\ UNCHANGED vars

Next == Configure \/ Load \/ Validate \/ ValidateFence \/ Expand \/ RunJobs \/ Stopped

Spec == Init /\ [][Next]_vars

----------------------------------------------------------------------------
(* Properties. *)

\* The count validate holds against max_jobs, and a dry run prints as its planned
\* jobs, is the number of jobs expand makes: by arithmetic that saturates there,
\* by four nested loops here, over empty axes and arrays as well.  It holds while
\* max_jobs is below the ceiling of cartesian_params.
CountExact ==
  pc = "run" /\ manifest.maxJobs <= GridCeiling =>
    Len(jobs) = estimated /\ Len(jobs) <= manifest.maxJobs

\* After RunStart expand gives up only over what nobody parsed before: a gap policy,
\* or, without a fence, a timeframe or a window; never over a scan, a shape, a
\* calendar or a method.
BrokenOnlyBy ==
  pc = "broken" =>
    \E i \in DOMAIN manifest.jobs :
      LET b == manifest.jobs[i]
      IN \/ b.gap = "bad"
         \/ /\ fence = NoFence
            /\ \/ \E t \in DOMAIN b.timeframes : b.timeframes[t] = BadTimeframe
               \/ \E w \in DOMAIN b.windows : ~b.windows[w].ok

\* What the sweep accepted runs: a job passes the engine's preflight, which reads it in
\* its own way, so that no accepted request turns into a ScanError; and expand gives
\* up over nothing that was looked at before.
AcceptedJobsPass == refused = {} /\ BrokenOnlyBy

\* What was asked for, by the strongest place that says anything: the block, the
\* flag, [hygiene].
Strongest(values, none) ==
  LET said == {i \in DOMAIN values : values[i] # none}
  IN IF said = {} THEN none ELSE values[CHOOSE i \in said : \A k \in said : i <= k]
AskedOf(block) ==
  LET places == <<block.hygiene, asked.flags.hygiene, asked.file.hygiene>>
  IN [x \in Methods |-> [name |-> Strongest([i \in 1..3 |-> places[i][x].name], "absent"),
                         n |-> Strongest([i \in 1..3 |-> places[i][x].n], 0)]]

\* The words of a manifest of one job, given to miner scan.
OneJob == jobs # <<>> /\ Len(jobs) = 1 /\ Len(manifest.jobs) = 1
ScanArgsOf(block) ==
  LET point == jobs[1].point
      keys == KeyOrder(point)
  IN [scan |-> block.scan, legs |-> <<block.instruments[1], 1>>, tf |-> block.timeframes[1],
      window |-> block.windows[1], gap |-> block.gap,
      calendar |-> Strongest(<<block.calendar, asked.file.calendar>>, "absent"),
      params |-> [i \in DOMAIN keys |-> [key |-> keys[i], value |-> point[keys[i]]]],
      hygiene |-> AskedOf(block),
      seed |-> Strongest(<<asked.flags.seed, asked.file.seed>>, NoSeed)]

\* The request of every job is the one asked for.  Its resamples are those of the
\* strongest place that names them, and the engine's clamp never bites; and miner scan
\* makes the same request of the same words, down to the seed of its draws, though the
\* two commands have defaults and parsers of their own.
AsAsked ==
  /\ \A k \in DOMAIN jobs :
       /\ \A x \in Methods : jobs[k].hygiene[x].n <= Ceiling
       /\ \E i \in DOMAIN manifest.jobs : jobs[k].hygiene = AskedOf(manifest.jobs[i])
  /\ OneJob => RequestOf(jobs[1]) = Seeded(ToScanRequest(ScanArgsOf(manifest.jobs[1])))

\* No job can use a minute at or after the fence of the strongest layer (the flag, the
\* variable, the first config file there is, one named over one found), windows read
\* as closed as docs/sweep_manifest.md words them, nor a bar of an event's post window
\* (a bar ends at an instant there is).
LastUsed(w) == IF w.dateEnd THEN w.end + DayLength - 1 ELSE w.end
PostBars(event, tf, n) == {open \in event..(MaxInstant - tf) : open % tf = 0 /\ open < event + n * tf}
FenceHolds ==
  LET files == asked.layers.files
      file  == Strongest(<<files.named, files.native, files.cwd>>, NoFile)
      limit == Strongest(<<asked.layers.flag, asked.layers.env,
                           IF file = NoFile THEN NoFence ELSE file>>, NoFence)
  IN limit # NoFence => \A k \in DOMAIN jobs :
       LET job == jobs[k]
       IN /\ LastUsed(job.window) < limit
          /\ Registry[job.scan].spans =>
               \A e \in Events(job.point) :
                 \A open \in PostBars(e, job.tf, Post(job.point)) : open + job.tf <= limit
=============================================================================
