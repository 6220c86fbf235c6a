# tradedesk-miner in TLA+

`miner` runs statistical scans over the bar cache of `tradedesk-data` and writes
what it finds to stdout, one JSON envelope a line. This directory holds TLA+
models of the code that decides *what* is on that stream, *in which order*, and *what
each number on it stands for*; TLC runs that check them on small instances; and TLAPS
proofs about the two runners, the two commands, the hygiene step, the gap policy, the calendar,
the manifest and the scans over two legs, for every number of sub-ranges, jobs, threads,
resamples, gaps, zones, blocks and bars.

Paths below are relative to `src/`; `core/` stands for `crates/miner-core/src/`,
`cli/` for `crates/miner-cli/src/`.

## 1. Inventory

| part | source | state | operations | modelled in |
| --- | --- | --- | --- | --- |
| single-request runner | `core/engine/mod.rs` | the stream, `RunSummary`, the sub-ranges, preloaded frames, the flag | `run_one_with_registry`, `dispatch_pair_arity_body`, `dispatch_pair_unit` | `Engine` |
| hygiene buffer | `core/engine/hygiene_buffering_sink.rs` | the held-back Results | `write_envelope`, `into_parts` | `Engine` (`buffered`) |
| hygiene step | `core/engine/hygiene_dispatch.rs`, `core/scan/hygiene/{bootstrap,null}.rs` | the Result, the resample counter, the flag | `apply_hygiene_mutations`, `apply_pair_hygiene`, the resampling kernels | `HygieneStep` |
| hygiene dispatch table | `core/engine/hygiene_dispatch.rs` | none | `input_series_for`, `stat_closure_for`, `pair_stat_closure_for`, `tail_for` | `StatClosures` |
| sweep executor | `core/sweep/executor.rs` | one `JobSink` per job, `SweepTotals`, the FDR families, the stream | `run_sweep_with_registry` | `Sweep` |
| multiple testing | `core/scan/hygiene/fdr.rs` | none | `bh_fdr` | `Fdr`, used by `Sweep` |
| market calendar | `core/engine/market_calendar.rs` | none | `try_from`, the presets, `is_open_at` | `Calendar` |
| gap policy | `core/engine/gap_policy.rs`, `core/engine/coverage.rs`, `core/scan/primitives/time_alignment.rs` | none | detect, close, project, dispatch, snap | `GapPolicy` |
| configuration, arguments, seeds | `core/config`, `cli/{cli,scan_args,sweep_args}.rs`, `core/scan/hygiene/seed.rs` | none | `build_figment`, `to_scan_request`, `to_manifest`, `derive_job_seed` | `Requests`, used by `Manifest` |
| manifest, job graph, preflight, date fence | `core/sweep/{manifest,job_graph}.rs`, `core/engine/preflight.rs` | none | `validate`, `validate_fence`, `expand`, arity, hygiene support, windows, fence | `Manifest`; its outcome in `Engine`, its outcome and order in `Sweep` |
| scan registry | `core/scan/registry.rs`, the `impl Scan` of each scan | none | schema, defaults, series, supports, coalescing | `Catalogue` |
| scans over two legs | `core/scan/cross`, `core/scan/primitives/time_alignment.rs` | join cursors, windows, the breakdown detector | 6 `Scan::run` bodies | `PairScans`, `ScanRun` |
| scans over one series | `core/scan/{anom,ljung_box}` | none | 15 `Scan::run` bodies | `AnomScans`, `ScanRun` |
| seasonal scans | `core/scan/seas` | none | 7 `Scan::run` bodies | `SeasScans`, `ScanRun` |
| process | `cli/main.rs` | the flag, the exit code, what is on stderr | `main`, the two subcommand handlers, `compute_exit_code` | `Process`, `ScanCommand`, `SweepCommand` |
| wire schema and framing | `core/findings/mod.rs`, `core/engine/framing.rs` | | envelope kinds, counters | `Envelopes`, `RunStream` |
| sinks | `core/findings/sink.rs` | a line-buffered writer | `write_envelope` | one step that succeeds or fails |
| errors | `core/error` | | classes | their class, in `Process` and `Engine` |
| `miner-http`, `miner-mcp`, `miner-bench`, `xtask` | | | placeholders and tools | not |
| `tradedesk-data` | a dependency | the bar cache | `Reader`, `GapDetector`, `BarCache` | external: may fail at every call |

How they interact. `main` installs the SIGINT handler, whose only act is to set a
shared `AtomicBool`. It resolves the configuration and the arguments and calls one
of the two runners with the sink and the flag. The single-request runner detects
gaps, asks the gap policy (which asks the calendar) for sub-ranges, and runs the scan body
once for each (or once for all when the scan coalesces); with hygiene on, the scan's Results go to a
buffer, are resampled by a closure of the dispatch table that reads the request anew, and are
written afterwards. The sweep runner expands its
manifest, gives every job to the rayon pool, where the single-request runner writes
into a `JobSink`, and drains the sinks in manifest order on its own thread. What
the runner returns becomes the exit code, together with one more read of the flag.

What is hard here:

- **The flag.** SIGINT arrives between any two steps; it is polled at a handful of
  sites, by the runner, by scan bodies, by resampling kernels, by the workers of
  the pool, by the drain and by `main`, and not between them. A poll that is
  missing, or that comes once more than it should, gives a partial number, a
  summary of half a sweep or a wrong exit code.
- **The pool.** Jobs end in any order; the stream must not show it.
- **Partial failure.** The reader, the cache, the scan and each write may fail. Some
  errors are envelopes and the run goes on, some close the stream, some leave it open.
- **Two records of one thing.** Counters, family vectors and indices are kept beside
  the stream and must agree with it.
- **One manifest, four readers.** `validate`, `validate_fence`, `expand` and the engine's
  preflight each read it with code of their own; what one lets through another may refuse
  when RunStart is already on the stream. `miner scan` reads the same words a fifth way.
- **One parameter, three readers.** The schema a scan publishes, the parser in its `run` and
  the closure of the hygiene step each have their own idea of a parameter's name, default
  and range.
- **Bars, days, closures and windows** are four partitions of time that do not line up, and
  a calendar has a fifth: trading days that start in the evening before.
- **Levels, returns, windows and buckets** are index spaces of their own, off by one from
  each other, and the times a finding carries are looked up in yet another.

What makes each part correct:

- runner: every sub-range is answered, a SIGINT drops nothing that was emitted, the counters are those of the stream, the
  stream is framed, the outcome says what the stream shows, a coalesced scan sees all
  or nothing;
- hygiene: no number of a partial sample, every number replayable, each resample keeps what
  its method promises, prompt answer to SIGINT, the number drawn is the number reported;
- sweep: manifest order, a cut stream is a prefix, a `SweepSummary` speaks for all,
  families, q-values and totals are those of the stream;
- gap policy: no scan over a hole, no data given up, no abort without a gap;
- calendar: closed time is what the table says in the market's own time;
- scans: a number is made of the bars its label says, no window is lost or given
  twice, a bucket holds what belongs to it, a verdict rests on the past only;
- registry: what a scan declares is what its `run` does;
- manifest: the count held against `max_jobs` is the number of jobs, no job reaches the
  fence, the engine refuses no job of an accepted manifest, a job is the one that was asked for;
- process: the exit code and the two streams tell one story.

`PROJECT.json` lists the hazards one by one, at their lines, with the properties
that watch each, or the reason why none does.

## 2. Modules

| module | models | composed of |
| --- | --- | --- |
| `Envelopes` | kinds of envelopes, run outcomes, `compute_exit_code` | |
| `RunStream` | **abstract**: what a reader of stdout may rely on | `Envelopes` |
| `Engine` | the single-request runner, with the scan contract | `Envelopes`; implements `RunStream` |
| `HygieneStep` | one Result in the bootstrap and null step, with its draws | |
| `Fdr` | q-values of a family | |
| `Sweep` | the executor and its pool | `Envelopes`, `Fdr`; implements `RunStream` |
| `Calendar` | `is_open_at` and its table, beside the table's documentation | |
| `GapPolicy` | from gaps to sub-ranges | `Calendar` |
| `Requests` | layers of configuration, arguments, overrides, seeds | |
| `Manifest` | from a manifest to jobs that pass preflight | `Requests` |
| `ScanData` | what a `Scan::run` is given, keeps and writes | |
| `PairScans`, `AnomScans`, `SeasScans` | the bodies over two legs, over one series, by time | `ScanData` |
| `Catalogue` | what each registered scan says of itself | the three above |
| `StatClosures` | what the dispatch table draws again | `Catalogue` |
| `ScanRun` | `Scan::run` of every registered scan | `StatClosures` |
| `Process` | `main` around a runner | `Envelopes` |
| `ScanCommand` | `miner scan` | `Engine` + `Process` |
| `SweepCommand` | `miner sweep` | `Sweep` + `Process` |
| `EngineProofs` | theorems about the runner and `miner scan` | `ScanCommand`, TLAPS |
| `SweepProofs` | theorems about the executor, its q-values and `miner sweep` | `SweepCommand`, TLAPS |
| `HygieneProofs` | theorems about the hygiene step | `HygieneStep`, TLAPS |
| `PairProofs` | theorems about the scans over two legs | `ScanRun`, TLAPS |
| `SeriesProofs` | theorems about the scans over one series, the catalogue and the dispatch table | `PairProofs`, `Induction` |
| `Induction` | a least counterexample, an invariant of a fold, sums over finite sets | TLAPS |
| `GapPolicyProofs` | theorems about the calendar and the gap policy | `GapPolicy`, `Induction` |
| `ManifestProofs` | theorems about the manifest and its readers | `Manifest`, `Induction` |
| `MC*` | instances for TLC | |

### Granularity and abstraction

A step runs from one poll of the flag, or one write, to the next: nothing else is
shared between threads, so nothing else can interleave. A counter raised beside a
write shares the step of that write, in the order the code has when the write
fails. An envelope is its kind and what the properties need of it: in `Engine` the
set of sub-ranges it stands for, in `Sweep` the job, its place in the job's buffer
and the run id it carries. A number is what it was made of: the number of resamples and
the draw in `HygieneStep`, the bars in the scan modules. Arithmetic is kept where it decides
something: q-values are exact fractions of integer p-values, and in the scans prices are
integers on a log scale wherever a break, an episode, a fill or an outlier depends on them.

### Engine

`pc` follows the source from top to bottom: the poll at entry and preflight
(`Enter`), RunStart (`OpenRun`), dry run (`MakePlan`), gap detection per leg
(`DetectGaps`, `ReaderFails`), the dispatch (`Abort`, `Split`), the sub-range loop
with its poll (`NextSubRange`, `Load`, `CacheFails`), the coalesced path
(`NextPreload`, `Preload`, `Fuse`), the scan body (`ScanPoll`, `ScanEmit`,
`ScanReturn`), the arms of the match on its result (`HandleOk`, `HandleCancelled`,
`HandleKernel`, `HandleFatal`), the drain of the held-back Results (`Drain`), and
the ways out (`Fatal`, `Bail`, `Close`). Scan bodies are represented by their shape: 26
scans emit exactly one Result; `cointegration_rolling` one per window; `cusum_break`
one per break, perhaps none. `EarlyErrors` and `LateErrors` say which `ScanError`s a
body may return before and after its first Result; a body of one Result has nothing left
that could fail after it, and none returns `Cancelled` unless the flag is up. The runs take
every `ScanError` the trait allows: the registered scans, which fail with a kernel error
before their first Result (`AsDeclared` shows it of all of them), are a part of these.

### HygieneStep

`Begin` holds the early returns, `BootResample`/`BootScore` and `NullResample`/`NullScore`
one turn of either kernel, with its poll every `Cadence` resamples, `BootDone` and
`NullDone` what the kernel gives, `Between` the poll between the two, `AttachRepro` the
repro envelope. A kernel that sees the flag gives NaN, and the caller keeps only finite numbers.
`draw` is the resample of the turn as a sequence of indices, for one leg and for two: the
stationary chain goes on or jumps anywhere, the block bootstrap takes circular slices, the
circular shift turns by 1 to n - 1, the phase scramble permutes by rank. Which index the
generator picks is a choice; the surrogate p-value keeps its numerator and denominator,
`(1 + B) / (1 + N)`.

### Sweep and Fdr

`Enter`, `OpenRun`, `Cover`/`MakePlan` (dry run), `Expand`, then `StartJob` and
`FinishJob` for every job, on at most `Threads` threads at a time, in any order.
A job that starts with the flag set is skipped; one the flag cuts while it runs
leaves any prefix of what it would have buffered. `Join` is the end of the
parallel iterator and the sort by job index. `NextJob` and `DrainOne` are the two
polls of the drain with the counting, the scoping and the write; `GiveUp` its error
path; `Settle` the poll after it; `Summarise`, `Close`, `CloseCut` the three ends.
What a job may buffer (`Works`) is what `Engine` shows one request to leave.
`Fdr` is `bh_fdr` by ranks and a running minimum, on p-values in parts of `Scale` and q-values
that are exact quotients. `FamiliesMatch` holds a summary against the stream and against the
step-up definition: a family has one entry for each of its tested Results on the stream, the nth names the nth of
them, and at every level the hypotheses that are rejected (those up to the largest rank whose
p-value is not above its line) are exactly those whose q is not above the level.

### Calendar and GapPolicy

Time is counted in minutes, a day is `DayLength` minutes, a year `YearDays` days. `Accepts` is
`TryFrom<MarketCalendarSpec>` with its refusals, `Preset` the two built-in tables, `IsOpenAt`
the function of that name: the zone's offset, the trading date, closed dates and days of the
year, breaks, the week. `OpenAsWritten` states the same hours as the documentation of the
table does, as intervals on the days around a time. The set of open minutes a request works
on comes from the table by `IsOpenAt`; a table that does not parse refuses the request.

`DetectGaps` is `tradedesk-data`'s detector (external, as the
comments of `gap_policy.rs` and `docs/gap_policy.md` describe it: a whole-day span
for a day without a file, a one-minute span per missing minute, nothing where its own
fixed calendar says closed) followed by `intersect_gaps` for a pair. `Dispatch` is
`dispatch_at_timeframe`: `WithoutClosedTime`, `Project`, `Partition`, `DropClosed`.
`Snap` is `snap_subranges_to_timeframe`. The algorithms of the source walk sorted
vectors of spans with cursors; where the model can say the same with sets (the open
runs of a span, the bars without data) it does, and where the walk itself is the
hazard (the merge of two legs, the sweep of `dispatch`) it is a fold over the same
sequence.

### Requests and Manifest

`NotAfter` is the fence of the three layers (`build_figment`: file, environment, command
line; clap reads the same variable where the flag is missing), `ConfigFile` the choice of
the file, `Override` the flags of `miner sweep` over `[hygiene]` and the seed,
`ToScanRequest` the request of `miner scan`, `DeriveJobSeed` the parts a job seed is a
digest of. `Validate`, `ValidateFence`, `Expand` and `RunJobs` are the four readers of a manifest in
the order the executor calls them, after `Configure` and `Load`; `RunJobs` is the preflight each job meets in
`run_one_with_registry`. The nested loops of `expand` and the index counter of
`cartesian_params` are kept as sequences, because the count the first reader makes by
saturating products is compared with their length. Instants are minutes and a string that
does not parse is a value of its own. `GridCeiling`, `MaxCount` and `MaxInstant` stand for
`CARTESIAN_OUT_CEILING`, `u64::MAX` and `DateTime::MAX_UTC`. `alphaOk` is the outcome of
the range check of `[fdr].alpha`. `Sweep` keeps `pc` from `Enter` to `Expand` with these
outcomes left open.

### ScanData, PairScans, AnomScans, SeasScans, ScanRun

A bar is known by its opening time and a number of a finding by the bars it is made of, so that
what the finding says of it (a stamp, a lag, a horizon, a bucket) can be held against that set.
The three body modules hold the parameter rules, the refusals and what each kernel reads.

`PairScans`: `JoinStep` is one turn of `inner_join`'s two cursors, `Resolve` the checks of the
parameters, `PollBefore`, `RunKernel`, `PollAfter` and `EmitAll` the scans that put
everything into one Result, `FitWindow`, `FitsDone` and `EmitWindow` the rolling
cointegration, with its breakdown detector in `FitWindow`. What an Engle-Granger fit gives is a
choice from `Fits`: its p-value is one of four ranges about the two thresholds, its |beta| a
small number or NaN. `begin`, `fits`, `ever` and `history` are the locals of the rolling kernel.

`AnomScans`: the lags of `ljung_box`, `adf`, `kpss` and `arch_lm`, the horizons of
`variance_ratio` and `tsmom`, the windows of `vol`, the flags of `outliers`, the episodes of
`drawdown` and the segmentation of `cusum_break`, binary splits and all.
`SeasScans`: hours, weekdays, sessions over midnight, the days about a month's end, the groups of
`anova_kw`, event windows, and gaps with their fills. `ScanRun` is the control: `Start` the poll
at entry, `Params` the refusals, `PollRow` the loops that poll (`vol`, `eom_som`),
`RunSeries` the kernel with every way it may fail, a panic included, `WriteFound` the writes;
`PairNext` the two-leg bodies.

### Catalogue and StatClosures

`Catalogue` is the declaration of each scan as `miner scans` prints it: admitted values per
parameter, required ones, defaults, series, hygiene, coalescing. `StatClosures` is the dispatch
table of the hygiene step: the input series, the closure over it with the table's own
defaults, the tail. A closure is compared with the scan over the one draw of which the
scan's own number is known, the series as it is.

### Process, ScanCommand, SweepCommand

`Process` is `main` with the runner cut out: handler, clap, configuration, sink,
arguments, outcome, exit code. `ScanCommand` and `SweepCommand` put the runner's
own steps in the gap and share the flag, so a SIGINT may come anywhere in the life
of the process, also after the runner's last poll and before `compute_exit_code`.

### RunStream

The abstract specification: nothing at all, or one RunStart, then a plan or body
envelopes, a SweepSummary for a sweep, one RunEnd and nothing after it. A run that
returns `Ok` has closed its framing; one that returns `Err` may not have. Both
runners, and both commands, are shown to implement it (`FramingKept`, as a PROPERTY of a run
and as a theorem): the mapping takes the sequence of kinds on the stream and what was returned.

## 3. Runs

| run | states | question |
| --- | --- | --- |
| `scan_command` | 91,415 | `miner scan` from start to exit, with any implementation of the `Scan` trait and any failure: the stream (`CountersMatch`, `Accounted`, `FusedWhole`, `DroppedOnFailure`, `OutcomeMatches`, `FramingKept`), the exit code and stderr against it (`ExitCodes`), and that it ends (`Exits`) |
| `sweep_command` | 114,151 | `miner sweep` from start to exit, three jobs of every kind of work on two threads: the stream (`TotalsMatch`, `FamiliesMatch`, `OutcomeMatches`, `DrainOrder`, `PrefixOfComplete`, `SummaryComplete`, `FramingKept`), the exit code (`ExitCodes`), and `Exits` |
| `hygiene_step` | 36,112 | one Result through bootstrap and null with every draw: `WholeSample`, `Replayable`, `PromptCancel`, `Terminates` |
| `gap_policy` | 314,496 | tables of every form, gaps to sub-ranges: `NoEmptyBar`, `OnBars`, `SingleLegExact`, `ClosedAsWritten` |
| `manifest` | 906,166 | layers of configuration, flags and the four readers of a manifest: `CountExact`, `AcceptedJobsPass`, `AsAsked`, `FenceHolds` |
| `scans` | 443,961 | every registered scan: `AlignedWindows`, `EveryWindow`, `BreakdownFromThePast` over two legs; `StandsFor`, `BucketsHold`, `Episodes`, `RegimesFollow` over one; `AsDeclared` against the catalogue; `ResampledIsReported` against the dispatch table |
| `engine_results`, `sweep_rejected`, `sweep_index`, `gap_pair`, `scan_panics`, `hygiene_statistic` | | six statements of the docs or comments the code does not keep (section 6) |

The two command runs also check the type invariants. They start before the command line is
read, so that every property of a runner is checked with the SIGINTs of the process around it.

Bounds, and why they are enough:

- `MaxSub` (3): sub-ranges of a window. One failing between two that succeed
  needs three; everything the loop carries from one turn to the next is the counters.
- `MaxEmit` (2): Results of one scan body. An error after a Result and before the next
  needs two.
- `N` (3) and `Threads` (2): more jobs than threads, so that one waits while two
  overtake each other. The theorems below need none of these four bounds.
- `Resamples` 5, `Cadence` 2: polls at 0, 2 and 4, and a rest after the last one. Samples of
  one, three and four values, on one leg and on two: nothing to rotate, an odd and an even
  number, blocks that divide the sample and blocks that do not.
- `Works`, `Scale` 100: p-values of 2 and 3 hundredths, of which the lower has the higher quotient by its
  rank, NaN, and none; Results, errors, gap aborts, rejected jobs, nothing.
- `Horizon` 12, `DayLength` 4, `Timeframes` {2, 4}: three days, so that one lies between
  two others; bars that divide a day and bars that are a day, as `1h` and `1d`; windows
  on bars and off them. Calendars: always open, a closed date, a break in every bar, the
  weekends of both presets with a change of the clocks, a trading day that starts in the evening, a
  break over midnight, an empty break, a week inside the calendar week with a closed day of
  the year, a weekday and a zone that do not parse. A detector that takes an open minute for
  closed. On each day a file is missing, or minutes are: none, the first, the last, the first bar, all but one.
- `Manifests`: one block or two; axes of no value, one and two; arrays that are empty and
  values that are no array; every refusal alone and against a global hygiene block; numbers
  at the ceiling and one beyond it. `MaxCount` is small enough for products of the axes to pass it.
  `Flags`: none, a seed with numbers, methods. `Fences`: layers of files, environment and flag that agree
  and that do not, words that are no instant; a fence at the first minute, at the end of a day, inside one, past
  everything.
- Two legs (`SomeLegs`): one whole, the other lacking up to two of seven bars anywhere, or
  three; each lacking two of its own; nothing in common; an empty leg. `MinAlignedN` 4, `DefaultMaxLag`
  2, `Lookback` 3 and `MinHistory` 2 stand for 30, 20, 20 and 5: six windows of two bars make a
  history longer than the part the median takes. Windows, lags, steps and floors lie at each
  limit and on both sides of it.
- One instrument: none to nine hourly bars, frames with holes and midnights, every hour of a day
  and every weekday, months of ten days, 33, 80 and 81 bars for the defaults; for drawdowns,
  outliers, breaks and gaps every path of prices over a few values. Parameters at each limit,
  past it, and of the wrong type.

Deadlock is checked in every run: a finished system has a `Stopped` step of its own.

Fairness. `Exits` (of each command) and `Terminates` (of the hygiene step) assume weak fairness of the runner (its thread is
scheduled: every step of it is enabled until it is taken and none waits for another
thread but `Join`, which waits for the pool) and, for sweeps, of each worker (rayon
takes every job it was given). No fairness is assumed of SIGINT, and a call to the reader,
the cache or the sink is assumed to return, with a value or an error. The code has no lock
and no other wait.

## 4. What is proved

The theorems hold for every value of the constants that satisfies the named assumptions, which
TLC evaluates in the runs:

- `EngineAssumption`, `SweepAssumption`, `HygieneAssumption`: natural numbers, positive where
  the code divides; works are sequences of body envelopes; a family per job;
- `FdrAssumption`: a p-value of 1 is a positive number of parts;
- `CalendarAssumption`: a day has minutes and a year has days, the two zones of the preset calendars exist,
  and a zone is two offsets and the minute of the change from one to the other;
- `GapPolicyAssumption`: a timeframe divides a day, windows are not empty and lie in the horizon, a request has
  one leg or two, and a calendar is a table of the types of `MarketCalendarSpec`;
- `ManifestAssumption`: manifests, scan records, flags and the layers of the fence are records of their types,
  ceilings are natural numbers, `max_jobs` fits its width (it is below `MaxCount`), a day has minutes and the
  default `post` of an event window is positive;
- `CasesAssumption`, `PairAssumption`: the bars of a cache ascend; the numbers of a job over two legs are integers;
  a request over one instrument carries parameters of the types `run` parses, or is `odd`, one with a parameter
  of another type;
- `RegistryAssumption`: a job names a registered scan (any other is rejected by preflight);
- `TableAssumption`: `MIN_ALIGNED_N` (30 in the code, 4 in the runs) is no less than the four bars the dispatch
  table wants of two legs.

| module | theorems |
| --- | --- |
| `EngineProofs` | `EngineTypeOK`, `EngineCountersMatch`, `EngineAccounted`, `EngineFusedWhole`, `EngineDroppedOnFailure`, `EngineOutcomeMatches`, `EngineFraming`; of `miner scan` `ScanExitCodes`, `ScanFraming`, `ScanEnds` |
| `SweepProofs` | `SweepTypeOK`, `SweepDrainOrder`, `SweepPrefix`, `SweepSummaryComplete`, `SweepTotalsMatch`, `SweepOutcomeMatches`, `SweepFamiliesMatch`, `SweepFraming`; of `miner sweep` `SweepExitCodes`, `SweepCmdFraming`, `SweepEnds` |
| `HygieneProofs` | `HygieneWholeSample`, `HygieneReplayable`, `HygienePromptCancel`, `HygieneEnds` |
| `GapPolicyProofs` | `OpenIsAsWritten`, `PolicyInvariant`, `OnBarsHolds`, `NoEmptyBarHolds`, `SingleLegIsExact`, `ClosedIsAsWritten` |
| `ManifestProofs` | `ManifestInvariant`, `CountIsExact`, `AcceptedPass`, `FenceIsKept`, `AskedIsRun` |
| `PairProofs` | `PairAlignedWindows`, `PairEveryWindow`, `PairBreakdownFromThePast` |
| `SeriesProofs` | `SeriesInvariant`, `LabelsStandForValues`, `BucketsAreExact`, `RegimesHold`, `EpisodesHold`, `ScansAsDeclared`, `ResampledAsReported` |

**The runner.** `CountersMatch` compares the counters with the stream between sub-ranges; within one a
Result may be written and not yet counted, or held back in the buffer, or counted when its
write is still due, and an error may be on the stream with its counter to follow. `IndInv` says which, at each
`pc`: `Place` (where the cursors are), `Emission` (what the body has given), `Prelude`
(before the first sub-range), `Counted`, `ErrorsBehind` and `ResultsBehind` (by how much a
counter trails the stream), `Apart` (each sub-range is in one
pile at most), `Answers` (those passed are answered), `Delivering` (what the running `scan.run` has
emitted is held back or on the stream, and no earlier Result stands for its sub-ranges, so that the
Results over them can be counted), `FusedWhole` and `Framed`. The invariants of the runs
follow from it at the `pc`s they speak of.

**The sweep.** Whether the next envelope may be written
depends on where the cursor stands and on whether the buffers of *later* jobs are
whole, which no property of the stream says. `SweepProofs` adds

- `Cursor`: where `cur` and `fnd` may be at each `pc`;
- `PoolPhase`: the pool is untouched before the fan-out and idle from the drain on;
- `Undisturbed`: while the flag is down, a finished job's buffer is its whole work; and
  once *one* envelope is on the stream all buffers are whole for good, because the
  drain polls the flag before each write, the flag never falls, and the pool was idle
  then. This is the heart of the argument: it is why a SIGINT in the middle of the drain
  cannot expose a job it cut short;
- `DrainEnd`: the drain leaves its loop at the end of the last buffer or with the flag set;
- `OnlyPassed`, `AllPassed`: the stream holds the envelopes up to the cursor, and all of them.

The second part adds `Ledger` (the totals are those of the stream, one ahead of it when a write
failed, for the drain counts before it writes), `Bodies` and `Framed`.

**Families.** That a summary's families are those of the stream is `Followed`: each family's
vector names, in order, its tested Results on the stream, and is one ahead of it between the
scoping of an envelope and its write (`Due`); `Nth` is the bijection between places on the stream and entries.
That the q-values are the step-up procedure's is the lemma `StepUp`, about p-values alone:
for every level, a hypothesis is rejected exactly when its q is at most the level. Two facts carry it:
the last of those that tie has as many hypotheses up to it as its rank says (`LastOfTies`), so that the running
minimum meets the quotient the procedure compares with its line; and of finitely many quotients one is least
(`LeastQuotient`), which q is (`BhLeast`).

**The hygiene step.** `IndInv` is `Types`, `Kernel` (how many resamples a kernel has made),
`Sampled`, `Recorded`, `Polls` (how far the last poll lies behind) and `Drawn`. `Drawn`
rests on lemmas about remainders (`OneRemainder`, `RemainderNext`: n numbers in a row have
every remainder once) from which `BlockKeeps`, `RotationKeeps` and `ScrambleKeeps`
conclude that a circular slice, a rotation and a permutation keep what their method promises.

**The calendar.** `OpenIsAsWritten` says of each time that `IsOpenAt` and the documented intervals
agree. Both are taken to one local time; a trading day that starts in the evening belongs to
the date after it, so the interval of a day is looked for on the two days about it, and the
week's wraps are cases on the order of its two ends.

**The gap policy.** `PolicyInv` says what each list of gaps is between two steps: sorted, its spans
inside the window, whole days where the detector says so. `Sorted` lists by rank, so
that it holds every gap once in order is a matter of injections (`SortedLists`). `Merge`, `KeepOpen` and
`DropClosed` are folds; an invariant of each is proved for every step of its operator and carried
through the fold by `FoldInvariant`. The properties then follow span by span: a bar is in a
sub-range exactly when it lies in the window, touches no gap and has an open minute.

**The manifest.** `ManifestInv` is what each reader has established when the next one starts. The
count of `validate` is a saturating product of lengths; below the bound it is exact, and the jobs
are as many, because `expand`'s nested loops are a concatenation with as many blocks of as many jobs
(the prefixes of `FlattenSeq`). A job is made of a block, a slot, a timeframe, a window and a point;
what `validate_fence` found of the block's span holds of the job's (`SpanCovers`), and the
preflight asks nothing that `validate` has not asked. That an accepted job passes holds when a bar
ends at an instant there is: `PostBars` looks at the starts from which a timeframe can be counted on.

**The commands.** A runner's `IndInv` speaks of its steps only; in a process SIGINT comes also
before the runner starts and after it returned. `RunInv` is the part of it
that survives both (`Settled` and `BareCut` say what a returned scan left, `Ways` how a sweep may end),
`ProcInv` ties `main`'s own state to it, and `CleanReturn` is the one exit with code 0.

**The scans over two legs.** The properties speak of the bars both legs have and of their ranks; the
code, of indices into two columns it fills while two cursors move. `IndInv` is `Feed` (what a run is
given), `Columns` and `Merged` (how far cursors and columns agree), `Fitted` (where the
windows of the rolling fit lie) and `Written` (what is out, and when). Once a cursor is at its
end the rank of a joint bar is its index (`RankIsIndex`), so the closes from one index to another are
those of the bars between (`ClosesOfBars`, `BarsBetween`), a lag pairs the bars it names
(`LagPairs`), and the starts of the windows are the multiples of the step, all of them
(`Multiples`, `Starts`). `BreakdownFromThePast` adds `Verdicts`: what the detector carries from fit to fit
is a summary of the fits so far, and each verdict was taken from the summary before it. The median of the tail of that
history is the one the property takes by counting, because the k-th of a sorted copy is the one
value with fewer than k below it and k up to it (`SortedKth`, `OneKth`).

**The scans over one series.** A scan over one instrument computes in one step and writes its findings one
by one. `SeriesInv` says that what it has found is among what `Kernel` gives for the request and the
bars, which no step changes (`KernelStays`), that the request was accepted, and that what is
written is a first part of what was found. The six theorems are then about `Kernel` under `SeriesAccepted`.

- `LabelsStandForValues`: a column stands beside the bars, the closes from the first and the returns from
  the second (`TheColumns`), so that values some bars apart are as many places apart (`ProductsApart`,
  `SpansApart`), and each scan's numbers are cut from the column by indices.
- `BucketsAreExact`: a bucket is compared with a reference that knows no order of buckets, from the hours of a
  session over midnight (`SessionHours`) to the trading day of a month counted from either end
  (`TradingDayIs`); the windows of an event are first and last parts of the returns on its two sides (`WindowIs`).
- `RegimesHold`: `segment` is a recursion over halves of halves. It has a value (`SegmentsExist`), the
  splits it makes lie `min_segment` apart and as far from both ends (`SegmentsSpaced`), both by induction over
  the length; the regimes then tile the returns (`NeighboursAre`, `StretchIs`).
- `EpisodesHold`: after `t` values the walk over the drawdowns (`Walked`, kept by `VisitPeak` and `VisitBelow`) stands at
  the one last highest value, knows the first lowest since, the deepest fall of all pairs, and one episode for
  every dip that has come back (`Closed`). A gap is filled by the least of the bars that reach the close before it (`FillIs`), and
  the tallies add up to the gaps because their buckets part them (`PartsAddUp`).
- `ScansAsDeclared`: scan by scan, what `run` takes and the default it reads is what the declaration says;
  what it writes as raw series is the one it names; it stands in the dispatch table exactly when it
  declares hygiene, but for the two that do not. No accepted request panics (`PanicsAsSaid`): the momentum scan has three
  pairs of blocks wherever it asks for their correlation (`ThreePairs`), and the variance test runs out of degrees of
  freedom only over groups of one return each, for which the sizes of the groups are added up (`AnovaPanicsOnSingles`).
- `ResampledAsReported`: each closure over the whole sample is the scan's own number, wherever the two read
  the parameters alike.

**Implementation of `RunStream`.** `EngineFraming`, `SweepFraming`, `ScanFraming` and `SweepCmdFraming` are step
simulations: `Init` maps to the abstract `Init`, and under `IndInv` every step maps to an
abstract step or to a stutter. The lemmas `Frames` and `Outlines` reduce this to one question per
action, which kind of envelope it appends.

**No process runs for ever.** `ScanEnds` and `SweepEnds` say that every step of `miner scan` and of `miner sweep`
runs a clock down: a tuple of natural numbers that falls at its first changed hand. The hands are, the slowest
first, the place of `main`, the part of the run it is in, the sub-ranges (or the jobs not done, and of those
the jobs not taken up) to come, the place in the round of one sub-range, what is still to be emitted or drained, and the SIGINT
not yet delivered. That such clocks are well-founded is the library's lexicographic product of `<`; that the
hands stay natural numbers is `IndInv`. The second tuple needs no order among the workers: whichever takes up,
polls or finishes a job, one hand falls. `HygieneEnds` counts the steps themselves, at most
two for each resample of the bootstrap and two for each of the null, and seven more. The theorems hold for every
value of the bounds of the model (`MaxSub`, `MaxEmit`, the jobs, the threads, the resamples) and whatever fails.
They are the half of termination that is about the data; the other half, that a process
is never stuck before its end and is scheduled, stays with TLC.

Each inductive invariant and each clock was checked with TLC on a small instance before it was proved.

**Induction.** The library's induction theorems take an operator as a parameter, which the
provers used here cannot instantiate. `Induction` goes round this: the principle of the least
element is proved from the well-foundedness of `<`, with a set where the theorem of the library has a
predicate; and a fold is unrolled for the operator `Op` of the module, which a module of proofs
instantiates once for each fold of the model. A sum over a finite set is taken apart in the same way
(`TotalsExist`, `TotalsAre`, `TotalsOfParts`).

Only model-checked: liveness (`Exits`, `Terminates`). That no step is the last but the end is a statement about
ENABLED, and that an enabled step is taken is fairness; both are outside TLAPS. That there is no endless run is proved
(`ScanEnds`, `SweepEnds`, `HygieneEnds`).

## 5. What is not modelled

- `emit-fixture` and `scans`: a fixed stream and a static table; they poll nothing.
- Floating point: the value of a statistic, a p-value, an effect size
  (`core/scan/hygiene/effect_size.rs`). Where a decision hangs on a number it is an integer or a
  choice among ranges.
- The random generator and the amplitudes of the phase scramble: a draw is any draw.
- TOML, canonical JSON and BLAKE3 (taken to be injective), the JSON schema, base64, the text of
  instants: byte conversions. clap's own parsing is one outcome.
- The offsets of a time zone (`chrono_tz`), the gap detector and the bar cache (`tradedesk-data`):
  external, modelled by how the code uses them.
- A panic in a worker: rayon passes it on and the process aborts; a second SIGINT: the
  handler stores TRUE again.
- `dispatch_pair` and `effective_manifest_for_timeframe` of the gap policy: reached by tests only.
- `miner-http` and `miner-mcp` (placeholders), `miner-bench` and `xtask` (tools).

## 6. Where the code and its documents differ

Shown by a run:

- `engine_results`: `RunEnd.summary.results_emitted` is raised once per `scan.run` that
  returns Ok (`core/engine/mod.rs:640`), also when the body was cancelled before its
  Result, found no break, or streamed many.
- `sweep_rejected`: `expand` (`core/sweep/executor.rs:266`) runs after RunStart and may
  reject what `validate` let through; the stream then stays open, exit 1, where the docs
  promise an empty stdout.
- `sweep_index`: `finding_index` counts only Results with a p-value; the docs have
  readers use it as a position among all of the family's findings.
- `gap_pair`: for a pair, a missing minute that touches a missing day is joined to it,
  and the bar it lies in is lost though both legs have data in it.
- `scan_panics`: `anova_kw` accepts `min_obs_per_group = 1`; with one return in each bucket
  there are as many observations as groups, the degrees of freedom within are 0 and the
  `expect` at `core/scan/seas/anova_kw/kernel.rs:134` ends the run. Its comment takes
  N > k for granted.
- `hygiene_statistic`: the closure of `event_window` reads `event_timestamps_ms`
  (`core/engine/hygiene_dispatch.rs:1065`), the scan `event_timestamps`; every resample is 0.

Seen while modelling, without a run. The stream and the sweep:

- `core/engine/hygiene_buffering_sink.rs:42-47` says that the flag is polled between the
  scan body and the drain and that held-back Results are dropped; the engine polls
  nothing there and writes them. `Accounted` (its part `Delivered`) states what the code does:
  when the loop goes on, all that a `scan.run` emitted before it returned Ok is on the
  stream, whenever the SIGINT came.
- `docs/agent_integration.md:113` and `:201` disagree on whether a cancelled sweep has
  a RunEnd; the code writes one.
- `docs/findings_envelope.md:61` has one `run_id` per stream; in a sweep each job's
  envelopes carry the id the engine made for the job.
- The request echoed in a sweep's RunStart has `dry_run` false, also in a dry run (`core/sweep/executor.rs:568`).
- A SIGINT after the last poll gives exit 130 over a complete stream, SweepSummary included.
- `core/engine/mod.rs`, near 1339: "kernels run uninterruptibly" predates the polls inside them.

Gaps:

- With `strict`, `dispatch` aborts when any gap is in the manifest, and the whole-day span
  of a missing file reaches beyond the window. When the window touches such a day only
  in minutes the market calendar closes, the run aborts over minutes outside the window;
  `docs/gap_policy.md:27` says "when the window has a gap". The dry run then reports
  `gap_aborted` with an empty list of gaps.
- `core/engine/gap_policy.rs:430-438` still describes the projection by aligned runs that
  preceded the calendar; the body looks at bars.
- A sub-range may have no open minute left once it is snapped: `drop_closed_subranges` runs
  before the snap. The scan is then given bars with no data, where `docs/gap_policy.md`
  says such time is not a result.

Manifest, configuration, registry:

- `cartesian_params` gives no point at all above ten million of them
  (`core/sweep/job_graph.rs:453`). Its comment says the callers notice; neither `expand` nor
  `validate_fence` does. `docs/sweep_manifest.md:202` invites large `max_jobs`: with one above
  the ceiling, a block beyond it passes `validate`, skips the span checks of the fence and
  runs as zero jobs, with a complete and successful stream. `CountExact` is therefore stated
  for `max_jobs` up to the ceiling.
- A config file named with `--config` that does not exist takes the place of the others, whose
  fence is then not read (`cli/cli.rs:146`).
- A scan's `param_schema` is published and not validated (`core/scan/mod.rs:225`): a key it
  does not name is ignored although `additionalProperties` is false.
- The schema of `sessions` admits an empty list, which the scan refuses; that of kpss'
  `nlags` has no type.
- `README.md:26` and `:123` speak of 23 scans; 28 are registered.

Hygiene:

- `arch_lm` runs with 5 lags by default, its closure with 12 (`core/engine/hygiene_dispatch.rs:785`).
- The closures ignore custom `sessions` and `series = close`, which the scans read.
- `meanrev` and `cointegration_rolling` declare hygiene and are not in the dispatch
  table: they are accepted and nothing is resampled, where `core/scan/mod.rs:570-572` has the
  engine populate `Effect.ci95`. `AsDeclared` holds the table against every other declaration
  and names these two as exceptions (`NoDraws`), so no run watches over them.
- The tail of `variance_ratio` is two-sided about 0, its statistic is centred on 1.
- A null over `engle_granger` replaces the p-value of its ADF test by that of its hedge ratio.
- A surrogate whose statistic is NaN is counted as not extreme.
- `summary` of one close is not bootstrapped.
- A block bootstrap with blocks as long as the sample still draws a circular slice, against the comment beside it.

Scans:

- `core/scan/cross/cointegration_rolling/kernel.rs:239` compares a window with the exit
  threshold alone once any window was stationary; the comment above it (`:26-28`) says that
  the pair of thresholds keeps the flag from flapping about a single one. A p-value that moves
  about `adf_p_exit` raises and clears it without ever going below `adf_p_enter`.
- `core/scan/seas/event_window/kernel.rs:12-16` puts an event between two bars at the last bar at or
  before it, and one after the end at the last bar. The code (`:88`) takes the first bar at or
  after it and passes over an event past the end, as do the schema of `post_window_bars`, the fence
  check of the scan (`event_window/mod.rs:85`, `:152`) and `docs/agent_integration.md:248`.
  `BucketsHold` states what the code does, so it does not show this.
- `core/scan/anom/variance_ratio/mod.rs:191-193` calls the effect the ratio at the largest
  `k`; it is the one at the last `k` of the list as the user wrote it.
- With the default number of lags, `n / 5`, `ljung_box` refuses two to four returns with an
  error about lags that nobody asked for.
- `window` of the rolling two-leg scans is described as a number of aligned bars; it counts
  returns, and a window reads one bar more (`AlignedWindows` states it as the code has it).
- `drawdown` over returns starts its equity after the first of them, so a fall in the first bar is no drawdown.
- `vol` scales by the deviation of the whole sample, and reads no `min_periods`.
- With `series = close`, `vol` writes closes under the key `returns`, and `summary`,
  `outliers` and `jarque_bera` a key that the catalogue does not name.
- Days about the end of a month and about its start overlap when the month has fewer trading
  days than twice the cutoff; the post means of `event_window` carry no label of their event; groups
  of `anova_kw` by session overlap as the sessions do.

## 7. Plan

Done: every module of section 2.

Left, in this order:

1. `emit-fixture` and `scans` beside the two commands of `Process`, for the exit codes alone.
2. The amplitudes of the phase scramble, were a method added that promises to keep them exactly.
