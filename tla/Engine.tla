------------------------------- MODULE Engine -------------------------------
(***************************************************************************)
(* engine::run_one_with_registry, the runner of one scan request, with     *)
(* dispatch_pair_arity_body and dispatch_pair_unit, the HygieneBufferingSink *)
(* and the Scan::run contract of the registered scans.                     *)
(*                                                                         *)
(* The runner is one thread.  What interleaves with it is the SIGINT       *)
(* handler, which sets the shared cancel flag at any moment; the runner,   *)
(* the scan bodies and the resampling kernels only read the flag at their  *)
(* poll sites.  What fails under it is the reader (gap detection), the bar *)
(* cache, the scan body and every write to the sink.                       *)
(*                                                                         *)
(* A step runs from one poll of the flag or one write to the next.  A      *)
(* counter updated beside a write shares the step of that write.           *)
(***************************************************************************)
EXTENDS Envelopes, Sequences

CONSTANTS
  Requests,     \* the requests the runner may be given
  MaxSub,       \* bound: sub-ranges the gap policy splits a window into
  MaxEmit,      \* bound: Results one scan.run emits
  EarlyErrors,  \* what scan.run may return before its first Result
  LateErrors    \* what scan.run may return after a Result that is not its only one

ScanErrors == {"Cancelled", "Kernel", "Io", "Miner"}
Shapes == {"one",        \* exactly one Result: 26 of the 28 scans
           "windows",    \* one Result per window: cross cointegration_rolling
           "breaks"}     \* one Result per break, perhaps none: anom cusum_break

AllRequests == [dryRun   : BOOLEAN,
                legs     : {1, 2},        \* Scan::arity
                coalesce : BOOLEAN,       \* Scan::coalesce_subranges
                hygiene  : BOOLEAN,       \* bootstrap_method or null_method is set
                shape    : Shapes]

ASSUME EngineAssumption ==
  /\ Requests \subseteq AllRequests
  /\ \A r \in Requests : r.coalesce => r.legs = 2
  /\ MaxSub \in Nat /\ MaxEmit \in Nat \ {0}
  /\ EarlyErrors \subseteq ScanErrors
  /\ LateErrors \subseteq ScanErrors

VARIABLES
  req,       \* the request
  cancel,    \* Arc<AtomicBool>, set by the SIGINT handler
  pc,        \* where the runner is
  stream,    \* the envelopes on the sink: kind and the sub-ranges they stand for
  summary,   \* RunSummary
  nsub,      \* how many sub-ranges the dispatch returned
  sub,       \* the sub-range the loop is at
  loaded,    \* coalesce: the frames preloaded so far
  unit,      \* the sub-ranges the running scan.run covers
  emitted,   \* Results this scan.run has emitted
  buffered,  \* of these, the ones HygieneBufferingSink holds
  scanRes,   \* what scan.run returned
  legsLeft,  \* legs whose gaps are still to be detected
  outcome    \* what run_one_with_registry returned

runVars  == <<nsub, sub, loaded>>
scanVars == <<unit, emitted, buffered, scanRes>>
vars == <<req, cancel, pc, stream, summary, runVars, scanVars, legsLeft, outcome>>

Pcs == {"enter", "open", "plan", "detect", "dispatch", "loop", "load", "preload",
        "preloading", "fuse", "scan", "emit", "handle", "drain", "fatal", "bail",
        "close", "done"}

\* bare: hygiene was asked for, and the Result goes out without its numbers.
Envelope(k, span) == [kind |-> k, span |-> span, bare |-> FALSE]
Coalescing == req.coalesce /\ nsub > 1

Init == /\ req \in Requests
        /\ cancel \in BOOLEAN
        /\ pc = "enter"
        /\ stream = <<>>
        /\ summary = [results |-> 0, errors |-> 0, gaps |-> 0]
        /\ nsub = 0 /\ sub = 0 /\ loaded = 0
        /\ unit = {} /\ emitted = 0 /\ buffered = 0 /\ scanRes = "none"
        /\ legsLeft = req.legs
        /\ outcome = "none"

----------------------------------------------------------------------------
(* Steps shared by the actions below. *)

Goto(next) == pc' = next /\ UNCHANGED outcome
Finish(result) == pc' = "done" /\ outcome' = result

\* sink.write_envelope(..)? : the envelope is on the stream, or the error
\* leaves the runner at once, with nothing written after it.
Written(k, span) == stream' = Append(stream, Envelope(k, span))
WriteFails == /\ Finish("SinkError")
              /\ UNCHANGED <<stream, summary>>

Count(field) == summary' = [summary EXCEPT ![field] = @ + 1]

Quiet == UNCHANGED <<stream, summary>>
BeginScan(span) == /\ unit' = span
                   /\ emitted' = 0 /\ buffered' = 0
                   /\ scanRes' = "none"

\* On to the next sub-range; the one unit of a coalesced run is the last.
Advance == IF Coalescing THEN Goto("close") /\ UNCHANGED sub
                         ELSE Goto("loop") /\ sub' = sub + 1

----------------------------------------------------------------------------
(* SIGINT: the handler stores TRUE; nothing ever stores FALSE. *)

Interrupt == /\ pc # "done" /\ ~cancel
             /\ cancel' = TRUE
             /\ UNCHANGED <<req, pc, stream, summary, runVars, scanVars, legsLeft, outcome>>

----------------------------------------------------------------------------
(* Entry, preflight and framing. *)

\* The poll at entry, then the four preflight checks, which write nothing.
Enter == /\ pc = "enter"
         /\ \/ cancel /\ Finish("Ok")
            \/ ~cancel /\ Goto("open")
            \/ ~cancel /\ Finish("Preflight")
         /\ Quiet
         /\ UNCHANGED <<req, cancel, runVars, scanVars, legsLeft>>

\* Mutant of OpenRun: a check that belongs to preflight comes after RunStart.
OpenThenReject == /\ pc = "open"
                  /\ Written("RunStart", {})
                  /\ Goto(IF req.dryRun THEN "plan" ELSE "detect") \/ Finish("Preflight")
                  /\ UNCHANGED <<req, cancel, summary, runVars, scanVars, legsLeft>>

OpenRun == /\ pc = "open"
           /\ \/ /\ Written("RunStart", {})
                 /\ Goto(IF req.dryRun THEN "plan" ELSE "detect")
                 /\ UNCHANGED summary
              \/ WriteFails
           /\ UNCHANGED <<req, cancel, runVars, scanVars, legsLeft>>

\* The dry run: one DryRun envelope, then straight to the framing-close.
MakePlan == /\ pc = "plan"
            /\ \/ /\ Written("DryRun", {})
                  /\ Goto("close")
                  /\ UNCHANGED summary
               \/ WriteFails
            /\ UNCHANGED <<req, cancel, runVars, scanVars, legsLeft>>

----------------------------------------------------------------------------
(* Gap detection of each leg, and what the gap policy makes of it. *)

DetectGaps == /\ pc = "detect"
              /\ legsLeft' = legsLeft - 1
              /\ Goto(IF legsLeft > 1 THEN "detect" ELSE "dispatch")
              /\ Quiet
              /\ UNCHANGED <<req, cancel, runVars, scanVars>>

ReaderFails == /\ pc = "detect"
               /\ Goto("fatal")
               /\ Quiet
               /\ UNCHANGED <<req, cancel, runVars, scanVars, legsLeft>>

Abort == /\ pc = "dispatch"
         /\ \/ /\ Written("GapAborted", {})
               /\ Count("gaps")
               /\ Goto("close")
            \/ WriteFails
         /\ UNCHANGED <<req, cancel, runVars, scanVars, legsLeft>>

\* Mutant of Split: sub-ranges counted from 0.
SplitFromZero == /\ pc = "dispatch"
                 /\ nsub' \in 0..MaxSub
                 /\ sub' = 0
                 /\ Goto(IF req.coalesce /\ nsub' > 1 THEN "preload" ELSE "loop")
                 /\ Quiet
                 /\ UNCHANGED <<req, cancel, loaded, scanVars, legsLeft>>

Split == /\ pc = "dispatch"
         /\ nsub' \in 0..MaxSub
         /\ sub' = 1
         /\ Goto(IF req.coalesce /\ nsub' > 1 THEN "preload" ELSE "loop")
         /\ Quiet
         /\ UNCHANGED <<req, cancel, loaded, scanVars, legsLeft>>

----------------------------------------------------------------------------
(* The loop that loads and scans one sub-range after another. *)

NextSubRange == /\ pc = "loop"
                /\ IF sub > nsub \/ cancel
                   THEN Goto("close") /\ UNCHANGED unit
                   ELSE Goto("load") /\ unit' = {sub}
                /\ Quiet
                /\ UNCHANGED <<req, cancel, runVars, emitted, buffered, scanRes, legsLeft>>

Load == /\ pc = "load"
        /\ Goto("scan") /\ BeginScan(unit)
        /\ Quiet
        /\ UNCHANGED <<req, cancel, runVars, legsLeft>>

\* Mutant of CacheFails: the preload loop skips the sub-range and goes on.
PreloadSkips == \/ /\ pc = "load"
                   /\ Goto("fatal") /\ Quiet
                   /\ UNCHANGED <<req, cancel, runVars, scanVars, legsLeft>>
                \/ /\ pc = "preloading"
                   /\ sub' = sub + 1
                   /\ Goto("preload") /\ Quiet
                   /\ UNCHANGED <<req, cancel, nsub, loaded, scanVars, legsLeft>>

CacheFails == /\ pc \in {"load", "preloading"}
              /\ Goto("fatal")
              /\ Quiet
              /\ UNCHANGED <<req, cancel, runVars, scanVars, legsLeft>>

(* The coalesced run: every frame first, then one scan over their union. *)

NextPreload == /\ pc = "preload"
               /\ IF sub > nsub \/ cancel
                  THEN Goto("fuse") /\ UNCHANGED unit
                  ELSE Goto("preloading") /\ unit' = {sub}
               /\ Quiet
               /\ UNCHANGED <<req, cancel, runVars, emitted, buffered, scanRes, legsLeft>>

Preload == /\ pc = "preloading"
           /\ loaded' = loaded + 1
           /\ sub' = sub + 1
           /\ Goto("preload")
           /\ Quiet
           /\ UNCHANGED <<req, cancel, nsub, scanVars, legsLeft>>

Fuse == /\ pc = "fuse"
        /\ IF loaded > 0 /\ ~cancel
           THEN Goto("scan") /\ BeginScan(1..loaded)
           ELSE Goto("close") /\ UNCHANGED scanVars
        /\ Quiet
        /\ UNCHANGED <<req, cancel, runVars, legsLeft>>

----------------------------------------------------------------------------
(* Scan::run.  Every registered scan polls the flag on entry and a         *)
(* "windows" scan before each window; a set flag ends it with Ok(()).      *)

EmitLimit == IF req.shape = "one" THEN 1 ELSE MaxEmit

\* Mutant of ScanPoll: a body that sees the flag waits for the runner to stop it,
\* and the runner waits for the body.
ScanWaits == /\ pc = "scan"
             /\ IF cancel
                THEN UNCHANGED <<pc, outcome>>
                ELSE emitted < EmitLimit /\ Goto("emit")
             /\ Quiet
             /\ UNCHANGED <<req, cancel, runVars, scanVars, legsLeft>>

ScanPoll == /\ pc = "scan"
            /\ IF cancel
               THEN Goto("handle") /\ scanRes' = "Ok"
               ELSE emitted < EmitLimit /\ Goto("emit") /\ UNCHANGED scanRes
            /\ Quiet
            /\ UNCHANGED <<req, cancel, runVars, unit, emitted, buffered, legsLeft>>

\* HygieneBufferingSink.write_envelope: a Result is held back while hygiene is
\* active and passed to the run's sink otherwise.  A write that fails inside
\* the scan comes back as ScanError::Miner.
ScanEmit ==
  /\ pc = "emit" /\ emitted < EmitLimit
  /\ \/ /\ emitted' = emitted + 1
        /\ Goto(IF req.shape = "windows" THEN "scan" ELSE "emit")
        /\ IF req.hygiene
           THEN buffered' = buffered + 1 /\ UNCHANGED stream
           ELSE Written("Result", unit) /\ UNCHANGED buffered
        /\ UNCHANGED scanRes
     \/ /\ ~req.hygiene
        /\ scanRes' = "Miner" /\ Goto("handle")
        /\ UNCHANGED <<stream, emitted, buffered>>
  /\ UNCHANGED <<req, cancel, summary, runVars, unit, legsLeft>>

ScanDone == \/ req.shape = "one" /\ pc = "emit" /\ emitted = 1
            \/ req.shape = "windows" /\ pc = "scan" /\ emitted > 0
            \/ req.shape = "breaks" /\ pc = "emit"

\* A body that emits one Result has nothing left to fail; Cancelled answers the flag.
ScanReturn == /\ \/ ScanDone /\ scanRes' = "Ok"
                 \/ pc = "emit" /\ emitted = 0 /\ scanRes' \in EarlyErrors
                 \/ pc = "emit" /\ emitted > 0 /\ req.shape # "one" /\ scanRes' \in LateErrors
              /\ scanRes' = "Cancelled" => cancel
              /\ Goto("handle")
              /\ Quiet
              /\ UNCHANGED <<req, cancel, runVars, unit, emitted, buffered, legsLeft>>

----------------------------------------------------------------------------
(* What the runner makes of the return value. *)

\* Results already streamed are counted here, once per scan.run.
HandleOk == /\ pc = "handle" /\ scanRes = "Ok"
            /\ IF req.hygiene
               THEN Goto("drain") /\ UNCHANGED <<sub, summary>>
               ELSE Count("results") /\ Advance
            /\ UNCHANGED <<req, cancel, stream, nsub, loaded, scanVars, legsLeft>>

HandleCancelled == /\ pc = "handle" /\ scanRes = "Cancelled"
                   /\ Goto("close")
                   /\ Quiet
                   /\ UNCHANGED <<req, cancel, runVars, scanVars, legsLeft>>

\* Mutants of HandleKernel: the error is not counted; the loop is left instead of
\* continued; the held-back Results are drained as after Ok.
KernelUncounted == /\ pc = "handle" /\ scanRes = "Kernel"
                   /\ Written("ScanError", unit) /\ Advance
                   /\ UNCHANGED <<req, cancel, summary, nsub, loaded, scanVars, legsLeft>>
KernelBreaks == /\ pc = "handle" /\ scanRes = "Kernel"
                /\ Written("ScanError", unit) /\ Count("errors") /\ Goto("close")
                /\ UNCHANGED <<req, cancel, runVars, scanVars, legsLeft>>
KernelDrains == /\ pc = "handle" /\ scanRes = "Kernel"
                /\ Written("ScanError", unit) /\ Count("errors") /\ Goto("drain")
                /\ UNCHANGED <<req, cancel, runVars, scanVars, legsLeft>>

HandleKernel == /\ pc = "handle" /\ scanRes = "Kernel"
                /\ \/ /\ Written("ScanError", unit)
                      /\ Count("errors")
                      /\ Advance
                   \/ WriteFails /\ UNCHANGED sub
                /\ UNCHANGED <<req, cancel, nsub, loaded, scanVars, legsLeft>>

HandleFatal == /\ pc = "handle" /\ scanRes \in {"Io", "Miner"}
               /\ Goto("fatal")
               /\ Quiet
               /\ UNCHANGED <<req, cancel, runVars, scanVars, legsLeft>>

\* Mutant of Drain: the flag is polled before each held-back Result, as the drain of a
\* sweep does, and what is left of them is dropped.
DrainPolls == /\ pc = "drain"
              /\ IF buffered = 0 \/ cancel
                 THEN Advance /\ Quiet /\ UNCHANGED buffered
                 ELSE /\ Written("Result", unit) /\ Count("results")
                      /\ buffered' = buffered - 1
                      /\ UNCHANGED <<pc, outcome, sub>>
              /\ UNCHANGED <<req, cancel, nsub, loaded, unit, emitted, scanRes, legsLeft>>

\* Hygiene: mutate one held-back Result, write it, count it.  The mutation polls the
\* flag (HygieneStep) and gives the Result back as it is when it is set.
Drain == /\ pc = "drain"
         /\ IF buffered = 0
            THEN Advance /\ Quiet /\ UNCHANGED buffered
            ELSE \/ /\ stream' = Append(stream, [Envelope("Result", unit) EXCEPT !.bare = cancel])
                    /\ Count("results")
                    /\ buffered' = buffered - 1
                    /\ UNCHANGED <<pc, outcome, sub>>
                 \/ WriteFails /\ UNCHANGED <<buffered, sub>>
         /\ UNCHANGED <<req, cancel, nsub, loaded, unit, emitted, scanRes, legsLeft>>

----------------------------------------------------------------------------
(* The ends of a run. *)

\* Mutant of Fatal: the early return before RunEnd.
FatalReturns == /\ pc = "fatal"
                /\ Written("ScanError", unit) /\ Count("errors")
                /\ Finish("HadScanErrors")
                /\ UNCHANGED <<req, cancel, runVars, scanVars, legsLeft>>

\* Reader, cache, Io and Miner failures: ScanError, then RunEnd.
Fatal == /\ pc = "fatal"
         /\ \/ /\ Written("ScanError", unit)
               /\ Count("errors")
               /\ Goto("bail")
            \/ WriteFails
         /\ UNCHANGED <<req, cancel, runVars, scanVars, legsLeft>>

\* Mutant of Bail: the early return says Ok.
BailOk == /\ pc = "bail"
          /\ Written("RunEnd", {}) /\ Finish("Ok")
          /\ UNCHANGED <<req, cancel, summary, runVars, scanVars, legsLeft>>

Bail == /\ pc = "bail"
        /\ \/ /\ Written("RunEnd", {})
              /\ Finish("HadScanErrors")
              /\ UNCHANGED summary
           \/ WriteFails
        /\ UNCHANGED <<req, cancel, runVars, scanVars, legsLeft>>

\* Mutant of Close: the scan errors of the loop are forgotten.
CloseOk == /\ pc = "close"
           /\ Written("RunEnd", {}) /\ Finish("Ok")
           /\ UNCHANGED <<req, cancel, summary, runVars, scanVars, legsLeft>>

Close == /\ pc = "close"
         /\ \/ /\ Written("RunEnd", {})
               /\ Finish(IF summary.errors > 0 THEN "HadScanErrors" ELSE "Ok")
               /\ UNCHANGED summary
            \/ WriteFails
         /\ UNCHANGED <<req, cancel, runVars, scanVars, legsLeft>>

----------------------------------------------------------------------------

Runner == \/ Enter \/ OpenRun \/ MakePlan
          \/ DetectGaps \/ ReaderFails \/ Abort \/ Split
          \/ NextSubRange \/ Load \/ CacheFails \/ NextPreload \/ Preload \/ Fuse
          \/ ScanPoll \/ ScanEmit \/ ScanReturn
          \/ HandleOk \/ HandleCancelled \/ HandleKernel \/ HandleFatal \/ Drain
          \/ Fatal \/ Bail \/ Close

\* The run has returned to its caller.
Stopped == pc = "done" /\ UNCHANGED vars

Next == Interrupt \/ Runner \/ Stopped

Spec == Init /\ [][Next]_vars

----------------------------------------------------------------------------
(* Properties. *)

TypeOK ==
  /\ req \in Requests
  /\ cancel \in BOOLEAN
  /\ pc \in Pcs
  /\ stream \in Seq([kind : Kinds, span : SUBSET (1..MaxSub), bare : BOOLEAN])
  /\ summary \in [results : Nat, errors : Nat, gaps : Nat]
  /\ nsub \in 0..MaxSub
  /\ sub \in 0..(MaxSub + 1)
  /\ loaded \in 0..MaxSub
  /\ unit \in SUBSET (1..MaxSub)
  /\ emitted \in 0..MaxEmit /\ buffered \in 0..MaxEmit
  /\ scanRes \in ScanErrors \cup {"none", "Ok"}
  /\ legsLeft \in 0..2
  /\ outcome \in RunOutcomes \cup {"none"}

\* The envelopes of kind k that stand for sub-range i.
On(i, k) == {j \in DOMAIN stream : stream[j].kind = k /\ i \in stream[j].span}
Returned == pc = "done" /\ outcome \in {"Ok", "HadScanErrors"}

\* RunEnd.summary against the stream it closes: errors and gap aborts on every
\* path, Results wherever the runner counts them one by one (hygiene) or the
\* scan's shape makes one scan.run one Result and nothing cut it short.
CountersMatch ==
  Returned =>
    /\ summary.errors = CountOf(stream, "ScanError")
    /\ summary.gaps = CountOf(stream, "GapAborted")
    /\ req.hygiene \/ (req.shape = "one" /\ ~cancel) =>
         summary.results = CountOf(stream, "Result")

\* A run that was not cancelled reaches its framing-close with a Result or a
\* ScanError for every sub-range of the dispatch, so one kernel error does not
\* silence the sub-ranges after it.
NoneSilenced ==
  pc = "close" /\ ~cancel /\ req.shape # "breaks" =>
    \A i \in 1..nsub : On(i, "Result") \cup On(i, "ScanError") # {}

\* When the loop goes on or ends, cancelled or not, everything the last scan.run
\* emitted before it returned Ok is on the stream: a SIGINT between the body and
\* the drain, or among the writes of the drain, drops no held-back Result and
\* leaves no part of them.  (The module comment of HygieneBufferingSink has them
\* dropped all together by a poll of the engine; there is no such poll.)
OfUnit == {j \in DOMAIN stream : stream[j].kind = "Result" /\ stream[j].span = unit}
Delivered ==
  pc \in {"loop", "close"} /\ scanRes = "Ok" => Cardinality(OfUnit) = emitted

\* No sub-range is lost, by an error nor by a SIGINT.
Accounted == NoneSilenced /\ Delivered

\* A coalesced scan sees the whole sample or does not run: no Result stands for
\* a part of the sub-ranges, whatever fails or is cancelled while preloading.
FusedWhole ==
  Coalescing => \A j \in DOMAIN stream :
                  stream[j].kind = "Result" => stream[j].span = 1..nsub

\* With hygiene active a scan.run that fails leaves no Result behind, even when
\* it had emitted some before it failed: the held-back ones are dropped.
DroppedOnFailure ==
  req.hygiene => \A i \in 1..nsub : On(i, "Result") = {} \/ On(i, "ScanError") = {}

\* HadScanErrors (exit code 2) is returned exactly when the reader of the stream
\* saw a ScanError: no early return loses or invents one.
OutcomeMatches ==
  Returned => (outcome = "HadScanErrors" <=> CountOf(stream, "ScanError") > 0)

\* The framing contract of the stream.
Framing == INSTANCE RunStream WITH
             Sweeping <- FALSE,
             out <- KindsOf(stream),
             fate <- CASE outcome = "none" -> "running"
                       [] outcome \in {"Ok", "HadScanErrors"} -> "returned"
                       [] OTHER -> "failed"
FramingKept == Framing!Spec

\* The comment in run_one_with_registry: "one Result per scan.run Ok per
\* sub-range", so that RunSummary.results_emitted counts the stream's Results.
ResultsMatchStream ==
  Returned => summary.results = CountOf(stream, "Result")
=============================================================================
