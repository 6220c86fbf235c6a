------------------------------ MODULE Envelopes ------------------------------
(***************************************************************************)
(* The vocabulary of the JSONL stream the miner writes: the variants of    *)
(* the `Finding` enum, what a run returns, and the exit code the CLI makes *)
(* of it.  The payloads (numbers, slices, provenance) are not modelled     *)
(* here; a module that needs one adds a field to its own records.          *)
(***************************************************************************)
EXTENDS Naturals, Sequences, FiniteSets

\* findings/mod.rs, enum Finding.
Kinds == {"RunStart", "Result", "ScanError", "GapAborted",
          "DryRun", "SweepSummary", "RunEnd"}

\* The three variants that carry the seven locked envelope fields: what a
\* unit of work leaves on the stream.
BodyKinds == {"Result", "ScanError", "GapAborted"}

\* The kinds of a stream of records with a field "kind".
KindsOf(s) == [i \in DOMAIN s |-> s[i].kind]

\* How many envelopes of kind k a stream holds: what a consumer counts.
CountOf(s, k) == Cardinality({i \in DOMAIN s : s[i].kind = k})

\* engine::RunOutcome, and the Err(_) values the callers tell apart.
\* "SinkError" is every MinerError a failed write raises.
RunOutcomes == {"Ok", "HadScanErrors", "Preflight", "SinkError"}

\* Mutant of ComputeExitCode: the outcome wins over the flag.
ExitCodeByOutcome(cancelled, outcome) ==
  CASE outcome = "Ok"            -> 0
    [] outcome = "HadScanErrors" -> 2
    [] OTHER                     -> IF cancelled THEN 130 ELSE 1

\* main.rs, compute_exit_code: cancellation wins over every outcome, and
\* every Err reaches it as RunOutcome::PreflightFailed.
ComputeExitCode(cancelled, outcome) ==
  IF cancelled THEN 130
  ELSE CASE outcome = "Ok"            -> 0
         [] outcome = "HadScanErrors" -> 2
         [] OTHER                     -> 1
=============================================================================
