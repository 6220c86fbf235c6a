------------------------------- MODULE Process -------------------------------
(***************************************************************************)
(* The `miner` process around a runner (miner-cli/src/main.rs): install    *)
(* the SIGINT handler, parse argv, resolve the configuration, open the     *)
(* sink, turn the arguments into a request, call the runner and make an    *)
(* exit code of what it returned.  The runner's own steps are those of     *)
(* Engine (`miner scan`) or Sweep (`miner sweep`); ScanCommand and         *)
(* SweepCommand put the two together.                                      *)
(***************************************************************************)
EXTENDS Envelopes

VARIABLES
  phase,    \* where main is
  wires,    \* WireErrors written to stderr
  exit,     \* the exit code, or Running
  cancel,   \* the flag shared with the runner
  outcome   \* what the runner returned, "none" before

procVars == <<phase, wires, exit>>

Running == 999      \* no exit code yet

ProcInit == phase = "start" /\ wires = 0 /\ exit = Running

Leave(code) == phase' = "gone" /\ exit' = code
Become(next) == phase' = next /\ UNCHANGED exit

\* ctrlc::set_handler comes first; a SIGINT before it ends the process.
Install == /\ phase = "start"
           /\ \/ Become("parse")
              \/ Leave(130)
           /\ UNCHANGED wires

Signal == /\ phase \notin {"start", "gone"} /\ ~cancel
          /\ cancel' = TRUE
          /\ UNCHANGED procVars

\* clap exits 2 by itself.
Parse == /\ phase = "parse"
         /\ Become("config") \/ Leave(2)
         /\ UNCHANGED wires

\* A configuration that does not resolve: a WireError and exit(1), whatever the
\* flag says.
Configure == /\ phase = "config"
             /\ \/ Become("sink") /\ UNCHANGED wires
                \/ Leave(1) /\ wires' = wires + 1

\* make_sink(..)? : anyhow's exit 1, without a WireError.
OpenSink == /\ phase = "sink"
            /\ Become("args") \/ Leave(1)
            /\ UNCHANGED wires

\* to_scan_request, to_manifest: their WireError leads to the exit-code router.
TakeArgs == /\ phase = "args"
            /\ \/ Become("run") /\ UNCHANGED wires
               \/ Become("exit") /\ wires' = wires + 1

\* The runner has returned; a preflight rejection is reported on stderr, every
\* other Err only logged.
TakeOutcome == /\ phase = "run" /\ outcome # "none"
               /\ Become("exit")
               /\ wires' = IF outcome = "Preflight" THEN wires + 1 ELSE wires

\* compute_exit_code reads the flag once more.  Rejected arguments are
\* PreflightFailed, as the runner's own rejection is.
Result == IF outcome = "none" THEN "Preflight" ELSE outcome

Exit == /\ phase = "exit"
        /\ Leave(ComputeExitCode(cancel, Result))
        /\ UNCHANGED wires

ProcStep == Install \/ Parse \/ Configure \/ OpenSink \/ TakeArgs \/ TakeOutcome \/ Exit
=============================================================================
