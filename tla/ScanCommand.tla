----------------------------- MODULE ScanCommand -----------------------------
(***************************************************************************)
(* `miner scan`: the process of Process.tla with the engine of Engine.tla  *)
(* as its runner.                                                          *)
(***************************************************************************)
EXTENDS Engine

VARIABLES phase, wires, exit

Proc == INSTANCE Process
allVars == <<vars, phase, wires, exit>>

CmdInit == Proc!ProcInit /\ Init /\ ~cancel

CmdRunner == /\ phase = "run"
             /\ Runner
             /\ UNCHANGED <<phase, wires, exit>>

CmdProcess == Proc!ProcStep /\ UNCHANGED vars

CmdSignal == /\ Proc!Signal
             /\ UNCHANGED <<req, pc, stream, summary, runVars, scanVars, legsLeft, outcome>>

CmdGone == phase = "gone" /\ UNCHANGED allVars

CmdNext == CmdRunner \/ CmdProcess \/ CmdSignal \/ CmdGone

CmdSpec == CmdInit /\ [][CmdNext]_allVars

\* main and the runner are one thread, and it is scheduled; a SIGINT may never come.
CmdFairSpec == CmdSpec /\ WF_allVars(CmdRunner \/ CmdProcess)

----------------------------------------------------------------------------
\* Exit 0 promises a closed stream that accounts for every sub-range of the
\* window by a Result and shows no error ("breaks" scans may find none).
ExitZero == exit = 0 =>
  /\ wires = 0
  /\ CountOf(stream, "ScanError") = 0
  /\ CountOf(stream, "RunEnd") = 1
  /\ req.shape # "breaks" => \A i \in 1..nsub : On(i, "Result") # {}

\* Exit 2 is a closed stream with a ScanError, or argv rejected by clap, and an
\* empty stdout tells the two apart.
ExitTwo == exit = 2 =>
  \/ stream = <<>> /\ wires = 0
  \/ CountOf(stream, "ScanError") > 0 /\ CountOf(stream, "RunEnd") = 1

\* Exit 1 with a WireError on stderr means that nothing reached stdout; an exit 1
\* with a stream on stdout is a broken sink, and its stream is not closed.
ExitOne == exit = 1 =>
  IF wires = 1 THEN stream = <<>> ELSE CountOf(stream, "RunEnd") = 0

\* What a SIGINT cut short exits 130, also when it came after the last poll: a
\* sub-range that went unanswered without an error, and a Result written without the
\* resampling that was asked for, are never behind a clean exit.
CutExits130 ==
  phase = "gone" =>
    /\ outcome = "Ok" /\ req.shape # "breaks"
         /\ (\E i \in 1..nsub : On(i, "Result") = {}) => exit = 130
    /\ outcome \in {"Ok", "HadScanErrors"} /\ (\E j \in DOMAIN stream : stream[j].bare) => exit = 130

\* The exit code tells what the two streams hold.
ExitCodes == ExitZero /\ ExitTwo /\ ExitOne /\ CutExits130

\* Every process exits, whatever fails under it and whenever a SIGINT comes: the
\* runner never waits for a body that has seen the flag.
Exits == <>(phase = "gone")
=============================================================================
