---------------------------- MODULE SweepCommand ----------------------------
(***************************************************************************)
(* `miner sweep`: the process of Process.tla with the executor of          *)
(* Sweep.tla as its runner.  They share the cancel flag, and the process   *)
(* reads what the executor returned.                                       *)
(***************************************************************************)
EXTENDS Sweep

VARIABLES phase, wires, exit

Proc == INSTANCE Process
allVars == <<vars, phase, wires, exit>>

CmdInit == Proc!ProcInit /\ Init /\ ~cancel

\* The runner's steps happen while main waits in run_sweep; its Interrupt is the
\* process's Signal here, which may also come before and after the call.
Runner == /\ phase = "run"
          /\ (\E j \in Jobs : Worker(j)) \/ Main
          /\ UNCHANGED <<phase, wires, exit>>

CmdProcess == Proc!ProcStep /\ UNCHANGED vars

CmdSignal == /\ Proc!Signal
             /\ UNCHANGED <<Manifest, pc, poolVars, stream, drainVars, outcome>>

CmdGone == phase = "gone" /\ UNCHANGED allVars

CmdNext == Runner \/ CmdProcess \/ CmdSignal \/ CmdGone

CmdSpec == CmdInit /\ [][CmdNext]_allVars

\* main and the executor are one thread, and it is scheduled; the pool takes up every
\* job and runs it to its end (Exits of ScanCommand); a SIGINT may never come.
CmdFairSpec == /\ CmdSpec
               /\ WF_allVars(CmdProcess)
               /\ WF_allVars(phase = "run" /\ Main /\ UNCHANGED <<phase, wires, exit>>)
               /\ \A j \in Jobs :
                    WF_allVars(phase = "run" /\ Worker(j) /\ UNCHANGED <<phase, wires, exit>>)

----------------------------------------------------------------------------
Ended == phase = "gone"

\* Exit 0 promises the whole of what was asked for: a closed stream with the
\* sweep's every finding and its SweepSummary, or a plan with the coverage of every
\* job; and no error in it.
ExitZero == exit = 0 =>
  /\ ~Has("ScanError") /\ wires = 0
  /\ Has("RunEnd")
  /\ IF dryRun THEN Has("DryRun") /\ covered = Jobs
     ELSE /\ Has("SweepSummary")
          /\ \A j \in Jobs : \A i \in DOMAIN work[j] : OnStream(Expected(j, i))

\* Exit 2 is a whole sweep with a ScanError in it, or argv rejected by clap, and
\* an empty stdout tells the two apart.
ExitTwo == exit = 2 =>
  \/ stream = <<>> /\ wires = 0
  \/ Has("ScanError") /\ Has("SweepSummary") /\ Has("RunEnd")

\* A SIGINT that is in before main routes the exit code gives 130, whatever the
\* runner made of it: never an incomplete sweep with exit 0 or 2.
CutExits130 ==
  Ended /\ outcome = "Ok" /\ ~dryRun /\ ~Has("SweepSummary") => exit = 130

\* The exit code tells what the two streams hold.
ExitCodes == ExitZero /\ ExitTwo /\ CutExits130

\* Every process exits: no order of jobs, SIGINT and failures leaves it waiting.
Exits == <>Ended
=============================================================================
