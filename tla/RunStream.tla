------------------------------ MODULE RunStream ------------------------------
(***************************************************************************)
(* What `miner scan` and `miner sweep` promise the reader of their stream, *)
(* as docs/findings_envelope.md words it and as the two runners provide    *)
(* it: nothing at all (cancelled at entry, preflight rejection), or one    *)
(* RunStart, then either a plan (DryRun) or body envelopes, a SweepSummary *)
(* for a sweep that was not cut short, and one RunEnd.  A run that returns *)
(* Ok(_) has closed its framing; one that returns Err(_) may not have.     *)
(***************************************************************************)
EXTENDS Envelopes

CONSTANT Sweeping      \* TRUE for a sweep: it closes with a SweepSummary

VARIABLES out,         \* the kinds written so far
          fate         \* "running", "returned" (Ok) or "failed" (Err)

vars == <<out, fate>>

Last == out[Len(out)]
Write(k) == /\ fate = "running"
            /\ out' = Append(out, k)
            /\ UNCHANGED fate
InBody == out # <<>> /\ Last \in BodyKinds \cup {"RunStart"}

Init == out = <<>> /\ fate = "running"

Open      == out = <<>> /\ Write("RunStart")
Body(k)   == InBody /\ Write(k)
Plan      == out = <<"RunStart">> /\ Write("DryRun")
Summarise == Sweeping /\ InBody /\ Write("SweepSummary")

\* RunEnd is the last thing a run writes, and it has one.
Close == /\ fate = "running" /\ out # <<>>
         /\ out' = Append(out, "RunEnd")
         /\ fate' \in {"returned", "failed"}

\* Cancelled at entry: Ok, and the stream is empty.
Leave == /\ fate = "running" /\ out = <<>>
         /\ fate' = "returned"
         /\ UNCHANGED out

Fail == /\ fate = "running"
        /\ fate' = "failed"
        /\ UNCHANGED out

Next == \/ Open
        \/ \E k \in BodyKinds : Body(k)
        \/ Plan
        \/ Summarise
        \/ Close
        \/ Leave
        \/ Fail

Spec == Init /\ [][Next]_vars
=============================================================================
