------------------------------- MODULE MCSweep -------------------------------
(* Instances of Sweep for TLC. *)
EXTENDS Sweep

Unit(k, p, s) == [kind |-> k, p |-> p, synth |-> s]

Result(p) == Unit("Result", p, FALSE)
Error     == Unit("ScanError", Absent, FALSE)
Gap       == Unit("GapAborted", Absent, FALSE)
Rejected  == Unit("ScanError", Absent, TRUE)

\* What Engine shows one request to leave: Results of two sub-ranges, one of them
\* failing, a gap abort, a rejected request, and nothing at all.  Of 2 and 3 the lower
\* p-value has the higher quotient by its rank.
AllWorks == {<<>>,
             <<Result(2)>>,
             <<Result(NaN), Result(3)>>,
             <<Result(Absent), Error>>,
             <<Gap>>,
             <<Rejected>>}

\* Jobs 1 and 3 run the same scan, job 2 another.
TwoFamilies == [j \in Jobs |-> IF j = 2 THEN "b" ELSE "a"]
OneFamily   == [j \in Jobs |-> "all"]
=============================================================================
