------------------------------ MODULE MCEngine ------------------------------
(* Instances of Engine for TLC. *)
EXTENDS Engine

Request(d, l, c, h, s) ==
  [dryRun |-> d, legs |-> l, coalesce |-> c, hygiene |-> h, shape |-> s]

\* The combinations of the 28 registered scans: engle_granger alone coalesces;
\* cointegration_rolling (a pair) is the "windows" scan, its bootstrap flag is
\* set; cusum_break (single) is the "breaks" scan and supports no hygiene.
BuiltinRequests ==
       {Request(FALSE, l, FALSE, h, "one") : l \in {1, 2}, h \in BOOLEAN}
  \cup {Request(FALSE, 2, TRUE, h, "one") : h \in BOOLEAN}
  \cup {Request(FALSE, 2, FALSE, h, "windows") : h \in BOOLEAN}
  \cup {Request(FALSE, 1, FALSE, FALSE, "breaks"),
        Request(TRUE, 1, FALSE, FALSE, "one"),
        Request(TRUE, 2, TRUE, TRUE, "one")}
=============================================================================
