--------------------------- MODULE MCSweepCommand ---------------------------
(* SweepCommand for TLC, over the works and scopes of MCSweep. *)
EXTENDS MCSweep, SweepCommand
=============================================================================
