---------------------------- MODULE MCScanCommand ----------------------------
(* Instances of ScanCommand for TLC. *)
EXTENDS ScanCommand

\* Any implementation of the Scan trait a caller may register.
AnyRequests == {r \in AllRequests : r.coalesce => r.legs = 2}
=============================================================================
