------------------------- MODULE MCTraceCoordinator -------------------------
(* Instances of TraceCoordinator for TLC. *)
EXTENDS TraceCoordinator

CONSTANTS m1, m2, m3, m4
=============================================================================
