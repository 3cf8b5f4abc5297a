------------------------- MODULE MCDashboardStream --------------------------
(* Small instances of DashboardStream for TLC. *)
EXTENDS DashboardStream, TLC

CONSTANTS ana, bo
=============================================================================
