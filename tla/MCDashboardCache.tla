--------------------------- MODULE MCDashboardCache ---------------------------
(* DashboardCache on a small instance. *)
EXTENDS DashboardCache, TLC
===============================================================================
