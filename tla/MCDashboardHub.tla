--------------------------- MODULE MCDashboardHub ---------------------------
(***************************************************************************)
(* Instances of DashboardHub for TLC.                                      *)
(***************************************************************************)
EXTENDS DashboardHub
=============================================================================
