----------------------------- MODULE MCDashboard -----------------------------
(* Model-checking instance of DashboardProperties. *)
EXTENDS DashboardProperties

=============================================================================
