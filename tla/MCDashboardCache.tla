-------------------------- MODULE MCDashboardCache --------------------------
(***************************************************************************)
(* Instances of DashboardCache: containers and the health summary that is  *)
(* computed from it, both invalidated by a service action, and host, which *)
(* is not.                                                                 *)
(***************************************************************************)
EXTENDS DashboardCache

MCOrder == <<"host", "containers", "health_summary">>
MCBase == [health_summary |-> "containers"]
=============================================================================
