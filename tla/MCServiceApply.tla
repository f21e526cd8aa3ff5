--------------------------- MODULE MCServiceApply ---------------------------
(***************************************************************************)
(* Instances of ServiceApply: xray stands for the Docker services and      *)
(* wireguard for the host VPNs.                                            *)
(***************************************************************************)
EXTENDS ServiceApply, TLC

CONSTANTS xray, wireguard, t1, t2

Both == <<xray, wireguard>>
OnlyXray == <<xray>>
OnlyShared == t1 :> {"change", "reconcile"}
AllAndActions == t1 :> AllOperations @@ t2 :> {"enable", "disable"}
=============================================================================
