---------------------------- MODULE MCHostVpnSync ----------------------------
(***************************************************************************)
(* Instances of HostVpnSync: three link parts, three sets of peers.        *)
(***************************************************************************)
EXTENDS HostVpnSync

CONSTANTS l1, l2, l3, p1, p2, p3
=============================================================================
