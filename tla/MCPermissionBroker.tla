-------------------------- MODULE MCPermissionBroker --------------------------
(***************************************************************************)
(* Two runs: one asks for two approvals, the other for one.                *)
(***************************************************************************)
EXTENDS PermissionBroker, TLC

CONSTANTS p1, p2, p3, r1, r2

RunOfPermission == p1 :> r1 @@ p2 :> r1 @@ p3 :> r2
=============================================================================
