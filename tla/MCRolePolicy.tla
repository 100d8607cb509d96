---------------------------- MODULE MCRolePolicy ----------------------------
(* Instances of RolePolicy for TLC. *)
EXTENDS RolePolicy
=============================================================================
