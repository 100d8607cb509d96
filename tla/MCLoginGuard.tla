---------------------------- MODULE MCLoginGuard ----------------------------
(* Instance of LoginGuard for TLC. *)
EXTENDS LoginGuard
=============================================================================
