---------------------------- MODULE MCWorkspace ----------------------------
(* Instances of Workspace for TLC. *)
EXTENDS Workspace

CONSTANTS common, admin, e1, e2

=============================================================================
