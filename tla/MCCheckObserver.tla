--------------------------- MODULE MCCheckObserver ---------------------------
(* Instances of CheckObserver for TLC. *)
EXTENDS CheckObserver

=============================================================================
