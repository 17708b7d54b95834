------------------------- MODULE MCSessionObserver -------------------------
(* Instances of SessionObserver for TLC. *)
EXTENDS SessionObserver

=============================================================================
