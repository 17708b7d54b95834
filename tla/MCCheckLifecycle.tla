--------------------------- MODULE MCCheckLifecycle ---------------------------
(* Instances of CheckLifecycle for TLC. *)
EXTENDS CheckLifecycle, TLC

CONSTANTS c1, c2, c3, r1, r2, r3

Symmetry == Permutations(Checks) \cup Permutations(Requests)

=============================================================================
