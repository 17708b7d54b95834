--------------------------- MODULE MCProviderPages ---------------------------
(* Instances of ProviderPages for TLC. *)
EXTENDS ProviderPages

CONSTANTS s1, s2, m1, m2

=============================================================================
