----------------------------- MODULE MCMcpPages -----------------------------
(* Instances of McpPages for TLC. *)
EXTENDS McpPages, TLC

CONSTANTS s1, s2

Symmetry == Permutations(Ids)

=============================================================================
