---------------------------- MODULE MCMcpRuntime ----------------------------
(* Instances of McpRuntime for TLC. *)
EXTENDS McpRuntime, TLC

CONSTANTS o1, o2, o3

Symmetry == Permutations(Calls)

=============================================================================
