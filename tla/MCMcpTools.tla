----------------------------- MODULE MCMcpTools -----------------------------
(* Values of the constants of McpTools for TLC.                            *)
EXTENDS McpTools, TLC

CallSymmetry == Permutations(Calls)
=============================================================================
