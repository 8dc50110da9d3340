--------------------------- MODULE MCAgentHandle ---------------------------
(* Instances of AgentHandle for TLC. *)
EXTENDS AgentHandle, TLC

Symmetry == Permutations(Prompts) \cup Permutations(Gates)
=============================================================================
