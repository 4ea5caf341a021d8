--------------------------- MODULE MCAgentSession ---------------------------
(***************************************************************************)
(* Instances of AgentSession for TLC.                                      *)
(***************************************************************************)
EXTENDS AgentSession, TLC

Symmetry == Permutations(Tasks) \cup Permutations(Controls)
=============================================================================
