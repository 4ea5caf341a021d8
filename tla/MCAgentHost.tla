---------------------------- MODULE MCAgentHost ----------------------------
(***************************************************************************)
(* An instance of AgentHost for TLC.                                       *)
(***************************************************************************)
EXTENDS AgentHost
=============================================================================
