---------------------------- MODULE MCAgentLife ----------------------------
(* An instance of AgentLife for TLC. *)
EXTENDS AgentLife
=============================================================================
