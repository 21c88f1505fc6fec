------------------------- MODULE MCAgentRegistration -------------------------
(***************************************************************************)
(* AgentRegistration for TLC: the constants of the runs are in the cfgs.   *)
(* MaxTokens is never the binding limit: one token per reset plus one per  *)
(* register call that can find the row without an agent_token.             *)
(***************************************************************************)
EXTENDS AgentRegistration
=============================================================================
