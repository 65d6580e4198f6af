--------------------------- MODULE MCAgentRunner ---------------------------
(* TLC instance of AgentRunner. *)
EXTENDS AgentRunner
=============================================================================
