---------------------------- MODULE MCAgentRoute ----------------------------
(* A small instance of AgentRoute for TLC.  There is no symmetry set: the  *)
(* instance is checked for liveness.                                       *)
EXTENDS AgentRoute
=============================================================================
