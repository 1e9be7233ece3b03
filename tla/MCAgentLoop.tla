--------------------------- MODULE MCAgentLoop ---------------------------
(* Instances of AgentLoop for the model checker. *)
EXTENDS AgentLoop

CONSTANTS r1, r2
=============================================================================
