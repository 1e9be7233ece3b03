------------------------------ MODULE MCPipeline ------------------------------
(* Two invocations on one workspace, each with one or two attempts, so that     *)
(* both layouts and their leftovers meet; strays of agents are in one directory *)
(* at a time.                                                                   *)
EXTENDS Pipeline

MCAttemptLimits == {1, 2}

=============================================================================
