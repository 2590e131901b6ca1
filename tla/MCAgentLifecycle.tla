-------------------------- MODULE MCAgentLifecycle --------------------------
(* Enough calls for a restart that meets a start and a shutdown, and a call  *)
(* that comes after them; a failed start and a failed run.                   *)
EXTENDS AgentLifecycle
=============================================================================
