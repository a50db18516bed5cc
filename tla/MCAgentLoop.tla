----------------------------- MODULE MCAgentLoop ----------------------------
(* AgentLoop with one tool that may run concurrently and one that may not. *)
EXTENDS AgentLoop

CONSTANTS file_read, bash
=============================================================================
