------------------------------- MODULE MCPoll -------------------------------
(* A small instance of Poll for TLC. *)
EXTENDS Poll

ASSUME PollAssumption
=============================================================================
