------------------------------ MODULE MCPollChat ------------------------------
(* Model-checking instances of the chat server.                            *)
EXTENDS PollChat
=============================================================================
