---------------------------- MODULE MCMcpClient ----------------------------
(* A request connected twice from the window and once by an agent, and disconnected from the window *)
EXTENDS McpClient

CONSTANTS w1, w2, a1, d1
=============================================================================
