----------------------------- MODULE MCMcpClient -----------------------------
(* TLC instances of McpClient.                                             *)
EXTENDS McpClient, TLC

CONSTANTS c1, c2
=============================================================================
