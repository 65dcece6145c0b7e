---------------------------- MODULE MCMcpClient ----------------------------
(* McpClient for TLC: three tasks share two slots, so one of them queues    *)
(* while sessions succeed, fail, time out and are cancelled before it.      *)
EXTENDS McpClient
=============================================================================
