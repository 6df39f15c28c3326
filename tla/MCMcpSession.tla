---------------------------- MODULE MCMcpSession ----------------------------
(* A small instance of McpSession for TLC.                                  *)
EXTENDS McpSession
=============================================================================
