---------------------------- MODULE MCMcpServers ----------------------------
(***************************************************************************)
(* Instances of McpServers for TLC.  Servers, and calls, are model values. *)
(***************************************************************************)
EXTENDS McpServers

CONSTANTS s1, s2, q1
=============================================================================
