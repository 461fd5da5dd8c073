---------------------------- MODULE MCOAuthFlow ----------------------------
(***************************************************************************)
(* The OAuth flows of three MCP servers: one whose client registers itself *)
(* and takes any port, and two with redirect URIs that differ in the path. *)
(***************************************************************************)
EXTENDS OAuthFlow

CONSTANTS dynamic, usual, own

MCConfigured == [host |-> "localhost", port |-> 0, path |-> "usual"]

MCEndpoint ==
  [s \in Servers \ {dynamic} |->
     [host |-> "loopback", port |-> 1, path |-> IF s = own THEN "own" ELSE "usual"]]
=============================================================================
