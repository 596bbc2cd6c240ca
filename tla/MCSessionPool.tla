--------------------------- MODULE MCSessionPool ---------------------------
(* mcp.SessionPool with its collector gc and MCP callers, who are all alike, *)
(* as are the endpoints, pool objects and session IDs.                       *)
EXTENDS SessionPool, TLC

CONSTANT gc

Symmetry ==
  Permutations(Threads \ {gc}) \cup Permutations(Endpoints)
    \cup Permutations(Pools) \cup Permutations(Sessions)
=============================================================================
