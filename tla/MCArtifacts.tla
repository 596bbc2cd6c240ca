---------------------------- MODULE MCArtifacts ----------------------------
(* The HTTP server and an MCP stdio process, who are alike, as are the IDs.  *)
EXTENDS Artifacts, TLC

Symmetry == Permutations(Ids) \cup Permutations(Procs)
=============================================================================
