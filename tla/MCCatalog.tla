----------------------------- MODULE MCCatalog -----------------------------
(* Two callers of the REST and MCP handlers; IDs, groups and callers are     *)
(* alike.                                                                    *)
EXTENDS Catalog, TLC

Symmetry ==
  Permutations(Ids) \cup Permutations(Groups) \cup Permutations(Threads)
=============================================================================
