--------------------------- MODULE MCMaintenance ---------------------------
(* Two profiles and two revisions: one profile can be torn, odd or of v1   *)
(* while the other is migrated, archived or changed by the server.         *)
EXTENDS Maintenance, TLC

CONSTANTS p1, p2

MCProfiles == {p1, p2}
Symmetry == Permutations(MCProfiles)
=============================================================================
