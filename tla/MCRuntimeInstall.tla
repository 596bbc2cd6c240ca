-------------------------- MODULE MCRuntimeInstall --------------------------
(* The three runtimes, an archive of an executable and two directories.      *)
EXTENDS RuntimeInstall, TLC

Symmetry == Permutations(Dirs)
=============================================================================
