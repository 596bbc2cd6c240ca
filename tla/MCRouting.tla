----------------------------- MODULE MCRouting -----------------------------
(* One group and two proxies; the callers are alike, and so are the proxies  *)
(* and the profiles.                                                         *)
EXTENDS Routing, TLC

Symmetry == Permutations(Profiles) \cup Permutations(Proxies) \cup Permutations(Threads)
=============================================================================
