----------------------------- MODULE MCWorkflow -----------------------------
(* A workflow, and clients of the tab tools, on two profiles.                *)
EXTENDS Workflow, TLC

Symmetry ==
  Permutations(Profiles) \cup Permutations(Pages) \cup Permutations(Clients \ {Engine})
=============================================================================
