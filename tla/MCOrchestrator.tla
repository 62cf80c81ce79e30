--------------------------- MODULE MCOrchestrator ---------------------------
(***************************************************************************)
(* Orchestrator on small instances.                                        *)
(***************************************************************************)
EXTENDS Orchestrator, TLC

\* Ids are compared for equality only, so the identities are symmetric.
Symmetry ==
  Permutations(Goals) \union Permutations(Tasks) \union
  Permutations(Workers) \union Permutations(Children)
=============================================================================
