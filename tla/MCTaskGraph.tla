----------------------------- MODULE MCTaskGraph -----------------------------
(***************************************************************************)
(* TaskGraph on a small instance.                                          *)
(***************************************************************************)
EXTENDS TaskGraph, TLC

\* Ids are compared for equality only, so the identities are symmetric.
Symmetry ==
  Permutations(Goals) \union Permutations(Tasks) \union Permutations(Agents)
=============================================================================
