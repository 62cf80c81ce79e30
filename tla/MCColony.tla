------------------------------ MODULE MCColony ------------------------------
(***************************************************************************)
(* Colony on small instances.                                              *)
(***************************************************************************)
EXTENDS Colony
=============================================================================
