----------------------------- MODULE MCSpending -----------------------------
(***************************************************************************)
(* Spending on a small instance: amounts on either side of each cap.       *)
(***************************************************************************)
EXTENDS Spending
=============================================================================
