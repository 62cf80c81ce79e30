---------------------------- MODULE MCInference ----------------------------
\* Two providers: the first has no model for the tier fast.
EXTENDS Inference

MCOffers == [p \in Providers |-> IF p = "p1" THEN {"reasoning", "cheap"} ELSE Tiers]
MCOrder == <<"p1", "p2">>
=============================================================================
