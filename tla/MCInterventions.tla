-------------------------- MODULE MCInterventions ---------------------------
\* Instances of Interventions.
EXTENDS Interventions
=============================================================================
