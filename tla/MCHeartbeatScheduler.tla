------------------------ MODULE MCHeartbeatScheduler ------------------------
(***************************************************************************)
(* HeartbeatScheduler on small instances: one task of the configuration,   *)
(* one whose row was left by a migration, which may also be forced, and an *)
(* entry the user added, for whose name there is no function.              *)
(***************************************************************************)
EXTENDS HeartbeatScheduler

CONSTANTS ping, reflection, custom

MCTasks == {ping, reflection, custom}
MCConfigured == {ping, custom}
MCImplemented == {ping, reflection}
MCForced == {reflection}
=============================================================================
