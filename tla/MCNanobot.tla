----------------------------- MODULE MCNanobot ------------------------------
\* Instances of NanobotCron and NanobotSession.  The two share no state, so each
\* is explored with the other at rest: part says which one moves.
EXTENDS NanobotCron, NanobotSession

VARIABLE part

vars == <<part, cronVars, sessionVars>>

Init ==
  /\ part \in {"cron", "session"}
  /\ CronInit
  /\ SessionInit

Next ==
  /\ UNCHANGED part
  /\ \/ part = "cron" /\ CronNext /\ UNCHANGED sessionVars
     \/ part = "session" /\ SessionNext /\ UNCHANGED cronVars

\* At rest neither has an action that is fair and enabled.
Spec == Init /\ [][Next]_vars /\ CronFairness /\ SessionFairness
=============================================================================
