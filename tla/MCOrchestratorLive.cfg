SPECIFICATION FairSpec
CONSTANTS
  Goals = {g1}
  Tasks = {t1, t2, t3}
  Workers = {w1, w2}
  Children = {c1}
  Self = self
  NoGoal = NoGoal
  NoTask = NoTask
  NoAgent = NoAgent
  MaxRetries = 1
  MaxReplans = 1
  MaxPlan = 2
  Incidents = {"undelivered"}
CHECK_DEADLOCK FALSE
PROPERTIES
  GoalSettles
