SPECIFICATION Spec
CONSTANTS
  Goals = {g1, g2}
  Tasks = {t1, t2, t3}
  Workers = {w1}
  Children = {c1}
  Self = self
  NoGoal = NoGoal
  NoTask = NoTask
  NoAgent = NoAgent
  MaxRetries = 1
  MaxReplans = 1
  MaxPlan = 2
  Incidents = {"cancel", "resolve", "unspawned", "undelivered"}
SYMMETRY Symmetry
CHECK_DEADLOCK FALSE
INVARIANTS
  PlannedOnce
PROPERTIES
  ImplementsTaskGraph
