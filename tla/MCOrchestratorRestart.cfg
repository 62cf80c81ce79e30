SPECIFICATION Spec
CONSTANTS
  Goals = {g1}
  Tasks = {t1, t2, t3}
  Workers = {w1}
  Children = {c1}
  Self = self
  NoGoal = NoGoal
  NoTask = NoTask
  NoAgent = NoAgent
  MaxRetries = 1
  MaxReplans = 1
  MaxPlan = 2
  Incidents = {"cancel", "resolve", "unspawned", "undelivered", "crash"}
SYMMETRY Symmetry
CHECK_DEADLOCK FALSE
INVARIANTS
  OneExecutor
  PhaseMatchesTables
