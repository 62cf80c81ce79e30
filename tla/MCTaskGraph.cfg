SPECIFICATION Spec
CONSTANTS
  Goals = {g1, g2}
  Tasks = {t1, t2, t3}
  Agents = {a1}
  NoGoal = NoGoal
  NoAgent = NoAgent
  MaxRetries = 1
SYMMETRY Symmetry
CHECK_DEADLOCK FALSE
INVARIANTS
  TypeOK
  DepsAcyclic
  NoOrphans
  BlockedHasReason
  BusyHasInputs
  FailureBlocksDependents
  AssignmentMatchesStatus
  CompletedGoalIsDone
  GoalCanProgress
PROPERTIES
  ResultsAreFinal
