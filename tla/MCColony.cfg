SPECIFICATION Spec
CONSTANTS
  MaxRows = 3
  MaxChildren = 2
  KeepLast = 1
  Tasks = {t1}
  NoTask = NoTask
  MaxRetries = 1
  ErrorSamples = 1
  Incidents = {"lost_create", "delete_fails"}
CHECK_DEADLOCK FALSE
INVARIANTS
  SandboxesHaveRows
  ChildrenWithinLimit
