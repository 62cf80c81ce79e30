SPECIFICATION FairSpec
CONSTANTS
  ping = ping
  reflection = reflection
  custom = custom
  NoTask = NoTask
  Tasks <- MCTasks
  Configured <- MCConfigured
  Implemented <- MCImplemented
  MaxRetries = 0
  Timeout = 1
  LeaseTtl = 2
  Day = 3
  Forced <- MCForced
INVARIANTS TypeOK LeaseMatchesRun
PROPERTIES RunsWhenDue WakeNotLost DueTaskRuns
