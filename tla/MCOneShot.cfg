SPECIFICATION Spec
CONSTANTS
  Ids = {e1, o1, k1}
  Every = {e1}
  Deleted = {o1}
  MaxEdits = 4
  MaxKills = 1
  Window = 4
  MaxTurn = 3
  MaxMessages = 12
  MaxRestarts = 1
CHECK_DEADLOCK FALSE
INVARIANT OneShotRunsOnce
