SPECIFICATION Spec
CONSTANTS
  Amounts = {1, 2, 3}
  MaxSingle = 2
  HourCap = 3
  DayCap = 4
  ConfirmAbove = 2
  PerTurn = 2
  MaxCalls = 3
  Pack = 1
  Threshold = 3
  Low = 1
  Critical = 0
  Funds = 2
CHECK_DEADLOCK FALSE
INVARIANTS
  RecordedWithinCaps
  MovedWithinCap
  AutoTopUpsBounded
