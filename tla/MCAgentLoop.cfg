SPECIFICATION FairSpec
CONSTANTS
  Messages = {m1}
  MaxClaims = 2
  Batch = 1
  MaxErrors = 2
  MaxIdle = 2
  MaxRepeat = 3
  MaxKills = 1
INVARIANTS
  RowsAccountedFor
  ReadsWithinClaims
PROPERTIES
  MessageSettles
