SPECIFICATION Spec
CONSTANTS
  Workers = {w1}
  w1 = w1
  Threshold = 3
  MaxRetries = 2
  Period = 2
  HourBudget = 4
  Ceiling = 2
  Estimates = {1, 2}
  Costs = {0, 1, 3}
  Order <- MCOrder
  Offers <- MCOffers
  Failures = 2
  Backoffs = 1
INVARIANTS BreakersAgree HourWithinBudget
PROPERTIES CircuitCloses CallsEnd
