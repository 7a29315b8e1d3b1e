SPECIFICATION Spec
CONSTANTS
  NumTasks = 1
  Workers = {w1, w2}
  Nobody = Nobody
  Estimate = 1
  Costs = {1}
  BudgetLimit = 9
  MaxRequests = 0
  MaxCrashes = 0
  MaxDeaths = 0
  MaxExpiries = 0
  MaxRelayCrashes = 1
INVARIANTS VersionCountsEvents
CHECK_DEADLOCK FALSE
