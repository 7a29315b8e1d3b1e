SPECIFICATION Spec
CONSTANTS
  NumTasks = 1
  Workers = {w1}
  Nobody = Nobody
  Estimate = 1
  Costs = {1}
  BudgetLimit = 9
  MaxRequests = 1
  MaxCrashes = 0
  MaxDeaths = 0
  MaxExpiries = 0
  MaxRelayCrashes = 0
PROPERTIES CancelTakesEffect
CHECK_DEADLOCK FALSE
