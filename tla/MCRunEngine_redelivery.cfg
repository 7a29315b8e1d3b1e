SPECIFICATION FairSpec
CONSTANTS
  NumTasks = 1
  Workers = {w1}
  Nobody = Nobody
  Estimate = 1
  Costs = {1}
  BudgetLimit = 9
  MaxRequests = 0
  MaxCrashes = 1
  MaxDeaths = 0
  MaxExpiries = 1
  MaxRelayCrashes = 0
PROPERTIES EventuallyFinished
CHECK_DEADLOCK FALSE
