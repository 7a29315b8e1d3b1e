SPECIFICATION FairSpec
CONSTANTS
  NumTasks = 2
  Workers = {w1}
  Nobody = Nobody
  Estimate = 1
  Costs = {1}
  BudgetLimit = 9
  MaxRequests = 1
  MaxCrashes = 0
  MaxDeaths = 0
  MaxExpiries = 0
  MaxRelayCrashes = 0
PROPERTIES PauseSettles
CHECK_DEADLOCK FALSE
