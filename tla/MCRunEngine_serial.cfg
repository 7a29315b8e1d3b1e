SPECIFICATION Spec
CONSTANTS
  NumTasks = 3
  Workers = {w1}
  Nobody = Nobody
  Estimate = 1
  Costs = {0, 1}
  BudgetLimit = 2
  MaxRequests = 1
  MaxCrashes = 1
  MaxDeaths = 1
  MaxExpiries = 2
  MaxRelayCrashes = 1
INVARIANTS VersionCountsEvents FailuresCounted BudgetRespected
CHECK_DEADLOCK FALSE
