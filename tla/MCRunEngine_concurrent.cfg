SPECIFICATION Spec
CONSTANTS
  NumTasks = 2
  Workers = {w1, w2}
  Nobody = Nobody
  Estimate = 1
  Costs = {1}
  BudgetLimit = 1
  MaxRequests = 2
  MaxCrashes = 1
  MaxDeaths = 1
  MaxExpiries = 1
  MaxRelayCrashes = 1
SYMMETRY WorkerSymmetry
INVARIANTS
  SuccessCounted
  SampleMatchesOutcome
  CostLedger
  FailuresNeverOvercounted
  CompletionIsHonest
  SettlementGuarded
  AttemptsJustified
  ExclusiveUntilExpiry
  IInv
PROPERTIES
  ImplementsLifecycle
CHECK_DEADLOCK FALSE
