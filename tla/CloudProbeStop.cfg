CONSTANTS
  None = None
  CaseCount = 2
  Code <- MCCode
  Retryable = {"provider_busy"}
  Budget <- MCBudget
  TotalBudget = 4
  MaxFaults = 1
SPECIFICATION Spec
PROPERTIES StopsAtRuntimeFailure
CHECK_DEADLOCK FALSE
