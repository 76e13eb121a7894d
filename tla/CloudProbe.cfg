\* Two cases and a budget one below what they can use up.
CONSTANTS
  None = None
  CaseCount = 2
  Code <- MCCode
  Retryable = {"provider_busy"}
  Budget <- MCBudget
  TotalBudget = 5
  MaxFaults = 2
SPECIFICATION Spec
INVARIANTS NoRequestSentTwice BudgetsHold DurableReplays
PROPERTIES TerminalIsFinal EventuallyDecided
\* A sealed run stops.
CHECK_DEADLOCK FALSE
