CONSTANTS
  a1 = a1
  p1 = p1
  p2 = p2
  None = None
  Agents <- MCAgents
  Procs <- MCProcs
  EventCount = 2
  Agent <- MCAgent
  Publish <- MCPublish
  MaxAttempts = 2
  MaxFaults = 2
  LegacyCallers = FALSE
SPECIFICATION EngineSpec
INVARIANTS NoBlindResend LeaseholderViewIsCurrent
PROPERTIES EventuallySettled
