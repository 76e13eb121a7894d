\* The callers also use the entry points that predate the v6 evidence.
CONSTANTS
  a1 = a1
  a2 = a2
  Agents <- MCAgents
  EventCount = 2
  Agent <- MCAgent
  Publish <- MCPublish
  MaxAttempts = 2
  LegacyCallers = TRUE
SPECIFICATION Spec
INVARIANTS LifecycleReplays
PROPERTIES ImplementsSerialRun
\* The run stops when it is complete or its attempts are used up.
CHECK_DEADLOCK FALSE
