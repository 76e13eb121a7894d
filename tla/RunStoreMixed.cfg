\* v6 and earlier entry points on one store.
CONSTANTS
  a1 = a1
  a2 = a2
  Agents <- MCAgents
  EventCount = 2
  Agent <- MCAgent
  Publish <- MCPublish
  MaxAttempts = 2
  LegacyCallers = TRUE
SPECIFICATION Spec
INVARIANTS EvidenceIsExactCover
\* The run stops when it is complete or its attempts are used up.
CHECK_DEADLOCK FALSE
