\* The v6 path: every attempt is prepared with its evidence.
CONSTANTS
  a1 = a1
  a2 = a2
  Agents <- MCAgents
  EventCount = 3
  Agent <- MCAgent
  Publish <- MCPublish
  MaxAttempts = 3
  LegacyCallers = FALSE
SPECIFICATION Spec
INVARIANT VerifyIntegrity
PROPERTIES EvidenceIsAppendOnly ImplementsSerialRun
\* The run stops when it is complete or its attempts are used up.
CHECK_DEADLOCK FALSE
