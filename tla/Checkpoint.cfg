\* Checkpoints of the v6 path, with one restored copy of the database.
CONSTANTS
  a1 = a1
  None = None
  Agents <- MCAgents
  EventCount = 2
  Agent <- MCAgent
  Publish <- MCPublish
  MaxAttempts = 2
  LegacyCallers = FALSE
SPECIFICATION CheckpointSpec
INVARIANTS ValidExactlyIfPast CurrentMeansUnchanged AlwaysCheckpointable ResumeActionAgrees
\* The run stops when it is complete or its attempts are used up.
CHECK_DEADLOCK FALSE
