CONSTANTS
  a1 = a1  a2 = a2  a3 = a3  a4 = a4
  p1 = p1  p2 = p2
  Process = {p1, p2}
  Launcher = {p1, p2}
  Operator = {p1, p2}
  None = None
  Null = Null
  Nothing = Nothing
  Nil = Nil
  NoEdge = NoEdge
  Lengths = {0, 3, 4}
  Stances = {"pro", "con"}
  Window = 2
  Never <- MCNever
  Cell <- MCCell
  MaxAttempts = 2
  Marks <- MCMarks
  MaxRuns = 2
  Cells <- MCCells
  PerCell = 2
  Slice = 1
  Labels = {"pro", "con"}
  Orders <- MCOrders
  Surveys <- MCSurveys
  Plans <- MCPlans
  Weights = {1, 3}
  Grain = 3
  MaxDraws = 2
  MaxPopulation = 3
  MaxSweeps = 2
  MaxEvents = 4
  Family <- MCFamily
  Foreign <- MCForeign
  Scale <- MCScale
  Drifts <- MCDrifts
  Handle = {p1, p2}
  SmokeSeries = "smoke-progress"
  Series = {"case", "smoke-progress"}
  Length = 2
  MaxFaults = 2
  Absent = Absent
  Early = 2
  Prompts = 3
  Diagnostics = 2
  Stops = {"s", "t"}
  MaxRemovals = 1
  Order <- MCOrder
  Cases <- MCCases
  Trials <- MCTrials
  Judges = {"j"}
  Humans = {"h"}
  Policy <- MCPolicy
  Gates <- MCGates
  Dimensions = {"stance", "refusal"}
  Opinion <- MCOpinion
  MaxDeviations = 2
SPECIFICATION StudySpec
INVARIANT RunIsDetermined
INVARIANT RefusedWithReason
INVARIANT ReportIsExact
INVARIANT AuditBalances
INVARIANT VerifiedRunIsWhole
INVARIANT PopulationIsExact
INVARIANT ScheduleIsSound
INVARIANT CellsAreMatched
INVARIANT ShadowPassesItsValidator
INVARIANT DegreesAreKept
INVARIANT RoundsAreBounded
INVARIANT OpensUnlessTorn
INVARIANT SealedIsComplete
PROPERTY ImplementsArchive
INVARIANT PassedOnce
INVARIANT ProposalIsEarned
SYMMETRY Symmetric
CHECK_DEADLOCK FALSE
