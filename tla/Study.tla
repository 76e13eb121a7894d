------------------------------- MODULE Study --------------------------------
(***************************************************************************)
(* The programs beside the run store: what builds the cells of a matched   *)
(* seed (Population, Network, Schedule, Matrix), what runs one             *)
(* (ProcessAudit, over MockRun and EventPipeline), the Phase 0B diagnostic *)
(* (Diagnostic), and of the calibration the files of an archive            *)
(* (ProbeStore), the smoke run (Smoke) and the review with its gates       *)
(* (Review).  They hand each other artifacts, which are immutable, and     *)
(* share no state: a behaviour is one of one program, and the state of the *)
(* others stays empty.  Every property is its module's own.                *)
(***************************************************************************)
EXTENDS ProcessAudit, Network, Population, Schedule, Matrix, Diagnostic, ProbeStore, Smoke, Review

VARIABLE program

diagnosticState == <<mandate, root, dispatch, staged, projection, report, launched, sent>>
populationState == <<survey, step, drawn, members, allocation, stance, reason>>
scheduleState == <<plan, phase, tries, weights, chances, slots, flags>>
matrixState == <<submitted, drift, verdict>>
reviewState == <<trial, bundle, selection>>
calibrationState == <<probeVars, smokeVars, reviewState>>
studyVars ==
  <<program, mockRunVars, diagnosticState, networkVars, populationState, scheduleState, matrixState, calibrationState>>

ASSUME StudyAssumption ==
  /\ DiagnosticValid
  /\ \A s \in Surveys : SurveyValid(s)
  /\ ScheduleValid
  /\ MatrixValid
  /\ SmokeValid
  /\ PolicyValid
  /\ MockRunValid

(* The program is not this one.                                             *)
NoDiagnostic ==
  /\ mandate = Null /\ root = Null /\ dispatch = Null /\ staged = Null
  /\ projection = Null /\ report = Null /\ launched = Null /\ sent = Null
NoNetwork == order = None /\ stage = None /\ graph = None /\ removed = None /\ tried = None /\ audits = None
NoPopulation ==
  /\ survey = None /\ step = "residual" /\ drawn = None
  /\ members = None /\ allocation = None /\ stance = None /\ reason = None
NoSchedule ==
  /\ plan = None /\ phase = None /\ tries = None
  /\ weights = <<>> /\ chances = <<>> /\ slots = <<>> /\ flags = <<>>
NoMatrix == submitted = None /\ drift = None /\ verdict = None
NoSmoke == archive = Nothing /\ creating = Nothing /\ running = Nothing /\ wire = Nothing /\ removals = 0
NoReview == trial = Nil /\ bundle = Nil /\ selection = Nil

StudyInit ==
  /\ program \in {"run", "diagnostic", "network", "population", "schedule", "matrix", "store", "smoke", "review"}
  /\ IF program = "run" THEN cell \in Cell ELSE cell = CHOOSE any \in Cell : TRUE
  /\ MockRunInit
  /\ IF program = "diagnostic" THEN DiagnosticInit ELSE NoDiagnostic
  /\ IF program = "network" THEN NetworkInit ELSE NoNetwork
  /\ IF program = "population" THEN PopulationInit ELSE NoPopulation
  /\ IF program = "schedule" THEN ScheduleInit ELSE NoSchedule
  /\ IF program = "matrix" THEN MatrixInit ELSE NoMatrix
  /\ ProbeInit
  /\ IF program = "smoke" THEN SmokeInit ELSE NoSmoke
  /\ IF program = "review" THEN ReviewInit ELSE NoReview

Others(vars) == UNCHANGED vars /\ UNCHANGED program

Run ==
  /\ program = "run" /\ MockRunNext
  /\ Others(<<diagnosticState, networkVars, populationState, scheduleState, matrixState, calibrationState>>)
Probe ==
  /\ program = "diagnostic" /\ DiagnosticNext
  /\ Others(<<mockRunVars, networkVars, populationState, scheduleState, matrixState, calibrationState>>)
MakeNetwork ==
  /\ program = "network" /\ NetworkNext
  /\ Others(<<mockRunVars, diagnosticState, populationState, scheduleState, matrixState, calibrationState>>)
MakePopulation ==
  /\ program = "population" /\ PopulationNext
  /\ Others(<<mockRunVars, diagnosticState, networkVars, scheduleState, matrixState, calibrationState>>)
MakeSchedule ==
  /\ program = "schedule" /\ ScheduleNext
  /\ Others(<<mockRunVars, diagnosticState, networkVars, populationState, matrixState, calibrationState>>)
MakeCells ==
  /\ program = "matrix" /\ MatrixNext
  /\ Others(<<mockRunVars, diagnosticState, networkVars, populationState, scheduleState, calibrationState>>)
Keep ==
  /\ program = "store" /\ ProbeNext
  /\ Others(<<mockRunVars, diagnosticState, networkVars, populationState, scheduleState, matrixState, smokeVars, reviewState>>)
BurnIn ==
  /\ program = "smoke" /\ SmokeNext
  /\ Others(<<mockRunVars, diagnosticState, networkVars, populationState, scheduleState, matrixState, probeVars, reviewState>>)
Judge ==
  /\ program = "review" /\ ReviewNext
  /\ Others(<<mockRunVars, diagnosticState, networkVars, populationState, scheduleState, matrixState, probeVars, smokeVars>>)

StudyNext == Run \/ Probe \/ MakeNetwork \/ MakePopulation \/ MakeSchedule \/ MakeCells \/ Keep \/ BurnIn \/ Judge
=============================================================================
