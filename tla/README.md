# Agent-EX: TLA+ models and proofs

These modules model the part of Agent-EX that decides whether a run's evidence
can be trusted: the durable run store, the handles and leases through which
processes reach it, the engine and the event pipeline that advance it, its
checkpoints and audits, the artifacts a matched seed is built from, the
calibration's probes, judges, smoke and review, and the Phase 0B diagnostic
(`src/platform/src/agent_ex`). TLC checks them on small instances. TLAPS proves
the safety properties of the run store, its handles, the engine, the cloud
probe, the probe store, the judge runs and the network search for every value
of the constants, and that the three stores implement their abstract
specifications; see [proofs](#proofs).

Contents: [the system](#the-system), [modules](#modules), [runs](#runs),
[fairness](#fairness), [proofs](#proofs), [where code and documents
disagree](#where-code-and-documents-disagree), [what is not
modelled](#what-is-not-modelled), [plan](#plan).

## The system

Agent-EX runs discussion experiments. A *run* has a frozen population of
agents and a frozen *schedule*: slot `e` activates agent `Agent[e]` and says
whether the result is published. Executing a slot (an *event*) means: build the
agent's view of its unread feed, render a prompt, call a model, parse the
answer, and commit the new private state, the advanced feed cursor and perhaps
a public post. Everything is written to one SQLite file per run so that the run
can be audited, resumed and replayed.

| component | source | state | operations |
|---|---|---|---|
| run store | `storage.py` | binding, progress, agent rows, attempts and transitions, v6 evidence, terminal failures, resume authorizations, execution state, event chain head | `initialize_agent`, `seal_initial_state`, `record_prepared_attempt`, `append_attempt`, `record_invocation_evidence`, `record_finalized_attempt`, `record_terminal_failure`, `authorize_resume`, `commit_success`, `verify_integrity` |
| store handle | `storage.py` | SQLite connection, verified signature, cached and pending execution state, owned lease | `open`, `_begin_write`, `_commit_write`, rollback, `consistent_read`, `execution_state` |
| run lease | `storage.py` | file lock, in-process registry | `acquire`, `release` |
| lifecycle engine | `engine.py` | the lease; inside `execute()` the journal it read, the answer it holds | `__enter__`, `execute`, `write_checkpoint`, `close` |
| checkpoint | `checkpoint.py` | a JSON file: a hash projection of the store | `build_checkpoint`, `write_checkpoint_atomic`, `load_checkpoint`, `validate_checkpoint` |
| event pipeline | `pipeline.py` | an index of committed events, the prompt context, a deterministic clock; all rebuilt when it is opened | prepare, invoke, finalize, build_commit, advance of the context |
| feed, agent state, memory | `feed.py`, `state.py`, `memory.py` | updates, private states, pointers, feed cursors, exposures | `select_unread_feed`, `FeedCursor.advance`, memory windows |
| prompts, parsing, adapters | `prompt.py`, `parser.py`, `adapters/` | none beyond a context | requests, scripted answers, parsed outcomes |
| schedule, population, network, personas, rng | `schedule.py`, `population.py`, `initialization.py`, `network.py`, ... | immutable artifacts | construction under finite budgets, validation, replay |
| mock runs and matrix | `mock_run.py`, `mock_matrix.py` | a report; twelve cell manifests | `execute_mock_run`; build and validate a matched seed's cells |
| process audit | `process_audit.py` | a report of one store | one pass under `consistent_read` |
| calibration probe store and runner | `calibration/store.py`, `runner.py` | staging and sealed directories; attempts per case | `create`, `open`, `append_*`, `seal`; retry budgets, resume |
| calibration judge store and runner | `calibration/judge_store.py`, `judge_runner.py` | record files, journal, projections, transactions, archive lock | `create`, `open`, `append_*`, `verify_terminal_projection`; run, resume, reconciliation |
| smoke | `calibration/smoke.py`, `transport_diagnostics.py` | an archive of intents, attempts, stops, progress records | diagnostics, phase one, mark stopped, phase two, finalize |
| review and gates | `calibration/review.py`, `gates.py` | immutable bundles; quality reports | export, import, adjudicate; families, challenges, the choice of a topic |
| calibration CLI, reports, specification | `calibration/*.py` | files | operator commands |
| phase 0b | `phase0b/*.py` | a journal of dispatches, a file of attempts, a projection, a terminal report | launch, verify |
| pilots | `pilot-*/` | in-memory simulations | notebooks and scripts that precede the platform |

How they interact: the pipeline gives the engine four callbacks (`prepare`,
`invoke`, `finalize`, `build_commit`); the engine calls the store's write
operations between them; each write is one SQLite transaction that first
asserts the run lease and, when the connection signature moved, replays the
whole store; checkpoints and audits read the store inside one read
transaction. Several processes can open the same file. None of them shares
memory with another; two threads of one process share the lease registry.

What is hard: a crash between any two transactions, and inside one; a provider
call whose answer never became durable; two processes that take turns; a write
that fails after the handle has updated its caches; a retry before or without
its authorization; and incremental rows (execution state, chain head, cursors,
pointers) that must equal what the append-only rows derive, because the next
`open()` refuses a store where they do not. Around the store: caches of a
pipeline that another process has overtaken, a caller that looks at the store
after the lease is back, commands run twice or cut off on archives that lock
nothing, and chains of roundings and random searches that must end and come out
exact. `PROJECT.json` lists the gravest forty of these at their lines; others
are named under [what the runs leave open](#where-code-and-documents-disagree).

## Modules

| module | models |
|---|---|
| `RunStore` | the rows of one run and its write operations, one action per transaction |
| `RunStoreIntegrity` | `verify_integrity()` as operators, the store's invariants and action property, the refinement mapping to `SerialRun` |
| `SerialRun` | the abstract specification: one serial history of decided events |
| `LifecycleEngine` | processes, lease, `execute()`, crashes; composes the actions of `RunStore` |
| `StoreHandle` | the caches of several handles on one file |
| `Checkpoint` | checkpoints and their validation against a store that went on, or was put back; composes `RunStore` |
| `ProbeAttempts` | what the probe runner decides after an answer, and how a projection replays attempts; operators only |
| `CloudProbe` | the commands of a cloud probe over its dispatch journal |
| `ProbeStore` | the directories and file steps of a probe store |
| `RecordArchive` | the abstract specification of a probe store |
| `JudgeRecords` | the records of a judge run and their replay; operators only |
| `JudgeStore` | the archive of a judge run: transactions, recovery, handles, the terminal projection |
| `JudgeRun` | runs, resumed runs and the operator's evidence, at the same time on one `JudgeStore` |
| `JudgeLedger` | the abstract specification of a judge archive |
| `AgentState`, `Feed`, `Prompt` | an agent's updates and memory; the unread feed and its cursor; prompt contexts, scripted answers, parsing; operators only |
| `EventPipeline` | several processes with the pipeline's caches on one run store, under the lease; uses the three above |
| `MockRun` | `execute_mock_run` over `EventPipeline`: stretches of events, checkpoints, the report |
| `ProcessAudit` | the audit of a `MockRun`, and its report's own checks |
| `Families` | artifacts, what they are made from, which of them a replay shows to be edited; operators only |
| `Population`, `Network`, `Schedule` | how the population, the networks and the schedule of a seed are made |
| `Matrix` | the twelve cells of a matched seed; uses `Families` |
| `VllmEvent`, `Diagnostic` | one exchange with the server and its journal; launches of the Phase 0B diagnostic, deaths, the verifier |
| `Smoke` | the commands of the smoke run on one archive |
| `Review` | the blind review and the gates up to the proposal of a topic |
| `Study` | the root that puts `ProcessAudit`, `Network`, `Population`, `Schedule`, `Matrix`, `Diagnostic`, `ProbeStore`, `Smoke` and `Review` side by side; it EXTENDS them all, so each has its own word for what it keeps nothing in (`None`, `Null`, `Absent`, `Nothing`, `Nil`) |
| `MCRunStore`, `MCLifecycleEngine`, `MCStoreHandle`, `MCCheckpoint`, `MCCloudProbe`, `MCJudgeRun`, `MCStudy` | instances for TLC |
| `RunStore_proofs`, `LifecycleEngine_proofs`, `Checkpoint_proofs`, `CloudProbe_proofs`, `ProbeStore_proofs`, `JudgeRun_proofs`, `MockRun_proofs`, `Study_proofs` | the proofs |

**RunStore.** `journal[e]` is the sequence of attempts of event `e`; an attempt
is a record of its latest transition and of which v6 evidence rows it has
(`adapter_requests`, `invocation_evidence`, `parse_evidence`). The tables
`event_input_evidence` and `attempt_policy_evidence` have a row exactly when
the first attempt of the event has its request and are not kept apart. `chain`
is the causal sequence of `terminal_failures` and `resume_authorizations`.
`exec` is the `execution_state` row, which the code updates by difference and
recomputes in `verify_integrity`; so does the model (`ExecutionAfter` against
`DerivedExecution`). `head` stands for the event chain hash: the sequence of
what was folded into it, so that equal heads mean equal histories. A hash is
modelled by the values it commits to throughout; canonical JSON, schema
versions and payload validation that no property tells apart are left out.

Each action carries the checks the operation makes before it opens its
transaction as well as those inside. Two that look redundant are not:
`Unambiguous` is the code's check that the counts of the execution state name
one open status, and `AuthorizeResume` reads the execution state and not the
journal. `LegacyCallers` says whether callers also use `append_attempt` with
PENDING and terminal records and `record_terminal_failure`, the entry points
that predate the v6 evidence and are still public.

**LifecycleEngine.** A process opens the store (`verify_integrity` must pass,
no rollback journal may lie beside the file), takes the lease, does one thing,
and gives the lease back. `execute()` is split where it can be interrupted: at
each durable write and on both sides of the provider call. `Raise` is an
exception anywhere inside; `Crash` loses the process, its lease (the kernel
drops the `flock`) and its memory, and may leave a rollback journal.

**StoreHandle.** The execution-state row is a version number, every update a
fresh one. The module models the two counters of the connection signature as
SQLite defines them: `data_version` moves with other connections' commits,
`total_changes` with one's own statements and is not taken back by a rollback.

**Checkpoint.** A checkpoint is a projection of the rows that an ordinal can
see. The module writes down the projection of the present (`Projection`,
`Snapshot`), the reconstruction of an earlier one from the rows of the present
(`History`), the checks of `from_payload` (`WellFormed`) and the three-way
verdict of `validate_checkpoint`. `past` remembers every projection the store
went through, so that the question "is the reconstruction exact?" can be asked.
The operator may copy the database file and put the copy back, after which the
checkpoint is of a continuation that no longer exists. Formats v3 and v4, the
limits on depth and size of the JSON and the replacement of the file are left
out, and only v6 writers are considered.

**ProbeAttempts and CloudProbe.** The runner decides from the chain of a case
what to ask next and whether an error is retried; the projection decides anew,
from the same attempts, whether that was right. The two are separate operators
here because they are separate code. Attempts are kept as one chain per case, as
the runner groups them (`by_case`); the numbering of the attempts of the whole
run is in their `ordinal`. `CloudProbe` then has one action for each
durable write and each side of the provider call. An intent is written before a
request is sent; an answer is durable before its resolution is. The store is
taken as an archive whose writes are atomic, which `ProbeStore` justifies.
Commands follow one another: nothing in the code keeps two of them apart.

**ProbeStore.** A record is created by a link and a projection replaced by a
rename, so each is one step; everything between two such steps can be cut off
by a death or an exception. `sealed.partial` is read by nobody and copied in one
step; the removal of the staging directory, which `open` can see, goes file by
file and in any order. Attempts are series by case, smoke progress is a series
of its own; reviews and the other records have no order and are not kept apart.

**JudgeRecords, JudgeStore and JudgeRun.** A judge codes the items of an
approved order one by one. Every record goes through one function,
`replay_judge_records`, which is `Accepts` (the checks) and `After` (the
effect). An append writes five files, of which the first, the prepared
transaction, holds the others; a death between any two of them leaves work that
whoever takes the archive lock next finishes (`Recover`). The runner's steps
follow `_execute_judge_items`; `Plan` reads the archive without the lock, as
the code does, and the plan may be stale when the intent is appended.
Processes with the role `"tool"` stand for the functions an operator calls:
audits, reconciliations, markers, missing records and the terminal projection.
Answers are modelled by the result they parse to; hashes bind a record to the
item and the attempt they commit to.

**AgentState, Feed, Prompt, EventPipeline.** What `RunStore` takes as one opaque
event is spelled out here: the records an agent's history consists of, the posts
its neighbours made since its cursor, the view a prompt is built from, the
answer and its parsing, the commit. `EventPipeline` has the store as `log`
(committed events), `rows` (the agents'), `posts` and `open` (the event in
progress) and does not repeat `RunStore`'s transactions; what it adds is what a
process keeps in memory: the index and the prompt context, which are built at
opening and advanced after each of its own commits, and the clock of a mock run,
which must replay the start of an attempt that is in progress. Two fields of a
process are histories for the properties: `news`, another process has written
since this one was opened, and `read`, how often its attempts have read the
clock. `Scripted` and
`"oversized"` are the two ways in which an event can never be finished: an
attempt beyond the script, and an answer beyond the parser's limits.

**MockRun and ProcessAudit.** `execute_mock_run` holds the lease only inside the
pipeline, so the other process may commit between any two of its steps; its
report counts what it did itself. The audit is taken at whole sweeps and derives
stock, flow and exposure from the events; the invariants compare them with the
state.

**Population, Network, Schedule.** Draws from a seeded stream are choices.
`Population` rounds three times, each time what is left over. `Network` swaps
two edges of the Watts-Strogatz graph at a time and keeps the graph as it was
when the swap would disconnect it (`Settle`: a trial is one step, swapped and,
if need be, undone); its attempts and candidate trials are bounded, its rounds
are not. `Schedule` samples weights and chances under a budget of draws and
bisects cumulated weights.

**Families and Matrix.** An artifact is what it was made from; two hashes are
equal when these are. A family says what a seed's artifacts are made from, and
`Foreign` families differ from it in one thing. `Matrix` hands the builder
artifacts that are foreign or edited and cells that drift in up to two fields,
and decides as the builder and the validator do.

**VllmEvent and Diagnostic.** Every exchange the adapter can see is an element of
a small set, its classification an operator. Two processes may be launched on
the run root, die anywhere, and tear the last line of a journal; a journal that a
power loss leaves behind what was sent is not among the states. The verifier
reads the files only.

**Smoke.** Ten prompts, of which nine come before a stop of the service that the
operator marks. Each command is read from its checks at the start through every
record it creates; the archive has locks per handle only, so a record is checked
and then created, and only a record of the same name stops it. `ProbeRunStore.create`
tests for the archive (`BeginDiagnostics`) and makes it in a later step: whoever
then finds it made by another removes it as a whole (`CreateTooLate`). A command
keeps the archive it opened (`AtArchive`); where that is gone it raises. `wire` is
what was sent to the service, for the property alone; the "stop" in it is the
recording of the evidence, as the service was stopped by hand some time before.

**Review.** A bundle is replaced, never changed; `BundleValid` is its
constructor, which derives agreement, disputes and status again. `Decide` has
the gates in the integer forms that the code uses, so that no rounding is
abstracted.

**Study.** These programs hand each other immutable artifacts and share no
variable. They are checked in one run, in which the variable `program` says whose
behaviour it is and the state of all others stays empty: a state of the run is
a state of one program, and an invariant speaks of its own. The inner modules'
assumptions are asserted in `StudyAssumption`.

## Runs

| run | instance | shows |
|---|---|---|
| `RunStore` | 2 agents, 3 events, 3 attempts each | v6 path: `VerifyIntegrity`, `EvidenceIsAppendOnly`, `ImplementsSerialRun` |
| `RunStoreLegacy` | 2 agents, 2 events, 2 attempts | mixed callers: `LifecycleReplays`, `ImplementsSerialRun` |
| `RunStoreMixed` | as above | violation of `EvidenceIsExactCover` |
| `LifecycleEngine` | 2 processes, 1 agent, 2 events, 2 attempts, 2 faults | `NoBlindResend`, `LeaseholderViewIsCurrent`, `EventuallySettled`; deadlock |
| `StoreHandle` | 2 handles, 3 row updates, 4 transactions | `WritesBuildOnTheRow`, `UnpinnedReadsAreCommitted`; deadlock |
| `StoreHandleSnapshot` | 2 handles, 2 and 2 | violation of `PinnedReadsAreOfTheSnapshot` |
| `Checkpoint` | 1 agent, 2 events, 2 attempts, 1 restored copy | `ValidExactlyIfPast`, `CurrentMeansUnchanged`, `AlwaysCheckpointable`, `ResumeActionAgrees` |
| `CloudProbe` | 2 cases, a retryable and a fatal error, total budget 5, 2 faults | `NoRequestSentTwice`, `BudgetsHold`, `DurableReplays`, `TerminalIsFinal`, `EventuallyDecided` |
| `CloudProbeStop` | as above, total budget 4, 1 fault | violation of `StopsAtRuntimeFailure` |
| `JudgeRun` | 2 processes, 2 items, 2 attempts each, 2 intents, a retryable error, 1 fault | `NoRequestSentTwice`, `ItemsInOrder`, `EvidenceAgrees`, `OpensUnlessTorn`, `ImplementsLedger` |
| `Study` | see below | `RunIsDetermined`, `RefusedWithReason`, `ReportIsExact`, `AuditBalances` (mock run); `VerifiedRunIsWhole` (Phase 0B); `PopulationIsExact`; `ScheduleIsSound`; `CellsAreMatched`; `ShadowPassesItsValidator`, `DegreesAreKept`, `RoundsAreBounded` (network); `OpensUnlessTorn`, `SealedIsComplete`, `ImplementsArchive` (probe store); `PassedOnce` (smoke); `ProposalIsEarned` (review) |
| `SmokeCreate` | 2 operators, 1 prompt on each side of the stop, 1 diagnostic, 1 removal | violation of `PromptsSentOnce` |

Bounds. Three events with the first agent activated twice, its unpublished or
other agent's event between, are the smallest schedule where a pointer, a
cursor and a private state can lag behind one another and where a committed
event's chain links lie behind the current one. Two attempts show a failure and
its retry; the third shows a failure behind an authorization. `MaxAttempts`
bounds the model only; the code has no such bound in the store. With two
processes one can act between any two steps of the other; two faults allow a
crash in the recovery from a crash. The proofs do not depend on these bounds.

One case of a probe can use up to five attempts: a question, its repair and the
retries between them, which is where the counts of errors have to survive a
change of kind and a restart. Two cases make the first one's failure visible to
the second; the total budget is one below what both can use, so that it binds
in some runs and not in others.

In `JudgeRun` two intents (`MaxIntents`) are an attempt and its retry, or one
attempt at each of the two items; with more the run does not end in reasonable
time. One retryable code gives both kinds of failure, since the last attempt
fails for good. One fault (a death anywhere, or a write of the operator's that
raises) tears at most one transaction, and as recovery is complete before the
next append begins, a second would meet the same states again. The run may
stop: behind an item that failed for good nothing is left to do.

In `Study`, the mock run has two processes and five cells: a triangle of three
agents and two sweeps with a node mapping that is no identity and room for one
post in a prompt, so that posts are scanned and not shown; a square of four,
where an agent has someone it does not read, room for one post or for two, and
an answer that has to be asked for twice; a history condition; and two cells
that can never end: an answer beyond the parser's limits and a script that is
too short. Up to two calls ask for none, three or four events, with a checkpoint
behind the first or without. The shadow search and its gate can only both succeed on rings of more
than eight nodes with four neighbours each, which is out of reach; instances of
six and seven nodes make the search fail, start over, undo a swap and end, and
hold its validator to the graphs it does return. Population instances have
strata where every rounding leaves something over, and one each where allocation
and reasons cannot come out. Cells of the matrix drift in every field and every
pair of fields, in either of two single cells or in all twelve. The diagnostic
has two cells of two events, a slice of one. The probe store has two handles, one
case and the smoke progress with two records each, enough for a gap and for a
handle that has missed one, and two faults. The smoke runs with two prompts
before the stop and one behind it and one removal of an archive (`MaxRemovals`),
behind which nothing is claimed; with the real nine, ten and three diagnostics
two operators' runs without a removal have been checked as well (1953 states). The review has
two topics of four cases, one judge and one human, up to two codes that differ,
fail or are missing (`MaxDeviations`), and trials that are complete, refused and
unparsed, one-sided or interrupted. `MaxRuns`, `MaxDraws`, `MaxPopulation`,
`MaxSweeps` and `MaxEvents` bound the instances only.

The run needs no deadlock check: every one of these programs ends. A sealed store
takes no more steps, and one with a `sealed.partial` left behind can only be read.

## Fairness

`LifecycleEngine` and `CloudProbe` have liveness. In `LifecycleEngine`: weak
fairness of `Proceed(p)`: a process
that is scheduled goes on to its next step; the code between two writes does
not wait for another process. Strong fairness of taking the lease and of each
kind of session: callers and the operator come back as long as the run needs
them, and lose the lease to each other only sometimes. This is an assumption
about the environment: the program has no scheduler of its own and nothing in
it retries. Weak fairness of `ClearHotJournal`: somebody opens the file with
SQLite when a dead transaction's journal keeps `open()` from it; without it the
run can stay closed for ever, since the program itself refuses to read such a
file. `MaxFaults` makes crashes finite.

In `CloudProbe`: weak fairness of `Proceed`, a command that runs goes on, and
strong fairness of `Resume`: the operator resumes a run that has not ended,
however often seal attempts come between. `EventuallyDecided` lists the four
ways in which it ends, one of which needs the operator's judgement: a request
whose answer was lost is never sent again.

## Proofs

Every theorem holds for all values of the constants that satisfy the named
assumptions; no bound of an instance is in them. What each rests on:

| module | theorems | assumptions on the constants |
|---|---|---|
| `RunStore_proofs` | `TypeCorrect`, `LifecycleCorrect`, `AppendOnlyCorrect`, `VerifyIntegrityCorrect`, `StoreRefinesSerialRun` | a schedule of at least one event over the roster, a positive attempt bound; `VerifyIntegrityCorrect` also `LegacyCallers = FALSE` |
| `LifecycleEngine_proofs` | `EngineRefinesStore`, `EngineStaysOpenable`, `LeaseholderViewCorrect`, `NoBlindResendCorrect` | those of `RunStore`; "nobody" is no process; `EngineStaysOpenable` also `LegacyCallers = FALSE` |
| `Checkpoint_proofs` | `CheckpointableCorrect`, `ResumeActionCorrect`, `CurrentIsUnchanged` | those of `RunStore`, `LegacyCallers = FALSE`; `None` is no link |
| `CloudProbe_proofs` | `SentOnce`, `BudgetsCorrect`, `StoredReplays`, `MarkerIsFinal` | every code has a positive budget, no code is a parsed answer's kind, a positive total budget |
| `ProbeStore_proofs` | `StoreOpens`, `SealedLists`, `StoreIsArchive` | a positive length of a series; `Absent` is no directory, list, handle state or operation |
| `JudgeRun_proofs` | `RunInvCorrect`, `SentOnce`, `InOrder`, `EvidenceCorrect`, `ArchiveOpens`, `ArchiveIsLedger` | at least one item and one attempt; "coded" is no failure code |
| `JudgeRun_proofs` (`Review`) | `ReviewProposesEarned` | `PolicyValid`: what the specification's and the policy's validators accept (finitely many cases with different hashes, judges and humans apart, a positive sample of each stratum, passing labels among the labels) |
| `MockRun_proofs` | `ReportStaysExact`, `RefusalsHaveReasons` | every cell is valid (`PipelineAssumption`); `MockRunValid`: lengths are natural numbers, "nothing" is no process and none of the outcomes |
| `Study_proofs` (`Network`) | `SearchIsBounded`, `SearchKeepsDegrees`, `ShadowIsAccepted` | the graphs asked for are finite sets of edges within the builder's limits |
| `Study_proofs` (`Smoke`) | `SmokePassesOnce` | `SmokeValid`: at least one prompt before the stop and one after it, at least one diagnostic, any bound on the removals; "nothing" is no command or archive |
| `Study_proofs` (`Diagnostic`) | `DiagnosticVerifiesOne` | `DiagnosticValid`: at least one cell, all different, at least one event of each, a slice no longer than a cell |
| `Study_proofs` (`Schedule`) | `ScheduleStaysSound` | `ScheduleValid`: positive weights (`_normalize_positive_weights` refuses others), positive numbers of agents, sweeps and tries |
| `Study_proofs` (`Matrix`) | `MatrixIsMatched` | `MatrixValid`: seven counts that add up to the agents, numbers of agents that are natural, drifts of the cells and of their fields |
| `Study_proofs` (`Population`) | `PopulationStaysExact` | `PopulationValid`, that is `SurveyValid` of every survey: the weights are shares of n agents, no entry is in the library of two stances |
| `Study_proofs` (`StoreHandle`) | `WritersSeeTheirRow`, `ReadersSeeTheRow` | the marks for "nothing" are no handle and no version |

**Run store.** `TypeCorrect` (`Spec => []TypeOK`) and `LifecycleCorrect` (`Spec =>
[]LifecycleReplays`) hold with and without legacy callers. `LifecycleReplays`
is almost inductive. What it lacks is `SealedFirst`: no attempt, link or event
exists before round 0 is sealed; without it a commit could find agents with no
rows. `Invariant == TypeOK /\ SealedFirst /\ LifecycleReplays` is inductive
(`InitInvariant`, `StepInvariant`). The step proof is organised by what an
action can disturb: `StepShapes` reduces the eleven actions to the few ways a
step changes the journal, the chain and the execution state, and one lemma per
conjunct shows that it survives each of them.

`VerifyIntegrityCorrect` adds the v6 exact cover, under `LegacyCallers = FALSE`:
with legacy callers it is false, which is what the run `RunStoreMixed` shows.
Its lemma `RowStepFits` follows one attempt through each change of its row;
`StaysExactCover` lifts it to all attempts. `AppendOnlyCorrect` is the action
property `EvidenceIsAppendOnly`, from the same lemmas about single rows.
`StoreRefinesSerialRun` shows each transaction to be a step of `SerialRun` or a
stutter: a new attempt, its failure or success, an authorization or a commit,
as the phase that the latest row and the chain give the current event; writes of
evidence and of the initial state leave that as it was.

**Store handle.** A handle answers from memory while its connection signature is
the one it verified. The invariant has two parts: `SignatureInv`, a verified
signature is never ahead of `data_version`, and where it is the current one the
cache is the committed row; `WriterInv`, the handle in a write transaction owns
the lease and has the row of its transaction as pending value, or the committed
row as cache. The first is what makes the cache sound, the second what a
`ROLLBACK` relies on.

**Engine.** The run lease is the whole argument: whoever is inside a session owns
it, so nobody else writes, and what a process read from the journal stays true
until its own next write (`Knows`). From that each durable write of `execute()`
meets the guard of one of `RunStore`'s transactions (`EngineRefinesStore`), and
the theorems about the store carry over; `NoBlindResendCorrect` needs that a
process about to call the provider has found its attempt new
(`NotYetCalled`).

**Checkpoint.** The invariant is `RunStore`'s, with the v6 evidence, of the store
and again of the copy of the database that may be put back (`CopyInv`: the
copy is an instance of `RunStoreIntegrity`, so that restoring it swaps one
invariant for the other). The rest is about one state. `ChainToSelects`, by induction
over the chain, says what the links up to an ordinal are: alternating failures
and authorizations, each failure before the last one with its authorization behind
it. `HaltIsOfLatest` ties an unauthorized last link to the latest attempt of
the current event, `ProjectionFits` shows that the evidence of any
committed prefix covers its attempts, and the execution state in a snapshot is
the one derived from its rows. From these `WellFormed` follows for the present
(`SnapshotIsWellFormed`) and for every committed ordinal (`HistoryIsWellFormed`).
`CurrentIsUnchanged` rests on `Decoded`, which reads every table off a checkpoint:
the agents' rows from the ordinal and the schedule, past attempts from the event
log, their answers from the invocations table (`InvocationsHold`, by induction
over `FlattenSeq`), the present ones from the prefix. `StoreIsDecoded` shows that
this gives back the store; that the file stays decodable to the store it was
taken of is the one invariant that is added (`FileInv`).

**Cloud probe.** `ProbeInv` says of the stored chains that each replays and keeps
its budgets, of a command at work that what it has in memory is what is durable
and that no marker exists, of the intents that they cover what was answered and
what was sent and that a command that plans has none left over, and of the
request in hand that it is the next one of its chain. No request is sent twice because
the intent is durable before the request, and a command that finds an
unanswered intent plans nothing. `LongerChainReplays` and `LongerChainFits`
say what one more attempt does to a chain and its counts; a retried error and a
repair keep the counts of the errors before them.

**Probe store.** `StoreInv` says what the directories hold at each file step of an
operation, and what is left of them when it is cut off there; `torn` is in it
because two of those remains cannot be opened. A stale handle is harmless in it:
what it lists is stored. `StoreIsArchive` maps what the staging and the
sealed directory hold to the records of `RecordArchive`. The link
that creates a record is the step at which the archive grows; everything else is
a stutter.

**Judge run.** The archive is five directories, of which the first names the whole
transaction. `Holds(archive, log)` relates them to one log: the journal, the
projections and the commits are those of the log up to at most its last record,
and nothing else is there. Recovery by anybody completes them to the same log,
so the log never loses a record, and a reader without the lock sees the log or
the log without its last record. `LegalLog` says that no record is in the
log twice, that the records before it accept the last one, and what its replay
is like: which items have which attempts and results, and that the evidence of
an attempt is of one kind. On top of it `RunnerInv` says what a
runner may rely on at each of its steps; since `Plan` reads what others are
writing, a plan may be stale, and it is the acceptance of the intent that makes
it harmless. `Replay` is a recursive function over the log. What it yields for a
log with one more record is proved by induction on its length
(`WellFoundedInduction`, with the set of lengths for which the claim holds in
place of a predicate).

**Network.** `SearchKeepsDegrees`: the graph
that the search works on is in one piece and has the degrees of the WS graph at
every step. An accepted swap replaces two edges by two others on the same four
nodes, which the admissibility of the candidate keeps apart from those that are
there; a degree is the size of a set of edges, and one edge leaves it for one
that joins. `DegreeInv` adds what this needs: the graph's edges are edges,
finitely many, and the one being removed is among them. `SearchIsBounded`: every
accepted swap takes a WS edge out of the overlap and adds none, so that accepted
swaps and overlap together never exceed the number of edges. This is the
argument that the loop without a counter (`network.py:298`) ends.
`ShadowIsAccepted` adds the counts (`AuditInv`): an attempt has used at most a
budget of trials for each accepted swap and one more for the round it is in, so
that, by `SearchIsBounded`, it stays within the validator's edges times budget;
and the totals compare because every attempt's counts do (`TotalsCompare`, by
induction on the number of attempts).

**Smoke.** The archive has no lock, so any number of operators run commands on it
at the same time. `SmokeInv` says for a command at work what it has read of the
archive and that this is still a beginning of what is there (`Sound`), for the
archive that the intents are `1 .. m`, that the attempts are the first ones in
order and that at most one intent lacks its attempt (`Counted`), and that the
process between an intent and its attempt is the only one that works on
prompts (`Alone`): whoever plans the same prompt fails to create the intent's
record, which can be created once. From that the requests on the wire are the
intents in order, once each, around the stop that a progress record names
(`Wired`); other stops can be recorded beside it. A result that says "passed"
stands for exactly this (`SmokePassesOnce`). All this is so as long as no process
that came too late to create the archive has removed it: `LateInv`, the inductive
invariant, asks for `SmokeInv` where `removals` is zero and for nothing behind
that, and no step takes `removals` back. That the assumption is needed is what
the run `SmokeCreate` shows.

**Review.** `ReviewInv` says of the bundle in hand that its constructor accepts
it, and of the selection that it stands on counted codes. Each step has to be
shown to make a bundle which passes the constructor, whose checks recount what
the step counted: the lemmas are about the agreement of two coders as a sum
over items, the consensus and the adjudications of what they dispute. That the
policy's hashes order the cases without ties, so that a sample is what the
constructor draws again, comes from `FirstOfRanking`.

**Diagnostic.** Any number of processes may be launched on one root, none of which
holds a lock. While the journal can be read at most one of them recorded
the opening intent, and `Account(p)` says what this process has done: it has sent
every event before its own once, staged it in order, and none after it. A second process is refused at its
first intent (`MayDispatch`), or, when it had read the journal before the first one wrote,
records the opening once more, after which the journal cannot be read, by the
verifier either. `DiagnosticInv` is that and the types: what the verifier
accepts is the account of one process at its end.

**Schedule.** `ScheduleInv` follows the construction: each phase has what the ones
before it made in full, each slot has the sweep and position of its index,
and no flag is set for a lurker. The proportion is arithmetic: a draw falls to an agent
when it lies between two cumulated weights, and the number of evenly spaced
draws in an interval differs from its length over the grain by at most one
(`QuotientIs`, `Shares`), however the weights fall.

**Matrix.** An artifact of a bundle was made by one of two families and edited or
not (`BundleIsMade`). The matches that `build_mock_matched_seed_matrix` asks
for are about neighbours; `MatrixIsMatched` shows that together they fix the
whole chain, from the population's agents to the schedule's. For the cells, that
two of them differ in nothing shared follows from each one's match with its own
record and with the first cell.

**Population.** The rounding steps are inequalities between sums: each floor is at
most its share, and the shares add up. `SumOf` is a fold over a set;
`SumIsTally` shows it to be the cardinality of a set of pairs, whence it has its
recursion equation (`SumIs`) and, by induction over the parts of a finite set
(`SubsetInduction`), is linear, monotonic, and the same by rows as by columns
(`SumIsDouble`). `ResidualIsAvailable`: the fractions add up to the residual, each is
less than one, so more donors than the residual have one. `RowsAndColumns`: the
strata and the stances both add up to n, so a stratum lacks an agent exactly
while a stance does, and an open cell exists for as long as one is looked for.
`PopulationInv` carries from step to step that the clones are n
(`Cloned`), that no row or column of the allocation is over its total
(`Allotted`), and that the dealt stances have their counts (`Dealt`); then an
agent's position in the pool of its stance is within the library and nobody
else's (`PositionsAre`).

**Mock run.** A report is about one call, in the midst of the others. `CallInv(p)`
says how far the call of p can be sure of the log: the events it counted are
its own, and while it waits for `execute()` the outcome it will look at stands
for a commit of its own behind them (`OwnCommit`) or for a log that is full.
That the committed prefix is then exactly one longer leaves no room for anybody
else's event, except when it was full, where the count can still be right
although the last event is not its own. A checkpoint that is not of its name
(`StrayMark`) shows that another process's event is behind; then no later
count fits, and no report is made. `LogGoesOn` and `SameCall` are all a call
needs of the other processes' steps, so the pipeline's caches, its clock and the
data of the events play no part (`GoesOn`).

Why a pipeline refuses an event is the pipeline's side of the same run, and there
the caches do play a part. `RefusalInv` adds to `ReportInv` what is known of the
current event and of each process. `OpenInv`: the stored input is what anybody
would prepare for the event with that capacity, and stays so until the commit,
since log, rows and posts change in no other step. `AtItsPlace(p)`: whoever is at
work holds the lease, and the journal is where it left it; so no other process
has touched the event meanwhile. `UpToDate(p)`, as long as nobody else has
written: a clock that no attempt has read replays exactly the start of the
attempt in progress, a fetched answer belongs to the request on its way, the
last commit is the process's own, and its call has counted every event. A
refusal's reason then outlives the refusal: an answer beyond the parser leaves
`Stuck`, from which no step leads, and what a caller asked for differs from the
input until the call is over. Each step is proved for the process that takes it
(`...IsAccounted`); for the others it is enough that either nothing they look at
changed or they have heard of the write and hold no lease (`StaysWith`,
`OthersAreAccounted`).

`TypeCorrect` and `RunInvCorrect` are the invariants the others rest on; no run
checks them by themselves.

Model-checked only: `ValidExactlyIfPast` of `Checkpoint`, which needs an inductive
description of every state of the past; `RunIsDetermined` of
`MockRun`, with its part `NothingContradicts`, and `AuditBalances` of `ProcessAudit`, which are about the contents of feeds,
prompts and rows. The unread feed and the scripted attempts are filters of sequences
(`SelectSeq`, a fold), what they return for every sequence needs an induction over data,
and no prover here has one; and liveness
(`EventuallySettled`, `EventuallyDecided`), which is out of the prover's reach.

## Where code and documents disagree

* `RunStoreMixed`: `append_attempt` accepts a terminal record for an attempt
  that carries v6 evidence. The store then fails its own verification.
* `StoreHandleSnapshot`: after a rolled-back write, `execution_state()` inside
  `consistent_read()` answers from the abandoned transaction's pending value.
* `CloudProbeStop`: the test of irreversible failures demands that a terminal
  failure stops a run before a second request. A process that dies between
  storing the failed attempt and writing the terminal marker is resumed with
  the next case's request. The reason that is later recorded is then of the
  last attempt and not of the failure, and a run in which only failed cases are
  left gets no marker from `resume` at all (`Irreversible`): it raises.

* `SmokeCreate`: the plan of the smoke recovery lets duplicates and retries fail
  closed
  (`docs/superpowers/plans/2026-09-15-phase0a1-smoke-recovery-implementation.md:907`).
  Two processes can both find no archive (`calibration/store.py:205`); the second
  fails to make it (212), at any time after the first has, and on its way out
  removes the first one's with all it holds (224-227), intents and attempts
  included. The smoke can then be run again from the start: diagnostics and
  prompts go out a second time, and a result can say "passed" for them.
  `PassedOnce` therefore speaks of runs without such a removal. `run` of the cloud
  probe creates its archive by the same function; its model has one command at a
  time.

Seen while reading, and not the subject of a run:

* `seal_cloud_probe_report` writes the terminal marker of a run that has none,
  also of one that was interrupted, where the plan of the cloud probe says that
  a crash or interruption "must not build or seal a terminal report"
  (`docs/superpowers/plans/2026-09-10-paper1-phase0a1-cloud-probe-implementation.md:520`).
* With legacy callers a FAILED attempt without a bound failure gives the
  checkpoint's `resume_action` "retry_same_event", where the journal asks for an
  external authorization; and the checkpoint of a PENDING attempt that
  `record_prepared_attempt` completes later is refused as a conflict.
* A death inside `create()` leaves a directory that can neither be opened nor
  created; a death inside the removal of the staging directory leaves a sealed
  store that `open()` refuses ("sealed and staging evidence differ"); a death
  while `sealed.partial` is filled makes every later `seal()` fail. All three
  need the operator's hand; the records are there in each.

* In a judge archive, a death inside `verify_terminal_projection` can leave a
  temporary file beside `projection.json`, where no cleanup looks: every later
  `open()` refuses ("staging inventory is not exact"). This is the window that
  `OpensUnlessTorn` of `JudgeRun` names.
* A handle trusts the projections it has seen and one more. When its own append
  was finished by its next append's recovery, or another process appended once
  in between, one more append succeeds and the one after it refuses ("inventory
  changed after validation") until the archive is opened again.
* A judge run that died before its service start was appended cannot be resumed
  by `resume_judge`, which appends neither record; and no function continues
  behind a `recovered_response`, so that the operator has to append the
  response, the attempt and the resolution. After negative evidence nothing is
  accepted any more and the item stays unresolved, as the retry of a proved
  non-dispatch is disabled.
* Around the pipeline: an answer beyond the parser's limits raises
  (`parser.py:370`) after the invocation is durable, so that the attempt can
  never be finalized and every later call raises again; a scripted adapter
  raises for an attempt its script does not have (`adapters/mock.py:163`) after
  the attempt is IN_PROGRESS. `_advance_run_context_after_commit`
  (`pipeline.py:745`) raises in a process that was overtaken, although its
  commit is durable. `execute_mock_run` looks at the store after the lease is
  back (`mock_run.py:215`): another process's event can be in its report, and
  the checkpoint it names by one boundary may be of the next.
  `RefusedWithReason` and `ReportIsExact` say exactly when.
* Two launches of the Phase 0B slice can both pass the check for the run root
  (`phase0b/run.py:257`); what they leave does not verify, unless one did
  everything.
* A shadow and the structural gate both succeed only for rings of at least four
  neighbours and nine nodes. The matrix binds population, stances, reasons and
  templates by their hashes alone; a uniformly foreign one of the same roster is
  accepted, as every cell has it.
* A death in the smoke between a service stop and its progress, between the
  result and the last progress, or anywhere inside a phase leaves it where no
  command continues: nothing is sent again, and a new smoke has to be begun. Two
  `mark stopped` at once can record two stops, the second even behind a result
  that says "passed"; `PassedOnce` therefore speaks of the stop the progress
  names.
* `evaluate_quality_gates` takes a case whose answer was not parsed as one whose
  review is missing, and a missing review of any topic suppresses every
  proposal: the gate on the rate of parsed answers cannot apply below 1. A
  bundle whose review is incomplete is final. An item that only one judge coded
  cannot be disputed.
* Further hazards of the stores, covered by the same properties as their
  neighbours in the list: the second binding of a failure (`storage.py:3826`),
  the counts kept by difference (`storage.py:2014`), a prepare repeated over
  partial evidence (`storage.py:2195`), the single reading of the journal in
  `execute()` (`engine.py:299`). Without a property: the publication of a new
  run file (`storage.py:1414`) and two cloud commands at a time
  (`calibration/cloud_run.py:79`).

* An item that failed for good or stayed ambiguous blocks the order, so that the
  terminal projection can only be written when such an item is the last.

## What is not modelled

* Contents: the wording of prompts and personas, canonical JSON and hashes
  beyond what they bind, schemas, the validation of single fields. Their tests
  cover them and no order of steps disturbs them.
* Time: backoff delays, provider timeouts and clocks, except as the outcomes
  they lead to and, in `EventPipeline`, the replay of the mock clock.
* Random streams: a draw is any value it can have. The sampling of the
  Watts-Strogatz graph and the measures of the gate beyond "has a triangle" are
  external or real-valued.
* Two cloud commands on one store at a time. There is no lock; what would
  happen is no promise of the code.
* Of a smoke archive removed by a late creator: a removal that is cut off half
  way, and what a command that began before it writes into an archive that is made
  at the same path afterwards.
* The file system below a rename, a link and an fsync: each is one step and
  durable when it returns. A power loss that undoes a write which was not yet
  synced is not modelled. The publication of a new run file by
  `RunStorage.create` (`os.link`, `unlink`) is one step.
* Of the calibration: the command line, the specification and its cases, the
  reports and sealed packs, the offline facade, the materialization of a judge
  pack, the environment inspection; of a single transport diagnostic only that it
  happened. `_run_probe_smoke_legacy` has no caller.
* Of Phase 0B: the construction of the candidate matrix and of the prompts.
* The construction of statistics in the audit (rates, histograms), which are
  functions of the counts that are modelled.
* The pilots, which share no code with the platform.

`PROJECT.json` names every component with its status.

## Plan

What is left, in this order:

1. Proofs. `Checkpoint`: that `History` reconstructs
   exactly the projections the store went through (`ValidExactlyIfPast`), from
   append-only rows. `RunIsDetermined`, with `NothingContradicts`, and
   `AuditBalances`, which need lemmas about filtered sequences on top of `RefusalInv`.
2. `JudgePack`: the materialization of a judge pack from a sealed probe store,
   and the sealed reports that bind it.
3. `EventPipeline` as a refinement of `RunStore`, in place of its own rows.
