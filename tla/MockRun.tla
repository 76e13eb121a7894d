------------------------------ MODULE MockRun -------------------------------
(***************************************************************************)
(* execute_mock_run (mock_run.py): a caller runs the pipeline over an      *)
(* exact stretch of events and has checkpoints written at some of them.    *)
(* Nothing but the pipeline holds the lease, so other processes run        *)
(* between two events.                                                     *)
(***************************************************************************)
EXTENDS EventPipeline

CONSTANTS
  Lengths,     \* how many events a caller asks for
  Marks,       \* sets of checkpoints it asks for, counted from its start
  MaxRuns      \* bound: calls of execute_mock_run

VARIABLES
  job,         \* per process: the call it is in
  reports,     \* history: the reports that calls returned
  runs         \* how many calls were begun

mockRunVars == <<pipelineVars, job, reports, runs>>

(* What a caller can ask for; and None is no process and no outcome.        *)
MockRunValid ==
  /\ Lengths \subseteq Nat
  /\ None \notin Process
  /\ None \notin {"committed", "complete", "overtaken", "reconciliation", "input", "start", "unparsable"}

NoJob == [at |-> "none", start |-> 0, target |-> 0, done |-> 0, capacity |-> 0, marks |-> {}, taken |-> {}]

MockRunInit ==
  /\ PipelineInit
  /\ job = [p \in Process |-> NoJob] /\ reports = {} /\ runs = 0

Doing(p, at) == job[p].at = at
Then(p, at) == job' = [job EXCEPT ![p].at = at]
Raised(p) == job' = [job EXCEPT ![p] = NoJob]

(* What a caller asks for is checked against what is committed: invocations *)
(* of start .. target - 1, none when there is nothing to do, and            *)
(* checkpoints of what they commit.                                         *)
Begin(p, length, marks, capacity) ==
  /\ pipe[p].at = "open" /\ Doing(p, "none") /\ runs < MaxRuns
  /\ NextOrdinal + length <= Events
  /\ marks \subseteq 1 .. length
  /\ runs' = runs + 1
  /\ job' = [job EXCEPT ![p] = [NoJob EXCEPT !.at = IF length = 0 THEN "end" ELSE "between",
                                  !.start = NextOrdinal, !.target = NextOrdinal + length,
                                  !.capacity = capacity, !.marks = {NextOrdinal + k : k \in marks}]]
  /\ Step(p, [pipe[p] EXCEPT !.outcome = None])
  /\ UNCHANGED <<cell, store, reports>>

Invoke(p) ==
  /\ Doing(p, "between")
  /\ Execute(p, job[p].capacity)
  /\ Then(p, "invoked")
  /\ UNCHANGED <<reports, runs>>

(* Mutant: the committed prefix is not looked at again.                     *)
TakeAnyPrefix(p) ==
  /\ Doing(p, "invoked") /\ pipe[p].at = "open"
  /\ IF pipe[p].outcome \notin {"committed", "complete"}
     THEN Raised(p) /\ UNCHANGED pipe
     ELSE /\ job' = [job EXCEPT ![p].done = @ + 1,
                       ![p].at = IF NextOrdinal \in job[p].marks THEN "mark"
                                 ELSE IF NextOrdinal = job[p].target THEN "end" ELSE "between"]
          /\ Step(p, [pipe[p] EXCEPT !.outcome = None])
  /\ UNCHANGED <<cell, store, reports, runs>>

(* The call of execute() ended: the committed prefix must be exactly one    *)
(* event longer than before.                                                *)
AfterInvocation(p) ==
  /\ Doing(p, "invoked") /\ pipe[p].at = "open"
  /\ IF pipe[p].outcome \notin {"committed", "complete"} \/ NextOrdinal # job[p].start + job[p].done + 1
     THEN Raised(p) /\ UNCHANGED pipe
     ELSE /\ job' = [job EXCEPT ![p].done = @ + 1,
                       ![p].at = IF NextOrdinal \in job[p].marks THEN "mark"
                                 ELSE IF NextOrdinal = job[p].target THEN "end" ELSE "between"]
          /\ Step(p, [pipe[p] EXCEPT !.outcome = None])
  /\ UNCHANGED <<cell, store, reports, runs>>

(* A checkpoint of what is committed now, under the name of the ordinal     *)
(* that was asked for.                                                      *)
Mark(p) ==
  /\ Doing(p, "mark")
  /\ LET name == job[p].start + job[p].done
     IN job' = [job EXCEPT ![p].taken = @ \union {[name |-> name, of |-> NextOrdinal]},
                  ![p].at = IF name = job[p].target THEN "end" ELSE "between"]
  /\ UNCHANGED <<pipelineVars, reports, runs>>

End(p) ==
  /\ Doing(p, "end")
  /\ reports' = IF NextOrdinal = job[p].target
                THEN reports \union {[process |-> p, start |-> job[p].start, next |-> NextOrdinal,
                                      executed |-> job[p].done, checkpoints |-> job[p].taken]}
                ELSE reports
  /\ Raised(p)
  /\ UNCHANGED <<pipelineVars, runs>>

Work(p) == PipelineStep(p) /\ UNCHANGED <<job, reports, runs>>
Die(p) == Crash(p) /\ Raised(p) /\ UNCHANGED <<reports, runs>>
Restart(p) == \E reconcile \in BOOLEAN : Reopen(p, reconcile) /\ UNCHANGED <<job, reports, runs>>
AuthorizeRetry == Authorize /\ UNCHANGED <<job, reports, runs>>

MockRunStep(p) ==
  \/ Restart(p)
  \/ \E length \in Lengths, marks \in Marks, capacity \in cell.capacities : Begin(p, length, marks, capacity)
  \/ Invoke(p) \/ Work(p) \/ AfterInvocation(p) \/ Mark(p) \/ End(p) \/ Die(p)
MockRunNext == AuthorizeRetry \/ \E p \in Process : MockRunStep(p)

-----------------------------------------------------------------------------
(* What the run should be, from the frozen cell alone.                      *)

StanceOf(event) == Last(event.attempts).stance
AgentAt(k) == cell.slots[k + 1].agent

(* The attempts of event k: what its script says up to the first stance.    *)
ScriptedAttempts(k) ==
  LET script == cell.script[k + 1]
      good == CHOOSE i \in DOMAIN script :
                script[i] \in Stances /\ \A j \in 1 .. i - 1 : script[j] \notin Stances
  IN [i \in 1 .. good |-> IF i = good THEN [status |-> "succeeded", stance |-> script[i]]
                          ELSE [status |-> "failed", stance |-> None]]

EarlierOf(k) == {j \in 0 .. k - 1 : AgentAt(j) = AgentAt(k)}
PostOf(j) == [author |-> AgentAt(j), ordinal |-> j, stance |-> StanceOf(log[j + 1].event)]
PublishedBefore(k) ==
  {[author |-> a, ordinal |-> RoundZero, stance |-> cell.stance[a]] : a \in Agents}
    \union {PostOf(j) : j \in {i \in 0 .. k - 1 : cell.slots[i + 1].publish}}

(* Since it was last activated, or ever.                                    *)
UnreadBy(k) ==
  {x \in PublishedBefore(k) : x.author \in Neighbours(AgentAt(k))
     /\ (EarlierOf(k) # {} => x.ordinal > Max(EarlierOf(k)))}
MemoryOf(k) ==
  LET own == EarlierOf(k) \union {RoundZero}
      recent == {j \in own : Cardinality({i \in own : i > j}) < Window}
  IN {[ordinal |-> j, stance |-> IF j = RoundZero THEN cell.stance[AgentAt(k)]
                                 ELSE StanceOf(log[j + 1].event)] : j \in recent}

(* The log, the rows and the posts change in no other step.                 *)
JustCommitted == \E p \in Process : pipe[p].at = "committed"

(* The pipelines' caches and the store never contradict each other: nothing *)
(* that is prepared, brought back or committed fails the checks made of it. *)
NothingContradicts == \A p \in Process : pipe[p].outcome # "inconsistent"

(* However often processes died, retried and got in each other's way, their *)
(* caches never contradict what is stored, whoever wrote it; and the        *)
(* committed run is the one the frozen cell determines: every event has its *)
(* scripted attempts, its agent was shown the newest of exactly what its    *)
(* neighbours published since its last activation, nothing twice and        *)
(* nothing passed over, beside its own latest updates.  (An event is looked *)
(* at when it is the last one: what is committed does not change.)          *)
RunIsDetermined ==
  /\ NothingContradicts
  /\ JustCommitted =>
       LET k == NextOrdinal - 1
           event == log[k + 1].event
           input == log[k + 1].input
           shown == ToSet(input.exposure.shown)
       IN /\ event.agent = AgentAt(k) /\ event.publish = cell.slots[k + 1].publish
          /\ event.attempts = ScriptedAttempts(k)
          /\ ToSet(input.exposure.scanned) = UnreadBy(k)
          /\ shown \subseteq UnreadBy(k)
          /\ Cardinality(shown) = IF input.exposure.capacity < Cardinality(UnreadBy(k))
                                  THEN input.exposure.capacity ELSE Cardinality(UnreadBy(k))
          /\ \A x \in UnreadBy(k) \ shown, y \in shown : x.ordinal <= y.ordinal
          /\ {[ordinal |-> u.ordinal, stance |-> u.stance] : u \in ToSet(input.view.memory)} = MemoryOf(k)

(* A pipeline refuses an event only for a reason: another process wrote     *)
(* since it was opened, an attempt of its own has read its clock before, a  *)
(* request is on its way that nobody brought the answer to, the caller      *)
(* asked for something else than before, or the answer is beyond the        *)
(* parser.                                                                  *)
RefusedWithReason ==
  \A p \in Process :
    LET r == pipe[p]
    IN /\ r.outcome = "start" => r.news \/ r.read = "more"
       /\ r.outcome \in {"overtaken", "complete"} => r.news
       /\ r.outcome = "reconciliation" => r.news \/ open.phase = "sent"
       /\ r.outcome = "input" /\ Doing(p, "invoked") =>
            r.news \/ job[p].capacity # open.input.exposure.capacity
       /\ r.outcome = "unparsable" => open.response.answer = "oversized"

(* A report names what this call did: its events are its own, and each      *)
(* checkpoint is of the ordinal it is named for.  Only for the last event   *)
(* of the schedule does the caller take another process's commit for its    *)
(* own, as execute() then answers "complete".                               *)
ReportIsExact ==
  \A report \in reports :
    /\ report.executed = report.next - report.start
    /\ report.next < Events =>
         /\ \A k \in report.start + 1 .. report.next : log[k].by = report.process
         /\ \A c \in report.checkpoints : c.of = c.name
    /\ \A k \in report.start + 1 .. report.next - 1 : log[k].by = report.process
=============================================================================
