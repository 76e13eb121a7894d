----------------------------- MODULE Diagnostic -----------------------------
(***************************************************************************)
(* The Phase 0B diagnostic (phase0b/run.py, pipeline.py, contracts.py):    *)
(* the cells one after the other, each a chain of events of one agent,     *)
(* every event one request.  There is no database: a run leaves a journal  *)
(* of dispatches, a file of attempts, a projection and a terminal report,  *)
(* and a verifier decides from these files alone.                          *)
(*                                                                         *)
(* Processes may be launched on one directory, may die at any step, and a  *)
(* death may tear the file that is being written.  What was written before *)
(* is there: a power loss is not modelled.                                 *)
(***************************************************************************)
EXTENDS VllmEvent, FiniteSets

CONSTANTS
  Launcher,    \* processes an operator may start on the run root
  Cells,       \* the canonical cells, in order (12)
  PerCell,     \* events of a cell (40)
  Slice        \* events of a local slice, fewer than a cell has

DiagnosticValid ==
  PerCell \in Nat \ {0} /\ Slice \in 1 .. PerCell /\ Len(Cells) \in Nat \ {0} /\ IsInjective(Cells)

VARIABLES
  mandate,     \* what the operator launches with
  root,        \* whether the run root exists
  dispatch,    \* dispatch.jsonl
  staged,      \* staging/attempts.jsonl
  projection, report,    \* staging/projection.json, staging/terminal-report.json
  launched,    \* the processes
  sent        \* history: how often each event was sent

files == <<root, dispatch, staged, projection, report>>
EventTotal == Len(Cells) * PerCell
CellOf(i) == Cells[((i - 1) \div PerCell) + 1]
OrdinalOf(i) == (i - 1) % PerCell

-----------------------------------------------------------------------------
(* What is frozen before a launch: an authorization and the candidate,      *)
(* binding and policy it names by their hashes.                             *)
Hash == {"this", "other"}
Inventory == [cells : {Cells, Tail(Cells)}, events : {EventTotal, EventTotal - 1}, transports : {2 * EventTotal, EventTotal}]
Authorization ==
  [binding : Hash, policy : Hash, artifacts : Hash, inventory : Inventory]

(* DiagnosticRunAuthorization.__post_init__                                 *)
Authorizes(a) == a.inventory = [cells |-> Cells, events |-> EventTotal, transports |-> 2 * EventTotal]

(* DiagnosticMatrixCandidate.__post_init__                                  *)
Candidate == [artifacts : {"this"}, inventory : {i \in Inventory : i.events = EventTotal}]
IsCandidate(c) == c.inventory = [cells |-> Cells, events |-> EventTotal, transports |-> 2 * EventTotal]

Mandates ==
  [runner : {"real", "fake", "slice"}, authorization : {a \in Authorization : Authorizes(a)},
   candidate : {c \in Candidate : IsCandidate(c)}]

(* preflight_diagnostic_run                                                 *)
Preflight(m) ==
  /\ ~root
  /\ m.authorization.binding = "this"
  /\ m.authorization.policy = "this"
  /\ m.authorization.artifacts = m.candidate.artifacts
  /\ m.authorization.inventory = m.candidate.inventory
  /\ m.candidate.inventory.events = EventTotal /\ m.candidate.inventory.transports = 2 * EventTotal

-----------------------------------------------------------------------------
(* A process: its next step, the event it is at, the stances its agent has  *)
(* stated in this cell, and the stance the answer it holds commits, if any.  *)
Fresh == [step |-> "idle", index |-> 1, prior |-> <<>>, stance |-> Null]

DiagnosticInit ==
  /\ mandate \in Mandates
  /\ root = FALSE
  /\ dispatch = NewFile /\ staged = NewFile
  /\ projection = Null /\ report = Null
  /\ launched = [p \in Launcher |-> Fresh]
  /\ sent = [i \in 1 .. EventTotal |-> 0]

AtStep(p, step) == launched[p].step = step
Go(p, step) == launched' = [launched EXCEPT ![p].step = step]
Raise(p) == Go(p, "dead")

(* The request of the process's event.  A real run's names the whole state  *)
(* of its agent; a fake one only the event.                                 *)
RequestOf(p) ==
  [event |-> launched[p].index, prior |-> IF mandate.runner = "real" THEN launched[p].prior ELSE <<>>]

(* run_fake_diagnostic_slice, run_fake_diagnostic_matrix and                *)
(* run_real_adapter_diagnostic_matrix begin alike.                          *)
Launch(p) ==
  /\ AtStep(p, "idle") /\ Preflight(mandate)
  /\ Go(p, "plan")
  /\ UNCHANGED <<mandate, files, sent>>

(* record_before_dispatch reads the journal ...                             *)
PlanDispatch(p) ==
  /\ AtStep(p, "plan")
  /\ IF MayDispatch(dispatch, RequestOf(p)) THEN Go(p, "intend") ELSE Raise(p)
  /\ UNCHANGED <<mandate, files, sent>>

(* ... and appends to it, which makes the directory.                        *)
AppendIntent(p) ==
  /\ AtStep(p, "intend")
  /\ root' = TRUE
  /\ dispatch' = Appended(dispatch, Entry("intent", RequestOf(p)))
  /\ Go(p, "post")
  /\ UNCHANGED <<mandate, staged, projection, report, sent>>

(* generate sends the request and returns an answer, or raises.  Only a     *)
(* real run parses it (apply_diagnostic_vllm_response).                     *)
PostRequest(p) ==
  /\ AtStep(p, "post")
  /\ sent' = [sent EXCEPT ![launched[p].index] = @ + 1]
  /\ \/ \E answer \in Answers :
          launched' = [launched EXCEPT ![p].step = "resolve",
                         ![p].stance = IF mandate.runner = "real" THEN ReplyStance(answer) ELSE Null]
     \/ (\E x \in Exchange : Raises(x)) /\ Raise(p)
  /\ UNCHANGED <<mandate, files>>

(* record_resolution                                                        *)
ResolveDispatch(p) ==
  /\ AtStep(p, "resolve")
  /\ IF MayResolve(dispatch, RequestOf(p))
     THEN dispatch' = Appended(dispatch, Entry("resolution", RequestOf(p))) /\ Go(p, "stage")
     ELSE Raise(p) /\ UNCHANGED dispatch
  /\ UNCHANGED <<mandate, root, staged, projection, report, sent>>

(* _append_sanitized_attempt writes the attempt, committed or not.          *)
SanitizedAttempt(p) ==
  [cell |-> CellOf(launched[p].index), request |-> RequestOf(p), committed |-> launched[p].stance # Null]
LastEvent == IF mandate.runner = "slice" THEN Slice ELSE EventTotal

(* A cell begins with the state of round 0.                                 *)
Follow(process) ==
  LET next == process.index + 1
  IN [step |-> IF process.index = LastEvent THEN "project" ELSE "plan", index |-> next, stance |-> Null,
      prior |-> IF OrdinalOf(next) = 0 THEN <<>> ELSE Append(process.prior, process.stance)]

Stage(p) ==
  /\ AtStep(p, "stage")
  /\ staged' = Appended(staged, SanitizedAttempt(p))
  /\ IF mandate.runner = "real" /\ launched[p].stance = Null
     THEN Raise(p)
     ELSE launched' = [launched EXCEPT ![p] = Follow(@)]
  /\ UNCHANGED <<mandate, root, dispatch, projection, report, sent>>

(* staging.write_json("projection.json", ...): the counts of this process.  *)
Summary(p) ==
  [committed |-> launched[p].index - 1, transports |-> launched[p].index - 1,
   unresolved |-> Cardinality(Unresolved(dispatch)),
   cells |-> IF mandate.runner = "slice" THEN <<>> ELSE Cells]
Project(p) ==
  /\ AtStep(p, "project")
  /\ IF JournalReadable(dispatch)
     THEN projection' = Summary(p) /\ Go(p, "report")
     ELSE Raise(p) /\ UNCHANGED projection
  /\ UNCHANGED <<mandate, root, dispatch, staged, report, sent>>

(* DiagnosticTerminalReport.__post_init__                                   *)
ReportValid(r) ==
  /\ r.unresolved <= 1
  /\ r.transports \in r.committed .. 2 * EventTotal
  /\ r.committed <= EventTotal
  /\ r.status = "terminal_incomplete" =>
       /\ Len(r.cells) < Len(Cells) /\ r.cells = SubSeq(Cells, 1, Len(r.cells))
       /\ r.committed \in Len(r.cells) * PerCell .. Len(r.cells) * PerCell + PerCell - 1
  /\ r.status = "complete" => r.cells = Cells /\ r.committed = EventTotal /\ r.unresolved = 0

ReportOf(p) ==
  [status |-> IF mandate.runner = "slice" THEN "terminal_incomplete" ELSE "complete",
   cells |-> projection.cells, committed |-> launched[p].index - 1, transports |-> launched[p].index - 1,
   unresolved |-> projection.unresolved, projection |-> projection]
WriteReport(p) ==
  /\ AtStep(p, "report")
  /\ IF ReportValid(ReportOf(p))
     THEN report' = ReportOf(p) /\ Go(p, "done")
     ELSE Raise(p) /\ UNCHANGED report
  /\ UNCHANGED <<mandate, root, dispatch, staged, projection, sent>>

(* A process dies.  The file it was about to write may be left torn; a JSON *)
(* file that is torn cannot be read, as if it were missing.                 *)
LauncherDies(p) ==
  /\ launched[p].step \notin {"idle", "dead", "done"}
  /\ Raise(p)
  /\ \/ UNCHANGED files
     \/ AtStep(p, "intend") /\ root' = TRUE /\ UNCHANGED <<dispatch, staged, projection, report>>
     \/ AtStep(p, "intend") /\ root' = TRUE /\ dispatch' = Torn(dispatch) /\ UNCHANGED <<staged, projection, report>>
     \/ AtStep(p, "resolve") /\ dispatch' = Torn(dispatch) /\ UNCHANGED <<root, staged, projection, report>>
     \/ AtStep(p, "stage") /\ staged' = Torn(staged) /\ UNCHANGED <<root, dispatch, projection, report>>
  /\ UNCHANGED <<mandate, sent>>

DiagnosticStep(p) ==
  \/ Launch(p) \/ PlanDispatch(p) \/ AppendIntent(p) \/ PostRequest(p) \/ ResolveDispatch(p)
  \/ Stage(p) \/ Project(p) \/ WriteReport(p) \/ LauncherDies(p)
DiagnosticNext == \E p \in Launcher : DiagnosticStep(p)

-----------------------------------------------------------------------------
(* verify_diagnostic_matrix_run                                             *)
Verifies ==
  /\ projection # Null /\ report # Null
  /\ ~staged.torn /\ JournalReadable(dispatch)
  /\ report.projection = projection
  /\ report.status = "complete" /\ report.cells = Cells
  /\ report.committed = EventTotal /\ Len(staged.lines) = EventTotal /\ report.transports = EventTotal
  /\ report.unresolved = 0 /\ Unresolved(dispatch) = {}
  /\ \A c \in ToSet(Cells) : Cardinality({i \in 1 .. EventTotal : staged.lines[i].cell = c}) = PerCell

(* What the verifier accepts is one whole run, whatever was launched on the *)
(* directory and wherever a process died: every event was sent exactly once *)
(* and has its attempt, in order, and a real run committed every one of     *)
(* them on the state the one before it left.                                *)
VerifiedRunIsWhole ==
  Verifies =>
    \A i \in 1 .. EventTotal :
      /\ sent[i] = 1
      /\ staged.lines[i].request.event = i
      /\ mandate.runner = "real" =>
           /\ staged.lines[i].committed
           /\ OrdinalOf(i) # 0 =>
                Front(staged.lines[i].request.prior) = staged.lines[i - 1].request.prior
=============================================================================
