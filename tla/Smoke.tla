------------------------------- MODULE Smoke --------------------------------
(***************************************************************************)
(* The smoke run that precedes a cloud run (calibration/smoke.py): local   *)
(* transport diagnostics, the first prompts, a stop of the service, the    *)
(* last prompts after its restart, and a result that says "passed".  Each  *)
(* part is a command of its own, run by hand on one archive, and any of    *)
(* them may be run twice, at once, or die half way.                        *)
(*                                                                         *)
(* The archive (calibration/store.py) locks nothing between processes: a   *)
(* record is checked against what is there and then created under the name *)
(* of its hash, which only an equal record can prevent.  It is created by   *)
(* whoever finds none there, and removed by whoever found none and then     *)
(* fails to create it because another has: with all that it holds.         *)
(***************************************************************************)
EXTENDS Naturals, Sequences, FiniteSets, SequencesExt

CONSTANTS
  Operator,      \* processes that run commands
  Early,         \* prompts before the stop of the service (9)
  Prompts,       \* prompts in all (10)
  Diagnostics,   \* transport diagnostics (3)
  Stops,         \* evidence of a stop of the service
  MaxRemovals,   \* bound: archives removed by a late creator
  Nothing        \* None of the source

VARIABLES
  archive,   \* Nothing, or the records of the staging directory
  creating,  \* processes that found no archive and go on to create it
  running,   \* the command of each process
  wire,      \* history: what was sent, and what was recorded of a stop, in order
  removals   \* history: the archives removed so far

smokeVars == <<archive, creating, running, wire, removals>>

Phases ==
  <<"ready", "diagnostics_complete", "phase_one_complete", "service_stopped", "phase_two_complete", "finalized">>

(* One attempt of a prompt, one record of the progress.                     *)
PromptAttempt == [ordinal : Nat, outcome : {"accepted", "drifted", "failed"}]
Progress == [number : DOMAIN Phases, phase : {Phases[i] : i \in DOMAIN Phases}, attempts : Seq(PromptAttempt), stop : Stops \union {Nothing}]

(* What a command holds while it runs, and what the staging directory holds.*)
Command ==
  [command : {"diagnostics", "phase_one", "mark_stopped", "phase_two", "finalize"},
   step : {"progress", "publish", "diagnose", "append", "intend", "send", "record", "resolve", "stop", "pass"},
   opened : Nat, listed : Seq(PromptAttempt), stop : Stops \union {Nothing}, record : PromptAttempt \union Progress \union {Nothing}]
Archive ==
  [progress : SUBSET Progress, diagnostics : Nat, intents : SUBSET Nat, attempts : Seq(PromptAttempt), resolved : SUBSET Nat,
   stops : SUBSET Stops, passed : BOOLEAN]

SmokeValid ==
  /\ Prompts \in Nat /\ Early \in 1 .. Prompts - 1 /\ Diagnostics \in Nat \ {0} /\ MaxRemovals \in Nat
  /\ Nothing \notin Command \union Archive

Completed(number) == IF number < 3 THEN 0 ELSE IF number < 5 THEN Early ELSE Prompts

(* SmokeProgress.__post_init__                                              *)
ProgressValid(r) ==
  /\ r.phase = Phases[r.number]
  /\ Len(r.attempts) = Completed(r.number)
  /\ IsInjective(r.attempts)
  /\ (r.number >= 4) = (r.stop # Nothing)

EmptyArchive ==
  [progress |-> {}, diagnostics |-> 0, intents |-> {}, attempts |-> <<>>, resolved |-> {}, stops |-> {}, passed |-> FALSE]

(* load_smoke_progress: one record of each number, without a gap.           *)
ProgressLoads == {r.number : r \in archive.progress} = 1 .. Cardinality(archive.progress)
Latest(phase) ==
  {r \in archive.progress : ProgressLoads /\ r.number = Cardinality(archive.progress) /\ r.phase = phase}

(* _attempts: what is there is what the handle lists, is the first count    *)
(* prompts in their order, and every answer is a response.                  *)
Ordinals(attempts) == [i \in DOMAIN attempts |-> attempts[i].ordinal]
AttemptsAre(count, listed) ==
  /\ archive.attempts = listed
  /\ Ordinals(listed) = [i \in 1 .. count |-> i]
  /\ \A i \in DOMAIN listed : listed[i].outcome # "failed"

SmokeInit ==
  /\ archive = Nothing
  /\ creating = {}
  /\ running = [p \in Operator |-> Nothing]
  /\ wire = <<>>
  /\ removals = 0

Idle(p) == running[p] = Nothing /\ p \notin creating
At(p, step) == running[p] # Nothing /\ running[p].step = step

(* A step that reads or writes the archive, which is the one that the       *)
(* command opened.  Where that was removed the step raises (Stopped).  What  *)
(* it would write into another one, made at the same path since, is not     *)
(* followed: nothing is claimed of the archives behind a removal.           *)
AtArchive(p, step) == At(p, step) /\ archive # Nothing /\ running[p].opened = removals

Enter(p, command, step, stop) ==
  running' = [running EXCEPT ![p] =
    [command |-> command, step |-> step, opened |-> removals, listed |-> IF archive = Nothing THEN <<>> ELSE archive.attempts, stop |-> stop, record |-> Nothing]]
Goto(p, step) == running' = [running EXCEPT ![p].step = step]

(* A command that returns, raises or dies leaves nothing but its records.   *)
Quit(p) == running' = [running EXCEPT ![p] = Nothing]

-----------------------------------------------------------------------------
(* The commands begin *)

(* run_smoke_diagnostics: ProbeRunStore.create refuses what exists ...       *)
BeginDiagnostics(p) ==
  /\ Idle(p) /\ archive = Nothing
  /\ creating' = creating \union {p}
  /\ UNCHANGED <<archive, running, wire, removals>>

(* ... and makes the directories, where there are none still ...            *)
Create(p) ==
  /\ p \in creating /\ archive = Nothing
  /\ archive' = EmptyArchive
  /\ creating' = creating \ {p}
  /\ Enter(p, "diagnostics", "progress", Nothing)
  /\ UNCHANGED <<wire, removals>>

(* ... or fails to, as another process has made them, and on its way out     *)
(* removes whatever is there: mkdir and rmtree are one step, since a failed *)
(* mkdir changes nothing.  An rmtree that is cut off is not followed.        *)
CreateTooLate(p) ==
  /\ p \in creating /\ archive # Nothing /\ removals < MaxRemovals
  /\ archive' = Nothing /\ removals' = removals + 1
  /\ creating' = creating \ {p}
  /\ UNCHANGED <<running, wire>>

(* run_smoke_phase_one                                                      *)
BeginPhaseOne(p) ==
  /\ Idle(p) /\ archive # Nothing
  /\ Latest("diagnostics_complete") # {}
  /\ archive.diagnostics = Diagnostics /\ archive.stops = {}
  /\ AttemptsAre(0, archive.attempts)
  /\ Enter(p, "phase_one", "intend", Nothing)
  /\ UNCHANGED <<archive, creating, wire, removals>>

(* mark_smoke_service_stopped                                               *)
BeginMarkStopped(p) ==
  /\ Idle(p) /\ archive # Nothing
  /\ \E prior \in Latest("phase_one_complete") : prior.attempts = archive.attempts
  /\ AttemptsAre(Early, archive.attempts)
  /\ archive.stops = {}
  /\ \E stop \in Stops : Enter(p, "mark_stopped", "stop", stop)
  /\ UNCHANGED <<archive, creating, wire, removals>>

(* run_smoke_phase_two                                                      *)
BeginPhaseTwo(p) ==
  /\ Idle(p) /\ archive # Nothing
  /\ AttemptsAre(Early, archive.attempts)
  /\ \E prior \in Latest("service_stopped") :
       archive.stops = {prior.stop} /\ Enter(p, "phase_two", "intend", prior.stop)
  /\ UNCHANGED <<archive, creating, wire, removals>>

(* finalize_probe_smoke                                                     *)
BeginFinalize(p) ==
  /\ Idle(p) /\ archive # Nothing
  /\ AttemptsAre(Prompts, archive.attempts)
  /\ archive.diagnostics = Diagnostics
  /\ \E prior \in Latest("phase_two_complete") :
       /\ prior.attempts = archive.attempts /\ archive.stops = {prior.stop}
       /\ Enter(p, "finalize", "pass", prior.stop)
  /\ UNCHANGED <<archive, creating, wire, removals>>

-----------------------------------------------------------------------------
(* _run_items *)

Ordinal(p) == Len(running[p].listed) + 1
Goal(p) == IF running[p].command = "phase_one" THEN Early ELSE Prompts

(* Mutant: another process's intent of the same request goes unnoticed.     *)
IntendAlways(p) ==
  /\ AtArchive(p, "intend")
  /\ archive' = [archive EXCEPT !.intents = @ \union {Ordinal(p)}]
  /\ Goto(p, "send")
  /\ UNCHANGED <<creating, wire, removals>>

(* before_dispatch: the record of an intent can be created once.            *)
Intend(p) ==
  /\ AtArchive(p, "intend")
  /\ IF Ordinal(p) \in archive.intents
     THEN Quit(p) /\ UNCHANGED archive
     ELSE archive' = [archive EXCEPT !.intents = @ \union {Ordinal(p)}] /\ Goto(p, "send")
  /\ UNCHANGED <<creating, wire, removals>>

(* VllmProbeAdapter.generate: accepted, a response of another model or with *)
(* thinking in it, or none.                                                 *)
Send(p) ==
  /\ At(p, "send")
  /\ wire' = Append(wire, <<"prompt", Ordinal(p)>>)
  /\ \E outcome \in {"accepted", "drifted", "failed"} :
       running' = [running EXCEPT ![p].step = "record", ![p].record = [ordinal |-> Ordinal(p), outcome |-> outcome]]
  /\ UNCHANGED <<archive, creating, removals>>

(* append_attempt: no attempt of that prompt may be there.                  *)
RecordAttempt(p) ==
  /\ AtArchive(p, "record")
  /\ IF running[p].record.ordinal \in ToSet(Ordinals(archive.attempts))
     THEN Quit(p) /\ UNCHANGED archive
     ELSE /\ archive' = [archive EXCEPT !.attempts = Append(@, running[p].record)]
          /\ running' = [running EXCEPT ![p].step = "resolve", ![p].listed = Append(@, running[p].record)]
  /\ UNCHANGED <<creating, wire, removals>>

(* The resolution, and after it the judgement of the response.              *)
Resolve(p) ==
  /\ AtArchive(p, "resolve")
  /\ archive' = [archive EXCEPT !.resolved = @ \union {running[p].record.ordinal}]
  /\ IF running[p].record.outcome # "accepted" THEN Quit(p)
     ELSE Goto(p, IF Len(running[p].listed) < Goal(p) THEN "intend" ELSE "progress")
  /\ UNCHANGED <<creating, wire, removals>>

-----------------------------------------------------------------------------
(* The other records *)

(* run_transport_diagnostics: all are executed before the first is appended.*)
Diagnose(p) ==
  /\ At(p, "diagnose")
  /\ wire' = Append(wire, <<"diagnosed", Diagnostics>>)
  /\ Goto(p, "append")
  /\ UNCHANGED <<archive, creating, removals>>

AppendTransportDiagnostic(p) ==
  /\ AtArchive(p, "append")
  /\ archive' = [archive EXCEPT !.diagnostics = @ + 1]
  /\ Goto(p, IF archive'.diagnostics < Diagnostics THEN "append" ELSE "progress")
  /\ UNCHANGED <<creating, wire, removals>>

(* append_service_stop: its checks were those of the command.  The service   *)
(* was stopped by hand, earlier; the event is that this is recorded.        *)
AppendServiceStop(p) ==
  /\ AtArchive(p, "stop")
  /\ IF running[p].stop \in archive.stops
     THEN Quit(p) /\ UNCHANGED <<archive, wire>>
     ELSE /\ archive' = [archive EXCEPT !.stops = @ \union {running[p].stop}]
          /\ wire' = Append(wire, <<"stop", running[p].stop>>)
          /\ Goto(p, "progress")
  /\ UNCHANGED <<creating, removals>>

(* append_review of the result, which names the attempts.                   *)
AppendResult(p) ==
  /\ AtArchive(p, "pass")
  /\ IF archive.passed THEN Quit(p) /\ UNCHANGED archive
     ELSE archive' = [archive EXCEPT !.passed = TRUE] /\ Goto(p, "progress")
  /\ UNCHANGED <<creating, wire, removals>>

-----------------------------------------------------------------------------
(* _progress *)

PhaseOf(p) ==
  CASE running[p].command = "diagnostics" -> IF archive.diagnostics = 0 THEN "ready" ELSE "diagnostics_complete"
    [] running[p].command = "phase_one" -> "phase_one_complete"
    [] running[p].command = "mark_stopped" -> "service_stopped"
    [] running[p].command = "phase_two" -> "phase_two_complete"
    [] running[p].command = "finalize" -> "finalized"

(* The phases _run_items leads to look at the attempts again.               *)
Reviewed(p) == running[p].command \in {"phase_one", "phase_two"} => AttemptsAre(Goal(p), running[p].listed)

(* The history is read and the record made of it ...                        *)
PrepareProgress(p) ==
  /\ AtArchive(p, "progress")
  /\ LET record == [number |-> Cardinality(archive.progress) + 1, phase |-> PhaseOf(p), attempts |-> running[p].listed, stop |-> running[p].stop]
     IN  IF Reviewed(p) /\ ProgressLoads /\ record.number \in DOMAIN Phases /\ ProgressValid(record)
         THEN running' = [running EXCEPT ![p].step = "publish", ![p].record = record]
         ELSE Quit(p)
  /\ UNCHANGED <<archive, creating, wire, removals>>

(* ... and created, unless an equal one is there.                           *)
PublishProgress(p) ==
  /\ AtArchive(p, "publish")
  /\ archive' = [archive EXCEPT !.progress = @ \union {running[p].record}]
  /\ IF running[p].record.phase = "ready" THEN Goto(p, "diagnose") ELSE Quit(p)
  /\ UNCHANGED <<creating, wire, removals>>

(* The process dies, or raises for want of its archive.                     *)
Stopped(p) ==
  /\ ~Idle(p)
  /\ Quit(p) /\ creating' = creating \ {p}
  /\ UNCHANGED <<archive, wire, removals>>

SmokeNext ==
  \E p \in Operator :
    \/ BeginDiagnostics(p) \/ Create(p) \/ CreateTooLate(p)
    \/ BeginPhaseOne(p) \/ BeginMarkStopped(p) \/ BeginPhaseTwo(p) \/ BeginFinalize(p)
    \/ Intend(p) \/ Send(p) \/ RecordAttempt(p) \/ Resolve(p)
    \/ Diagnose(p) \/ AppendTransportDiagnostic(p) \/ AppendServiceStop(p) \/ AppendResult(p)
    \/ PrepareProgress(p) \/ PublishProgress(p) \/ Stopped(p)

SmokeSpec == SmokeInit /\ [][SmokeNext]_smokeVars

-----------------------------------------------------------------------------
(* The events without the stops of the service that are not this one.       *)
Kept(events, stop) ==
  LET upTo[n \in 0 .. Len(events)] ==
        IF n = 0 THEN <<>>
        ELSE IF events[n][1] = "stop" => events[n][2] = stop THEN Append(upTo[n - 1], events[n]) ELSE upTo[n - 1]
  IN  upTo[Len(events)]

Sent(first, last) == [i \in 1 .. last - first + 1 |-> <<"prompt", first + i - 1>>]

(* A result that says "passed" stands for one pass through the service: the *)
(* diagnostics, the early prompts, the stop that the progress names, the    *)
(* late prompts; each prompt sent once by any process that ever ran, its    *)
(* intent resolved and its answer accepted.  A second stop can be recorded  *)
(* beside it, by a process that looked for stops before there was one.  All *)
(* this as long as no archive was removed by a late creator, after which    *)
(* everything can be done over (PromptsSentOnce).                           *)
PassedOnce ==
  removals = 0 /\ archive # Nothing /\ archive.passed =>
    /\ \E r \in archive.progress :
         /\ r.phase = "phase_two_complete"
         /\ Kept(wire, r.stop) =
              << <<"diagnosed", Diagnostics>> >> \o Sent(1, Early) \o << <<"stop", r.stop>> >> \o Sent(Early + 1, Prompts)
    /\ Ordinals(archive.attempts) = [i \in 1 .. Prompts |-> i]
    /\ \A i \in DOMAIN archive.attempts : archive.attempts[i].outcome = "accepted"
    /\ archive.intents = 1 .. Prompts /\ archive.resolved = 1 .. Prompts

(* No prompt is sent twice: what the intents are for, and what the plan of  *)
(* the smoke means by a retry that fails closed.  The removal of an archive *)
(* by a process that came too late to create it (ProbeRunStore.create)      *)
(* removes the intents too, and the prompts can be sent again.              *)
PromptsSentOnce ==
  \A i, j \in DOMAIN wire : i # j /\ wire[i] = wire[j] => wire[i][1] # "prompt"
=============================================================================
