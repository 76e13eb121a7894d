----------------------------- MODULE SerialRun -----------------------------
(***************************************************************************)
(* What a run promises its reader, without rows, evidence or processes:    *)
(* events are decided one after another in schedule order; a failed        *)
(* attempt stops everything until it is authorized; only a successful      *)
(* attempt enters the log; and an agent's public post changes exactly when *)
(* one of its published events is logged.  RunStore implements it.         *)
(***************************************************************************)
EXTENDS Integers, Sequences

CONSTANTS Agents, EventCount, Agent, Publish

VARIABLES
  log,      \* log[i]: how many attempts event i - 1 took
  phase,    \* of the event that comes next
  tries,    \* attempts of that event so far
  public    \* public[a]: the event of a's latest post, -1 for round 0

vars == <<log, phase, tries, public>>

Event == Len(log)

Init ==
  /\ log = <<>>
  /\ phase = "idle"
  /\ tries = 0
  /\ public = [a \in Agents |-> -1]

Try ==
  /\ Event < EventCount
  /\ phase \in {"idle", "authorized"}
  /\ phase' = "running"
  /\ tries' = tries + 1
  /\ UNCHANGED <<log, public>>

Fail ==
  /\ phase = "running"
  /\ phase' = "halted"
  /\ UNCHANGED <<log, tries, public>>

Authorize ==
  /\ phase = "halted"
  /\ phase' = "authorized"
  /\ UNCHANGED <<log, tries, public>>

Succeed ==
  /\ phase = "running"
  /\ phase' = "decided"
  /\ UNCHANGED <<log, tries, public>>

Commit ==
  /\ phase = "decided"
  /\ public' = IF Publish[Event] THEN [public EXCEPT ![Agent[Event]] = Event] ELSE public
  /\ log' = Append(log, tries)
  /\ phase' = "idle"
  /\ tries' = 0

Next == Try \/ Fail \/ Authorize \/ Succeed \/ Commit

Spec == Init /\ [][Next]_vars
=============================================================================
