------------------------------ MODULE RunStore ------------------------------
(***************************************************************************)
(* The durable state of one run: the rows of the SQLite file that          *)
(* RunStorage (platform/src/agent_ex/storage.py) keeps, and its write      *)
(* operations.  Each action below is one write transaction: the checks the *)
(* operation makes before and inside it, and the rows it leaves at COMMIT. *)
(*                                                                         *)
(* A run executes the events of a frozen schedule strictly in order.  An   *)
(* event is attempted until an attempt succeeds; an attempt that fails     *)
(* halts the run until an authorization is appended behind the failure in  *)
(* the causal chain.  Hashes are modelled by the values they commit to.    *)
(***************************************************************************)
EXTENDS Integers, Sequences

CONSTANTS
  Agents,         \* the population roster
  EventCount,     \* number of slots of the frozen schedule
  Agent,          \* Agent[e]: the agent that slot e activates
  Publish,        \* Publish[e]: the publish flag of slot e
  MaxAttempts,    \* bound on the attempts of one event
  LegacyCallers   \* TRUE: callers also use the entry points that predate
                  \* the v6 execution evidence (append_attempt,
                  \* record_terminal_failure)

Ordinals == 0 .. EventCount - 1

ASSUME ScheduleAssumption ==
  /\ EventCount \in Nat \ {0}
  /\ Agent \in [Ordinals -> Agents]
  /\ Publish \in [Ordinals -> BOOLEAN]

ASSUME BoundAssumption == MaxAttempts \in Nat \ {0}

ASSUME CallerAssumption == LegacyCallers \in BOOLEAN

VARIABLES
  sealed,    \* binding.round0_root is set
  private,   \* private_states: the event an agent's private state is from
  cursor,    \* feed_cursors: the last event an agent scanned its feed at
  pointer,   \* latest_public_pointers: the event of an agent's latest post
  next,      \* progress.next_event_ordinal
  events,    \* ordinals with a row in events
  posts,     \* ordinals with a row in public_posts
  head,      \* progress.event_chain_head
  journal,   \* attempt_transitions, attempts and the v6 evidence tables
  chain,     \* terminal_failures and resume_authorizations, in sequence
  exec       \* the execution_state row

progressVars == <<next, events, posts, head>>
agentVars    == <<private, cursor, pointer>>
vars == <<sealed, agentVars, progressVars, journal, chain, exec>>

-----------------------------------------------------------------------------
(* Values *)

Absent == -2    \* the agent has no row yet
Round0 == -1    \* the agent's round-0 row

Status   == {"pending", "in_progress", "failed", "succeeded"}
Terminal == {"failed", "succeeded"}

(* What the adapter answers: text the parser accepts, text it rejects, a    *)
(* timeout.  Only the first makes the attempt succeed.                      *)
Reply   == {"accepted", "rejected", "timeout"}
NoReply == "no_reply"

Outcome(reply) == IF reply = "accepted" THEN "succeeded" ELSE "failed"

(* One attempt: its latest transition, and which v6 rows it has.            *)
Attempt == [status  : Status,
            request : BOOLEAN,
            reply   : Reply \union {NoReply},
            parsed  : BOOLEAN]

Link == [kind : {"failure", "authorization"}, ordinal : Ordinals, index : Nat \ {0}]

ExecStatus == {"RUNNING", "FAILED", "COMPLETE"}

ExecutionState ==
  [status  : ExecStatus,
   next    : 0 .. EventCount,
   current : Ordinals \union {EventCount},   \* EventCount: no current event
   ids     : SUBSET Ordinals,
   counts  : [Status -> Int],
   failed  : SUBSET Ordinals]

(* What one commit folds into the event chain head.                         *)
Entry == [ordinal : Ordinals, attempts : Nat, posted : BOOLEAN]

-----------------------------------------------------------------------------
(* Reading the journal *)

Running == next < EventCount

Latest(e) == journal[e][Len(journal[e])]

LatestIs(e, s) == journal[e] # <<>> /\ Latest(e).status = s

LastLink == chain[Len(chain)]

Halted == chain # <<>> /\ LastLink.kind = "failure"

Failure(e, k) == [kind |-> "failure", ordinal |-> e, index |-> k]

Authorization(e, k) == [kind |-> "authorization", ordinal |-> e, index |-> k]

(* Mutant: a FAILED predecessor is enough.                                  *)
RetryAfterFailure(e, k) == LatestIs(e, "failed")

(* The exact failure/authorization pair a retry of event e needs.           *)
RetryAuthorized(e, k) ==
  /\ Len(chain) >= 2
  /\ chain[Len(chain) - 1] = Failure(e, k - 1)
  /\ LastLink = Authorization(e, k - 1)

(* current_event_journal().resume_state                                     *)
Bound(e, k) == \E i \in DOMAIN chain : chain[i] = Failure(e, k)
Freed(e, k) == \E i \in DOMAIN chain : chain[i] = Authorization(e, k)

ResumeState ==
  IF ~Running THEN "complete"
  ELSE IF journal[next] = <<>> THEN "new_attempt"
  ELSE LET k == Len(journal[next]) IN
    CASE Latest(next).status = "pending"     -> "pending_attempt_requires_same_request"
      [] Latest(next).status = "in_progress" -> "in_progress_requires_provider_reconciliation"
      [] Latest(next).status = "succeeded"   -> "succeeded_attempt_requires_atomic_commit"
      [] Latest(next).status = "failed" ->
           IF ~Bound(next, k) THEN "failed_attempt_requires_external_authorization"
           ELSE IF Freed(next, k) THEN "retry_same_event"
           ELSE "halted_current_event"

-----------------------------------------------------------------------------
(* The execution-state row that a transition of event e to status s leaves. *)

OpenStatuses == {t \in Status \ {"succeeded"} : exec.counts[t] > 0}

(* "execution state current attempt status is ambiguous" *)
Unambiguous(e) == e \in exec.ids => \E t \in Status : OpenStatuses = {t}

(* Mutant: the status the attempt leaves is still counted.                  *)
CountsKeepingOld(e, s) ==
  [t \in Status |-> exec.counts[t] + (IF t = s THEN 1 ELSE 0)]

CountsAfter(e, s) ==
  [t \in Status |-> exec.counts[t]
                    - (IF e \in exec.ids /\ t \in OpenStatuses THEN 1 ELSE 0)
                    + (IF t = s THEN 1 ELSE 0)]

ExecutionAfter(e, s) ==
  [status |-> "RUNNING", next |-> exec.next, current |-> e, ids |-> exec.ids \union {e},
   counts |-> CountsAfter(e, s), failed |-> {}]

-----------------------------------------------------------------------------
(* Round 0 *)

InitializeAgent(a) ==
  /\ ~sealed
  /\ private[a] = Absent
  /\ private' = [private EXCEPT ![a] = Round0]
  /\ cursor'  = [cursor EXCEPT ![a] = Round0]
  /\ pointer' = [pointer EXCEPT ![a] = Round0]
  /\ UNCHANGED <<sealed, progressVars, journal, chain, exec>>

SealInitialState ==
  /\ ~sealed
  /\ \A e \in Ordinals : journal[e] = <<>>
  /\ \A a \in Agents : private[a] # Absent /\ cursor[a] # Absent /\ pointer[a] # Absent
  /\ sealed' = TRUE
  /\ head' = [head EXCEPT !.root = TRUE]
  /\ UNCHANGED <<agentVars, next, events, posts, journal, chain, exec>>

-----------------------------------------------------------------------------
(* The attempt lifecycle *)

PendingRow(withRequest) ==
  [status |-> "pending", request |-> withRequest, reply |-> NoReply, parsed |-> FALSE]

(* Mutant: a retry overwrites the failed attempt.                           *)
ReplaceWithPending(withRequest) ==
  /\ journal[next] # <<>> => LatestIs(next, "failed")
  /\ journal' = [journal EXCEPT ![next] = <<PendingRow(withRequest)>>]
  /\ exec' = ExecutionAfter(next, "pending")

(* A PENDING row for attempt k of the current event.                        *)
AppendPending(withRequest) ==
  LET k == Len(journal[next]) + 1 IN
  /\ k <= MaxAttempts
  /\ k > 1 => LatestIs(next, "failed") /\ RetryAuthorized(next, k)
  /\ Unambiguous(next)
  /\ journal' = [journal EXCEPT ![next] = Append(@, PendingRow(withRequest))]
  /\ exec' = ExecutionAfter(next, "pending")

(* The latest attempt of the current event moves to status s.               *)
Advance(from, s) ==
  /\ LatestIs(next, from)
  /\ Unambiguous(next)
  /\ journal' = [journal EXCEPT ![next][Len(journal[next])].status = s]

(* record_prepared_attempt: the request evidence and PENDING in one         *)
(* transaction; an exact replay over a lone PENDING row only fills in the   *)
(* evidence rows.                                                           *)
RecordPreparedAttempt ==
  /\ sealed /\ ~Halted /\ Running
  /\ \/ AppendPending(TRUE)
     \/ /\ LatestIs(next, "pending")
        /\ journal' = [journal EXCEPT ![next][Len(journal[next])].request = TRUE]
        /\ UNCHANGED exec
  /\ UNCHANGED <<sealed, agentVars, progressVars, chain>>

(* append_attempt with a PENDING record, as callers did before v6.          *)
AppendPendingAttempt ==
  /\ LegacyCallers
  /\ sealed /\ ~Halted /\ Running
  /\ AppendPending(FALSE)
  /\ UNCHANGED <<sealed, agentVars, progressVars, chain>>

(* append_attempt with an IN_PROGRESS record.                               *)
StartAttempt ==
  /\ sealed /\ ~Halted /\ Running
  /\ Advance("pending", "in_progress")
  /\ exec' = ExecutionAfter(next, "in_progress")
  /\ UNCHANGED <<sealed, agentVars, progressVars, chain>>

(* append_attempt with a terminal record, as callers did before v6.         *)
AppendTerminalAttempt(s) ==
  /\ LegacyCallers
  /\ sealed /\ ~Halted /\ Running
  /\ Advance("in_progress", s)
  /\ exec' = ExecutionAfter(next, s)
  /\ UNCHANGED <<sealed, agentVars, progressVars, chain>>

RecordInvocationEvidence(reply) ==
  /\ ~Halted /\ Running
  /\ LatestIs(next, "in_progress")
  /\ Latest(next).request
  /\ Latest(next).reply = NoReply
  /\ journal' = [journal EXCEPT ![next][Len(journal[next])].reply = reply]
  /\ UNCHANGED <<sealed, agentVars, progressVars, chain, exec>>

(* record_finalized_attempt: parse evidence, the terminal transition and,   *)
(* when it FAILED, the halting failure, in one transaction.                 *)
RecordFinalizedAttempt ==
  /\ Running
  /\ LatestIs(next, "in_progress")
  /\ Latest(next).request
  /\ Latest(next).reply # NoReply
  /\ Unambiguous(next)
  /\ LET k == Len(journal[next])
         s == Outcome(Latest(next).reply)
         landed == ExecutionAfter(next, s)
     IN
     /\ journal' = [journal EXCEPT ![next][k].status = s, ![next][k].parsed = TRUE]
     /\ IF s = "failed"
        THEN /\ landed.counts["failed"] = 1
             /\ chain' = Append(chain, Failure(next, k))
             /\ exec' = [landed EXCEPT !.status = "FAILED", !.failed = {next}]
        ELSE /\ UNCHANGED chain
             /\ exec' = landed
  /\ UNCHANGED <<sealed, agentVars, progressVars>>

-----------------------------------------------------------------------------
(* Failure and authorization *)

(* Mutant: an attempt that was already failed and authorized fails again.   *)
RecordTerminalFailureAgain ==
  /\ LegacyCallers
  /\ ~Halted /\ Running
  /\ LatestIs(next, "failed")
  /\ next \in exec.ids /\ exec.counts["failed"] = 1
  /\ chain' = Append(chain, Failure(next, Len(journal[next])))
  /\ exec' = [exec EXCEPT !.status = "FAILED", !.failed = {next}, !.current = next]
  /\ UNCHANGED <<sealed, agentVars, progressVars, journal>>

(* record_terminal_failure: halts on a FAILED attempt that has no failure   *)
(* evidence yet.                                                            *)
RecordTerminalFailure ==
  /\ LegacyCallers
  /\ ~Halted /\ Running
  /\ LatestIs(next, "failed")
  /\ ~Bound(next, Len(journal[next]))
  /\ next \in exec.ids /\ exec.counts["failed"] = 1
  /\ chain' = Append(chain, Failure(next, Len(journal[next])))
  /\ exec' = [exec EXCEPT !.status = "FAILED", !.failed = {next}, !.current = next]
  /\ UNCHANGED <<sealed, agentVars, progressVars, journal>>

AuthorizeResume ==
  /\ Halted
  /\ exec.status = "FAILED"
  /\ exec.current = LastLink.ordinal
  /\ exec.next = LastLink.ordinal
  /\ exec.failed = {LastLink.ordinal}
  /\ chain' = Append(chain, Authorization(LastLink.ordinal, LastLink.index))
  /\ exec' = [exec EXCEPT !.status = "RUNNING", !.failed = {}]
  /\ UNCHANGED <<sealed, agentVars, progressVars, journal>>

-----------------------------------------------------------------------------
(* Commit of the current event *)

(* Mutant: the publish flag of the slot is ignored.                         *)
PublishAlways(a) ==
  /\ posts' = posts \union {next}
  /\ pointer' = [pointer EXCEPT ![a] = next]

PublishPost(a) ==
  IF Publish[next]
  THEN /\ posts' = posts \union {next}
       /\ pointer' = [pointer EXCEPT ![a] = next]
  ELSE UNCHANGED <<posts, pointer>>

CommitSuccess ==
  /\ ~Halted /\ Running
  /\ LatestIs(next, "succeeded")
  /\ \A k \in 1 .. Len(journal[next]) - 1 : journal[next][k].status = "failed"
  /\ LET a == Agent[next] IN
     /\ private[a] # Absent /\ cursor[a] # Absent /\ pointer[a] # Absent
     /\ cursor[a] < next
     /\ next \in exec.ids /\ \A e \in exec.ids : e <= next
     /\ exec.counts["succeeded"] = next + 1
     /\ private' = [private EXCEPT ![a] = next]
     /\ cursor'  = [cursor EXCEPT ![a] = next]
     /\ PublishPost(a)
  /\ events' = events \union {next}
  /\ head' = [head EXCEPT !.log = Append(@, [ordinal  |-> next,
                                             attempts |-> Len(journal[next]),
                                             posted   |-> Publish[next]])]
  /\ next' = next + 1
  /\ exec' = [exec EXCEPT !.status = IF next + 1 = EventCount THEN "COMPLETE" ELSE "RUNNING",
                          !.next = next + 1,
                          !.current = next + 1]
  /\ UNCHANGED <<sealed, journal, chain>>

-----------------------------------------------------------------------------
(* create(): the rows of a new store *)

Init ==
  /\ sealed = FALSE
  /\ private = [a \in Agents |-> Absent]
  /\ cursor  = [a \in Agents |-> Absent]
  /\ pointer = [a \in Agents |-> Absent]
  /\ next = 0
  /\ events = {}
  /\ posts = {}
  /\ head = [root |-> FALSE, log |-> <<>>]
  /\ journal = [e \in Ordinals |-> <<>>]
  /\ chain = <<>>
  /\ exec = [status |-> "RUNNING", next |-> 0, current |-> 0, ids |-> {},
             counts |-> [s \in Status |-> 0], failed |-> {}]

Next ==
  \/ \E a \in Agents : InitializeAgent(a)
  \/ SealInitialState
  \/ RecordPreparedAttempt
  \/ AppendPendingAttempt
  \/ StartAttempt
  \/ \E s \in Terminal : AppendTerminalAttempt(s)
  \/ \E reply \in Reply : RecordInvocationEvidence(reply)
  \/ RecordFinalizedAttempt
  \/ RecordTerminalFailure
  \/ AuthorizeResume
  \/ CommitSuccess

Spec == Init /\ [][Next]_vars
=============================================================================
