-------------------------- MODULE LifecycleEngine --------------------------
(***************************************************************************)
(* Several processes drive one run store through                           *)
(* StrictSerialLifecycleEngine (platform/src/agent_ex/engine.py): open the *)
(* database, take the run lease, advance the current event by one attempt, *)
(* give the lease back.  A process may die at any point and take its       *)
(* volatile state with it; dying inside a transaction leaves SQLite's      *)
(* rollback journal behind, and open() refuses a database that has one.    *)
(*                                                                         *)
(* One lease session does one thing: a round-0 write, an authorization, or *)
(* one execute().  The writes are the transactions of RunStore.            *)
(***************************************************************************)
EXTENDS RunStoreIntegrity, FiniteSets

CONSTANTS
  Procs,       \* processes (or threads) that share the database file
  None,        \* no process
  MaxFaults    \* bound on crashes and exceptions

ASSUME EngineAssumption ==
  /\ None \notin Procs
  /\ MaxFaults \in Nat

VARIABLES
  pc,          \* how far each process is
  work,        \* the <<event, attempt>> its execute() call decided on
  held,        \* the provider answer it holds in memory
  seen,        \* the round0_root its store handle read when it was opened
  lease,       \* the process that owns the run lease
  hotJournal,  \* a dead transaction's rollback journal lies beside the file
  calls,       \* provider invocations made for each attempt
  faults       \* crashes and exceptions so far

sessionVars == <<pc, work, held, seen, lease, hotJournal>>
engineVars  == <<vars, sessionVars, calls, faults>>

NoWork == <<>>

(* Where an open process can be: outside a session, in one that has done    *)
(* nothing yet, inside execute(), or in one that is over.                   *)
Inside == {"preparing", "prepared", "calling", "called", "answered", "recorded", "landed"}

Current == <<next, Len(journal[next])>>

NextAttempt == <<next, Len(journal[next]) + 1>>

-----------------------------------------------------------------------------
(* Opening and leasing *)

Open(p) ==
  /\ pc[p] = "down"
  /\ ~hotJournal
  /\ VerifyIntegrity
  /\ pc' = [pc EXCEPT ![p] = "idle"]
  /\ seen' = [seen EXCEPT ![p] = sealed]
  /\ UNCHANGED <<vars, work, held, lease, hotJournal, calls, faults>>

(* A handle opened before another process sealed round 0 replays the event  *)
(* chain from the wrong genesis: verify_integrity raises until the caller   *)
(* opens the store again.                                                   *)
CloseStale(p) ==
  /\ pc[p] = "idle"
  /\ seen[p] # sealed
  /\ pc' = [pc EXCEPT ![p] = "down"]
  /\ UNCHANGED <<vars, work, held, seen, lease, hotJournal, calls, faults>>

(* Mutant: nobody looks whether the lease is taken.                         *)
EnterWithoutLease(p) ==
  /\ pc[p] = "idle"
  /\ seen[p] = sealed
  /\ VerifyIntegrity
  /\ pc' = [pc EXCEPT ![p] = "entered"]
  /\ lease' = p
  /\ hotJournal' = FALSE
  /\ UNCHANGED <<vars, work, held, seen, calls, faults>>

(* __enter__: take the lease, then verify; reading the database lets SQLite *)
(* roll a dead transaction back.                                            *)
Enter(p) ==
  /\ pc[p] = "idle"
  /\ lease = None
  /\ seen[p] = sealed
  /\ VerifyIntegrity
  /\ pc' = [pc EXCEPT ![p] = "entered"]
  /\ lease' = p
  /\ hotJournal' = FALSE
  /\ UNCHANGED <<vars, work, held, seen, calls, faults>>

Release(p) ==
  /\ lease' = IF lease = p THEN None ELSE lease
  /\ work' = [work EXCEPT ![p] = NoWork]
  /\ held' = [held EXCEPT ![p] = NoReply]

(* Mutant: the session ends and keeps the lease.                            *)
LeaveWithLease(p) ==
  /\ pc[p] = "done"
  /\ pc' = [pc EXCEPT ![p] = "idle"]
  /\ UNCHANGED <<vars, work, held, seen, lease, hotJournal, calls, faults>>

Leave(p) ==
  /\ pc[p] = "done"
  /\ pc' = [pc EXCEPT ![p] = "idle"]
  /\ Release(p)
  /\ UNCHANGED <<vars, seen, hotJournal, calls, faults>>

-----------------------------------------------------------------------------
(* Sessions that write without the engine *)

(* assert_run_lease_owned, at the start of every write transaction.         *)
MayWrite(p) == lease = p

Goto(p, point) == pc' = [pc EXCEPT ![p] = point]

Setup(p) ==
  /\ pc[p] = "entered" /\ MayWrite(p)
  /\ \/ (\E a \in Agents : InitializeAgent(a)) /\ UNCHANGED seen
     \/ SealInitialState /\ seen' = [seen EXCEPT ![p] = TRUE]
  /\ Goto(p, "done")
  /\ UNCHANGED <<work, held, lease, hotJournal, calls, faults>>

(* The operator authorizes a retry; not after the last attempt that         *)
(* MaxAttempts leaves room for.                                             *)
Authorize(p) ==
  /\ pc[p] = "entered" /\ MayWrite(p)
  /\ AuthorizeResume
  /\ LastLink.index < MaxAttempts
  /\ Goto(p, "done")
  /\ UNCHANGED <<work, held, seen, lease, hotJournal, calls, faults>>

-----------------------------------------------------------------------------
(* execute(): decide from the journal ...                                   *)

Begin(p, point, attempt, reply) ==
  /\ Goto(p, point)
  /\ work' = [work EXCEPT ![p] = attempt]
  /\ held' = [held EXCEPT ![p] = reply]

Execute(p) ==
  /\ pc[p] = "entered" /\ MayWrite(p)
  /\ \/ /\ sealed
        /\ ResumeState \in {"new_attempt", "retry_same_event"}
        /\ Begin(p, "preparing", NextAttempt, NoReply)
     \/ /\ ResumeState = "pending_attempt_requires_same_request"
        /\ Latest(next).request
        /\ Begin(p, "prepared", Current, NoReply)
     \/ /\ ResumeState = "in_progress_requires_provider_reconciliation"
        /\ Latest(next).request /\ Latest(next).reply # NoReply
        /\ Begin(p, "recorded", Current, Latest(next).reply)
     \/ /\ ResumeState = "succeeded_attempt_requires_atomic_commit"
        /\ Begin(p, "landed", Current, NoReply)
  /\ UNCHANGED <<vars, seen, lease, hotJournal, calls, faults>>

(* Mutant: an attempt in progress without an answer is sent again.          *)
ResendInProgress(p, reply) ==
  /\ pc[p] = "entered" /\ MayWrite(p)
  /\ ResumeState = "in_progress_requires_provider_reconciliation"
  /\ Latest(next).request /\ Latest(next).reply = NoReply
  /\ Begin(p, "calling", Current, NoReply)
  /\ UNCHANGED <<vars, seen, lease, hotJournal, calls, faults>>

(* ... with an explicit provider reconciliation, for an attempt that went   *)
(* out but whose answer was not persisted.                                  *)
Reconcile(p, reply) ==
  /\ pc[p] = "entered" /\ MayWrite(p)
  /\ ResumeState = "in_progress_requires_provider_reconciliation"
  /\ Latest(next).request /\ Latest(next).reply = NoReply
  /\ Begin(p, "answered", Current, reply)
  /\ UNCHANGED <<vars, seen, lease, hotJournal, calls, faults>>

(* ... or return "complete" or raise, having done nothing: a completed run, *)
(* a halted or failed event, an attempt in progress without an answer, a    *)
(* reconciliation nobody asked for.                                         *)
Decline(p) ==
  /\ pc[p] = "entered"
  /\ Goto(p, "done")
  /\ UNCHANGED <<vars, work, held, seen, lease, hotJournal, calls, faults>>

-----------------------------------------------------------------------------
(* ... then one durable write or one provider call at a time.               *)

Prepare(p) ==
  /\ pc[p] = "preparing" /\ MayWrite(p)
  /\ work[p] = NextAttempt
  /\ RecordPreparedAttempt
  /\ Goto(p, "prepared")
  /\ UNCHANGED <<work, held, seen, lease, hotJournal, calls, faults>>

Dispatch(p) ==
  /\ pc[p] = "prepared" /\ MayWrite(p)
  /\ work[p] = Current
  /\ StartAttempt
  /\ Goto(p, "calling")
  /\ UNCHANGED <<work, held, seen, lease, hotJournal, calls, faults>>

Invoke(p) ==
  /\ pc[p] = "calling"
  /\ calls' = [calls EXCEPT ![work[p][1]][work[p][2]] = @ + 1]
  /\ Goto(p, "called")
  /\ UNCHANGED <<vars, work, held, seen, lease, hotJournal, faults>>

Answer(p, reply) ==
  /\ pc[p] = "called"
  /\ Goto(p, "answered")
  /\ held' = [held EXCEPT ![p] = reply]
  /\ UNCHANGED <<vars, work, seen, lease, hotJournal, calls, faults>>

Persist(p) ==
  /\ pc[p] = "answered" /\ MayWrite(p)
  /\ work[p] = Current
  /\ RecordInvocationEvidence(held[p])
  /\ Goto(p, "recorded")
  /\ UNCHANGED <<work, held, seen, lease, hotJournal, calls, faults>>

Finalize(p) ==
  /\ pc[p] = "recorded" /\ MayWrite(p)
  /\ work[p] = Current
  /\ RecordFinalizedAttempt
  /\ Goto(p, IF Outcome(held[p]) = "failed" THEN "done" ELSE "landed")
  /\ UNCHANGED <<work, held, seen, lease, hotJournal, calls, faults>>

Commit(p) ==
  /\ pc[p] = "landed" /\ MayWrite(p)
  /\ work[p] = Current
  /\ CommitSuccess
  /\ Goto(p, "done")
  /\ UNCHANGED <<work, held, seen, lease, hotJournal, calls, faults>>

-----------------------------------------------------------------------------
(* Faults *)

(* A callback or a write raises: the transaction rolls back and the with    *)
(* block gives the lease back.                                              *)
Raise(p) ==
  /\ pc[p] \in Inside
  /\ faults < MaxFaults
  /\ faults' = faults + 1
  /\ Goto(p, "done")
  /\ UNCHANGED <<vars, work, held, seen, lease, hotJournal, calls>>

(* Dying between the first page write and the COMMIT of a transaction.      *)
Writing(p) == pc[p] \in {"entered", "preparing", "prepared", "answered", "recorded", "landed"}

Crash(p) ==
  /\ pc[p] # "down"
  /\ faults < MaxFaults
  /\ faults' = faults + 1
  /\ Goto(p, "down")
  /\ Release(p)
  /\ \/ UNCHANGED hotJournal
     \/ Writing(p) /\ hotJournal' = TRUE
  /\ UNCHANGED <<vars, seen, calls>>

(* Someone opens the file with SQLite itself, outside the program.          *)
ClearHotJournal ==
  /\ hotJournal
  /\ hotJournal' = FALSE
  /\ UNCHANGED <<vars, pc, work, held, seen, lease, calls, faults>>

-----------------------------------------------------------------------------
EngineInit ==
  /\ Init
  /\ pc = [p \in Procs |-> "down"]
  /\ work = [p \in Procs |-> NoWork]
  /\ held = [p \in Procs |-> NoReply]
  /\ seen = [p \in Procs |-> FALSE]
  /\ lease = None
  /\ hotJournal = FALSE
  /\ calls = [e \in Ordinals |-> [k \in 1 .. MaxAttempts |-> 0]]
  /\ faults = 0

(* What a process does on its own once it is in a session, or to get to     *)
(* where it can ask for one.                                                *)
Proceed(p) ==
  \/ Open(p) \/ CloseStale(p) \/ Leave(p)
  \/ Prepare(p) \/ Dispatch(p) \/ Invoke(p)
  \/ \E reply \in Reply : Answer(p, reply)
  \/ Persist(p) \/ Finalize(p) \/ Commit(p)

EngineNext ==
  \/ \E p \in Procs :
       \/ Enter(p) \/ Setup(p) \/ Authorize(p) \/ Execute(p) \/ Decline(p)
       \/ \E reply \in Reply : Reconcile(p, reply)
       \/ Proceed(p)
       \/ Raise(p) \/ Crash(p)
  \/ ClearHotJournal

(* Processes run.  Callers keep asking for the lease, and among their       *)
(* sessions are, again and again, the ones the run is waiting for: the rest *)
(* of round 0, the next execute(), the operator's authorization, the        *)
(* provider's reconciliation.                                               *)
EngineFairness ==
  /\ \A p \in Procs : WF_engineVars(Proceed(p))
  /\ WF_engineVars(ClearHotJournal)
  /\ WF_engineVars(\E p \in Procs : Decline(p))
  /\ SF_engineVars(\E p \in Procs : Enter(p))
  /\ SF_engineVars(\E p \in Procs : Setup(p))
  /\ SF_engineVars(\E p \in Procs : Execute(p))
  /\ SF_engineVars(\E p \in Procs : Authorize(p))
  /\ SF_engineVars(\E p \in Procs, reply \in Reply : Reconcile(p, reply))

EngineSpec == EngineInit /\ [][EngineNext]_engineVars /\ EngineFairness

-----------------------------------------------------------------------------
(* Properties *)

(* The provider is asked at most once for an attempt, and never before the  *)
(* attempt is durably IN_PROGRESS: whoever recovers the run can tell from   *)
(* the journal that a call may be out, and never sends it again.            *)
NoBlindResend ==
  \A e \in Ordinals : \A k \in 1 .. MaxAttempts :
    /\ calls[e][k] <= 1
    /\ calls[e][k] = 1 => /\ k \in DOMAIN journal[e]
                          /\ journal[e][k].status # "pending"
                          /\ journal[e][k].request

(* What a process believes about the attempt it works on, from a journal    *)
(* read some steps ago and the answer it holds, is what the journal says.   *)
LeaseholderViewIsCurrent ==
  \A p \in Procs : pc[p] \in Inside =>
    /\ lease = p
    /\ Running /\ ~Halted
    /\ CASE pc[p] = "preparing" -> /\ work[p] = NextAttempt
                                   /\ ResumeState \in {"new_attempt", "retry_same_event"}
         [] pc[p] = "prepared"  -> work[p] = Current /\ LatestIs(next, "pending")
         [] pc[p] \in {"calling", "called", "answered"} ->
              /\ work[p] = Current
              /\ LatestIs(next, "in_progress") /\ Latest(next).reply = NoReply
         [] pc[p] = "recorded"  -> /\ work[p] = Current
                                   /\ LatestIs(next, "in_progress")
                                   /\ Latest(next).reply = held[p]
         [] pc[p] = "landed"    -> work[p] = Current /\ LatestIs(next, "succeeded")

(* The run ends: complete, or halted on an event whose attempts are used    *)
(* up.  No crash, stale handle or left-over rollback journal strands it.    *)
Exhausted == Halted /\ LastLink.index = MaxAttempts

EventuallySettled == <>[](~Running \/ Exhausted)
=============================================================================
