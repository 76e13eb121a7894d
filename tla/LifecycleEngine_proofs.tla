----------------------- MODULE LifecycleEngine_proofs -----------------------
(***************************************************************************)
(* The strict serial engine, for every set of processes, roster, schedule, *)
(* number of attempts and number of faults: its writes are transactions of *)
(* RunStore, a process inside a session works on what the journal says,    *)
(* and no provider call is ever made twice.                                *)
(*                                                                         *)
(* The argument rests on the run lease: whoever is inside a session owns   *)
(* it, so every other process leaves the store alone and what a process    *)
(* read from the journal stays true until its own next write.              *)
(***************************************************************************)
EXTENDS LifecycleEngine, RunStore_proofs

USE EngineAssumption

-----------------------------------------------------------------------------
(* The inductive invariant *)

Points == {"down", "idle", "entered", "done"} \union Inside

EngineTypeOK ==
  /\ pc \in [Procs -> Points]
  /\ work \in [Procs -> (Ordinals \X Nat) \union {NoWork}]
  /\ held \in [Procs -> Reply \union {NoReply}]
  /\ lease \in Procs \union {None}
  /\ calls \in [Ordinals -> [1 .. MaxAttempts -> Nat]]

(* Who is in a session that is not over owns the lease.                     *)
LeaseIsHeld == \A p \in Procs : pc[p] \in Inside \union {"entered"} => lease = p

(* An attempt that has not started has no answer.                           *)
PendingIsUnanswered ==
  \A e \in Ordinals : \A k \in DOMAIN journal[e] :
    journal[e][k].status = "pending" => journal[e][k].reply = NoReply

(* No call of the current event's latest attempt was made.                  *)
NotYetCalled ==
  Len(journal[next]) \in 1 .. MaxAttempts => calls[next][Len(journal[next])] = 0

(* What process p, inside execute(), knows of the run: the view             *)
(* LeaseholderViewIsCurrent asks for, and what its next step relies on.     *)
Knows(p) ==
  /\ Running /\ ~Halted
  /\ CASE pc[p] = "preparing" -> /\ work[p] = NextAttempt
                                 /\ ResumeState \in {"new_attempt", "retry_same_event"}
       [] pc[p] = "prepared"  -> /\ work[p] = Current /\ LatestIs(next, "pending")
                                 /\ Latest(next).request
       [] pc[p] \in {"calling", "called", "answered"} ->
            /\ work[p] = Current
            /\ LatestIs(next, "in_progress")
            /\ Latest(next).request /\ Latest(next).reply = NoReply
            /\ pc[p] = "calling" => NotYetCalled
            /\ pc[p] = "answered" => held[p] \in Reply
       [] pc[p] = "recorded"  -> /\ work[p] = Current
                                 /\ LatestIs(next, "in_progress")
                                 /\ Latest(next).request
                                 /\ Latest(next).reply = held[p]
                                 /\ held[p] \in Reply
       [] pc[p] = "landed"    -> work[p] = Current /\ LatestIs(next, "succeeded")

ViewIsCurrent == \A p \in Procs : pc[p] \in Inside => Knows(p)

EngineInv ==
  /\ Invariant
  /\ EngineTypeOK
  /\ LeaseIsHeld
  /\ PendingIsUnanswered
  /\ ViewIsCurrent
  /\ NoBlindResend

-----------------------------------------------------------------------------
(* The store under the engine *)

(* What one transaction leaves of a row: a new one is PENDING and           *)
(* unanswered, and an old one never returns to PENDING.                     *)
LEMMA RowAfterStep ==
  ASSUME TypeOK, [Next]_vars, NEW e \in Ordinals, NEW k \in DOMAIN journal'[e]
  PROVE  \/ /\ k \notin DOMAIN journal[e]
            /\ journal'[e][k].status = "pending" /\ journal'[e][k].reply = NoReply
         \/ /\ k \in DOMAIN journal[e]
            /\ journal'[e][k].status = "pending" =>
                 /\ journal[e][k].status = "pending"
                 /\ journal'[e][k].reply = journal[e][k].reply
<1>1. CASE journal'[e] = journal[e]
  BY <1>1
<1>2. CASE Appends
  <2>1. PICK withRequest \in BOOLEAN : Running /\ AppendRow(PendingRow(withRequest))
    BY <1>2 DEF Appends
  <2>2. PendingRow(withRequest) \in Attempt
    BY DEF PendingRow, Attempt, Status
  <2>3. CASE e # next
    BY <1>1, <2>1, <2>2, <2>3, AppendedRow
  <2>4. CASE e = next
    <3>1. journal[e] \in Seq(Attempt)
      BY DEF TypeOK
    <3>2. /\ DOMAIN journal'[e] = 1 .. Len(journal[e]) + 1
          /\ \A j \in DOMAIN journal[e] : journal'[e][j] = journal[e][j]
          /\ journal'[e][Len(journal[e]) + 1] = PendingRow(withRequest)
      BY <2>1, <2>2, <2>4, AppendedRow
    <3>3. CASE k \in DOMAIN journal[e]
      BY <3>2, <3>3
    <3>4. CASE k \notin DOMAIN journal[e]
      <4>1. k = Len(journal[e]) + 1
        BY <3>1, <3>2, <3>4
      <4> QED
        BY <3>2, <3>4, <4>1 DEF PendingRow
    <3> QED
      BY <3>3, <3>4
  <2> QED
    BY <2>3, <2>4
<1>3. CASE Replaces
  <2>1. PICK row \in Attempt : /\ Running /\ journal[next] # <<>>
                               /\ RowStep(Latest(next), row) /\ ReplaceRow(row)
    BY <1>3 DEF Replaces
  <2>2. CASE e # next
    BY <1>1, <2>1, <2>2, ReplacedRow
  <2>3. CASE e = next
    <3>1. k \in DOMAIN journal[e]
      BY <2>1, <2>3, ReplacedRow
    <3>2. CASE k # Len(journal[e])
      BY <2>1, <2>3, <3>1, <3>2, ReplacedRow
    <3>3. CASE k = Len(journal[e])
      <4>1. journal'[e][k] = row /\ journal[e][k] = Latest(next) /\ Latest(next) \in Attempt
        BY <2>1, <2>3, <3>3, ReplacedRow, LatestType DEF Latest
      <4>2. \A reply : Outcome(reply) # "pending"
        BY DEF Outcome
      <4>3. row.status = "pending" =>
              Latest(next).status = "pending" /\ row.reply = Latest(next).reply
        <5> DEFINE old == Latest(next)
        <5>1. CASE old.status = "pending" /\ row = [old EXCEPT !.request = TRUE]
          BY <4>1, <5>1 DEF Attempt
        <5>2. CASE row = [old EXCEPT !.status = "in_progress"]
          BY <4>1, <5>2 DEF Attempt
        <5>3. ASSUME NEW s \in Terminal, row = [old EXCEPT !.status = s]
              PROVE  row.status # "pending"
          BY <4>1, <5>3 DEF Attempt, Terminal
        <5>4. ASSUME old.status = "in_progress", NEW reply, row = [old EXCEPT !.reply = reply]
              PROVE  row.status # "pending"
          BY <4>1, <5>4 DEF Attempt
        <5>5. ASSUME NEW s, s # "pending", row = [old EXCEPT !.status = s, !.parsed = TRUE]
              PROVE  row.status # "pending"
          BY <4>1, <5>5 DEF Attempt
        <5> QED
          BY <2>1, <4>2, <5>1, <5>2, <5>3, <5>4, <5>5 DEF RowStep
      <4> QED
        BY <3>1, <4>1, <4>3
    <3> QED
      BY <3>2, <3>3
  <2> QED
    BY <2>2, <2>3
<1> QED
  BY <1>1, <1>2, <1>3, JournalSteps

-----------------------------------------------------------------------------
(* The steps of one process *)

Acts(p) ==
  \/ Enter(p) \/ Setup(p) \/ Authorize(p) \/ Execute(p) \/ Decline(p)
  \/ \E reply \in Reply : Reconcile(p, reply)
  \/ Proceed(p)
  \/ Raise(p) \/ Crash(p)

LEMMA EngineSteps ==
  ASSUME [EngineNext]_engineVars
  PROVE  \/ \E p \in Procs : Acts(p)
         \/ ClearHotJournal
         \/ UNCHANGED engineVars
BY DEF EngineNext, Acts

(* Every write of the engine is a transaction of the store, made by the     *)
(* owner of the lease.                                                      *)
LEMMA WritesAreTransactions ==
  ASSUME ViewIsCurrent, NEW p \in Procs, Acts(p)
  PROVE  \/ UNCHANGED vars
         \/ Next /\ MayWrite(p)
<1>1. CASE Setup(p)
  BY <1>1 DEF Setup, Next, vars
<1>2. CASE Authorize(p)
  BY <1>2 DEF Authorize, Next
<1>3. CASE Prepare(p) \/ Dispatch(p) \/ Finalize(p) \/ Commit(p)
  BY <1>3 DEF Prepare, Dispatch, Finalize, Commit, Next
<1>4. CASE Persist(p)
  <2>1. pc[p] = "answered" /\ RecordInvocationEvidence(held[p]) /\ MayWrite(p)
    BY <1>4 DEF Persist
  <2>2. held[p] \in Reply
    BY <2>1 DEF ViewIsCurrent, Knows, Inside
  <2> QED
    BY <2>1, <2>2 DEF Next
<1>5. CASE Enter(p) \/ Execute(p) \/ Decline(p) \/ Raise(p) \/ Crash(p)
           \/ \E reply \in Reply : Reconcile(p, reply)
  BY <1>5 DEF Enter, Execute, Decline, Raise, Crash, Reconcile
<1>6. CASE Open(p) \/ CloseStale(p) \/ Leave(p) \/ Invoke(p)
           \/ \E reply \in Reply : Answer(p, reply)
  BY <1>6 DEF Open, CloseStale, Leave, Invoke, Answer
<1> QED
  BY <1>1, <1>2, <1>3, <1>4, <1>5, <1>6 DEF Acts, Proceed

LEMMA EngineStepIsStoreStep ==
  ASSUME ViewIsCurrent, [EngineNext]_engineVars
  PROVE  [Next]_vars
BY EngineSteps, WritesAreTransactions DEF ClearHotJournal, engineVars

(* How a step of q leaves the session of another process.                   *)
LEMMA OnlyOwnSession ==
  ASSUME EngineTypeOK, NEW p \in Procs, NEW q \in Procs, p # q, Acts(q)
  PROVE  /\ pc'[p] = pc[p] /\ work'[p] = work[p] /\ held'[p] = held[p]
         /\ lease = p => lease' = p
<1>1. CASE Enter(q) \/ Setup(q) \/ Authorize(q) \/ Decline(q)
  BY <1>1 DEF Enter, Setup, Authorize, Decline, Goto, EngineTypeOK
<1>2. CASE Execute(q) \/ \E reply \in Reply : Reconcile(q, reply)
  BY <1>2 DEF Execute, Reconcile, Begin, Goto, EngineTypeOK
<1>3. CASE Open(q) \/ CloseStale(q) \/ Leave(q)
  BY <1>3 DEF Open, CloseStale, Leave, Release, EngineTypeOK
<1>4. CASE Prepare(q) \/ Dispatch(q) \/ Invoke(q) \/ \E reply \in Reply : Answer(q, reply)
  BY <1>4 DEF Prepare, Dispatch, Invoke, Answer, Goto, EngineTypeOK
<1>5. CASE Persist(q) \/ Finalize(q) \/ Commit(q)
  BY <1>5 DEF Persist, Finalize, Commit, Goto, EngineTypeOK
<1>6. CASE Raise(q) \/ Crash(q)
  BY <1>6 DEF Raise, Crash, Release, Goto, EngineTypeOK
<1> QED
  BY <1>1, <1>2, <1>3, <1>4, <1>5, <1>6 DEF Acts, Proceed

(* While p owns the lease in a session, the others only watch.              *)
LEMMA OthersStandStill ==
  ASSUME EngineTypeOK, LeaseIsHeld, ViewIsCurrent, NEW p \in Procs, NEW q \in Procs, p # q,
         pc[p] \in Inside \union {"entered"}, Acts(q)
  PROVE  UNCHANGED <<vars, calls>> /\ lease' = p
<1>1. lease = p
  BY DEF LeaseIsHeld
<1>2. UNCHANGED vars
  BY <1>1, WritesAreTransactions DEF MayWrite
<1>3. pc[q] # "calling"
  BY <1>1 DEF LeaseIsHeld, Inside
<1>4. UNCHANGED calls
  BY <1>3 DEF Acts, Proceed, Enter, Setup, Authorize, Execute, Decline, Reconcile, Open,
              CloseStale, Leave, Prepare, Dispatch, Invoke, Answer, Persist, Finalize, Commit,
              Raise, Crash
<1> QED
  BY <1>1, <1>2, <1>4, OnlyOwnSession

LEMMA ReplacedLatest ==
  ASSUME TypeOK, Running, journal[next] # <<>>, NEW row \in Attempt, ReplaceRow(row), next' = next
  PROVE  /\ journal'[next'] # <<>> /\ Latest(next)' = row
         /\ Current' = Current /\ Running'
BY ReplacedRow DEF Latest, Current, Running

(* What a process learns from its own step.                                 *)
LEMMA OwnStep ==
  ASSUME Invariant, EngineTypeOK, PendingIsUnanswered, ViewIsCurrent, NoBlindResend,
         NEW p \in Procs, Acts(p), pc'[p] \in Inside
  PROVE  Knows(p)' /\ lease' = lease /\ pc[p] \in Inside \union {"entered"}
<1> USE DEF Inside
<1>0. /\ TypeOK /\ ChainIsLinked /\ FailuresAreBound /\ HaltIsCurrent
      /\ pc \in [Procs -> Points]
  BY DEF Invariant, LifecycleReplays, EngineTypeOK
<1>a. ASSUME NEW from, NEW to, pc[p] = from, from \in Inside, Goto(p, to)
      PROVE  pc'[p] = to /\ Knows(p)
  BY <1>0, <1>a DEF Goto, ViewIsCurrent
<1>b. ASSUME Running, journal[next] # <<>>
      PROVE  next \in Ordinals /\ Latest(next) \in Attempt /\ journal[next] \in Seq(Attempt)
  BY <1>0, <1>b, CurrentIsOrdinal, LatestType DEF TypeOK
<1>1. CASE Execute(p)
  <2>1. UNCHANGED vars /\ lease' = lease /\ pc[p] = "entered"
    BY <1>1 DEF Execute
  <2>2. ASSUME NEW point, NEW attempt, NEW reply, Begin(p, point, attempt, reply)
        PROVE  pc'[p] = point /\ work'[p] = attempt /\ held'[p] = reply
    BY <1>0, <2>2 DEF Begin, Goto, EngineTypeOK
  <2>3. CASE /\ ResumeState \in {"new_attempt", "retry_same_event"}
             /\ Begin(p, "preparing", NextAttempt, NoReply)
    <3>1. Running /\ ~Halted
      <4>1. Running
        BY <2>3 DEF ResumeState
      <4>2. CASE journal[next] = <<>>
        BY <1>0, <4>1, <4>2 DEF HaltIsCurrent, LatestIs
      <4>3. CASE journal[next] # <<>>
        <5>1. Latest(next).status \in Status
          BY <1>b, <4>1, <4>3 DEF Attempt
        <5>2. ResumeState = "retry_same_event" => Freed(next, Len(journal[next]))
          BY <4>1, <4>3, <5>1 DEF ResumeState, Status
        <5>3. ResumeState # "new_attempt"
          BY <4>1, <4>3, <5>1 DEF ResumeState, Status
        <5> QED
          BY <1>0, <2>3, <4>1, <4>3, <5>2, <5>3, FreedIsNotHalted
      <4> QED
        BY <4>1, <4>2, <4>3
    <3> QED
      BY <2>1, <2>2, <2>3, <3>1
         DEF Knows, vars, progressVars, NextAttempt, ResumeState, Running, Halted, LastLink,
             Latest, Bound, Freed
  <2>4. ASSUME Running, NEW s \in Status, LatestIs(next, s), s # "failed"
        PROVE  ~Halted
    BY <1>0, <2>4 DEF HaltIsCurrent, LatestIs
  <2>5. ASSUME ResumeState \notin {"complete", "new_attempt"}
        PROVE  Running /\ journal[next] # <<>> /\ Latest(next).status \in Status
    <3>1. Running /\ journal[next] # <<>>
      BY <2>5 DEF ResumeState
    <3> QED
      BY <1>b, <3>1 DEF Attempt
  <2>6. CASE /\ ResumeState = "pending_attempt_requires_same_request"
             /\ Latest(next).request
             /\ Begin(p, "prepared", Current, NoReply)
    <3>1. Running /\ LatestIs(next, "pending")
      BY <2>5, <2>6 DEF ResumeState, LatestIs, Status
    <3> QED
      <4>1. ~Halted
        BY <2>4, <3>1 DEF Status
      <4> QED
        BY <2>1, <2>2, <2>6, <3>1, <4>1
           DEF Knows, vars, progressVars, Current, Running, Halted, LastLink, LatestIs, Latest
  <2>7. CASE /\ ResumeState = "in_progress_requires_provider_reconciliation"
             /\ Latest(next).request /\ Latest(next).reply # NoReply
             /\ Begin(p, "recorded", Current, Latest(next).reply)
    <3>1. Running /\ LatestIs(next, "in_progress")
      BY <2>5, <2>7 DEF ResumeState, LatestIs, Status
    <3>2. Latest(next).reply \in Reply
      BY <1>b, <2>7, <3>1 DEF LatestIs, Attempt
    <3> QED
      <4>1. ~Halted
        BY <2>4, <3>1 DEF Status
      <4>2. /\ pc'[p] = "recorded" /\ work'[p] = Current
            /\ held'[p] = Latest(next).reply /\ Latest(next).request
        BY <2>2, <2>7
      <4> QED
        BY <2>1, <3>1, <3>2, <4>1, <4>2
           DEF Knows, vars, progressVars, Current, Running, Halted, LastLink, LatestIs, Latest
  <2>8. CASE /\ ResumeState = "succeeded_attempt_requires_atomic_commit"
             /\ Begin(p, "landed", Current, NoReply)
    <3>1. Running /\ LatestIs(next, "succeeded")
      BY <2>5, <2>8 DEF ResumeState, LatestIs, Status
    <3> QED
      <4>1. ~Halted
        BY <2>4, <3>1 DEF Status
      <4> QED
        BY <2>1, <2>2, <2>8, <3>1, <4>1
           DEF Knows, vars, progressVars, Current, Running, Halted, LastLink, LatestIs, Latest
  <2>9. lease' = lease /\ pc[p] = "entered"
    BY <2>1
  <2> QED
    BY <1>1, <2>3, <2>6, <2>7, <2>8, <2>9 DEF Execute
<1>2. ASSUME NEW reply \in Reply, Reconcile(p, reply)
      PROVE  Knows(p)' /\ lease' = lease /\ pc[p] = "entered"
  <2>1. /\ UNCHANGED vars /\ lease' = lease /\ pc[p] = "entered"
        /\ pc'[p] = "answered" /\ work'[p] = Current /\ held'[p] = reply
        /\ Latest(next).request /\ Latest(next).reply = NoReply
        /\ ResumeState = "in_progress_requires_provider_reconciliation"
    BY <1>0, <1>2 DEF Reconcile, Begin, Goto, EngineTypeOK
  <2>2. Running /\ journal[next] # <<>>
    BY <2>1 DEF ResumeState
  <2>3. Latest(next).status \in Status
    BY <1>b, <2>2 DEF Attempt
  <2>4. LatestIs(next, "in_progress")
    BY <2>1, <2>2, <2>3 DEF ResumeState, LatestIs, Status
  <2>5. ~Halted
    BY <1>0, <2>4 DEF HaltIsCurrent, LatestIs
  <2> QED
    BY <2>1, <2>2, <2>4, <2>5
       DEF Knows, vars, progressVars, Current, Running, Halted, LastLink, LatestIs, Latest
<1>3. CASE Prepare(p)
  <2>1. /\ pc'[p] = "prepared" /\ Knows(p) /\ pc[p] = "preparing"
        /\ work' = work /\ lease' = lease
        /\ RecordPreparedAttempt
    BY <1>3, <1>a DEF Prepare
  <2>2. Running /\ ~Halted /\ work[p] = NextAttempt
        /\ ResumeState \in {"new_attempt", "retry_same_event"}
    BY <2>1 DEF Knows
  <2>3. ~LatestIs(next, "pending")
    BY <2>2 DEF ResumeState, LatestIs
  <2>4. AppendRow(PendingRow(TRUE)) /\ UNCHANGED <<next, chain>>
    BY <2>1, <2>3 DEF RecordPreparedAttempt, AppendPending, AppendRow, progressVars
  <2>5. PendingRow(TRUE) \in Attempt
    BY DEF PendingRow, Attempt, Status
  <2>6. /\ journal'[next] # <<>> /\ Len(journal'[next]) = Len(journal[next]) + 1
        /\ journal'[next][Len(journal[next]) + 1] = PendingRow(TRUE)
    BY <1>0, <2>2, <2>4, <2>5, AppendedRow
  <2> QED
    BY <2>1, <2>2, <2>4, <2>6
       DEF Knows, Current, NextAttempt, Running, Halted, LastLink, LatestIs, Latest, PendingRow
<1>4. CASE Dispatch(p)
  <2> DEFINE row == [Latest(next) EXCEPT !.status = "in_progress"]
             k == Len(journal[next])
  <2>1. /\ pc'[p] = "calling" /\ Knows(p) /\ pc[p] = "prepared"
        /\ work' = work /\ lease' = lease /\ calls' = calls
        /\ UNCHANGED <<next, chain>> /\ Advance("pending", "in_progress")
    BY <1>4, <1>a DEF Dispatch, StartAttempt, progressVars
  <2>2. /\ Running /\ ~Halted /\ work[p] = Current
        /\ LatestIs(next, "pending") /\ Latest(next).request
    BY <2>1 DEF Knows
  <2>3. journal[next] # <<>> /\ Latest(next).status = "pending"
    BY <2>2 DEF LatestIs
  <2>4. next \in Ordinals /\ Latest(next) \in Attempt /\ k \in DOMAIN journal[next]
    BY <1>0, <1>b, <2>2, <2>3, LatestType
  <2>5. Latest(next).reply = NoReply
    BY <2>3, <2>4 DEF PendingIsUnanswered, Latest
  <2>6. /\ row \in Attempt /\ row.status = "in_progress" /\ row.request
        /\ row.reply = NoReply
    BY <2>2, <2>4, <2>5 DEF Attempt, Status
  <2>7. ReplaceRow(row)
    BY <1>0, <2>1, <2>3, <2>4 DEF Advance, ReplaceRow, Latest, TypeOK
  <2> HIDE DEF row
  <2>8. /\ journal'[next'] # <<>> /\ Latest(next)' = row /\ Current' = Current /\ Running'
    BY <1>0, <2>1, <2>2, <2>3, <2>6, <2>7, ReplacedLatest
  <2>9. NotYetCalled'
    <3>1. k \in 1 .. MaxAttempts => calls[next][k] = 0
      <4>1. ASSUME k \in 1 .. MaxAttempts
            PROVE  calls[next][k] <= 1 /\ calls[next][k] # 1 /\ calls[next][k] \in Nat
        <5> HIDE DEF k
        <5>1. calls[next][k] \in Nat
          <6>1. calls \in [Ordinals -> [1 .. MaxAttempts -> Nat]]
            BY DEF EngineTypeOK
          <6>2. calls[next] \in [1 .. MaxAttempts -> Nat]
            BY <2>4, <6>1
          <6> QED
            BY <4>1, <6>2
        <5>2. /\ calls[next][k] <= 1
              /\ calls[next][k] = 1 => journal[next][k].status # "pending"
          BY <2>4, <4>1 DEF NoBlindResend
        <5> QED
          BY <2>3, <5>1, <5>2 DEF Latest, k
      <4> QED
        BY <4>1
    <3>2. Len(journal'[next]) = k
      BY <2>1, <2>8 DEF Current
    <3> QED
      BY <2>1, <3>1, <3>2 DEF NotYetCalled
  <2> QED
    BY <2>1, <2>2, <2>6, <2>8, <2>9 DEF Knows, Halted, LastLink, LatestIs
<1>5. CASE Invoke(p)
  <2>1. /\ pc'[p] = "called" /\ Knows(p) /\ pc[p] = "calling"
        /\ work' = work /\ lease' = lease /\ UNCHANGED vars
    BY <1>5, <1>a DEF Invoke
  <2> QED
    BY <2>1
       DEF Knows, vars, progressVars, Current, Running, Halted, LastLink, LatestIs, Latest
<1>6. ASSUME NEW reply \in Reply, Answer(p, reply)
      PROVE  Knows(p)' /\ lease' = lease /\ pc[p] \in Inside
  <2>1. /\ pc'[p] = "answered" /\ Knows(p) /\ pc[p] = "called"
        /\ work' = work /\ lease' = lease /\ UNCHANGED vars
    BY <1>6, <1>a DEF Answer
  <2>2. held'[p] = reply
    BY <1>6 DEF Answer, EngineTypeOK
  <2> QED
    BY <2>1, <2>2
       DEF Knows, vars, progressVars, Current, Running, Halted, LastLink, LatestIs, Latest
<1>7. CASE Persist(p)
  <2> DEFINE row == [Latest(next) EXCEPT !.reply = held[p]]
  <2>1. /\ pc'[p] = "recorded" /\ Knows(p) /\ pc[p] = "answered"
        /\ work' = work /\ held' = held /\ lease' = lease
        /\ UNCHANGED <<next, chain>> /\ RecordInvocationEvidence(held[p])
    BY <1>7, <1>a DEF Persist, RecordInvocationEvidence, progressVars
  <2>2. /\ Running /\ ~Halted /\ work[p] = Current /\ held[p] \in Reply
        /\ LatestIs(next, "in_progress") /\ Latest(next).request
    BY <2>1 DEF Knows
  <2>3. journal[next] # <<>> /\ Latest(next).status = "in_progress"
        /\ next \in Ordinals /\ Latest(next) \in Attempt
    BY <1>b, <2>2 DEF LatestIs
  <2>4. /\ row \in Attempt /\ row.status = "in_progress" /\ row.request
        /\ row.reply = held[p]
    BY <2>2, <2>3 DEF Attempt
  <2>5. ReplaceRow(row)
    BY <1>0, <2>1, <2>3 DEF RecordInvocationEvidence, ReplaceRow, Latest, TypeOK
  <2> HIDE DEF row
  <2>6. /\ journal'[next'] # <<>> /\ Latest(next)' = row /\ Current' = Current /\ Running'
    BY <1>0, <2>1, <2>2, <2>3, <2>4, <2>5, ReplacedLatest
  <2> QED
    BY <2>1, <2>2, <2>4, <2>6 DEF Knows, Halted, LastLink, LatestIs
<1>8. CASE Finalize(p)
  <2> DEFINE s == Outcome(held[p])
             row == [Latest(next) EXCEPT !.status = s, !.parsed = TRUE]
  <2>1. /\ Knows(p) /\ pc[p] = "recorded"
        /\ work' = work /\ lease' = lease
        /\ next' = next /\ RecordFinalizedAttempt
    BY <1>8, <1>a DEF Finalize, RecordFinalizedAttempt, progressVars
  <2>2. s # "failed" /\ pc'[p] = "landed"
    BY <1>0, <1>8 DEF Finalize, Goto
  <2>3. /\ Running /\ ~Halted /\ work[p] = Current
        /\ LatestIs(next, "in_progress") /\ Latest(next).reply = held[p]
    BY <2>1 DEF Knows
  <2>4. s = "succeeded" /\ s \in Status
    BY <2>2 DEF Outcome, Status
  <2>5. journal[next] # <<>> /\ next \in Ordinals /\ Latest(next) \in Attempt
    BY <1>b, <2>3 DEF LatestIs
  <2>6. chain' = chain
    BY <2>1, <2>2, <2>3 DEF RecordFinalizedAttempt
  <2>7. ReplaceRow(row)
    BY <1>0, <2>1, <2>3, <2>5 DEF RecordFinalizedAttempt, ReplaceRow, Latest, TypeOK
  <2>8. row \in Attempt /\ row.status = "succeeded"
    <3> HIDE DEF s
    <3> QED
      BY <2>4, <2>5 DEF Attempt
  <2> HIDE DEF row
  <2>9. /\ journal'[next'] # <<>> /\ Latest(next)' = row /\ Current' = Current /\ Running'
    BY <1>0, <2>1, <2>3, <2>5, <2>7, <2>8, ReplacedLatest
  <2> QED
    BY <2>1, <2>2, <2>3, <2>6, <2>8, <2>9 DEF Knows, Halted, LastLink, LatestIs
<1>9. CASE Open(p) \/ CloseStale(p) \/ Enter(p) \/ Leave(p) \/ Setup(p) \/ Authorize(p)
  BY <1>0, <1>9 DEF Open, CloseStale, Enter, Leave, Setup, Authorize, Goto
<1>10. CASE Decline(p) \/ Commit(p) \/ Raise(p) \/ Crash(p)
  BY <1>0, <1>10 DEF Decline, Commit, Raise, Crash, Goto
<1>11. ASSUME Prepare(p) \/ Dispatch(p) \/ Invoke(p) \/ Persist(p) \/ Finalize(p)
       PROVE  lease' = lease /\ pc[p] \in Inside
  BY <1>11 DEF Prepare, Dispatch, Invoke, Persist, Finalize
<1> QED
  BY <1>1, <1>2, <1>3, <1>4, <1>5, <1>6, <1>7, <1>8, <1>9, <1>10, <1>11 DEF Acts, Proceed

-----------------------------------------------------------------------------
(* Each part of the invariant is preserved *)

LEMMA EngineTypesKept ==
  ASSUME Invariant, EngineTypeOK, ViewIsCurrent, NEW p \in Procs, Acts(p)
  PROVE  EngineTypeOK'
<1> USE DEF EngineTypeOK, Points, Inside
<1>1. ASSUME NEW point \in Points, Goto(p, point) PROVE pc' \in [Procs -> Points]
  BY <1>1 DEF Goto
<1>2. CASE Enter(p) \/ Setup(p) \/ Authorize(p) \/ Decline(p) \/ Open(p) \/ CloseStale(p)
  BY <1>1, <1>2 DEF Enter, Setup, Authorize, Decline, Open, CloseStale, Goto
<1>3. CASE Leave(p) \/ Raise(p) \/ Crash(p)
  BY <1>1, <1>3 DEF Leave, Raise, Crash, Release, Goto
<1>4. CASE Prepare(p) \/ Dispatch(p) \/ Persist(p) \/ Finalize(p) \/ Commit(p)
  BY <1>1, <1>4 DEF Prepare, Dispatch, Persist, Finalize, Commit, Goto
<1>5. ASSUME NEW reply \in Reply, Answer(p, reply) PROVE EngineTypeOK'
  BY <1>1, <1>5 DEF Answer, Goto
<1>6. CASE Invoke(p)
  <2>1. pc' \in [Procs -> Points] /\ UNCHANGED <<work, held, lease>>
    BY <1>1, <1>6 DEF Invoke
  <2>2. pc[p] = "calling"
    BY <1>6 DEF Invoke
  <2>3. Running /\ work[p] = Current
    BY <2>2 DEF ViewIsCurrent, Knows
  <2>4. next \in Ordinals /\ work[p][1] = next
    BY <2>3, CurrentIsOrdinal DEF Invariant, Current
  <2>5. calls' = [calls EXCEPT ![next] = [calls[next] EXCEPT ![work[p][2]] =
                                                calls[next][work[p][2]] + 1]]
    BY <1>6, <2>4 DEF Invoke
  <2>6. calls[next] \in [1 .. MaxAttempts -> Nat]
    BY <2>4
  <2>7. calls' \in [Ordinals -> [1 .. MaxAttempts -> Nat]]
    <3> DEFINE row == [calls[next] EXCEPT ![work[p][2]] = calls[next][work[p][2]] + 1]
    <3>1. row \in [1 .. MaxAttempts -> Nat]
      <4>1. \A k \in 1 .. MaxAttempts : calls[next][k] \in Nat
        BY <2>6
      <4>2. \A k \in 1 .. MaxAttempts : row[k] \in Nat
        BY <2>6, <4>1
      <4>3. row = [k \in 1 .. MaxAttempts |-> row[k]]
        BY <2>6
      <4> HIDE DEF row
      <4> QED
        BY <4>2, <4>3
    <3> HIDE DEF row
    <3>2. calls' = [calls EXCEPT ![next] = row]
      BY <2>5 DEF row
    <3> QED
      BY <2>4, <3>1, <3>2
  <2> QED
    BY <2>1, <2>7
<1>7. ASSUME NEW point \in Points, NEW attempt \in (Ordinals \X Nat) \union {NoWork},
             NEW reply \in Reply \union {NoReply}, Begin(p, point, attempt, reply),
             UNCHANGED <<lease, calls>>
      PROVE  EngineTypeOK'
  BY <1>1, <1>7 DEF Begin, Goto
<1>8. ASSUME Running PROVE Current \in Ordinals \X Nat /\ NextAttempt \in Ordinals \X Nat
  <2>1. next \in Ordinals /\ Len(journal[next]) \in Nat
    BY <1>8, CurrentIsOrdinal DEF Invariant, TypeOK
  <2> QED
    BY <2>1 DEF Current, NextAttempt
<1>9. ASSUME ResumeState # "complete" PROVE Running
  BY <1>9 DEF ResumeState
<1>10. CASE Execute(p)
  <2>1. CASE Begin(p, "preparing", NextAttempt, NoReply) \/ Begin(p, "prepared", Current, NoReply)
             \/ Begin(p, "landed", Current, NoReply)
    BY <1>7, <1>8, <1>9, <1>10, <2>1 DEF Execute
  <2>2. CASE /\ ResumeState = "in_progress_requires_provider_reconciliation"
             /\ Latest(next).reply # NoReply
             /\ Begin(p, "recorded", Current, Latest(next).reply)
    <3>1. Running /\ journal[next] # <<>>
      BY <2>2 DEF ResumeState
    <3>2. Latest(next).reply \in Reply
      <4>1. Latest(next) \in Attempt
        BY <3>1, CurrentIsOrdinal, LatestType DEF Invariant
      <4> QED
        BY <2>2, <4>1 DEF Attempt
    <3> QED
      BY <1>7, <1>8, <1>10, <2>2, <3>1, <3>2 DEF Execute
  <2> QED
    BY <1>10, <2>1, <2>2 DEF Execute
<1>11. ASSUME NEW reply \in Reply, Reconcile(p, reply) PROVE EngineTypeOK'
  BY <1>7, <1>8, <1>9, <1>11 DEF Reconcile
<1> QED
  BY <1>2, <1>3, <1>4, <1>5, <1>6, <1>10, <1>11 DEF Acts, Proceed

LEMMA LeaseStaysHeld ==
  ASSUME EngineInv, NEW q \in Procs, Acts(q)
  PROVE  LeaseIsHeld'
<1> USE DEF EngineInv
<1>1. SUFFICES ASSUME NEW p \in Procs, pc'[p] \in Inside \union {"entered"} PROVE lease' = p
  BY DEF LeaseIsHeld
<1>2. CASE p # q
  <2>1. pc'[p] = pc[p] /\ (lease = p => lease' = p)
    BY <1>2, OnlyOwnSession
  <2> QED
    BY <1>1, <2>1 DEF LeaseIsHeld
<1>3. CASE p = q /\ pc'[p] \in Inside
  BY <1>3, OwnStep DEF LeaseIsHeld
<1>4. CASE p = q /\ pc'[p] = "entered"
  <2>1. Enter(p)
    BY <1>4 DEF Acts, Proceed, Enter, Setup, Authorize, Execute, Decline, Reconcile, Open,
                CloseStale, Leave, Prepare, Dispatch, Invoke, Answer, Persist, Finalize, Commit,
                Raise, Crash, Begin, Goto, EngineTypeOK
  <2> QED
    BY <2>1 DEF Enter
<1> QED
  BY <1>1, <1>2, <1>3, <1>4

LEMMA KnowledgeStays ==
  ASSUME NEW p \in Procs, Knows(p), UNCHANGED <<vars, calls>>,
         pc'[p] = pc[p], work'[p] = work[p], held'[p] = held[p]
  PROVE  Knows(p)'
BY DEF Knows, vars, progressVars, Current, NextAttempt, NotYetCalled, ResumeState, Running,
       Halted, LastLink, LatestIs, Latest, Bound, Freed

LEMMA ViewStaysCurrent ==
  ASSUME EngineInv, NEW q \in Procs, Acts(q)
  PROVE  ViewIsCurrent'
<1> USE DEF EngineInv
<1>1. SUFFICES ASSUME NEW p \in Procs, pc'[p] \in Inside PROVE Knows(p)'
  BY DEF ViewIsCurrent
<1>2. CASE p # q
  <2>1. /\ pc'[p] = pc[p] /\ work'[p] = work[p] /\ held'[p] = held[p]
        /\ UNCHANGED <<vars, calls>>
    BY <1>1, <1>2, OnlyOwnSession, OthersStandStill
  <2>2. Knows(p)
    BY <1>1, <2>1 DEF ViewIsCurrent
  <2> QED
    BY <2>1, <2>2, KnowledgeStays
<1>3. CASE p = q
  BY <1>1, <1>3, OwnStep
<1> QED
  BY <1>2, <1>3

LEMMA PendingStaysUnanswered ==
  ASSUME TypeOK, PendingIsUnanswered, [Next]_vars
  PROVE  PendingIsUnanswered'
BY RowAfterStep DEF PendingIsUnanswered

LEMMA StillNoBlindResend ==
  ASSUME EngineInv, NEW p \in Procs, Acts(p)
  PROVE  NoBlindResend'
<1> USE DEF EngineInv
<1>0. TypeOK /\ HaltIsCurrent
  BY DEF Invariant, LifecycleReplays
<1>1. SUFFICES ASSUME NEW e \in Ordinals, NEW k \in 1 .. MaxAttempts
               PROVE  /\ calls'[e][k] <= 1
                      /\ calls'[e][k] = 1 => /\ k \in DOMAIN journal'[e]
                                             /\ journal'[e][k].status # "pending"
                                             /\ journal'[e][k].request
  BY DEF NoBlindResend
<1>2. CASE Invoke(p)
  <2>1. pc[p] = "calling" /\ UNCHANGED vars
    BY <1>2 DEF Invoke
  <2>2. /\ Running /\ work[p] = Current /\ LatestIs(next, "in_progress")
        /\ Latest(next).request /\ NotYetCalled
    BY <2>1 DEF ViewIsCurrent, Knows, Inside
  <2>3. next \in Ordinals /\ journal[next] # <<>> /\ Len(journal[next]) \in DOMAIN journal[next]
    BY <1>0, <2>2, CurrentIsOrdinal, LatestType DEF LatestIs
  <2>4. calls' = [calls EXCEPT ![next] = [calls[next] EXCEPT ![Len(journal[next])] =
                                                calls[next][Len(journal[next])] + 1]]
    BY <1>2, <2>2 DEF Invoke, Current
  <2>5. calls \in [Ordinals -> [1 .. MaxAttempts -> Nat]] /\ journal' = journal
    BY <2>1 DEF EngineTypeOK, vars
  <2>6. CASE e = next /\ k = Len(journal[next])
    <3>1. calls'[e][k] = 1
      <4>1. calls[next][k] = 0
        BY <2>2, <2>6 DEF NotYetCalled
      <4>2. calls[next] \in [1 .. MaxAttempts -> Nat]
        BY <2>3, <2>5
      <4> QED
        BY <2>3, <2>4, <2>5, <2>6, <4>1, <4>2
    <3> QED
      BY <2>2, <2>3, <2>5, <2>6, <3>1 DEF LatestIs, Latest
  <2>7. CASE ~(e = next /\ k = Len(journal[next]))
    <3>1. calls'[e][k] = calls[e][k]
      <4>1. calls[e] \in [1 .. MaxAttempts -> Nat]
        BY <2>5
      <4> QED
        BY <2>3, <2>4, <2>5, <2>7, <4>1
    <3> QED
      BY <2>5, <3>1 DEF NoBlindResend
  <2> QED
    BY <2>6, <2>7
<1>3. CASE ~Invoke(p)
  <2>1. calls' = calls
    BY <1>3 DEF Acts, Proceed, Enter, Setup, Authorize, Execute, Decline, Reconcile, Open,
                CloseStale, Leave, Prepare, Dispatch, Answer, Persist, Finalize, Commit,
                Raise, Crash
  <2>2. [Next]_vars
    BY WritesAreTransactions
  <2>3. AppendOnly
    BY <1>0, <2>2, StepAppendsOnly
  <2>4. ASSUME calls[e][k] = 1
        PROVE  /\ k \in DOMAIN journal'[e]
               /\ journal'[e][k].status # "pending"
               /\ journal'[e][k].request
    <3>1. k \in DOMAIN journal[e] /\ journal[e][k].status # "pending" /\ journal[e][k].request
      BY <2>4 DEF NoBlindResend
    <3>2. k \in DOMAIN journal'[e] /\ RowGrows(journal[e][k], journal'[e][k])
      <4>1. journal[e] \in Seq(Attempt)
        BY <1>0 DEF TypeOK
      <4>2. journal'[e] \in Seq(Attempt)
        BY <1>0, <2>2, TypeKept DEF TypeOK
      <4> QED
        BY <2>3, <3>1, <4>1, <4>2 DEF AppendOnly
    <3> QED
      BY <1>0, <2>2, <3>1, <3>2, RowAfterStep DEF RowGrows
  <2> QED
    BY <2>1, <2>4 DEF NoBlindResend
<1> QED
  BY <1>2, <1>3

-----------------------------------------------------------------------------
(* Results *)

LEMMA EngineStarts == EngineInit => EngineInv
<1> SUFFICES ASSUME EngineInit PROVE EngineInv
  OBVIOUS
<1>1. Invariant
  BY InitType, InitInvariant DEF EngineInit, Invariant
<1>2. EngineTypeOK
  BY DEF EngineInit, EngineTypeOK, Points
<1>3. LeaseIsHeld /\ ViewIsCurrent
  BY DEF EngineInit, LeaseIsHeld, ViewIsCurrent, Inside
<1>4. PendingIsUnanswered
  BY DEF EngineInit, Init, PendingIsUnanswered
<1>5. NoBlindResend
  BY DEF EngineInit, NoBlindResend
<1> QED
  BY <1>1, <1>2, <1>3, <1>4, <1>5 DEF EngineInv

LEMMA EngineKeepsInv == EngineInv /\ [EngineNext]_engineVars => EngineInv'
<1> SUFFICES ASSUME EngineInv, [EngineNext]_engineVars PROVE EngineInv'
  OBVIOUS
<1> USE DEF EngineInv
<1>1. [Next]_vars
  BY EngineStepIsStoreStep
<1>2. Invariant' /\ PendingIsUnanswered'
  <2>1. TypeOK
    BY DEF Invariant
  <2> QED
    BY <1>1, <2>1, TypeKept, StepInvariant, PendingStaysUnanswered
<1>3. ASSUME NEW p \in Procs, Acts(p) PROVE EngineInv'
  BY <1>2, <1>3, EngineTypesKept, LeaseStaysHeld, ViewStaysCurrent, StillNoBlindResend
<1>4. CASE UNCHANGED <<vars, pc, work, held, lease, calls>>
  <2>1. EngineTypeOK' /\ LeaseIsHeld'
    BY <1>4 DEF EngineTypeOK, LeaseIsHeld
  <2>2. ViewIsCurrent'
    BY <1>4, KnowledgeStays DEF ViewIsCurrent
  <2>3. NoBlindResend'
    BY <1>4 DEF NoBlindResend, vars
  <2> QED
    BY <1>2, <2>1, <2>2, <2>3
<1> QED
  BY <1>3, <1>4, EngineSteps DEF ClearHotJournal, engineVars, sessionVars

LEMMA EngineCorrect == EngineSpec => []EngineInv
BY EngineStarts, EngineKeepsInv, PTL DEF EngineSpec

(* The engine implements the store: crashes, exceptions, stale handles and  *)
(* contending processes included, each step of the engine is one            *)
(* transaction of RunStore or leaves the rows alone.                        *)
THEOREM EngineRefinesStore == EngineSpec => Spec
<1>1. EngineInit => Init
  BY DEF EngineInit
<1>2. EngineInv /\ [EngineNext]_engineVars => [Next]_vars
  BY EngineStepIsStoreStep DEF EngineInv
<1> QED
  BY <1>1, <1>2, EngineCorrect, PTL DEF EngineSpec, Spec

(* Whatever dies in the engine's callers, verify_integrity accepts what it  *)
(* leaves in the database, so open() and the next session never refuse it.  *)
THEOREM EngineStaysOpenable ==
  ASSUME LegacyCallers = FALSE
  PROVE  EngineSpec => []VerifyIntegrity
BY EngineRefinesStore, VerifyIntegrityCorrect, PTL

(* What a process inside execute() believes about the attempt it works on,  *)
(* read some steps ago, is what the journal says.                           *)
THEOREM LeaseholderViewCorrect == EngineSpec => []LeaseholderViewIsCurrent
<1>1. EngineInv => LeaseholderViewIsCurrent
  BY DEF EngineInv, ViewIsCurrent, Knows, LeaseIsHeld, LeaseholderViewIsCurrent, Inside
<1> QED
  BY <1>1, EngineCorrect, PTL

(* The provider is called at most once for an attempt, and only after the   *)
(* attempt is durably IN_PROGRESS with its request on record.               *)
THEOREM NoBlindResendCorrect == EngineSpec => []NoBlindResend
<1>1. EngineInv => NoBlindResend
  BY DEF EngineInv
<1> QED
  BY <1>1, EngineCorrect, PTL
=============================================================================
