--------------------------- MODULE RunStore_proofs ---------------------------
(***************************************************************************)
(* The rows of RunStore have their types, and verify_integrity accepts     *)
(* every state its writes reach, for every roster, schedule and number of  *)
(* attempts; no write rewrites or drops evidence that is there; and the    *)
(* run that the rows record is one serial history (SerialRun).             *)
(*                                                                         *)
(* LifecycleReplays is inductive once TypeOK and SealedFirst join it.  The *)
(* proof first reduces every action to one of a few shapes, by what it     *)
(* does to the journal, the causal chain and the execution state, and then *)
(* shows each check preserved shape by shape.  The evidence is followed    *)
(* row by row: while only the v6 entry points are used every attempt has   *)
(* exactly the rows its status calls for.                                  *)
(***************************************************************************)
EXTENDS RunStoreIntegrity, TLAPS

-----------------------------------------------------------------------------
(* Lemmas about the values the writes build *)

(* The current event of an unfinished run is an event of the schedule.      *)
LEMMA CurrentIsOrdinal ==
  ASSUME TypeOK, Running
  PROVE  next \in Ordinals
BY ScheduleAssumption DEF TypeOK, Running, Ordinals

(* Replacing one row of the journal by an attempt keeps the journal's type. *)
LEMMA JournalUpdate ==
  ASSUME TypeOK, NEW e \in Ordinals, NEW rows \in Seq(Attempt),
         journal' = [journal EXCEPT ![e] = rows]
  PROVE  journal' \in [Ordinals -> Seq(Attempt)]
BY DEF TypeOK

(* The execution state after a transition of the current event is one.      *)
LEMMA ExecutionAfterType ==
  ASSUME TypeOK, NEW e \in Ordinals, NEW s \in Status
  PROVE  ExecutionAfter(e, s) \in ExecutionState
<1>1. CountsAfter(e, s) \in [Status -> Int]
  BY DEF TypeOK, ExecutionState, CountsAfter
<1> QED
  BY <1>1 DEF TypeOK, ExecutionState, ExecutionAfter, ExecStatus

(* The latest attempt of an event that has one is an attempt.               *)
LEMMA LatestType ==
  ASSUME TypeOK, NEW e \in Ordinals, journal[e] # <<>>
  PROVE  /\ Len(journal[e]) \in Nat \ {0}
         /\ Len(journal[e]) \in DOMAIN journal[e]
         /\ Latest(e) \in Attempt
BY DEF TypeOK, Latest

(* The two shapes of a journal write keep the types of journal and exec.    *)
LEMMA AppendPendingType ==
  ASSUME TypeOK, Running, NEW withRequest \in BOOLEAN, AppendPending(withRequest)
  PROVE  /\ journal' \in [Ordinals -> Seq(Attempt)]
         /\ exec' \in ExecutionState
<1>1. next \in Ordinals
  BY CurrentIsOrdinal
<1>2. PendingRow(withRequest) \in Attempt
  BY DEF PendingRow, Attempt, Status
<1>3. Append(journal[next], PendingRow(withRequest)) \in Seq(Attempt)
  BY <1>1, <1>2 DEF TypeOK
<1>4. journal' \in [Ordinals -> Seq(Attempt)]
  BY <1>1, <1>3, JournalUpdate DEF AppendPending
<1>5. exec' \in ExecutionState
  BY <1>1, ExecutionAfterType DEF AppendPending, Status
<1> QED
  BY <1>4, <1>5

LEMMA RowUpdateType ==
  ASSUME TypeOK, NEW e \in Ordinals, journal[e] # <<>>, NEW row \in Attempt,
         journal' = [journal EXCEPT ![e] = [journal[e] EXCEPT ![Len(journal[e])] = row]]
  PROVE  journal' \in [Ordinals -> Seq(Attempt)]
<1>1. Len(journal[e]) \in DOMAIN journal[e]
  BY LatestType
<1>2. [journal[e] EXCEPT ![Len(journal[e])] = row] \in Seq(Attempt)
  BY <1>1 DEF TypeOK
<1> QED
  BY <1>2, JournalUpdate

LEMMA AdvanceType ==
  ASSUME TypeOK, Running, NEW from \in Status, NEW s \in Status, Advance(from, s)
  PROVE  journal' \in [Ordinals -> Seq(Attempt)]
<1> DEFINE row == [Latest(next) EXCEPT !.status = s]
<1>1. next \in Ordinals /\ journal[next] # <<>>
  BY CurrentIsOrdinal DEF Advance, LatestIs
<1>2. row \in Attempt
  BY <1>1, LatestType DEF Attempt
<1>3. journal' = [journal EXCEPT ![next] = [journal[next] EXCEPT ![Len(journal[next])] = row]]
  BY <1>1 DEF Advance, Latest, TypeOK
<1> QED
  BY <1>1, <1>2, <1>3, RowUpdateType

-----------------------------------------------------------------------------
(* No transaction leaves a row of another shape.                            *)
LEMMA TypeKept ==
  ASSUME TypeOK, [Next]_vars
  PROVE  TypeOK'
<1>1. ASSUME NEW a \in Agents, InitializeAgent(a) PROVE TypeOK'
  BY <1>1 DEF InitializeAgent, TypeOK, progressVars
<1>2. CASE SealInitialState
  BY <1>2 DEF SealInitialState, TypeOK, agentVars
<1>3. CASE RecordPreparedAttempt
  <2>1. CASE AppendPending(TRUE)
    BY <1>3, <2>1, AppendPendingType DEF RecordPreparedAttempt, TypeOK, agentVars, progressVars
  <2>2. ASSUME LatestIs(next, "pending"), UNCHANGED exec,
               journal' = [journal EXCEPT ![next][Len(journal[next])].request = TRUE]
        PROVE  TypeOK'
    <3> DEFINE row == [Latest(next) EXCEPT !.request = TRUE]
    <3>1. next \in Ordinals /\ journal[next] # <<>>
      BY <1>3, <2>2, CurrentIsOrdinal DEF RecordPreparedAttempt, LatestIs
    <3>2. row \in Attempt
      BY <3>1, LatestType DEF Attempt
    <3>3. journal' = [journal EXCEPT ![next] =
                        [journal[next] EXCEPT ![Len(journal[next])] = row]]
      BY <2>2, <3>1 DEF Latest, TypeOK
    <3>4. journal' \in [Ordinals -> Seq(Attempt)]
      BY <3>1, <3>2, <3>3, RowUpdateType
    <3> QED
      BY <1>3, <2>2, <3>4 DEF RecordPreparedAttempt, TypeOK, agentVars, progressVars
  <2> QED
    BY <1>3, <2>1, <2>2 DEF RecordPreparedAttempt
<1>4. CASE AppendPendingAttempt
  BY <1>4, AppendPendingType DEF AppendPendingAttempt, TypeOK, agentVars, progressVars
<1>5. CASE StartAttempt
  <2>1. journal' \in [Ordinals -> Seq(Attempt)]
    BY <1>5, AdvanceType DEF StartAttempt, Status
  <2>2. exec' \in ExecutionState
    BY <1>5, CurrentIsOrdinal, ExecutionAfterType DEF StartAttempt, Status
  <2> QED
    BY <1>5, <2>1, <2>2 DEF StartAttempt, TypeOK, agentVars, progressVars
<1>6. ASSUME NEW s \in Terminal, AppendTerminalAttempt(s) PROVE TypeOK'
  <2>1. s \in Status /\ "in_progress" \in Status
    BY <1>6 DEF Terminal, Status
  <2>2. journal' \in [Ordinals -> Seq(Attempt)]
    BY <1>6, <2>1, AdvanceType DEF AppendTerminalAttempt
  <2>3. exec' \in ExecutionState
    BY <1>6, <2>1, CurrentIsOrdinal, ExecutionAfterType DEF AppendTerminalAttempt
  <2> QED
    BY <1>6, <2>2, <2>3 DEF AppendTerminalAttempt, TypeOK, agentVars, progressVars
<1>7. ASSUME NEW reply \in Reply, RecordInvocationEvidence(reply) PROVE TypeOK'
  <2> DEFINE row == [Latest(next) EXCEPT !.reply = reply]
  <2>1. next \in Ordinals /\ journal[next] # <<>>
    BY <1>7, CurrentIsOrdinal DEF RecordInvocationEvidence, LatestIs
  <2>2. row \in Attempt
    BY <1>7, <2>1, LatestType DEF Attempt
  <2>3. journal' = [journal EXCEPT ![next] =
                      [journal[next] EXCEPT ![Len(journal[next])] = row]]
    BY <1>7, <2>1 DEF RecordInvocationEvidence, Latest, TypeOK
  <2>4. journal' \in [Ordinals -> Seq(Attempt)]
    BY <2>1, <2>2, <2>3, RowUpdateType
  <2> QED
    BY <1>7, <2>4 DEF RecordInvocationEvidence, TypeOK, agentVars, progressVars
<1>8. CASE RecordFinalizedAttempt
  <2> DEFINE s == Outcome(Latest(next).reply)
             row == [Latest(next) EXCEPT !.status = s, !.parsed = TRUE]
  <2>1. next \in Ordinals /\ journal[next] # <<>>
    BY <1>8, CurrentIsOrdinal DEF RecordFinalizedAttempt, LatestIs
  <2>2. s \in Status
    BY DEF Outcome, Status
  <2>3. row \in Attempt
    BY <2>1, <2>2, LatestType DEF Attempt
  <2>4. journal' = [journal EXCEPT ![next] =
                      [journal[next] EXCEPT ![Len(journal[next])] = row]]
    BY <1>8, <2>1 DEF RecordFinalizedAttempt, Latest, TypeOK
  <2>5. journal' \in [Ordinals -> Seq(Attempt)]
    BY <2>1, <2>3, <2>4, RowUpdateType
  <2>6. Failure(next, Len(journal[next])) \in Link
    BY <2>1, LatestType DEF Failure, Link
  <2>7. \/ /\ chain' = Append(chain, Failure(next, Len(journal[next])))
           /\ exec' = [ExecutionAfter(next, s) EXCEPT !.status = "FAILED", !.failed = {next}]
        \/ chain' = chain /\ exec' = ExecutionAfter(next, s)
    BY <1>8 DEF RecordFinalizedAttempt
  <2>8. chain' \in Seq(Link)
    <3>1. chain \in Seq(Link) /\ Append(chain, Failure(next, Len(journal[next]))) \in Seq(Link)
      BY <2>6 DEF TypeOK
    <3> QED
      BY <2>7, <3>1
  <2>9. ExecutionAfter(next, s) \in ExecutionState
    BY <2>1, <2>2, ExecutionAfterType
  <2>10. exec' \in ExecutionState
    <3> HIDE DEF s
    <3>1. [ExecutionAfter(next, s) EXCEPT !.status = "FAILED", !.failed = {next}]
            \in ExecutionState
      BY <2>1, <2>9 DEF ExecutionState, ExecStatus
    <3> QED
      BY <2>7, <2>9, <3>1
  <2> QED
    BY <1>8, <2>5, <2>8, <2>10 DEF RecordFinalizedAttempt, TypeOK, agentVars, progressVars
<1>9. CASE RecordTerminalFailure
  <2>1. next \in Ordinals /\ journal[next] # <<>>
    BY <1>9, CurrentIsOrdinal DEF RecordTerminalFailure, LatestIs
  <2>2. Failure(next, Len(journal[next])) \in Link
    BY <2>1, LatestType DEF Failure, Link
  <2>3. chain' \in Seq(Link)
    BY <1>9, <2>2 DEF RecordTerminalFailure, TypeOK
  <2>4. exec' \in ExecutionState
    BY <1>9, <2>1 DEF RecordTerminalFailure, ExecutionState, ExecStatus, TypeOK
  <2> QED
    BY <1>9, <2>3, <2>4 DEF RecordTerminalFailure, TypeOK, agentVars, progressVars
<1>10. CASE AuthorizeResume
  <2>1. LastLink \in Link
    BY <1>10 DEF AuthorizeResume, Halted, LastLink, TypeOK
  <2>2. Authorization(LastLink.ordinal, LastLink.index) \in Link
    BY <2>1 DEF Authorization, Link
  <2>3. chain' \in Seq(Link)
    BY <1>10, <2>2 DEF AuthorizeResume, TypeOK
  <2>4. exec' \in ExecutionState
    BY <1>10 DEF AuthorizeResume, ExecutionState, ExecStatus, TypeOK
  <2> QED
    BY <1>10, <2>3, <2>4 DEF AuthorizeResume, TypeOK, agentVars, progressVars
<1>11. CASE CommitSuccess
  <2>1. next \in Ordinals /\ next + 1 \in 0 .. EventCount
    BY <1>11, CurrentIsOrdinal, ScheduleAssumption DEF CommitSuccess, Running, TypeOK, Ordinals
  <2>2. next + 1 \in Ordinals \union {EventCount}
    BY <2>1, ScheduleAssumption DEF Ordinals
  <2>3. exec' \in ExecutionState
    BY <1>11, <2>1, <2>2 DEF CommitSuccess, ExecutionState, ExecStatus, TypeOK
  <2>4. Agent[next] \in Agents /\ Publish[next] \in BOOLEAN
    BY <2>1, ScheduleAssumption
  <2>5. /\ private' \in [Agents -> Ordinals \union {Round0, Absent}]
        /\ cursor' \in [Agents -> Ordinals \union {Round0, Absent}]
    BY <1>11, <2>1, <2>4 DEF CommitSuccess, TypeOK
  <2>6. PublishPost(Agent[next])
    BY <1>11 DEF CommitSuccess
  <2>7. pointer' \in [Agents -> Ordinals \union {Round0, Absent}]
    BY <2>1, <2>4, <2>6 DEF PublishPost, TypeOK
  <2>8. posts' \in SUBSET Ordinals
    BY <2>1, <2>6 DEF PublishPost, TypeOK
  <2>9. events' \in SUBSET Ordinals
    BY <1>11, <2>1 DEF CommitSuccess, TypeOK
  <2> DEFINE entry == [ordinal |-> next, attempts |-> Len(journal[next]),
                       posted |-> Publish[next]]
  <2>10. entry \in Entry
    BY <2>1, <2>4 DEF Entry, TypeOK
  <2>11. head' = [head EXCEPT !.log = Append(head.log, entry)]
    BY <1>11 DEF CommitSuccess
  <2>12. head' \in [root : BOOLEAN, log : Seq(Entry)]
    <3>1. head.root \in BOOLEAN /\ head.log \in Seq(Entry)
      BY DEF TypeOK
    <3>2. Append(head.log, entry) \in Seq(Entry)
      BY <2>10, <3>1
    <3> HIDE DEF entry
    <3> QED
      BY <2>11, <3>1, <3>2 DEF TypeOK
  <2> QED
    BY <1>11, <2>1, <2>3, <2>5, <2>7, <2>8, <2>9, <2>12 DEF CommitSuccess, TypeOK
<1>12. CASE UNCHANGED vars
  BY <1>12 DEF vars, agentVars, progressVars, TypeOK
<1> QED
  BY <1>1, <1>2, <1>3, <1>4, <1>5, <1>6, <1>7, <1>8, <1>9, <1>10, <1>11, <1>12 DEF Next

LEMMA InitType ==
  ASSUME Init
  PROVE  TypeOK
<1>1. exec \in ExecutionState
  BY ScheduleAssumption DEF Init, ExecutionState, ExecStatus, Ordinals
<1>2. head \in [root : BOOLEAN, log : Seq(Entry)]
  BY DEF Init
<1>3. journal \in [Ordinals -> Seq(Attempt)]
  BY DEF Init
<1>4. /\ private \in [Agents -> Ordinals \union {Round0, Absent}]
      /\ cursor  \in [Agents -> Ordinals \union {Round0, Absent}]
      /\ pointer \in [Agents -> Ordinals \union {Round0, Absent}]
  BY DEF Init
<1>5. sealed \in BOOLEAN /\ events \in SUBSET Ordinals /\ posts \in SUBSET Ordinals
  BY DEF Init
<1>6. next \in 0 .. EventCount
  BY ScheduleAssumption DEF Init
<1>7. chain \in Seq(Link)
  BY DEF Init
<1> QED
  BY <1>1, <1>2, <1>3, <1>4, <1>5, <1>6, <1>7 DEF TypeOK

(* Every reachable state of the store has rows of the right shape.          *)
THEOREM TypeCorrect == Spec => []TypeOK
<1>1. Init => TypeOK
  BY InitType
<1>2. TypeOK /\ [Next]_vars => TypeOK'
  BY TypeKept
<1> QED
  BY <1>1, <1>2, PTL DEF Spec

-----------------------------------------------------------------------------
(* The checks of verify_integrity *)

(* Nothing happens before round 0 is sealed.                                *)
SealedFirst ==
  ~sealed => next = 0 /\ \A e \in Ordinals : journal[e] = <<>>

Invariant == TypeOK /\ SealedFirst /\ LifecycleReplays

-----------------------------------------------------------------------------
(* The shapes of a step *)

LatestOpen == journal[next] # <<>> /\ Latest(next).status \in {"pending", "in_progress"}

AppendRow(row) == journal' = [journal EXCEPT ![next] = Append(journal[next], row)]

ReplaceRow(row) ==
  journal' = [journal EXCEPT ![next] = [journal[next] EXCEPT ![Len(journal[next])] = row]]

Bystander == UNCHANGED <<next, journal, chain, exec>>

FreshAttempt(row) ==
  /\ Running /\ ~Halted /\ sealed
  /\ row \in Attempt /\ row.status = "pending"
  /\ journal[next] # <<>> => /\ LatestIs(next, "failed")
                             /\ RetryAuthorized(next, Len(journal[next]) + 1)
  /\ AppendRow(row)
  /\ exec' = ExecutionAfter(next, "pending")
  /\ UNCHANGED <<next, chain>>

MoreEvidence(row) ==
  /\ Running /\ LatestOpen
  /\ row \in Attempt /\ row.status = Latest(next).status
  /\ ReplaceRow(row)
  /\ UNCHANGED <<next, chain, exec>>

Transition(row) ==
  /\ Running /\ LatestOpen
  /\ row \in Attempt
  /\ ReplaceRow(row)
  /\ exec' = ExecutionAfter(next, row.status)
  /\ UNCHANGED <<next, chain>>

FailureOf(row) ==
  /\ Running /\ LatestOpen
  /\ row \in Attempt /\ row.status = "failed"
  /\ ReplaceRow(row)
  /\ chain' = Append(chain, Failure(next, Len(journal[next])))
  /\ exec' = [ExecutionAfter(next, "failed") EXCEPT !.status = "FAILED", !.failed = {next}]
  /\ UNCHANGED next

-----------------------------------------------------------------------------
LEMMA RecordFinalizedShape ==
  ASSUME TypeOK, RecordFinalizedAttempt
  PROVE  \E row \in Attempt : Transition(row) \/ FailureOf(row)
<1> DEFINE s == Outcome(Latest(next).reply)
           row == [Latest(next) EXCEPT !.status = s, !.parsed = TRUE]
<1>1. next \in Ordinals /\ journal[next] # <<>> /\ Latest(next).status = "in_progress" /\ Running
  BY CurrentIsOrdinal DEF RecordFinalizedAttempt, LatestIs
<1>2. s \in {"failed", "succeeded"}
  BY DEF Outcome
<1>3. row \in Attempt /\ row.status = s
  <2>1. s \in Status
    BY <1>2 DEF Status
  <2> HIDE DEF s
  <2> QED
    BY <1>1, <2>1, LatestType DEF Attempt
<1>4. ReplaceRow(row)
  BY <1>1 DEF RecordFinalizedAttempt, ReplaceRow, Latest, TypeOK
<1>5. \/ /\ s = "failed"
         /\ chain' = Append(chain, Failure(next, Len(journal[next])))
         /\ exec' = [ExecutionAfter(next, s) EXCEPT !.status = "FAILED", !.failed = {next}]
      \/ chain' = chain /\ exec' = ExecutionAfter(next, s)
  BY DEF RecordFinalizedAttempt
<1>6. next' = next
  BY DEF RecordFinalizedAttempt, progressVars
<1> HIDE DEF s, row
<1>7. Transition(row) \/ FailureOf(row)
  BY <1>1, <1>3, <1>4, <1>5, <1>6 DEF Transition, FailureOf, LatestOpen
<1> QED
  BY <1>3, <1>7

(* Every step that touches journal, chain, progress or execution state has  *)
(* one of the shapes, or is one of the three remaining writes.              *)
LEMMA StepShapes ==
  ASSUME TypeOK, [Next]_vars
  PROVE  \/ Bystander
         \/ \E row \in Attempt : FreshAttempt(row) \/ MoreEvidence(row)
                                 \/ Transition(row) \/ FailureOf(row)
         \/ RecordTerminalFailure
         \/ AuthorizeResume
         \/ CommitSuccess
<1>1. ASSUME NEW withRequest \in BOOLEAN, AppendPending(withRequest),
             sealed, ~Halted, Running, UNCHANGED <<next, chain>>
      PROVE  \E row \in Attempt : FreshAttempt(row)
  <2>1. next \in Ordinals
    BY <1>1, CurrentIsOrdinal
  <2>2. PendingRow(withRequest) \in Attempt /\ PendingRow(withRequest).status = "pending"
    BY DEF PendingRow, Attempt, Status
  <2>3. journal[next] # <<>> => Len(journal[next]) + 1 > 1
    BY <2>1 DEF TypeOK
  <2>4. FreshAttempt(PendingRow(withRequest))
    BY <1>1, <2>2, <2>3 DEF AppendPending, FreshAttempt, AppendRow
  <2> QED
    BY <2>2, <2>4
<1>2. ASSUME NEW from \in {"pending", "in_progress"}, NEW s \in Status, Running,
             Advance(from, s), exec' = ExecutionAfter(next, s), UNCHANGED <<next, chain>>
      PROVE  \E row \in Attempt : Transition(row)
  <2> DEFINE row == [Latest(next) EXCEPT !.status = s]
  <2>1. next \in Ordinals /\ journal[next] # <<>> /\ Latest(next).status = from
    BY <1>2, CurrentIsOrdinal DEF Advance, LatestIs
  <2>2. row \in Attempt /\ row.status = s
    BY <2>1, LatestType DEF Attempt
  <2>3. ReplaceRow(row)
    BY <1>2, <2>1 DEF Advance, ReplaceRow, Latest, TypeOK
  <2> HIDE DEF row
  <2>4. Transition(row)
    BY <1>2, <2>1, <2>2, <2>3 DEF Transition, LatestOpen
  <2> QED
    BY <2>2, <2>4
<1>3. CASE \E a \in Agents : InitializeAgent(a)
  BY <1>3 DEF InitializeAgent, Bystander, progressVars
<1>4. CASE SealInitialState
  BY <1>4 DEF SealInitialState, Bystander
<1>5. CASE RecordPreparedAttempt
  <2>1. CASE AppendPending(TRUE)
    BY <1>1, <1>5, <2>1 DEF RecordPreparedAttempt, progressVars
  <2>2. ASSUME LatestIs(next, "pending"), UNCHANGED exec,
               journal' = [journal EXCEPT ![next][Len(journal[next])].request = TRUE]
        PROVE  \E row \in Attempt : MoreEvidence(row)
    <3> DEFINE row == [Latest(next) EXCEPT !.request = TRUE]
    <3>1. next \in Ordinals /\ journal[next] # <<>> /\ Latest(next).status = "pending"
      BY <1>5, <2>2, CurrentIsOrdinal DEF RecordPreparedAttempt, LatestIs
    <3>2. row \in Attempt /\ row.status = "pending"
      BY <3>1, LatestType DEF Attempt
    <3>3. ReplaceRow(row)
      BY <2>2, <3>1 DEF ReplaceRow, Latest, TypeOK
    <3> HIDE DEF row
    <3>4. MoreEvidence(row)
      BY <1>5, <2>2, <3>1, <3>2, <3>3
         DEF RecordPreparedAttempt, MoreEvidence, LatestOpen, progressVars
    <3> QED
      BY <3>2, <3>4
  <2> QED
    BY <1>5, <2>1, <2>2 DEF RecordPreparedAttempt
<1>6. CASE AppendPendingAttempt
  BY <1>1, <1>6 DEF AppendPendingAttempt, progressVars
<1>7. CASE StartAttempt
  BY <1>2, <1>7 DEF StartAttempt, Status, progressVars
<1>8. ASSUME NEW s \in Terminal, AppendTerminalAttempt(s)
      PROVE  \E row \in Attempt : Transition(row)
  BY <1>2, <1>8 DEF AppendTerminalAttempt, Terminal, Status, progressVars
<1>9. ASSUME NEW reply \in Reply, RecordInvocationEvidence(reply)
      PROVE  \E row \in Attempt : MoreEvidence(row)
  <2> DEFINE row == [Latest(next) EXCEPT !.reply = reply]
  <2>1. next \in Ordinals /\ journal[next] # <<>> /\ Latest(next).status = "in_progress"
    BY <1>9, CurrentIsOrdinal DEF RecordInvocationEvidence, LatestIs
  <2>2. row \in Attempt /\ row.status = "in_progress"
    BY <2>1, <1>9, LatestType DEF Attempt
  <2>3. ReplaceRow(row)
    BY <1>9, <2>1 DEF RecordInvocationEvidence, ReplaceRow, Latest, TypeOK
  <2> HIDE DEF row
  <2>4. MoreEvidence(row)
    BY <1>9, <2>1, <2>2, <2>3
       DEF RecordInvocationEvidence, MoreEvidence, LatestOpen, progressVars
  <2> QED
    BY <2>2, <2>4
<1>10. CASE RecordFinalizedAttempt
  BY <1>10, RecordFinalizedShape
<1>11. CASE UNCHANGED vars
  BY <1>11 DEF vars, progressVars, Bystander
<1> QED
  BY <1>3, <1>4, <1>5, <1>6, <1>7, <1>8, <1>9, <1>10, <1>11 DEF Next

(* What the two journal writes change, row by row.                          *)
LEMMA AppendedRow ==
  ASSUME TypeOK, Running, NEW row \in Attempt, AppendRow(row)
  PROVE  /\ \A e \in Ordinals : e # next => journal'[e] = journal[e]
         /\ Len(journal'[next]) = Len(journal[next]) + 1
         /\ DOMAIN journal'[next] = 1 .. Len(journal[next]) + 1
         /\ \A k \in DOMAIN journal[next] : journal'[next][k] = journal[next][k]
         /\ journal'[next][Len(journal[next]) + 1] = row
         /\ journal'[next] # <<>>
<1>1. next \in Ordinals
  BY CurrentIsOrdinal
<1>2. journal'[next] = Append(journal[next], row) /\ journal[next] \in Seq(Attempt)
  BY <1>1 DEF TypeOK, AppendRow
<1>3. \A e \in Ordinals : e # next => journal'[e] = journal[e]
  BY DEF TypeOK, AppendRow
<1> QED
  BY <1>2, <1>3

LEMMA ReplacedRow ==
  ASSUME TypeOK, Running, journal[next] # <<>>, NEW row \in Attempt, ReplaceRow(row)
  PROVE  /\ \A e \in Ordinals : e # next => journal'[e] = journal[e]
         /\ Len(journal'[next]) = Len(journal[next])
         /\ DOMAIN journal'[next] = DOMAIN journal[next]
         /\ \A k \in DOMAIN journal[next] :
              k # Len(journal[next]) => journal'[next][k] = journal[next][k]
         /\ journal'[next][Len(journal[next])] = row
         /\ journal'[next] # <<>>
<1>1. next \in Ordinals
  BY CurrentIsOrdinal
<1>2. /\ journal'[next] = [journal[next] EXCEPT ![Len(journal[next])] = row]
      /\ journal[next] \in Seq(Attempt)
  BY <1>1 DEF TypeOK, ReplaceRow
<1>3. \A e \in Ordinals : e # next => journal'[e] = journal[e]
  BY DEF TypeOK, ReplaceRow
<1>4. Len(journal[next]) \in DOMAIN journal[next]
  BY <1>1, LatestType
<1> QED
  BY <1>2, <1>3, <1>4

-----------------------------------------------------------------------------
(* Attempts exist up to the current event only, and only a failed attempt   *)
(* is followed by another one.                                              *)
LEMMA AttemptsStayCovered ==
  ASSUME TypeOK, TypeOK', AttemptsAreCovered, [Next]_vars
  PROVE  AttemptsAreCovered'
<1>0. ASSUME next \in Ordinals, next' = next,
             \A e \in Ordinals : e # next => journal'[e] = journal[e],
             \A k \in DOMAIN journal'[next] :
               k < Len(journal'[next]) => journal'[next][k].status = "failed"
      PROVE  AttemptsAreCovered'
  <2>1. \A e \in Ordinals : e > next => journal'[e] = <<>>
    BY <1>0 DEF AttemptsAreCovered, Ordinals
  <2>2. \A e \in Ordinals : e < next => journal'[e] = journal[e] /\ LatestIs(e, "succeeded")
    BY <1>0 DEF AttemptsAreCovered, Ordinals
  <2>3. \A e \in Ordinals : e < next => LatestIs(e, "succeeded")'
    BY <2>2 DEF LatestIs, Latest
  <2>4. \A e \in Ordinals : \A k \in DOMAIN journal'[e] :
          k < Len(journal'[e]) => journal'[e][k].status = "failed"
    BY <1>0 DEF AttemptsAreCovered
  <2> QED
    BY <1>0, <2>1, <2>3, <2>4 DEF AttemptsAreCovered
<1>1. CASE Bystander
  BY <1>1 DEF Bystander, AttemptsAreCovered, LatestIs, Latest
<1>2. ASSUME NEW row \in Attempt, FreshAttempt(row) PROVE AttemptsAreCovered'
  <2>1. next \in Ordinals /\ next' = next /\ Running /\ AppendRow(row)
    BY <1>2, CurrentIsOrdinal DEF FreshAttempt
  <2>2. journal[next] \in Seq(Attempt)
    BY <2>1 DEF TypeOK
  <2>3. \A k \in DOMAIN journal[next] : journal[next][k].status = "failed"
    <3>1. CASE journal[next] = <<>>
      BY <3>1
    <3>2. CASE journal[next] # <<>>
      <4>1. journal[next][Len(journal[next])].status = "failed"
        BY <1>2, <3>2 DEF FreshAttempt, LatestIs, Latest
      <4> QED
        BY <2>1, <2>2, <4>1 DEF AttemptsAreCovered
    <3> QED
      BY <3>1, <3>2
  <2>4. \A k \in DOMAIN journal'[next] :
          k < Len(journal'[next]) => journal'[next][k].status = "failed"
    BY <2>1, <2>2, <2>3, AppendedRow
  <2> QED
    BY <1>0, <2>1, <2>4, AppendedRow
<1>3. ASSUME NEW row \in Attempt, Running, LatestOpen, ReplaceRow(row), next' = next
      PROVE  AttemptsAreCovered'
  <2>1. next \in Ordinals /\ journal[next] # <<>>
    BY <1>3, CurrentIsOrdinal DEF LatestOpen
  <2>2. journal[next] \in Seq(Attempt)
    BY <2>1 DEF TypeOK
  <2>3. \A k \in DOMAIN journal'[next] :
          k < Len(journal'[next]) => journal'[next][k].status = "failed"
    BY <1>3, <2>1, <2>2, ReplacedRow DEF AttemptsAreCovered
  <2> QED
    BY <1>0, <1>3, <2>1, <2>3, ReplacedRow
<1>4. CASE RecordTerminalFailure
  BY <1>4 DEF RecordTerminalFailure, progressVars, AttemptsAreCovered, LatestIs, Latest
<1>5. CASE AuthorizeResume
  BY <1>5 DEF AuthorizeResume, progressVars, AttemptsAreCovered, LatestIs, Latest
<1>6. CASE CommitSuccess
  BY <1>6 DEF CommitSuccess, AttemptsAreCovered, LatestIs, Latest, Ordinals, TypeOK
<1> QED
  BY <1>1, <1>2, <1>3, <1>4, <1>5, <1>6, StepShapes
     DEF MoreEvidence, Transition, FailureOf

(* The chain alternates failure and authorization.                          *)
LEMMA ChainStaysLinked ==
  ASSUME TypeOK, ChainIsLinked, HaltIsCurrent, [Next]_vars
  PROVE  ChainIsLinked'
<1>1. ASSUME NEW e, NEW k, ~Halted, chain' = Append(chain, Failure(e, k))
      PROVE  ChainIsLinked'
  <2>1. Len(chain) \in Nat /\ (chain # <<>> => chain[Len(chain)] \in Link)
    BY DEF TypeOK
  <2>2. chain # <<>> => chain[Len(chain)].kind = "authorization"
    BY <1>1, <2>1 DEF Halted, LastLink, Link
  <2>3. Failure(e, k).kind = "failure"
    BY DEF Failure
  <2> QED
    BY <1>1, <2>1, <2>2, <2>3 DEF ChainIsLinked, TypeOK
<1>2. CASE UNCHANGED chain
  BY <1>2 DEF ChainIsLinked
<1>3. ASSUME NEW row \in Attempt, FailureOf(row) PROVE ChainIsLinked'
  <2>1. ~Halted
    BY <1>3 DEF FailureOf, LatestOpen, HaltIsCurrent, LatestIs
  <2> QED
    BY <1>1, <1>3, <2>1 DEF FailureOf
<1>4. CASE RecordTerminalFailure
  BY <1>1, <1>4 DEF RecordTerminalFailure
<1>5. CASE AuthorizeResume
  BY <1>5 DEF AuthorizeResume, Halted, LastLink, Authorization, ChainIsLinked, TypeOK
<1>6. CASE CommitSuccess
  BY <1>2, <1>6 DEF CommitSuccess
<1> QED
  BY <1>2, <1>3, <1>4, <1>5, <1>6, StepShapes
     DEF Bystander, FreshAttempt, MoreEvidence, Transition

(* A failed attempt stays where it is, and stays failed.                    *)
LEMMA FailedRowsStay ==
  ASSUME TypeOK, [Next]_vars, NEW e \in Ordinals, NEW k \in DOMAIN journal[e],
         journal[e][k].status = "failed"
  PROVE  k \in DOMAIN journal'[e] /\ journal'[e][k].status = "failed"
<1>1. CASE journal' = journal
  BY <1>1
<1>2. ASSUME NEW row \in Attempt, FreshAttempt(row)
      PROVE  k \in DOMAIN journal'[e] /\ journal'[e][k].status = "failed"
  <2>1. Running /\ AppendRow(row)
    BY <1>2 DEF FreshAttempt
  <2>2. CASE e = next
    <3>1. journal[next] \in Seq(Attempt)
      BY <2>2 DEF TypeOK
    <3> QED
      BY <2>1, <2>2, <3>1, AppendedRow
  <2>3. CASE e # next
    BY <2>1, <2>3, AppendedRow
  <2> QED
    BY <2>2, <2>3
<1>3. ASSUME NEW row \in Attempt, Running, LatestOpen, ReplaceRow(row)
      PROVE  k \in DOMAIN journal'[e] /\ journal'[e][k].status = "failed"
  <2>1. CASE e = next
    <3>1. k # Len(journal[next]) /\ journal[next] # <<>>
      BY <1>3, <2>1 DEF LatestOpen, Latest
    <3> QED
      BY <1>3, <2>1, <3>1, ReplacedRow
  <2>2. CASE e # next
    BY <1>3, <2>2, ReplacedRow DEF LatestOpen
  <2> QED
    BY <2>1, <2>2
<1> QED
  BY <1>1, <1>2, <1>3, StepShapes
     DEF Bystander, MoreEvidence, Transition, FailureOf,
         RecordTerminalFailure, AuthorizeResume, CommitSuccess

(* How the causal chain grows.                                              *)
LEMMA ChainGrowth ==
  ASSUME TypeOK, HaltIsCurrent, [Next]_vars
  PROVE  \/ chain' = chain /\ next' = next
         \/ chain' = chain /\ ~Halted /\ CommitSuccess
         \/ /\ chain' = Append(chain, Authorization(LastLink.ordinal, LastLink.index))
            /\ Halted /\ next' = next /\ journal' = journal
         \/ /\ chain' = Append(chain, Failure(next, Len(journal[next])))
            /\ ~Halted /\ Running /\ next' = next /\ journal[next] # <<>>
            /\ LatestIs(next, "failed")'
            /\ Len(journal'[next]) = Len(journal[next])
            /\ Latest(next).status = "failed" => ~Bound(next, Len(journal[next]))
<1>1. ASSUME NEW row \in Attempt, FailureOf(row)
      PROVE  /\ chain' = Append(chain, Failure(next, Len(journal[next])))
             /\ ~Halted /\ Running /\ next' = next /\ journal[next] # <<>>
             /\ LatestIs(next, "failed")'
             /\ Len(journal'[next]) = Len(journal[next])
             /\ Latest(next).status # "failed"
  <2>1. Running /\ LatestOpen /\ journal[next] # <<>> /\ next' = next /\ ReplaceRow(row)
    BY <1>1 DEF FailureOf, LatestOpen
  <2>2. ~Halted /\ Latest(next).status # "failed"
    BY <2>1 DEF LatestOpen, HaltIsCurrent, LatestIs
  <2>3. journal'[next] # <<>> /\ Len(journal'[next]) = Len(journal[next])
        /\ journal'[next][Len(journal[next])] = row
    BY <2>1, ReplacedRow
  <2> QED
    BY <1>1, <2>1, <2>2, <2>3 DEF FailureOf, LatestIs, Latest
<1>2. CASE RecordTerminalFailure
  BY <1>2 DEF RecordTerminalFailure, progressVars, LatestIs, Latest
<1>3. CASE AuthorizeResume
  BY <1>3 DEF AuthorizeResume, progressVars
<1>4. CASE CommitSuccess
  BY <1>4 DEF CommitSuccess
<1> QED
  BY <1>1, <1>2, <1>3, <1>4, StepShapes
     DEF Bystander, FreshAttempt, MoreEvidence, Transition

LEMMA ChainGrows ==
  ASSUME TypeOK, HaltIsCurrent, [Next]_vars
  PROVE  Len(chain) <= Len(chain') /\ \A i \in DOMAIN chain : chain'[i] = chain[i]
<1>1. chain \in Seq(Link)
  BY DEF TypeOK
<1>2. ASSUME NEW link \in Link, chain' = Append(chain, link)
      PROVE  Len(chain) <= Len(chain') /\ \A i \in DOMAIN chain : chain'[i] = chain[i]
  BY <1>1, <1>2
<1>3. ASSUME Halted PROVE Authorization(LastLink.ordinal, LastLink.index) \in Link
  <2>1. LastLink \in Link
    BY <1>1, <1>3 DEF Halted, LastLink
  <2> QED
    BY <2>1 DEF Authorization, Link
<1>4. ASSUME Running, journal[next] # <<>> PROVE Failure(next, Len(journal[next])) \in Link
  <2>1. next \in Ordinals
    BY <1>4, CurrentIsOrdinal
  <2>2. Len(journal[next]) \in Nat \ {0}
    BY <1>4, <2>1 DEF TypeOK
  <2> QED
    BY <2>1, <2>2 DEF Failure, Link
<1>5. CASE chain' = chain
  BY <1>1, <1>5
<1> QED
  BY <1>2, <1>3, <1>4, <1>5, ChainGrowth

LEMMA FailureLink ==
  ASSUME NEW link \in Link, link.kind = "failure"
  PROVE  link = Failure(link.ordinal, link.index)
BY DEF Link, Failure

(* A failure in the chain names a failed attempt, no attempt twice.         *)
LEMMA FailuresStayBound ==
  ASSUME TypeOK, TypeOK', FailuresAreBound, HaltIsCurrent, [Next]_vars
  PROVE  FailuresAreBound'
<1> DEFINE Good(i, n, j, c) ==
             /\ c[i].index \in DOMAIN j[c[i].ordinal]
             /\ j[c[i].ordinal][c[i].index].status = "failed"
             /\ c[i].ordinal <= n
             /\ c[i].ordinal < n => i < Len(c)
             /\ \A h \in 1 .. i - 1 :
                  c[h].kind = "failure" /\ c[h].ordinal = c[i].ordinal
                    => c[h].index < c[i].index
<1>1. \A i \in DOMAIN chain : chain[i].kind = "failure" => Good(i, next, journal, chain)
  BY DEF FailuresAreBound
<1>2. SUFFICES ASSUME NEW i \in DOMAIN chain', chain'[i].kind = "failure"
               PROVE  Good(i, next', journal', chain')
  BY DEF FailuresAreBound
<1>3. chain \in Seq(Link) /\ chain' \in Seq(Link) /\ next \in Nat
  BY DEF TypeOK
<1>4. /\ chain'[i].ordinal \in Ordinals
      /\ Len(chain) <= Len(chain')
      /\ \A h \in DOMAIN chain : chain'[h] = chain[h]
  <2>1. chain'[i] \in Link
    BY <1>3
  <2> QED
    BY <2>1, ChainGrows DEF Link
<1>5. CASE i \in DOMAIN chain
  <2>1. chain'[i] = chain[i] /\ Good(i, next, journal, chain)
    BY <1>1, <1>2, <1>4, <1>5
  <2>2. /\ chain[i].index \in DOMAIN journal'[chain[i].ordinal]
        /\ journal'[chain[i].ordinal][chain[i].index].status = "failed"
    BY <1>4, <2>1, FailedRowsStay
  <2>3. \A h \in 1 .. i - 1 : chain'[h] = chain[h]
    BY <1>3, <1>4, <1>5
  <2>4. chain[i].ordinal <= next' /\ (chain[i].ordinal < next' => i < Len(chain'))
    <3>1. CASE next' = next
      BY <1>3, <1>4, <1>5, <2>1, <3>1
    <3>2. CASE chain' = chain /\ ~Halted /\ CommitSuccess
      <4>1. next' = next + 1
        BY <3>2 DEF CommitSuccess
      <4>2. i # Len(chain)
        BY <1>2, <1>5, <2>1, <3>2 DEF Halted, LastLink
      <4>3. chain[i].ordinal \in Int
        BY <1>4, <2>1 DEF Ordinals
      <4> HIDE DEF Good
      <4>4. chain[i].ordinal <= next
        BY <2>1 DEF Good
      <4> QED
        BY <1>3, <1>5, <3>2, <4>1, <4>2, <4>3, <4>4
    <3> QED
      BY <3>1, <3>2, ChainGrowth
  <2> QED
    BY <2>1, <2>2, <2>3, <2>4
<1>6. CASE i \notin DOMAIN chain
  <2>1. /\ chain' = Append(chain, Failure(next, Len(journal[next])))
        /\ Running /\ next' = next /\ journal[next] # <<>>
        /\ LatestIs(next, "failed")'
        /\ Len(journal'[next]) = Len(journal[next])
        /\ Latest(next).status = "failed" => ~Bound(next, Len(journal[next]))
    BY <1>2, <1>3, <1>6, ChainGrowth DEF Authorization
  <2>2. i = Len(chain) + 1 /\ i = Len(chain')
    BY <1>3, <1>6, <2>1
  <2>3. chain'[i].ordinal = next /\ chain'[i].index = Len(journal[next])
    BY <1>3, <2>1, <2>2 DEF Failure
  <2>4. next \in Ordinals
    BY <2>1, CurrentIsOrdinal
  <2>5. /\ Len(journal[next]) \in DOMAIN journal'[next]
        /\ journal'[next][Len(journal[next])].status = "failed"
    BY <2>1, <2>4 DEF TypeOK, LatestIs, Latest
  <2>6. ASSUME NEW h \in 1 .. i - 1, chain'[h].kind = "failure", chain'[h].ordinal = next
        PROVE  chain'[h].index < Len(journal[next])
    <3>1. h \in DOMAIN chain /\ chain'[h] = chain[h]
      BY <1>3, <1>4, <2>2
    <3>2. /\ chain[h].index \in DOMAIN journal[next]
          /\ journal[next][chain[h].index].status = "failed"
      BY <1>1, <2>6, <3>1
    <3>3. chain[h] = Failure(next, chain[h].index)
      BY <1>3, <2>6, <3>1, FailureLink
    <3>4. chain[h].index # Len(journal[next])
      BY <2>1, <3>1, <3>2, <3>3 DEF Latest, Bound
    <3>5. journal[next] \in Seq(Attempt)
      BY <2>4 DEF TypeOK
    <3> QED
      BY <3>1, <3>2, <3>4, <3>5
  <2>7. ~(next < next)
    BY <1>3
  <2> QED
    BY <1>3, <2>1, <2>2, <2>3, <2>5, <2>6, <2>7
<1> QED
  BY <1>5, <1>6

(* A halted run is halted on the latest attempt of its current event.       *)
LEMMA HaltStaysCurrent ==
  ASSUME TypeOK, TypeOK', HaltIsCurrent, [Next]_vars
  PROVE  HaltIsCurrent'
<1>1. CASE chain' = Append(chain, Failure(next, Len(journal[next])))
  <2>1. Running /\ next' = next /\ LatestIs(next, "failed")'
    BY <1>1, ChainGrowth DEF Failure, Authorization, TypeOK
  <2>2. LastLink' = Failure(next, Len(journal[next]))
    BY <1>1 DEF LastLink, TypeOK
  <2> QED
    BY <2>1, <2>2 DEF HaltIsCurrent, Failure, Running, LatestIs, Latest
<1>2. CASE AuthorizeResume
  BY <1>2 DEF AuthorizeResume, HaltIsCurrent, Halted, LastLink, Authorization, TypeOK
<1>3. CASE Bystander
  BY <1>3 DEF Bystander, HaltIsCurrent, Halted, LastLink, Running, LatestIs, Latest
<1>4. CASE chain' = chain /\ ~Halted
  BY <1>4 DEF HaltIsCurrent, Halted, LastLink
<1> QED
  BY <1>1, <1>2, <1>3, <1>4, StepShapes
     DEF FreshAttempt, MoreEvidence, Transition, FailureOf, LatestOpen, HaltIsCurrent,
         LatestIs, RecordTerminalFailure, CommitSuccess

(* Every attempt after the first has its failure and authorization.         *)
LEMMA RetriesStayAuthorized ==
  ASSUME TypeOK, TypeOK', HaltIsCurrent, RetriesAreAuthorized, [Next]_vars
  PROVE  RetriesAreAuthorized'
<1> DEFINE Freed1(e, k, c) == \E i \in 1 .. Len(c) - 1 :
             c[i] = Failure(e, k - 1) /\ c[i + 1] = Authorization(e, k - 1)
<1>1. chain \in Seq(Link) /\ chain' \in Seq(Link)
  BY DEF TypeOK
<1>2. Len(chain) <= Len(chain') /\ \A i \in DOMAIN chain : chain'[i] = chain[i]
  BY ChainGrows
<1>3. \A e, k : Freed1(e, k, chain) => Freed1(e, k, chain')
  BY <1>1, <1>2
<1>4. ASSUME \A e \in Ordinals : DOMAIN journal'[e] = DOMAIN journal[e]
      PROVE  RetriesAreAuthorized'
  BY <1>3, <1>4 DEF RetriesAreAuthorized
<1>5. ASSUME NEW row \in Attempt, FreshAttempt(row) PROVE RetriesAreAuthorized'
  <2>1. Running /\ AppendRow(row) /\ chain' = chain
    BY <1>5 DEF FreshAttempt
  <2>2. next \in Ordinals /\ journal[next] \in Seq(Attempt)
    BY <2>1, CurrentIsOrdinal DEF TypeOK
  <2>3. ASSUME Len(journal[next]) + 1 > 1
        PROVE  Freed1(next, Len(journal[next]) + 1, chain)
    <3>1. RetryAuthorized(next, Len(journal[next]) + 1)
      BY <1>5, <2>2, <2>3 DEF FreshAttempt
    <3>2. Len(chain) - 1 \in 1 .. Len(chain) - 1 /\ (Len(chain) - 1) + 1 = Len(chain)
      BY <1>1, <3>1 DEF RetryAuthorized
    <3> QED
      BY <3>1, <3>2 DEF RetryAuthorized, LastLink
  <2>4. ASSUME NEW e \in Ordinals, NEW k \in DOMAIN journal'[e], k > 1
        PROVE  Freed1(e, k, chain)
    <3>1. CASE k \in DOMAIN journal[e]
      BY <2>4, <3>1 DEF RetriesAreAuthorized
    <3>2. CASE k \notin DOMAIN journal[e]
      <4>1. e = next /\ k = Len(journal[next]) + 1
        BY <2>1, <2>2, <2>4, <3>2, AppendedRow
      <4> QED
        BY <2>3, <2>4, <4>1
    <3> QED
      BY <3>1, <3>2
  <2> QED
    BY <2>1, <2>4 DEF RetriesAreAuthorized
<1>6. ASSUME NEW row \in Attempt, Running, LatestOpen, ReplaceRow(row)
      PROVE  RetriesAreAuthorized'
  BY <1>4, <1>6, ReplacedRow DEF LatestOpen
<1> QED
  BY <1>4, <1>5, <1>6, StepShapes
     DEF Bystander, MoreEvidence, Transition, FailureOf,
         RecordTerminalFailure, AuthorizeResume, CommitSuccess

-----------------------------------------------------------------------------
(* The execution state *)

(* The row a transition of the current event leaves, counted afresh: the    *)
(* status the event had before is counted out.                              *)
LEMMA TransitionCounts ==
  ASSUME TypeOK, ExecutionReplays, Running, NEW s \in Status,
         journal[next] # <<>> => Latest(next).status # "succeeded"
  PROVE  ExecutionAfter(next, s) =
           [status  |-> "RUNNING", next |-> next, current |-> next, ids |-> 0 .. next,
            counts  |-> [t \in Status |-> (IF t = "succeeded" THEN next ELSE 0)
                                         + (IF t = s THEN 1 ELSE 0)],
            failed  |-> {}]
<1>1. next \in Ordinals /\ next \in Nat
  BY CurrentIsOrdinal DEF TypeOK
<1>2. CurrentStarted => Latest(next).status \in Status \ {"succeeded"}
  BY <1>1, LatestType DEF CurrentStarted, Attempt
<1>3. /\ exec.next = next
      /\ exec.ids = IF CurrentStarted THEN 0 .. next ELSE 0 .. next - 1
      /\ exec.counts = [t \in Status |->
                          (IF t = "succeeded" THEN next ELSE 0)
                          + (IF CurrentStarted /\ Latest(next).status = t THEN 1 ELSE 0)]
  BY DEF ExecutionReplays, DerivedExecution
<1>4. next \in exec.ids <=> CurrentStarted
  BY <1>1, <1>3
<1>5. exec.ids \union {next} = 0 .. next
  BY <1>1, <1>3
<1>6. \A t \in Status \ {"succeeded"} :
        t \in OpenStatuses <=> CurrentStarted /\ Latest(next).status = t
  BY <1>3 DEF OpenStatuses
<1>7. "succeeded" \notin OpenStatuses
  BY DEF OpenStatuses
<1>8. ASSUME NEW t \in Status
      PROVE  exec.counts[t] - (IF next \in exec.ids /\ t \in OpenStatuses THEN 1 ELSE 0)
             = IF t = "succeeded" THEN next ELSE 0
  <2>1. CASE t = "succeeded"
    BY <1>1, <1>2, <1>3, <1>7, <2>1
  <2>2. CASE t # "succeeded"
    BY <1>3, <1>4, <1>6, <2>2
  <2> QED
    BY <2>1, <2>2
<1>9. CountsAfter(next, s) = [t \in Status |-> (IF t = "succeeded" THEN next ELSE 0)
                                              + (IF t = s THEN 1 ELSE 0)]
  BY <1>8 DEF CountsAfter
<1> QED
  BY <1>3, <1>5, <1>9 DEF ExecutionAfter

LEMMA ExecutionStillReplays ==
  ASSUME TypeOK, TypeOK', ExecutionReplays, HaltIsCurrent, HaltIsCurrent',
         AttemptsAreCovered, [Next]_vars
  PROVE  ExecutionReplays'
<1> DEFINE Counts(s) == [t \in Status |-> (IF t = "succeeded" THEN next ELSE 0)
                                         + (IF t = s THEN 1 ELSE 0)]
           Row(status, s, failed) ==
             [status |-> status, next |-> next, current |-> next, ids |-> 0 .. next,
              counts |-> Counts(s), failed |-> failed]
<1>1. ASSUME NEW s \in Status, Running, next' = next,
             journal'[next] # <<>>, journal'[next][Len(journal'[next])].status = s,
             exec' = Row(IF Halted' THEN "FAILED" ELSE "RUNNING", s,
                         IF Halted' THEN {next} ELSE {})
      PROVE  ExecutionReplays'
  <2>1. Running' /\ CurrentStarted' /\ Latest(next)'.status = s
    BY <1>1 DEF Running, CurrentStarted, Latest
  <2>2. DerivedExecution'.counts = Counts(s)
    BY <1>1, <2>1 DEF DerivedExecution
  <2> HIDE DEF Counts
  <2>3. DerivedExecution' = Row(IF Halted' THEN "FAILED" ELSE "RUNNING", s,
                                IF Halted' THEN {next} ELSE {})
    BY <1>1, <2>1, <2>2 DEF DerivedExecution
  <2> QED
    BY <1>1, <2>3 DEF ExecutionReplays
<1>2. ASSUME NEW row \in Attempt, FreshAttempt(row) PROVE ExecutionReplays'
  <2>1. Running /\ AppendRow(row) /\ next' = next /\ ~Halted'
    BY <1>2 DEF FreshAttempt, Halted, LastLink
  <2>2. next \in Ordinals /\ Len(journal[next]) \in Nat
    BY <2>1, CurrentIsOrdinal DEF TypeOK
  <2>3. journal'[next] # <<>> /\ journal'[next][Len(journal'[next])] = row
    BY <2>1, AppendedRow
  <2>4. row.status = "pending" /\ "pending" \in Status
    BY <1>2 DEF FreshAttempt, Status
  <2>5. exec' = Row("RUNNING", "pending", {})
    BY <1>2, <2>1, <2>4, TransitionCounts DEF FreshAttempt, LatestIs
  <2> QED
    BY <1>1, <2>1, <2>3, <2>4, <2>5
<1>3. ASSUME NEW row \in Attempt, FailureOf(row) \/ Transition(row) PROVE ExecutionReplays'
  <2>1. /\ Running /\ LatestOpen /\ ReplaceRow(row) /\ next' = next /\ row.status \in Status
        /\ journal[next] # <<>> /\ Latest(next).status # "succeeded"
    BY <1>3 DEF FailureOf, Transition, LatestOpen, Attempt
  <2>2. journal'[next] # <<>> /\ journal'[next][Len(journal'[next])] = row
    BY <2>1, ReplacedRow
  <2>3. ExecutionAfter(next, row.status) = Row("RUNNING", row.status, {})
    BY <2>1, TransitionCounts
  <2>4. ~Halted
    BY <2>1 DEF LatestOpen, HaltIsCurrent, LatestIs
  <2>5. CASE Transition(row)
    <3>1. ~Halted'
      BY <2>4, <2>5 DEF Transition, Halted, LastLink
    <3> QED
      BY <1>1, <2>1, <2>2, <2>3, <2>5, <3>1 DEF Transition
  <2>6. CASE FailureOf(row)
    <3>1. chain' = Append(chain, Failure(next, Len(journal[next]))) /\ row.status = "failed"
      BY <2>6 DEF FailureOf
    <3>2. Halted'
      BY <3>1 DEF Halted, LastLink, Failure, TypeOK
    <3> HIDE DEF Counts
    <3>3. exec' = [Row("RUNNING", "failed", {}) EXCEPT !.status = "FAILED", !.failed = {next}]
      BY <2>3, <2>6, <3>1 DEF FailureOf
    <3>4. exec' = Row("FAILED", "failed", {next})
      BY <3>3
    <3> QED
      BY <1>1, <2>1, <2>2, <3>1, <3>2, <3>4
  <2> QED
    BY <1>3, <2>5, <2>6
<1>4. ASSUME NEW row \in Attempt, MoreEvidence(row) PROVE ExecutionReplays'
  <2>1. /\ Running /\ LatestOpen /\ ReplaceRow(row) /\ UNCHANGED <<next, chain, exec>>
        /\ journal[next] # <<>> /\ row.status = Latest(next).status
    BY <1>4 DEF MoreEvidence, LatestOpen
  <2>2. journal'[next] # <<>> /\ Latest(next)' = row
    BY <2>1, ReplacedRow DEF Latest
  <2>3. CurrentStarted /\ CurrentStarted' /\ Running' /\ Halted' = Halted
    BY <2>1, <2>2 DEF CurrentStarted, Running, Halted, LastLink
  <2> QED
    BY <2>1, <2>2, <2>3 DEF ExecutionReplays, DerivedExecution
<1>5. CASE Bystander
  BY <1>5 DEF Bystander, ExecutionReplays, DerivedExecution, CurrentStarted, Running,
              Halted, LastLink, Latest
<1>6. CASE AuthorizeResume \/ RecordTerminalFailure
  <2>1. /\ Running /\ LatestIs(next, "failed") /\ UNCHANGED <<next, journal>>
    BY <1>6 DEF AuthorizeResume, RecordTerminalFailure, HaltIsCurrent, progressVars
  <2>2. "failed" \in Status /\ CurrentStarted /\ next \in Nat
    BY <2>1 DEF Status, CurrentStarted, LatestIs, TypeOK
  <2>3. DerivedExecution.counts = Counts("failed")
    BY <2>1, <2>2 DEF DerivedExecution, LatestIs
  <2> HIDE DEF Counts
  <2>4. \E st, f : exec = Row(st, "failed", f)
    BY <2>2, <2>3 DEF ExecutionReplays, DerivedExecution
  <2>5. PICK st, f : exec = Row(st, "failed", f)
    BY <2>4
  <2>6. CASE AuthorizeResume
    <3>1. exec' = [Row(st, "failed", f) EXCEPT !.status = "RUNNING", !.failed = {}]
      BY <2>5, <2>6 DEF AuthorizeResume
    <3>2. exec' = Row("RUNNING", "failed", {})
      BY <3>1
    <3>3. ~Halted'
      BY <2>6 DEF AuthorizeResume, Halted, LastLink, Authorization, TypeOK
    <3> QED
      BY <1>1, <2>1, <2>2, <3>2, <3>3 DEF LatestIs, Latest
  <2>7. CASE RecordTerminalFailure
    <3>1. exec' = [Row(st, "failed", f) EXCEPT !.status = "FAILED", !.failed = {next},
                                               !.current = next]
      BY <2>5, <2>7 DEF RecordTerminalFailure
    <3>2. exec' = Row("FAILED", "failed", {next})
      BY <3>1
    <3>3. Halted'
      BY <2>7 DEF RecordTerminalFailure, Halted, LastLink, Failure, TypeOK
    <3> QED
      BY <1>1, <2>1, <2>2, <3>2, <3>3 DEF LatestIs, Latest
  <2> QED
    BY <1>6, <2>6, <2>7
<1>7. CASE CommitSuccess
  <2>1. /\ Running /\ ~Halted /\ ~Halted' /\ next' = next + 1 /\ journal' = journal
        /\ LatestIs(next, "succeeded")
    BY <1>7 DEF CommitSuccess, Halted, LastLink
  <2>2. next \in Nat /\ next' \in Nat /\ next < EventCount /\ EventCount \in Nat
    BY <2>1, ScheduleAssumption DEF TypeOK, Running
  <2>3. ~CurrentStarted'
    BY <2>1, <2>2 DEF CurrentStarted, Running, AttemptsAreCovered, Ordinals
  <2>4. CurrentStarted /\ Latest(next).status = "succeeded"
    BY <2>1 DEF CurrentStarted, LatestIs
  <2> DEFINE left == IF next + 1 = EventCount THEN "COMPLETE" ELSE "RUNNING"
             counts == exec.counts
  <2>5. exec = [status |-> "RUNNING", next |-> next, current |-> next, ids |-> 0 .. next,
                counts |-> counts, failed |-> {}]
    BY <2>1, <2>4 DEF ExecutionReplays, DerivedExecution
  <2>6. exec' = [exec EXCEPT !.status = left, !.next = next + 1, !.current = next + 1]
    BY <1>7 DEF CommitSuccess
  <2> HIDE DEF left, counts
  <2>7. exec' = [status |-> left, next |-> next + 1, current |-> next + 1, ids |-> 0 .. next,
                 counts |-> counts, failed |-> {}]
    BY <2>5, <2>6
  <2>8. exec.counts = [t \in Status |-> IF t = "succeeded" THEN next + 1 ELSE 0]
    <3>1. exec.counts = [t \in Status |-> (IF t = "succeeded" THEN next ELSE 0)
                                         + (IF "succeeded" = t THEN 1 ELSE 0)]
      BY <2>4 DEF ExecutionReplays, DerivedExecution
    <3> QED
      BY <2>2, <3>1
  <2>9. DerivedExecution'.counts = [t \in Status |-> IF t = "succeeded" THEN next + 1 ELSE 0]
    BY <2>1, <2>2, <2>3 DEF DerivedExecution
  <2>10. 0 .. next' - 1 = 0 .. next /\ (Running' <=> next + 1 # EventCount)
    BY <2>1, <2>2 DEF Running
  <2>11. DerivedExecution' =
           [status |-> IF next + 1 = EventCount THEN "COMPLETE" ELSE "RUNNING",
            next |-> next + 1, current |-> next + 1, ids |-> 0 .. next,
            counts |-> DerivedExecution'.counts, failed |-> {}]
    BY <2>1, <2>3, <2>10 DEF DerivedExecution
  <2> QED
    BY <2>7, <2>8, <2>9, <2>11 DEF ExecutionReplays, left, counts
<1> QED
  BY <1>2, <1>3, <1>4, <1>5, <1>6, <1>7, StepShapes

-----------------------------------------------------------------------------
(* Progress, roster, current state and chain head *)

(* Only a commit and round 0 write the rows outside the attempt lifecycle.  *)
LEMMA OtherRows ==
  ASSUME [Next]_vars
  PROVE  \/ UNCHANGED <<sealed, agentVars, progressVars>>
         \/ \E a \in Agents : InitializeAgent(a)
         \/ SealInitialState
         \/ CommitSuccess
BY DEF Next, vars, agentVars, progressVars, RecordPreparedAttempt, AppendPendingAttempt,
       StartAttempt, AppendTerminalAttempt, RecordInvocationEvidence,
       RecordFinalizedAttempt, RecordTerminalFailure, AuthorizeResume

(* Committed events keep their attempts.                                    *)
LEMMA CommittedStay ==
  ASSUME TypeOK, [Next]_vars, NEW e \in Ordinals, e < next
  PROVE  journal'[e] = journal[e]
<1>1. e # next
  BY DEF TypeOK, Ordinals
<1>2. ASSUME Running, NEW row \in Attempt, AppendRow(row) PROVE journal'[e] = journal[e]
  BY <1>1, <1>2, AppendedRow
<1>3. ASSUME Running, LatestOpen, NEW row \in Attempt, ReplaceRow(row)
      PROVE  journal'[e] = journal[e]
  BY <1>1, <1>3, ReplacedRow DEF LatestOpen
<1> QED
  BY <1>2, <1>3, StepShapes
     DEF Bystander, FreshAttempt, MoreEvidence, Transition, FailureOf,
         RecordTerminalFailure, AuthorizeResume, CommitSuccess

(* Before round 0 is sealed nothing is attempted.                           *)
LEMMA StaysSealedFirst ==
  ASSUME TypeOK, SealedFirst, [Next]_vars
  PROVE  SealedFirst'
<1>1. SUFFICES ASSUME ~sealed' PROVE next' = 0 /\ \A e \in Ordinals : journal'[e] = <<>>
  BY DEF SealedFirst
<1>2. ~sealed
  BY <1>1, OtherRows DEF InitializeAgent, SealInitialState, CommitSuccess
<1>3. next = 0 /\ \A e \in Ordinals : journal[e] = <<>>
  BY <1>2 DEF SealedFirst
<1>4. Running => journal[next] = <<>>
  BY <1>3, CurrentIsOrdinal
<1>5. UNCHANGED <<next, journal>>
  BY <1>2, <1>4, StepShapes
     DEF Bystander, FreshAttempt, MoreEvidence, Transition, FailureOf, LatestOpen,
         RecordTerminalFailure, AuthorizeResume, CommitSuccess, LatestIs, progressVars
<1> QED
  BY <1>3, <1>5

(* The events are those before the next ordinal.                            *)
LEMMA ProgressStaysContiguous ==
  ASSUME TypeOK, TypeOK', ProgressIsContiguous, [Next]_vars
  PROVE  ProgressIsContiguous'
<1>1. CASE UNCHANGED <<next, events>>
  BY <1>1 DEF ProgressIsContiguous
<1>2. CASE CommitSuccess
  <2>1. next' = next + 1 /\ events' = events \union {next} /\ next \in Nat
    BY <1>2 DEF CommitSuccess, TypeOK
  <2>2. 0 .. next' - 1 = (0 .. next - 1) \union {next}
    BY <2>1
  <2>3. next' \in 0 .. EventCount
    BY DEF TypeOK
  <2> QED
    BY <2>1, <2>2, <2>3 DEF ProgressIsContiguous
<1> QED
  BY <1>1, <1>2, OtherRows DEF InitializeAgent, SealInitialState, progressVars

(* The three tables of agents hold the same agents.                         *)
LEMMA RosterStaysCovered ==
  ASSUME TypeOK, RosterIsCovered, [Next]_vars
  PROVE  RosterIsCovered'
<1>1. CASE UNCHANGED <<sealed, agentVars>>
  BY <1>1 DEF RosterIsCovered, Rows, agentVars
<1>2. ASSUME NEW a \in Agents, InitializeAgent(a) PROVE RosterIsCovered'
  BY <1>2 DEF InitializeAgent, RosterIsCovered, Rows, TypeOK, Round0, Absent
<1>3. CASE SealInitialState
  BY <1>3 DEF SealInitialState, RosterIsCovered, Rows, agentVars
<1>4. CASE CommitSuccess
  <2>1. next \in Ordinals /\ next # Absent /\ Agent[next] \in Agents
    BY <1>4, CurrentIsOrdinal, ScheduleAssumption DEF CommitSuccess, Absent, Ordinals
  <2>2. private[Agent[next]] # Absent /\ cursor[Agent[next]] # Absent
        /\ pointer[Agent[next]] # Absent /\ sealed' = sealed
    BY <1>4 DEF CommitSuccess
  <2>3. Rows(private)' = Rows(private)
    BY <1>4, <2>1, <2>2 DEF CommitSuccess, Rows, TypeOK
  <2>4. Rows(cursor)' = Rows(cursor)
    BY <1>4, <2>1, <2>2 DEF CommitSuccess, Rows, TypeOK
  <2>5. Rows(pointer)' = Rows(pointer)
    BY <1>4, <2>1, <2>2 DEF CommitSuccess, PublishPost, Rows, TypeOK
  <2> QED
    BY <2>2, <2>3, <2>4, <2>5 DEF RosterIsCovered
<1> QED
  BY <1>1, <1>2, <1>3, <1>4, OtherRows

(* An agent's rows are from the last event that wrote them.                 *)
LEMMA StateStillReplays ==
  ASSUME TypeOK, TypeOK', SealedFirst, StateReplays, [Next]_vars
  PROVE  StateReplays'
<1>1. CASE UNCHANGED <<agentVars, next>>
  BY <1>1 DEF StateReplays, Rows, CommittedBy, agentVars
<1>2. ASSUME NEW a \in Agents, InitializeAgent(a) PROVE StateReplays'
  <2>1. next' = 0 /\ next = 0
    BY <1>2 DEF InitializeAgent, SealedFirst, progressVars
  <2>2. \A b \in Agents : CommittedBy(b) = {} /\ CommittedBy(b)' = {}
    BY <2>1 DEF CommittedBy, Ordinals
  <2>3. \A b \in Agents : \/ b = a /\ private'[b] = Round0 /\ cursor'[b] = Round0
                            /\ pointer'[b] = Round0
                         \/ /\ private'[b] = private[b] /\ cursor'[b] = cursor[b]
                            /\ pointer'[b] = pointer[b]
    BY <1>2 DEF InitializeAgent, TypeOK
  <2> QED
    BY <2>2, <2>3 DEF StateReplays, Rows, IsLastOf
<1>3. CASE CommitSuccess
  <2>0. PICK a \in Agents : a = Agent[next]
    BY <1>3, CurrentIsOrdinal, ScheduleAssumption DEF CommitSuccess
  <2>1. /\ next \in Ordinals /\ next \in Nat /\ next' = next + 1 /\ a \in Agents
        /\ private[a] # Absent
    BY <1>3, <2>0, CurrentIsOrdinal DEF CommitSuccess, TypeOK
  <2>2. CommittedBy(a)' = CommittedBy(a) \union {next}
    BY <2>0, <2>1 DEF CommittedBy, Ordinals
  <2>3. \A e \in CommittedBy(a) : e <= next /\ e # next
    BY <2>1 DEF CommittedBy, Ordinals
  <2>4. \A b \in Agents : b # a => CommittedBy(b)' = CommittedBy(b)
    BY <2>0, <2>1 DEF CommittedBy, Ordinals
  <2>5. private'[a] = next /\ cursor'[a] = next
    BY <1>3, <2>0, <2>1 DEF CommitSuccess, TypeOK
  <2>6. pointer'[a] = IF Publish[next] THEN next ELSE pointer[a]
    BY <1>3, <2>0, <2>1 DEF CommitSuccess, PublishPost, TypeOK
  <2>7. \A b \in Agents : b # a =>
          private'[b] = private[b] /\ cursor'[b] = cursor[b] /\ pointer'[b] = pointer[b]
    BY <1>3, <2>0, <2>1 DEF CommitSuccess, PublishPost, TypeOK
  <2>8. a \in Rows(private)
    BY <2>0, <2>1 DEF Rows
  <2>9. IsLastOf(private'[a], CommittedBy(a)')
    BY <2>1, <2>2, <2>3, <2>5 DEF IsLastOf
  <2>10. {e \in CommittedBy(a)' : Publish[e]}
           = {e \in CommittedBy(a) : Publish[e]} \union {e \in {next} : Publish[e]}
    BY <2>2
  <2>11. IsLastOf(pointer'[a], {e \in CommittedBy(a)' : Publish[e]})
    <3>1. CASE Publish[next]
      BY <2>1, <2>2, <2>3, <2>6, <3>1 DEF IsLastOf
    <3>2. CASE ~Publish[next]
      <4>1. {e \in CommittedBy(a)' : Publish[e]} = {e \in CommittedBy(a) : Publish[e]}
        BY <2>10, <3>2
      <4>2. IsLastOf(pointer[a], {e \in CommittedBy(a) : Publish[e]})
        BY <2>8 DEF StateReplays
      <4> QED
        BY <2>6, <3>2, <4>1, <4>2
    <3> QED
      BY <3>1, <3>2
  <2>12. ASSUME NEW b \in Rows(private)'
         PROVE  /\ IsLastOf(private'[b], CommittedBy(b)')
                /\ cursor'[b] = private'[b]
                /\ IsLastOf(pointer'[b], {e \in CommittedBy(b)' : Publish[e]})
    <3>1. CASE b = a
      BY <2>5, <2>9, <2>11, <3>1
    <3>2. CASE b # a
      <4>1. b \in Rows(private) /\ b \in Agents
        BY <2>7, <2>12, <3>2 DEF Rows
      <4>2. CommittedBy(b)' = CommittedBy(b)
        BY <2>4, <3>2, <4>1
      <4> QED
        BY <2>7, <3>2, <4>1, <4>2 DEF StateReplays
    <3> QED
      BY <3>1, <3>2
  <2> QED
    BY <2>12 DEF StateReplays, IsLastOf
<1> QED
  BY <1>1, <1>2, <1>3, OtherRows DEF SealInitialState, progressVars

(* The chain head folds in one entry per committed event.                   *)
LEMMA HeadStillReplays ==
  ASSUME TypeOK, TypeOK', HeadReplays, [Next]_vars
  PROVE  HeadReplays'
<1> DEFINE Fold(e, j) == [ordinal |-> e, attempts |-> Len(j), posted |-> Publish[e]]
<1>1. next \in Nat /\ next <= EventCount /\ EventCount \in Nat
  BY ScheduleAssumption DEF TypeOK
<1>2. \A i \in 1 .. next : head.log[i] = Fold(i - 1, journal'[i - 1])
  <2>1. ASSUME NEW i \in 1 .. next PROVE journal'[i - 1] = journal[i - 1]
    BY <1>1, <2>1, CommittedStay DEF Ordinals
  <2> QED
    BY <2>1 DEF HeadReplays
<1>3. CASE UNCHANGED <<sealed, progressVars>>
  <2>1. sealed' = sealed /\ next' = next /\ posts' = posts /\ head' = head
    BY <1>3 DEF progressVars
  <2> QED
    BY <1>2, <2>1 DEF HeadReplays
<1>4. CASE SealInitialState
  <2>1. sealed' = TRUE /\ next' = next /\ posts' = posts
    BY <1>4 DEF SealInitialState
  <2>2. head'.root = TRUE /\ head'.log = head.log
    BY <1>4 DEF SealInitialState, TypeOK
  <2> QED
    BY <1>2, <2>1, <2>2 DEF HeadReplays
<1>5. CASE CommitSuccess
  <2> DEFINE entry == Fold(next, journal[next])
  <2>1. /\ next \in Ordinals /\ next' = next + 1 /\ sealed' = sealed
        /\ journal' = journal
    BY <1>5, CurrentIsOrdinal DEF CommitSuccess
  <2>2. entry \in Entry
    <3>1. Publish[next] \in BOOLEAN /\ Len(journal[next]) \in Nat
      BY <2>1, ScheduleAssumption DEF TypeOK
    <3> QED
      BY <2>1, <3>1 DEF Entry
  <2>3. head' = [head EXCEPT !.log = Append(head.log, entry)]
    BY <1>5 DEF CommitSuccess
  <2> HIDE DEF entry
  <2>4. head'.root = head.root /\ head'.log = Append(head.log, entry)
    BY <2>3 DEF TypeOK
  <2>5. Len(head.log) = next /\ head.log \in Seq(Entry)
    BY DEF HeadReplays, TypeOK
  <2>6. /\ Len(head'.log) = next'
        /\ head'.log[next'] = entry
        /\ \A i \in 1 .. next : head'.log[i] = head.log[i]
    BY <1>1, <2>1, <2>2, <2>4, <2>5
  <2>7. entry = Fold(next' - 1, journal'[next' - 1])
    BY <1>1, <2>1 DEF entry
  <2>8. \A i \in 1 .. next' : head'.log[i] = Fold(i - 1, journal'[i - 1])
    <3> HIDE DEF Fold
    <3> QED
      BY <1>1, <1>2, <2>1, <2>6, <2>7
  <2>9. posts' = {e \in Ordinals : e < next' /\ Publish[e]}
    <3>1. posts = {e \in Ordinals : e < next /\ Publish[e]}
      BY DEF HeadReplays
    <3>2. posts' = IF Publish[next] THEN posts \union {next} ELSE posts
      BY <1>5 DEF CommitSuccess, PublishPost
    <3>3. \A e \in Ordinals : e < next' <=> e < next \/ e = next
      BY <1>1, <2>1 DEF Ordinals
    <3> QED
      BY <2>1, <3>1, <3>2, <3>3
  <2> QED
    BY <2>1, <2>4, <2>6, <2>8, <2>9 DEF HeadReplays
<1>6. ASSUME NEW a \in Agents, InitializeAgent(a) PROVE HeadReplays'
  <2>1. UNCHANGED <<sealed, progressVars>>
    BY <1>6 DEF InitializeAgent
  <2> QED
    BY <1>3, <2>1
<1> QED
  BY <1>3, <1>4, <1>5, <1>6, OtherRows

-----------------------------------------------------------------------------
LEMMA InitInvariant == Init => SealedFirst /\ LifecycleReplays
<1> SUFFICES ASSUME Init PROVE SealedFirst /\ LifecycleReplays
  OBVIOUS
<1> USE ScheduleAssumption
<1>1. SealedFirst /\ RosterIsCovered
  BY DEF Init, SealedFirst, RosterIsCovered, Rows
<1>2. ProgressIsContiguous
  BY DEF Init, ProgressIsContiguous
<1>3. chain = <<>> /\ Len(chain) = 0 /\ DOMAIN chain = {} /\ ~Halted
  BY DEF Init, Halted
<1>4. ChainIsLinked /\ FailuresAreBound /\ HaltIsCurrent
  BY <1>3 DEF ChainIsLinked, FailuresAreBound, HaltIsCurrent
<1>5. \A e \in Ordinals : journal[e] = <<>> /\ DOMAIN journal[e] = {}
  BY DEF Init
<1>6. AttemptsAreCovered /\ RetriesAreAuthorized
  BY <1>5 DEF Init, AttemptsAreCovered, RetriesAreAuthorized, Ordinals
<1>7. ExecutionReplays
  <2>1. next = 0 /\ Running /\ ~CurrentStarted
    BY <1>5 DEF Init, Running, CurrentStarted, Ordinals
  <2>2. exec = [status |-> "RUNNING", next |-> 0, current |-> 0, ids |-> {},
                counts |-> [s \in Status |-> 0], failed |-> {}]
    BY DEF Init
  <2>3. DerivedExecution.counts = [s \in Status |-> 0]
    BY <2>1 DEF DerivedExecution
  <2>4. DerivedExecution = [status |-> "RUNNING", next |-> 0, current |-> 0, ids |-> {},
                            counts |-> DerivedExecution.counts, failed |-> {}]
    BY <1>3, <2>1 DEF DerivedExecution
  <2> QED
    BY <2>2, <2>3, <2>4 DEF ExecutionReplays
<1>8. StateReplays
  BY DEF Init, StateReplays, Rows, Absent
<1>9. HeadReplays
  <2>1. posts = {} /\ next = 0 /\ head.root = FALSE /\ sealed = FALSE /\ head.log = <<>>
    BY DEF Init
  <2>2. Len(head.log) = 0 /\ 1 .. next = {}
    BY <2>1
  <2>3. {e \in Ordinals : e < next /\ Publish[e]} = {}
    BY <2>1 DEF Ordinals
  <2> QED
    BY <2>1, <2>2, <2>3 DEF HeadReplays
<1> QED
  BY <1>1, <1>2, <1>4, <1>6, <1>7, <1>8, <1>9 DEF LifecycleReplays

LEMMA StepInvariant == Invariant /\ TypeOK' /\ [Next]_vars => Invariant'
<1> SUFFICES ASSUME Invariant, TypeOK', [Next]_vars PROVE Invariant'
  OBVIOUS
<1> USE DEF Invariant, LifecycleReplays
<1>1. SealedFirst'
  BY StaysSealedFirst
<1>2. RosterIsCovered' /\ ProgressIsContiguous'
  BY RosterStaysCovered, ProgressStaysContiguous
<1>3. ChainIsLinked' /\ FailuresAreBound' /\ HaltIsCurrent'
  BY ChainStaysLinked, FailuresStayBound, HaltStaysCurrent
<1>4. AttemptsAreCovered' /\ RetriesAreAuthorized'
  BY AttemptsStayCovered, RetriesStayAuthorized
<1>5. ExecutionReplays'
  BY <1>3, ExecutionStillReplays
<1>6. StateReplays' /\ HeadReplays'
  BY StateStillReplays, HeadStillReplays
<1> QED
  BY <1>1, <1>2, <1>3, <1>4, <1>5, <1>6

LEMMA InvariantCorrect == Spec => []Invariant
<1>1. Init /\ TypeOK => Invariant
  BY InitInvariant DEF Invariant
<1> QED
  BY <1>1, TypeCorrect, StepInvariant, PTL DEF Spec

(* Whatever the order of the writes, with or without the v6 evidence, the   *)
(* rows replay: every check of verify_integrity but the evidence cover      *)
(* passes in every state, so the run can always be reopened.                *)
THEOREM LifecycleCorrect == Spec => []LifecycleReplays
<1>1. Invariant => LifecycleReplays
  BY DEF Invariant
<1> QED
  BY <1>1, InvariantCorrect, PTL


-----------------------------------------------------------------------------
(* What a write does to the row of the latest attempt *)

RowStep(old, new) ==
  \/ old.status = "pending" /\ new = [old EXCEPT !.request = TRUE]
  \/ old.status = "pending" /\ new = [old EXCEPT !.status = "in_progress"]
  \/ /\ LegacyCallers
     /\ old.status = "in_progress"
     /\ \E s \in Terminal : new = [old EXCEPT !.status = s]
  \/ /\ old.status = "in_progress" /\ old.request /\ old.reply = NoReply
     /\ \E reply \in Reply : new = [old EXCEPT !.reply = reply]
  \/ /\ old.status = "in_progress" /\ old.request /\ old.reply # NoReply
     /\ new = [old EXCEPT !.status = Outcome(old.reply), !.parsed = TRUE]
     /\ Outcome(old.reply) = "failed" =>
          chain' = Append(chain, Failure(next, Len(journal[next])))

Appends ==
  /\ Running
  /\ journal[next] # <<>> => LatestIs(next, "failed")
  /\ \E withRequest \in BOOLEAN :
       /\ withRequest \/ LegacyCallers
       /\ AppendRow(PendingRow(withRequest))

Replaces ==
  /\ Running /\ journal[next] # <<>>
  /\ \E row \in Attempt : RowStep(Latest(next), row) /\ ReplaceRow(row)

LEMMA JournalSteps ==
  ASSUME TypeOK, [Next]_vars
  PROVE  journal' = journal \/ Appends \/ Replaces
<1>1. ASSUME Running, journal[next] # <<>>
      PROVE  /\ next \in Ordinals /\ Latest(next) \in Attempt
             /\ journal[next] \in Seq(Attempt) /\ Len(journal[next]) \in 1 .. Len(journal[next])
  BY <1>1, CurrentIsOrdinal, LatestType DEF TypeOK
<1>2. ASSUME Running, NEW withRequest \in BOOLEAN, withRequest \/ LegacyCallers,
             AppendPending(withRequest)
      PROVE  Appends
  <2>1. journal[next] # <<>> => Len(journal[next]) + 1 > 1
    BY <1>1, <1>2
  <2> QED
    BY <1>2, <2>1 DEF AppendPending, Appends, AppendRow
<1>3. ASSUME Running, NEW from \in {"pending", "in_progress"}, NEW s \in Status,
             Advance(from, s),
             \/ from = "pending" /\ s = "in_progress"
             \/ from = "in_progress" /\ s \in Terminal /\ LegacyCallers
      PROVE  Replaces
  <2> DEFINE row == [Latest(next) EXCEPT !.status = s]
  <2>1. journal[next] # <<>> /\ Latest(next).status = from
    BY <1>3 DEF Advance, LatestIs
  <2>2. row \in Attempt
    BY <1>1, <1>3, <2>1 DEF Attempt
  <2>3. ReplaceRow(row)
    BY <1>1, <1>3, <2>1 DEF Advance, ReplaceRow, Latest, TypeOK
  <2>4. RowStep(Latest(next), row)
    BY <1>3, <2>1 DEF RowStep
  <2> HIDE DEF row
  <2> QED
    BY <1>3, <2>1, <2>2, <2>3, <2>4 DEF Replaces
<1>4. CASE RecordPreparedAttempt
  <2>1. ASSUME LatestIs(next, "pending"),
               journal' = [journal EXCEPT ![next][Len(journal[next])].request = TRUE]
        PROVE  Replaces
    <3> DEFINE row == [Latest(next) EXCEPT !.request = TRUE]
    <3>1. Running /\ journal[next] # <<>> /\ Latest(next).status = "pending"
      BY <1>4, <2>1 DEF RecordPreparedAttempt, LatestIs
    <3>2. row \in Attempt
      BY <1>1, <3>1 DEF Attempt
    <3>3. ReplaceRow(row)
      BY <1>1, <2>1, <3>1 DEF ReplaceRow, Latest, TypeOK
    <3>4. RowStep(Latest(next), row)
      BY <3>1 DEF RowStep
    <3> HIDE DEF row
    <3> QED
      BY <3>1, <3>2, <3>3, <3>4 DEF Replaces
  <2> QED
    BY <1>2, <1>4, <2>1 DEF RecordPreparedAttempt
<1>5. CASE AppendPendingAttempt
  BY <1>2, <1>5 DEF AppendPendingAttempt
<1>6. CASE StartAttempt
  BY <1>3, <1>6 DEF StartAttempt, Status
<1>7. ASSUME NEW s \in Terminal, AppendTerminalAttempt(s) PROVE Replaces
  BY <1>3, <1>7 DEF AppendTerminalAttempt, Status, Terminal
<1>8. ASSUME NEW reply \in Reply, RecordInvocationEvidence(reply) PROVE Replaces
  <2> DEFINE row == [Latest(next) EXCEPT !.reply = reply]
  <2>1. /\ Running /\ journal[next] # <<>> /\ Latest(next).status = "in_progress"
        /\ Latest(next).request /\ Latest(next).reply = NoReply
    BY <1>8 DEF RecordInvocationEvidence, LatestIs
  <2>2. row \in Attempt
    BY <1>1, <1>8, <2>1 DEF Attempt
  <2>3. ReplaceRow(row)
    BY <1>1, <1>8, <2>1 DEF RecordInvocationEvidence, ReplaceRow, Latest, TypeOK
  <2>4. RowStep(Latest(next), row)
    BY <1>8, <2>1 DEF RowStep
  <2> HIDE DEF row
  <2> QED
    BY <2>1, <2>2, <2>3, <2>4 DEF Replaces
<1>9. CASE RecordFinalizedAttempt
  <2> DEFINE s == Outcome(Latest(next).reply)
             row == [Latest(next) EXCEPT !.status = s, !.parsed = TRUE]
  <2>1. /\ Running /\ journal[next] # <<>> /\ Latest(next).status = "in_progress"
        /\ Latest(next).request /\ Latest(next).reply # NoReply
    BY <1>9 DEF RecordFinalizedAttempt, LatestIs
  <2>2. ReplaceRow(row)
    BY <1>1, <1>9, <2>1 DEF RecordFinalizedAttempt, ReplaceRow, Latest, TypeOK
  <2>3. s = "failed" => chain' = Append(chain, Failure(next, Len(journal[next])))
    BY <1>9 DEF RecordFinalizedAttempt
  <2>4. RowStep(Latest(next), row)
    BY <2>1, <2>3 DEF RowStep
  <2>5. s \in Status
    BY DEF Outcome, Status
  <2> HIDE DEF s
  <2>6. row \in Attempt
    BY <1>1, <2>1, <2>5 DEF Attempt
  <2> HIDE DEF row
  <2> QED
    BY <2>1, <2>2, <2>4, <2>6 DEF Replaces
<1> QED
  BY <1>4, <1>5, <1>6, <1>7, <1>8, <1>9
     DEF Next, vars, InitializeAgent, SealInitialState, RecordTerminalFailure,
         AuthorizeResume, CommitSuccess

-----------------------------------------------------------------------------
(* Append-only *)

LEMMA RowStepGrows ==
  ASSUME NEW old \in Attempt, NEW new, RowStep(old, new)
  PROVE  RowGrows(old, new)
<1>1. CASE old.status = "pending" /\ new = [old EXCEPT !.request = TRUE]
  BY <1>1 DEF RowGrows, Attempt, Terminal
<1>2. CASE old.status = "pending" /\ new = [old EXCEPT !.status = "in_progress"]
  BY <1>2 DEF RowGrows, Attempt, Terminal
<1>3. ASSUME old.status = "in_progress", NEW s \in Terminal, new = [old EXCEPT !.status = s]
      PROVE  RowGrows(old, new)
  BY <1>3 DEF RowGrows, Attempt, Terminal
<1>4. ASSUME old.status = "in_progress", old.reply = NoReply,
             NEW reply \in Reply, new = [old EXCEPT !.reply = reply]
      PROVE  RowGrows(old, new)
  BY <1>4 DEF RowGrows, Attempt, Terminal
<1>5. ASSUME old.status = "in_progress", NEW s, new = [old EXCEPT !.status = s, !.parsed = TRUE]
      PROVE  RowGrows(old, new)
  BY <1>5 DEF RowGrows, Attempt, Terminal
<1> QED
  BY <1>1, <1>2, <1>3, <1>4, <1>5 DEF RowStep

LEMMA StepAppendsOnly ==
  ASSUME TypeOK, HaltIsCurrent, [Next]_vars
  PROVE  AppendOnly
<1>1. Grows(chain, chain')
  BY ChainGrows DEF Grows, TypeOK
<1>2. Grows(head.log, head'.log)
  <2>1. head.log \in Seq(Entry)
    BY DEF TypeOK
  <2>2. CASE head'.log = head.log
    BY <2>1, <2>2 DEF Grows
  <2>3. CASE CommitSuccess
    <3> DEFINE entry == [ordinal |-> next, attempts |-> Len(journal[next]),
                         posted |-> Publish[next]]
    <3>1. next \in Ordinals
      BY <2>3, CurrentIsOrdinal DEF CommitSuccess
    <3>2. entry \in Entry
      <4>1. Publish[next] \in BOOLEAN /\ Len(journal[next]) \in Nat
        BY <3>1, ScheduleAssumption DEF TypeOK
      <4> QED
        BY <3>1, <4>1 DEF Entry
    <3>3. head' = [head EXCEPT !.log = Append(head.log, entry)]
      BY <2>3 DEF CommitSuccess
    <3> HIDE DEF entry
    <3>4. head'.log = Append(head.log, entry)
      BY <3>3 DEF TypeOK
    <3> QED
      BY <2>1, <3>2, <3>4 DEF Grows
  <2>4. CASE SealInitialState
    BY <2>2, <2>4 DEF SealInitialState, TypeOK
  <2> QED
    BY <2>2, <2>3, <2>4, OtherRows DEF InitializeAgent, progressVars
<1>3. ASSUME NEW e \in Ordinals
      PROVE  /\ e # next => journal'[e] = journal[e]
             /\ Len(journal[e]) <= Len(journal'[e])
             /\ \A k \in DOMAIN journal[e] : RowGrows(journal[e][k], journal'[e][k])
  <2>1. journal[e] \in Seq(Attempt) /\ Len(journal[e]) \in Nat
    BY DEF TypeOK
  <2>2. CASE journal'[e] = journal[e]
    BY <2>1, <2>2 DEF RowGrows
  <2>3. CASE Appends
    <3>1. PICK row \in Attempt : Running /\ AppendRow(row)
      <4>1. \A w \in BOOLEAN : PendingRow(w) \in Attempt
        BY DEF PendingRow, Attempt, Status
      <4> QED
        BY <2>3, <4>1 DEF Appends
    <3>2. CASE e # next
      BY <2>2, <3>1, <3>2, AppendedRow
    <3>3. CASE e = next
      BY <2>1, <3>1, <3>3, AppendedRow DEF RowGrows
    <3> QED
      BY <3>2, <3>3
  <2>4. CASE Replaces
    <3>1. PICK row \in Attempt : /\ Running /\ journal[next] # <<>>
                                 /\ RowStep(Latest(next), row) /\ ReplaceRow(row)
      BY <2>4 DEF Replaces
    <3>2. CASE e # next
      BY <2>2, <3>1, <3>2, ReplacedRow
    <3>3. CASE e = next
      <4>1. Latest(next) \in Attempt
        BY <3>1, <3>3, LatestType
      <4>2. RowGrows(journal[e][Len(journal[e])], journal'[e][Len(journal[e])])
        BY <3>1, <3>3, <4>1, RowStepGrows, ReplacedRow DEF Latest
      <4>3. \A k \in DOMAIN journal[e] :
              k # Len(journal[e]) => journal'[e][k] = journal[e][k]
        BY <3>1, <3>3, ReplacedRow
      <4>4. \A k \in DOMAIN journal[e] : RowGrows(journal[e][k], journal'[e][k])
        BY <4>2, <4>3 DEF RowGrows
      <4>5. Len(journal'[e]) = Len(journal[e])
        BY <3>1, <3>3, ReplacedRow
      <4> QED
        BY <2>1, <3>3, <4>4, <4>5
    <3> QED
      BY <3>2, <3>3
  <2> QED
    BY <2>2, <2>3, <2>4, JournalSteps
<1> QED
  BY <1>1, <1>2, <1>3 DEF AppendOnly

(* No transaction rewrites or drops a terminal attempt, a recorded answer,  *)
(* a link of the causal chain or a committed event, and none touches an     *)
(* event other than the current one.                                        *)
THEOREM AppendOnlyCorrect == Spec => EvidenceIsAppendOnly
<1>1. Invariant /\ [Next]_vars => [AppendOnly]_vars
  BY StepAppendsOnly DEF Invariant, LifecycleReplays
<1> QED
  BY <1>1, InvariantCorrect, PTL DEF Spec, EvidenceIsAppendOnly

-----------------------------------------------------------------------------
(* Exact cover *)

AllFit == \A e \in Ordinals : \A k \in DOMAIN journal[e] : EvidenceFits(e, k)

(* EvidenceFits of a row, given whether its failure is in the chain.        *)
Fits(row, bound) ==
  /\ row.request
  /\ row.status = "pending" => row.reply = NoReply
  /\ row.parsed <=> row.status \in Terminal
  /\ row.status \in Terminal =>
       /\ row.reply # NoReply
       /\ row.status = Outcome(row.reply)
       /\ row.status = "failed" => bound

LEMMA RowStepFits ==
  ASSUME LegacyCallers = FALSE, NEW old \in Attempt, NEW new, NEW before, NEW after,
         RowStep(old, new), Fits(old, before),
         old.status = "in_progress" /\ old.reply # NoReply /\ Outcome(old.reply) = "failed"
           /\ chain' = Append(chain, Failure(next, Len(journal[next]))) => after
  PROVE  Fits(new, after)
<1>1. CASE old.status = "pending" /\ new = [old EXCEPT !.request = TRUE]
  BY <1>1 DEF Fits, Attempt, Terminal
<1>2. CASE old.status = "pending" /\ new = [old EXCEPT !.status = "in_progress"]
  BY <1>2 DEF Fits, Attempt, Terminal
<1>3. ASSUME old.status = "in_progress", NEW reply \in Reply, new = [old EXCEPT !.reply = reply]
      PROVE  Fits(new, after)
  BY <1>3 DEF Fits, Attempt, Terminal
<1>4. CASE /\ old.status = "in_progress" /\ old.request /\ old.reply # NoReply
           /\ new = [old EXCEPT !.status = Outcome(old.reply), !.parsed = TRUE]
           /\ Outcome(old.reply) = "failed" =>
                chain' = Append(chain, Failure(next, Len(journal[next])))
  <2>1. Outcome(old.reply) \in Terminal
    BY DEF Outcome, Terminal
  <2>2. /\ new.request = old.request /\ new.reply = old.reply
        /\ new.status = Outcome(old.reply) /\ new.parsed = TRUE
    BY <1>4 DEF Attempt
  <2>3. new.status = "failed" => after
    BY <1>4, <2>2
  <2> QED
    BY <1>4, <2>1, <2>2, <2>3 DEF Fits, Terminal
<1> QED
  BY <1>1, <1>2, <1>3, <1>4 DEF RowStep

LEMMA StaysExactCover ==
  ASSUME LegacyCallers = FALSE, TypeOK, TypeOK', HaltIsCurrent, AllFit, [Next]_vars
  PROVE  AllFit'
<1>1. SUFFICES ASSUME NEW e \in Ordinals, NEW k \in DOMAIN journal'[e]
               PROVE  Fits(journal'[e][k], Bound(e, k)')
  BY DEF AllFit, EvidenceFits, Fits
<1>2. chain \in Seq(Link)
  BY DEF TypeOK
<1>3. Bound(e, k) => Bound(e, k)'
  <2>1. ASSUME NEW i \in DOMAIN chain, chain[i] = Failure(e, k) PROVE Bound(e, k)'
    <3>1. i \in DOMAIN chain' /\ chain'[i] = Failure(e, k)
      BY <1>2, <2>1, ChainGrows DEF TypeOK
    <3> QED
      BY <3>1 DEF Bound
  <2> QED
    BY <2>1 DEF Bound
<1>4. k \in DOMAIN journal[e] => Fits(journal[e][k], Bound(e, k))
  BY DEF AllFit, EvidenceFits, Fits
<1>5. CASE journal'[e] = journal[e]
  BY <1>3, <1>4, <1>5 DEF Fits
<1>6. CASE Appends
  <2>1. PendingRow(TRUE) \in Attempt /\ Fits(PendingRow(TRUE), Bound(e, k)')
    BY DEF PendingRow, Attempt, Status, Fits, Terminal
  <2>2. Running /\ AppendRow(PendingRow(TRUE))
    BY <1>6 DEF Appends
  <2>3. CASE e = next
    <3>1. journal[next] \in Seq(Attempt)
      BY <2>3 DEF TypeOK
    <3>2. k = Len(journal[next]) + 1 \/ k \in DOMAIN journal[next]
      <4>1. DOMAIN journal'[next] = 1 .. Len(journal[next]) + 1
        BY <2>1, <2>2, AppendedRow
      <4> QED
        BY <2>3, <3>1, <4>1
    <3>3. k \in DOMAIN journal[next] => journal'[next][k] = journal[next][k]
      BY <2>1, <2>2, AppendedRow
    <3>4. journal'[next][Len(journal[next]) + 1] = PendingRow(TRUE)
      BY <2>1, <2>2, AppendedRow
    <3>5. CASE k = Len(journal[next]) + 1
      BY <2>1, <2>3, <3>4, <3>5
    <3>6. CASE k \in DOMAIN journal[next]
      BY <1>3, <1>4, <2>3, <3>3, <3>6 DEF Fits
    <3> QED
      BY <3>2, <3>5, <3>6
  <2>4. CASE e # next
    BY <1>5, <2>1, <2>2, <2>4, AppendedRow
  <2> QED
    BY <2>3, <2>4
<1>7. CASE Replaces
  <2>1. PICK row \in Attempt : /\ Running /\ journal[next] # <<>>
                               /\ RowStep(Latest(next), row) /\ ReplaceRow(row)
    BY <1>7 DEF Replaces
  <2>2. CASE e # next
    BY <1>5, <2>1, <2>2, ReplacedRow
  <2>3. CASE e = next
    <3>1. Latest(next) \in Attempt /\ k \in DOMAIN journal[next]
      BY <2>1, <2>3, LatestType, ReplacedRow
    <3>2. CASE k # Len(journal[next])
      <4>1. journal'[e][k] = journal[e][k]
        BY <2>1, <2>3, <3>1, <3>2, ReplacedRow
      <4> QED
        BY <1>3, <1>4, <2>3, <3>1, <4>1 DEF Fits
    <3>3. CASE k = Len(journal[next])
      <4>1. journal'[e][k] = row /\ journal[e][k] = Latest(next)
        BY <2>1, <2>3, <3>3, ReplacedRow DEF Latest
      <4>2. chain' = Append(chain, Failure(next, Len(journal[next]))) => Bound(e, k)'
        <5>1. ASSUME chain' = Append(chain, Failure(next, Len(journal[next])))
              PROVE  Len(chain) + 1 \in DOMAIN chain'
                     /\ chain'[Len(chain) + 1] = Failure(next, Len(journal[next]))
          BY <1>2, <5>1
        <5> QED
          BY <2>3, <3>3, <5>1 DEF Bound
      <4>3. Fits(Latest(next), Bound(e, k))
        BY <1>4, <2>3, <3>1, <4>1
      <4> QED
        BY <2>1, <3>1, <4>1, <4>2, <4>3, RowStepFits
    <3> QED
      BY <3>2, <3>3
  <2> QED
    BY <2>2, <2>3
<1> QED
  BY <1>5, <1>6, <1>7, JournalSteps

(* A run written through the v6 entry points alone passes every check of    *)
(* verify_integrity in every state: each attempt has its request, each      *)
(* terminal attempt its answer and its parse, each failed one its failure.  *)
THEOREM VerifyIntegrityCorrect ==
  ASSUME LegacyCallers = FALSE
  PROVE  Spec => []VerifyIntegrity
<1>1. Init => AllFit
  BY DEF Init, AllFit
<1>2. Invariant /\ Invariant' /\ AllFit /\ [Next]_vars => AllFit'
  BY StaysExactCover DEF Invariant, LifecycleReplays
<1>3. Invariant /\ AllFit => VerifyIntegrity
  BY DEF Invariant, AllFit, VerifyIntegrity, EvidenceIsExactCover
<1> QED
  BY <1>1, <1>2, <1>3, InvariantCorrect, PTL DEF Spec

-----------------------------------------------------------------------------
(* The causal chain and the phase of the current event *)

(* Once the latest failure of the current event is authorized, the run is   *)
(* not halted: the failures of one event name later and later attempts, so  *)
(* none can follow the authorization of the latest one.                     *)
LEMMA FreedIsNotHalted ==
  ASSUME TypeOK, ChainIsLinked, FailuresAreBound, HaltIsCurrent, Running,
         journal[next] # <<>>, Freed(next, Len(journal[next]))
  PROVE  ~Halted
<1> DEFINE k == Len(journal[next])
           last == Len(chain)
<1>1. SUFFICES ASSUME Halted PROVE FALSE
  OBVIOUS
<1>2. next \in Ordinals /\ k \in Nat \ {0} /\ chain \in Seq(Link)
  BY CurrentIsOrdinal DEF TypeOK
<1>3. PICK i \in DOMAIN chain : chain[i] = Authorization(next, k)
  BY DEF Freed
<1>4. chain[last].kind = "failure" /\ chain[last].ordinal = next /\ last \in DOMAIN chain
  BY <1>1, <1>2 DEF Halted, LastLink, HaltIsCurrent
<1>5. chain[i].kind = "authorization" /\ chain[i].ordinal = next /\ chain[i].index = k
  BY <1>3 DEF Authorization
<1>6. i # 1 /\ i # last
  BY <1>4, <1>5 DEF ChainIsLinked
<1>7. i - 1 \in 1 .. last - 1 /\ i - 1 \in DOMAIN chain /\ chain[i] = chain[i - 1 + 1]
  BY <1>2, <1>6
<1>8. chain[i - 1].kind = "failure"
  <2>1. chain[i - 1] \in Link
    BY <1>2, <1>7
  <2>2. chain[i - 1].kind = "authorization" => chain[i].kind = "failure"
    BY <1>7 DEF ChainIsLinked
  <2> QED
    BY <1>5, <2>1, <2>2 DEF Link
<1>9. chain[i - 1].ordinal = next /\ chain[i - 1].index = k
  <2>1. chain[i] = Authorization(chain[i - 1].ordinal, chain[i - 1].index)
    BY <1>7, <1>8 DEF ChainIsLinked
  <2> QED
    BY <1>5, <2>1 DEF Authorization
<1>10. chain[last].index \in DOMAIN journal[next] /\ chain[i - 1].index < chain[last].index
  BY <1>4, <1>7, <1>8, <1>9 DEF FailuresAreBound
<1> QED
  BY <1>2, <1>9, <1>10 DEF TypeOK

(* An authorization stands behind the failure it authorizes.                *)
LEMMA FreedIsBound ==
  ASSUME TypeOK, ChainIsLinked, NEW e, NEW k, Freed(e, k)
  PROVE  Bound(e, k)
<1>1. chain \in Seq(Link)
  BY DEF TypeOK
<1>2. PICK i \in DOMAIN chain : chain[i] = Authorization(e, k)
  BY DEF Freed
<1>3. chain[i].kind = "authorization" /\ chain[i].ordinal = e /\ chain[i].index = k
  BY <1>2 DEF Authorization
<1>4. i # 1
  BY <1>3 DEF ChainIsLinked
<1>5. i - 1 \in 1 .. Len(chain) - 1 /\ i - 1 \in DOMAIN chain /\ chain[i - 1 + 1] = chain[i]
  BY <1>1, <1>4
<1>6. chain[i - 1] \in Link
  BY <1>1, <1>5
<1>7. chain[i - 1].kind = "failure"
  <2>1. chain[i - 1].kind = "authorization" => chain[i].kind = "failure"
    BY <1>5 DEF ChainIsLinked
  <2> QED
    BY <1>3, <1>6, <2>1 DEF Link
<1>8. chain[i - 1].ordinal = e /\ chain[i - 1].index = k
  <2>1. chain[i] = Authorization(chain[i - 1].ordinal, chain[i - 1].index)
    BY <1>5, <1>7 DEF ChainIsLinked
  <2> QED
    BY <1>3, <2>1 DEF Authorization
<1>9. chain[i - 1] = Failure(e, k)
  BY <1>6, <1>7, <1>8, FailureLink
<1> QED
  BY <1>5, <1>9 DEF Bound

(* An attempt that has not failed is in no failure, hence in no             *)
(* authorization.                                                           *)
LEMMA OpenIsNotFreed ==
  ASSUME TypeOK, ChainIsLinked, FailuresAreBound, Running, journal[next] # <<>>,
         Latest(next).status # "failed"
  PROVE  ~Freed(next, Len(journal[next]))
<1>1. SUFFICES ASSUME Bound(next, Len(journal[next])) PROVE FALSE
  BY FreedIsBound
<1>2. PICK i \in DOMAIN chain : chain[i] = Failure(next, Len(journal[next]))
  BY <1>1 DEF Bound
<1>3. /\ chain[i].kind = "failure" /\ chain[i].ordinal = next
      /\ chain[i].index = Len(journal[next])
  BY <1>2 DEF Failure
<1> QED
  BY <1>3 DEF FailuresAreBound, Latest

(* The failure a run is halted on is that of the latest attempt.            *)
LEMMA HaltIsLatest ==
  ASSUME TypeOK, ChainIsLinked, FailuresAreBound, HaltIsCurrent, RetriesAreAuthorized, Halted
  PROVE  /\ Running /\ LatestIs(next, "failed")
         /\ LastLink.ordinal = next /\ LastLink.index = Len(journal[next])
<1> DEFINE m == LastLink.index
           last == Len(chain)
<1>1. Running /\ LatestIs(next, "failed") /\ LastLink.ordinal = next
  BY DEF HaltIsCurrent
<1>2. next \in Ordinals /\ journal[next] \in Seq(Attempt) /\ chain \in Seq(Link)
  BY <1>1, CurrentIsOrdinal DEF TypeOK
<1>3. last \in DOMAIN chain /\ chain[last] = LastLink /\ chain[last].kind = "failure"
  BY <1>2 DEF Halted, LastLink
<1>4. /\ m \in DOMAIN journal[next]
      /\ \A j \in 1 .. last - 1 :
           chain[j].kind = "failure" /\ chain[j].ordinal = next => chain[j].index < m
  BY <1>1, <1>3 DEF FailuresAreBound
<1>5. ASSUME m < Len(journal[next]) PROVE FALSE
  <2>1. m + 1 \in DOMAIN journal[next] /\ m + 1 > 1 /\ (m + 1) - 1 = m
    BY <1>2, <1>4, <1>5
  <2>2. PICK i \in 1 .. Len(chain) - 1 : chain[i] = Failure(next, m)
    <3> HIDE DEF m
    <3>1. \E i \in 1 .. Len(chain) - 1 : chain[i] = Failure(next, (m + 1) - 1)
      BY <1>2, <2>1 DEF RetriesAreAuthorized
    <3> QED
      BY <2>1, <3>1
  <2>3. chain[i].kind = "failure" /\ chain[i].ordinal = next /\ chain[i].index = m
    BY <2>2 DEF Failure
  <2>4. m < m
    BY <1>4, <2>2, <2>3
  <2> QED
    BY <1>2, <1>4, <2>4
<1> QED
  BY <1>1, <1>2, <1>4, <1>5

-----------------------------------------------------------------------------
(* The store implements SerialRun *)

(* What SerialRun's variables are mapped to, besides Phase.                 *)
SerialLog    == [i \in DOMAIN head.log |-> head.log[i].attempts]
SerialTries  == IF Running THEN Len(journal[next]) ELSE 0
SerialPublic == [a \in Agents |-> IF pointer[a] = Absent THEN Round0 ELSE pointer[a]]

LEMMA SerialLogType ==
  ASSUME TypeOK, HeadReplays
  PROVE  SerialLog \in Seq(Nat) /\ Len(SerialLog) = next /\ DOMAIN SerialLog = 1 .. next
<1>1. head.log \in Seq(Entry) /\ Len(head.log) = next /\ DOMAIN head.log = 1 .. next
  BY DEF TypeOK, HeadReplays
<1>2. \A i \in DOMAIN head.log : head.log[i].attempts \in Nat
  <2>1. \A i \in DOMAIN head.log : head.log[i] \in Entry
    BY <1>1
  <2> QED
    BY <2>1 DEF Entry
<1>3. next \in Nat
  BY DEF TypeOK
<1> QED
  BY <1>1, <1>2, <1>3 DEF SerialLog

(* Only a commit changes the log and the public posts.                      *)
LEMMA SerialRowsStay ==
  ASSUME TypeOK, RosterIsCovered, [Next]_vars, ~CommitSuccess
  PROVE  SerialLog' = SerialLog /\ SerialPublic' = SerialPublic /\ next' = next
<1>1. CASE UNCHANGED <<sealed, agentVars, progressVars>>
  BY <1>1 DEF SerialLog, SerialPublic, agentVars, progressVars
<1>2. ASSUME NEW a \in Agents, InitializeAgent(a)
      PROVE  SerialLog' = SerialLog /\ SerialPublic' = SerialPublic /\ next' = next
  <2>1. head' = head /\ next' = next
    BY <1>2 DEF InitializeAgent, progressVars
  <2>2. pointer' = [pointer EXCEPT ![a] = Round0] /\ DOMAIN pointer = Agents
    BY <1>2 DEF InitializeAgent, TypeOK
  <2>3. pointer[a] = Absent
    BY <1>2 DEF InitializeAgent, RosterIsCovered, Rows
  <2>4. Round0 # Absent
    BY DEF Round0, Absent
  <2>5. \A b \in Agents : (IF pointer'[b] = Absent THEN Round0 ELSE pointer'[b])
                         = (IF pointer[b] = Absent THEN Round0 ELSE pointer[b])
    BY <2>2, <2>3, <2>4
  <2> QED
    BY <2>1, <2>5 DEF SerialLog, SerialPublic
<1>3. CASE SealInitialState
  BY <1>3 DEF SealInitialState, SerialLog, SerialPublic, agentVars, TypeOK
<1> QED
  BY <1>1, <1>2, <1>3, OtherRows

SerialStutter == UNCHANGED <<SerialLog, Phase, SerialTries, SerialPublic>>

(* A transition that keeps the attempt open, or decides it.                 *)
LEMMA SerialRowStep ==
  ASSUME Invariant, [Next]_vars, UNCHANGED <<SerialLog, SerialPublic, next>>,
         Running, LatestOpen, NEW row \in Attempt, ReplaceRow(row),
         \/ chain' = chain
         \/ chain' = Append(chain, Failure(next, Len(journal[next])))
  PROVE  \/ SerialStutter
         \/ Serial!Succeed
         \/ Serial!Fail
<1> USE DEF Invariant, LifecycleReplays
<1>1. next \in Ordinals /\ journal[next] # <<>> /\ Phase = "running"
  BY CurrentIsOrdinal DEF LatestOpen, Phase
<1>2. /\ journal'[next] # <<>> /\ Len(journal'[next]) = Len(journal[next])
      /\ Latest(next)' = row
  BY <1>1, ReplacedRow DEF Latest
<1>3. Running' /\ SerialTries' = SerialTries
  BY <1>2 DEF Running, SerialTries
<1>4. row.status \in Status
  BY DEF Attempt
<1>5. ~Freed(next, Len(journal[next]))'
  <2>1. ~Freed(next, Len(journal[next]))
    BY <1>1, OpenIsNotFreed DEF LatestOpen
  <2>2. chain \in Seq(Link)
    BY DEF TypeOK
  <2>3. CASE chain' = chain
    BY <1>2, <2>1, <2>3 DEF Freed
  <2>4. CASE chain' = Append(chain, Failure(next, Len(journal[next])))
    <3>1. \A i \in DOMAIN chain' :
            \/ i \in DOMAIN chain /\ chain'[i] = chain[i]
            \/ chain'[i] = Failure(next, Len(journal[next]))
      BY <2>2, <2>4
    <3>2. Failure(next, Len(journal[next])) # Authorization(next, Len(journal[next]))
      BY DEF Failure, Authorization
    <3> QED
      BY <1>2, <2>1, <3>1, <3>2 DEF Freed
  <2> QED
    BY <2>3, <2>4
<1>6. CASE row.status \in {"pending", "in_progress"}
  <2>1. Phase' = "running"
    BY <1>2, <1>3, <1>6 DEF Phase
  <2> QED
    BY <1>1, <1>3, <2>1 DEF SerialStutter
<1>7. CASE row.status = "succeeded"
  <2>1. Phase' = "decided"
    BY <1>2, <1>3, <1>7 DEF Phase
  <2> QED
    BY <1>1, <1>3, <2>1 DEF Serial!Succeed, SerialLog, SerialTries, SerialPublic
<1>8. CASE row.status = "failed"
  <2>1. Phase' = "halted"
    BY <1>2, <1>3, <1>5, <1>8 DEF Phase
  <2> QED
    BY <1>1, <1>3, <2>1 DEF Serial!Fail, SerialLog, SerialTries, SerialPublic
<1> QED
  BY <1>4, <1>6, <1>7, <1>8 DEF Status

(* A first attempt, or a retry behind its authorization.                    *)
LEMMA SerialFreshAttempt ==
  ASSUME Invariant, UNCHANGED <<SerialLog, SerialPublic>>,
         NEW row \in Attempt, FreshAttempt(row)
  PROVE  Serial!Try
<1> USE DEF Invariant, LifecycleReplays
<1>1. /\ Running /\ AppendRow(row) /\ next' = next /\ chain' = chain
      /\ row.status = "pending" /\ next \in Ordinals
  BY CurrentIsOrdinal DEF FreshAttempt
<1>2. /\ journal'[next] # <<>> /\ Len(journal'[next]) = Len(journal[next]) + 1
      /\ journal'[next][Len(journal[next]) + 1] = row
  BY <1>1, AppendedRow
<1>3. Phase \in {"idle", "authorized"}
  <2>1. CASE journal[next] = <<>>
    BY <2>1 DEF Phase
  <2>2. CASE journal[next] # <<>>
    <3>1. LatestIs(next, "failed") /\ RetryAuthorized(next, Len(journal[next]) + 1)
      BY <2>2 DEF FreshAttempt
    <3>2. Len(chain) \in DOMAIN chain /\ Len(journal[next]) + 1 - 1 = Len(journal[next])
      BY <1>1, <3>1 DEF RetryAuthorized, TypeOK
    <3>3. Freed(next, Len(journal[next]))
      BY <3>1, <3>2 DEF RetryAuthorized, Freed, LastLink
    <3> QED
      BY <1>1, <2>2, <3>1, <3>3 DEF Phase, LatestIs
  <2> QED
    BY <2>1, <2>2
<1>4. Phase' = "running"
  BY <1>1, <1>2 DEF Phase, Running, Latest
<1>5. SerialTries' = SerialTries + 1
  BY <1>1, <1>2 DEF SerialTries, Running
<1>6. Len(SerialLog) < EventCount
  BY <1>1, SerialLogType DEF Running
<1> QED
  BY <1>3, <1>4, <1>5, <1>6 DEF Serial!Try, Serial!Event, SerialLog, SerialTries, SerialPublic

LEMMA SerialAuthorization ==
  ASSUME Invariant, UNCHANGED <<SerialLog, SerialPublic>>, AuthorizeResume
  PROVE  Serial!Authorize
<1> USE DEF Invariant, LifecycleReplays
<1>1. /\ Halted /\ UNCHANGED <<next, journal>>
      /\ chain' = Append(chain, Authorization(LastLink.ordinal, LastLink.index))
  BY DEF AuthorizeResume, progressVars
<1>2. /\ Running /\ journal[next] # <<>> /\ Latest(next).status = "failed"
      /\ LastLink.ordinal = next /\ LastLink.index = Len(journal[next])
  BY <1>1, HaltIsLatest DEF LatestIs
<1>3. Phase = "halted"
  BY <1>1, <1>2, FreedIsNotHalted DEF Phase
<1>4. Freed(next, Len(journal[next]))'
  <2>1. chain \in Seq(Link)
    BY DEF TypeOK
  <2>2. /\ Len(chain) + 1 \in DOMAIN chain'
        /\ chain'[Len(chain) + 1] = Authorization(next, Len(journal[next]))
    BY <1>1, <1>2, <2>1
  <2> QED
    BY <1>1, <2>2 DEF Freed
<1>5. Phase' = "authorized" /\ SerialTries' = SerialTries
  BY <1>1, <1>2, <1>4 DEF Phase, Running, Latest, SerialTries
<1> QED
  BY <1>3, <1>5 DEF Serial!Authorize, SerialLog, SerialTries, SerialPublic

LEMMA SerialLateFailure ==
  ASSUME Invariant, UNCHANGED <<SerialLog, SerialPublic>>, RecordTerminalFailure
  PROVE  SerialStutter
<1>1. /\ UNCHANGED <<next, journal>>
      /\ chain' = Append(chain, Failure(next, Len(journal[next])))
  BY DEF RecordTerminalFailure, progressVars
<1>2. Freed(next, Len(journal[next]))' <=> Freed(next, Len(journal[next]))
  <2>1. chain \in Seq(Link)
    BY DEF Invariant, TypeOK
  <2>2. Failure(next, Len(journal[next])) # Authorization(next, Len(journal[next]))
    BY DEF Failure, Authorization
  <2>3. \A i \in DOMAIN chain : i \in DOMAIN chain' /\ chain'[i] = chain[i]
    BY <1>1, <2>1
  <2>4. \A i \in DOMAIN chain' :
          \/ i \in DOMAIN chain
          \/ chain'[i] = Failure(next, Len(journal[next]))
    BY <1>1, <2>1
  <2> QED
    BY <1>1, <2>2, <2>3, <2>4 DEF Freed
<1> QED
  BY <1>1, <1>2 DEF SerialStutter, Phase, SerialTries, Running, Latest

LEMMA SerialCommit ==
  ASSUME Invariant, Invariant', CommitSuccess
  PROVE  Serial!Commit
<1> USE DEF Invariant, LifecycleReplays
<1>1. /\ Running /\ next \in Ordinals /\ next' = next + 1 /\ journal' = journal
      /\ journal[next] # <<>> /\ Latest(next).status = "succeeded"
      /\ pointer[Agent[next]] # Absent /\ PublishPost(Agent[next])
  BY CurrentIsOrdinal DEF CommitSuccess, LatestIs
<1>2. Len(SerialLog) = next /\ SerialTries = Len(journal[next]) /\ Phase = "decided"
  BY <1>1, SerialLogType DEF SerialTries, Phase
<1>3. Phase' = "idle" /\ SerialTries' = 0
  <2>1. CASE ~Running'
    BY <2>1 DEF Phase, SerialTries
  <2>2. CASE Running'
    <3>1. journal'[next'] = <<>>
      <4>1. next' \in Ordinals /\ next' > next
        BY <1>1, <2>2, ScheduleAssumption DEF Running, Ordinals
      <4>2. \A e \in Ordinals : e > next => journal[e] = <<>>
        BY DEF AttemptsAreCovered
      <4> QED
        BY <1>1, <4>1, <4>2
    <3> QED
      BY <2>2, <3>1 DEF Phase, SerialTries
  <2> QED
    BY <2>1, <2>2
<1>4. SerialLog' = Append(SerialLog, SerialTries)
  <2> DEFINE entry == [ordinal |-> next, attempts |-> Len(journal[next]),
                       posted |-> Publish[next]]
  <2>1. head' = [head EXCEPT !.log = Append(head.log, entry)]
    BY DEF CommitSuccess
  <2>2. head.log \in Seq(Entry) /\ Len(head.log) = next /\ next \in Nat
    BY DEF TypeOK, HeadReplays
  <2>3. entry \in Entry /\ entry.attempts = Len(journal[next])
    <3>1. Publish[next] \in BOOLEAN /\ Len(journal[next]) \in Nat
      BY <1>1, ScheduleAssumption DEF TypeOK
    <3> QED
      BY <1>1, <3>1 DEF Entry
  <2> HIDE DEF entry
  <2>4. head'.log = Append(head.log, entry)
    BY <2>1 DEF TypeOK
  <2>5. /\ DOMAIN head'.log = 1 .. next + 1
        /\ head'.log[next + 1] = entry
        /\ \A i \in 1 .. next : head'.log[i] = head.log[i]
    BY <2>2, <2>3, <2>4
  <2>6. /\ SerialLog \in Seq(Nat) /\ SerialTries \in Nat
        /\ SerialLog' \in Seq(Nat) /\ Len(SerialLog') = next + 1
    <3>1. SerialTries \in Nat
      BY <1>1, <1>2 DEF TypeOK
    <3>2. SerialLog' \in Seq(Nat) /\ Len(SerialLog') = next'
      <4>1. head'.log \in Seq(Entry) /\ DOMAIN head'.log = 1 .. next' /\ next' \in Nat
        BY <1>1, <2>2, <2>5 DEF TypeOK
      <4>2. \A i \in DOMAIN head'.log : head'.log[i].attempts \in Nat
        <5>1. \A i \in DOMAIN head'.log : head'.log[i] \in Entry
          BY <4>1
        <5> QED
          BY <5>1 DEF Entry
      <4> QED
        BY <4>1, <4>2 DEF SerialLog
    <3> QED
      BY <1>1, <3>1, <3>2, SerialLogType
  <2>7. /\ SerialLog'[next + 1] = SerialTries
        /\ \A i \in 1 .. next : SerialLog'[i] = SerialLog[i]
    BY <1>2, <2>2, <2>3, <2>5 DEF SerialLog
  <2> QED
    BY <1>2, <2>2, <2>6, <2>7
<1>5. SerialPublic' = IF Publish[next] THEN [SerialPublic EXCEPT ![Agent[next]] = next]
                                       ELSE SerialPublic
  <2>1. CASE Publish[next]
    <3>1. pointer' = [pointer EXCEPT ![Agent[next]] = next]
      BY <1>1, <2>1 DEF PublishPost
    <3>2. next # Absent
      BY <1>1 DEF Absent, Ordinals
    <3>3. DOMAIN pointer = Agents
      BY DEF TypeOK
    <3> QED
      BY <2>1, <3>1, <3>2, <3>3 DEF SerialPublic
  <2>2. CASE ~Publish[next]
    BY <1>1, <2>2 DEF PublishPost, SerialPublic
  <2> QED
    BY <2>1, <2>2
<1> QED
  BY <1>2, <1>3, <1>4, <1>5
     DEF Serial!Commit, Serial!Event, SerialLog, SerialTries, SerialPublic

LEMMA SerialStep == Invariant /\ Invariant' /\ [Next]_vars => [Serial!Next]_(Serial!vars)
<1> SUFFICES ASSUME Invariant, Invariant', [Next]_vars
             PROVE  Serial!Next \/ SerialStutter
  BY DEF Serial!vars, SerialStutter, SerialLog, SerialTries, SerialPublic
<1>1. CASE CommitSuccess
  BY <1>1, SerialCommit DEF Serial!Next
<1>2. CASE ~CommitSuccess
  <2>0. TypeOK /\ RosterIsCovered
    BY DEF Invariant, LifecycleReplays
  <2>1. UNCHANGED <<SerialLog, SerialPublic, next>>
    BY <1>2, <2>0, SerialRowsStay
  <2>2. CASE Bystander
    BY <2>1, <2>2
       DEF Bystander, SerialStutter, Phase, SerialTries, Running, Latest, Freed
  <2>3. ASSUME NEW row \in Attempt, FreshAttempt(row) PROVE Serial!Next
    BY <2>1, <2>3, SerialFreshAttempt DEF Serial!Next
  <2>4. ASSUME NEW row \in Attempt, MoreEvidence(row) \/ Transition(row) \/ FailureOf(row)
        PROVE  Serial!Next \/ SerialStutter
    BY <2>1, <2>4, SerialRowStep DEF MoreEvidence, Transition, FailureOf, Serial!Next
  <2>5. CASE RecordTerminalFailure
    BY <2>1, <2>5, SerialLateFailure
  <2>6. CASE AuthorizeResume
    BY <2>1, <2>6, SerialAuthorization DEF Serial!Next
  <2> QED
    BY <1>2, <2>0, <2>2, <2>3, <2>4, <2>5, <2>6, StepShapes
<1> QED
  BY <1>1, <1>2

LEMMA SerialStart == Init => Serial!Init
<1> SUFFICES ASSUME Init PROVE Serial!Init
  OBVIOUS
<1>1. SerialLog = <<>>
  BY DEF Init, SerialLog
<1>2. Running /\ journal[next] = <<>> /\ 0 \in Ordinals
  BY ScheduleAssumption DEF Init, Running, Ordinals
<1>3. Phase = "idle" /\ SerialTries = 0
  BY <1>2 DEF Phase, SerialTries
<1>4. SerialPublic = [a \in Agents |-> -1]
  BY DEF Init, SerialPublic, Round0, Absent
<1> QED
  BY <1>1, <1>3, <1>4 DEF Serial!Init, SerialLog, SerialTries, SerialPublic

(* Whatever the writers do, with or without the v6 evidence, the run reads  *)
(* as one serial history: events are decided in schedule order, a failed    *)
(* attempt stops everything until it is authorized, and only a successful   *)
(* attempt enters the log and moves its agent's public post.                *)
THEOREM StoreRefinesSerialRun == Spec => ImplementsSerialRun
BY SerialStart, SerialStep, InvariantCorrect, PTL
   DEF Spec, ImplementsSerialRun, Serial!Spec
=============================================================================
