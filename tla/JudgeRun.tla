------------------------------ MODULE JudgeRun ------------------------------
(***************************************************************************)
(* Judge runs (calibration/judge_runner.py): processes that run or resume  *)
(* a run, and a tool with which the operator adds evidence, on one         *)
(* archive, at the same time.  Nothing but the archive's lock and the      *)
(* replay of its log keeps them apart.                                     *)
(***************************************************************************)
EXTENDS JudgeStore, Functions

CONSTANTS
  MaxFaults,   \* bounds deaths and failures of a write
  MaxIntents   \* bounds the attempts that are begun

VARIABLES
  pc,       \* what a process does next: "idle", a step of the runner, or "tool"
  job,      \* the attempt of a runner: item, attempt, and the answer to it
  sent,     \* history: the requests sent
  faults

runVars == <<storeVars, pc, job, sent, faults>>

NoJob == [item |-> 0, attempt |-> 0, value |-> "none"]

(* run_judge has created the archive and goes on in the first process.        *)
Init ==
  /\ StoreInit
  /\ \E first \in Process :
       pc = [p \in Process |-> IF p = first THEN "preflight" ELSE "idle"]
  /\ known = [p \in Process |-> IF pc[p] = "idle" THEN {} ELSE {0}]
  /\ job = [p \in Process |-> NoJob]
  /\ sent = <<>>
  /\ faults = 0

Leave(p) ==
  /\ pc' = [pc EXCEPT ![p] = "idle"]
  /\ job' = [job EXCEPT ![p] = NoJob]
  /\ known' = [known EXCEPT ![p] = {}]

-----------------------------------------------------------------------------
(* resume_judge, _execute_judge_items *)

Resume(p) ==
  /\ pc[p] = "idle"
  /\ OpenStore(p)
  /\ pc' = [pc EXCEPT ![p] = "loop"]
  /\ UNCHANGED <<job, sent, faults>>

(* Mutant: the loop goes on whatever became of the last item.                 *)
NextJobAnyway(projection) ==
  LET items == projection.items
      n == Len(items)
      Next(i, k) == [item |-> i, attempt |-> k, value |-> "none"]
  IN IF n > 0 /\ items[n].status = "pending_retry"
     THEN Next(n, items[n].count + 1)
     ELSE IF n < ItemCount THEN Next(n + 1, 1) ELSE NoJob

(* next_judge_action of the last item that was begun, and what the loop makes *)
(* of it: the attempt to make next, or NoJob.                                 *)
NextJob(projection) ==
  LET items == projection.items
      n == Len(items)
      Next(i, k) == [item |-> i, attempt |-> k, value |-> "none"]
  IN IF n > 0 /\ items[n].status = "pending_retry"
     THEN IF items[n].count < MaxAttempts /\ items[n].error \in Retryable
          THEN Next(n, items[n].count + 1) ELSE NoJob
     ELSE IF n < ItemCount /\ (n = 0 \/ items[n].status = "coded")
     THEN Next(n + 1, 1)
     ELSE NoJob

(* reconstruct_judge_projection, without the lock.                            *)
Reconstructs == ~litter /\ Readable(archive) /\ Unresolved(Replay(LogOf(archive))) = {}

Plan(p) ==
  /\ pc[p] = "loop"
  /\ Reconstructs
  /\ LET next == NextJob(Replay(LogOf(archive))) IN
       /\ next # NoJob
       /\ Cardinality({r \in archive.evidence : r.kind = "intent"}) < MaxIntents
       /\ job' = [job EXCEPT ![p] = next]
  /\ pc' = [pc EXCEPT ![p] = "intent"]
  /\ UNCHANGED <<storeVars, sent, faults>>

(* The run is over, stop_after_attempts is reached, or reading raises.        *)
Stop(p) ==
  /\ pc[p] = "loop"
  /\ Leave(p)
  /\ UNCHANGED <<archive, terminal, writing, litter, rootLitter, sent, faults>>

NextStep ==
  [preflight |-> "start", start |-> "loop", intent |-> "send",
   response |-> "attempt", attempt |-> "resolution", resolution |-> "loop"]

RunnerRecord(p) ==
  LET j == job[p] IN
  IF pc[p] = "resolution"
  THEN RecordOf("resolution", j.item, j.attempt, OutcomeOf(j.value, j.attempt))
  ELSE RecordOf(pc[p], j.item, j.attempt, j.value)

AppendNext(p) ==
  /\ pc[p] \in DOMAIN NextStep
  /\ Prepare(p, RunnerRecord(p))
  /\ UNCHANGED <<pc, job, sent, faults>>

(* Mutant: a record that is there already is as good as one that was appended. *)
AppendRefusedGoesOn(p) ==
  /\ pc[p] \in DOMAIN NextStep
  /\ RefuseAppend(p, RunnerRecord(p))
  /\ pc' = [pc EXCEPT ![p] = NextStep[@]]
  /\ UNCHANGED <<known, job, sent, faults>>

AppendRefused(p) ==
  /\ pc[p] \in DOMAIN NextStep
  /\ RefuseAppend(p, RunnerRecord(p))
  /\ Leave(p)
  /\ UNCHANGED <<sent, faults>>

Publish ==
  /\ PublishRecord \/ PublishJournal \/ PublishProjection
  /\ UNCHANGED <<pc, job, sent, faults>>

Commit(p) ==
  /\ CommitAppend(p)
  /\ pc' = IF pc[p] = "tool" THEN pc ELSE [pc EXCEPT ![p] = NextStep[@]]
  /\ UNCHANGED <<job, sent, faults>>

Send(p) ==
  /\ pc[p] = "send"
  /\ sent' = Append(sent, <<job[p].item, job[p].attempt>>)
  /\ pc' = [pc EXCEPT ![p] = "wait"]
  /\ UNCHANGED <<storeVars, job, faults>>

Receive(p) ==
  /\ pc[p] = "wait"
  /\ \E result \in Result : job' = [job EXCEPT ![p].value = result]
  /\ pc' = [pc EXCEPT ![p] = "response"]
  /\ UNCHANGED <<storeVars, sent, faults>>

-----------------------------------------------------------------------------
(* The operator *)

OpenTool(p) ==
  /\ pc[p] = "idle"
  /\ OpenStore(p)
  /\ pc' = [pc EXCEPT ![p] = "tool"]
  /\ UNCHANGED <<job, sent, faults>>

(* Evidence of the attempt that waits for some, or what the run lacks, as far *)
(* as the replay accepts it: the tool is refused anything else.               *)
ToolRecords(projection) ==
  LET Start == {RecordOf("preflight", 0, 0, "none"), RecordOf("start", 0, 0, "none")}
      Evidence(i) ==
        LET Of(kind, value) == RecordOf(kind, i, projection.items[i].count, value) IN
        {Of(kind, "none") : kind \in {"negative", "marker", "ambiguous"}} \union
        {Of(kind, result) : kind \in {"audit", "recovered", "response", "attempt"}, result \in Result} \union
        {Of("resolution", outcome) : outcome \in Outcome}
  IN {r \in Start \union UNION {Evidence(i) : i \in Unresolved(projection)} : Accepts(projection, r)}

(* reconcile_from_provider_log and the other append_* of the store.           *)
AppendEvidence(p) ==
  /\ pc[p] = "tool" /\ writing = None /\ Recovers(archive)
  /\ \E r \in ToolRecords(Replay(LogOf(Recover(archive)))) : Prepare(p, r)
  /\ UNCHANGED <<pc, job, sent, faults>>

StartTerminal(p) ==
  /\ pc[p] = "tool"
  /\ BeginTerminal(p)
  /\ UNCHANGED <<pc, job, sent, faults>>

FinishTerminal(p) ==
  /\ PublishTerminal(p)
  /\ UNCHANGED <<pc, job, sent, faults>>

CloseTool(p) ==
  /\ pc[p] = "tool" /\ ~(writing # None /\ writing.process = p)
  /\ Leave(p)
  /\ UNCHANGED <<archive, terminal, writing, litter, rootLitter, sent, faults>>

-----------------------------------------------------------------------------
Fault == faults < MaxFaults /\ faults' = faults + 1

Die(p) ==
  /\ pc[p] # "idle"
  /\ Fault
  /\ AbandonWrite(p)
  /\ Leave(p)
  /\ UNCHANGED <<archive, terminal, sent>>

(* A write of the tool raises, and the tool goes on with its handle.          *)
FailWrite(p) ==
  /\ pc[p] = "tool" /\ writing # None /\ writing.process = p
  /\ Fault
  /\ writing' = None
  /\ UNCHANGED <<archive, terminal, known, litter, rootLitter, pc, job, sent>>

Next ==
  \/ Publish
  \/ \E p \in Process :
       \/ Resume(p) \/ Plan(p) \/ Stop(p) \/ AppendNext(p) \/ AppendRefused(p) \/ Commit(p)
       \/ Send(p) \/ Receive(p)
       \/ OpenTool(p) \/ AppendEvidence(p) \/ StartTerminal(p) \/ FinishTerminal(p) \/ CloseTool(p)
       \/ Die(p) \/ FailWrite(p)

Spec == Init /\ [][Next]_runVars

-----------------------------------------------------------------------------
(* Properties *)

(* The log, with what recovery would add to it; an archive that cannot be     *)
(* read holds none.                                                           *)
Log == LET a == Recover(archive) IN IF Readable(a) THEN LogOf(a) ELSE <<>>

InLog(kind, item, attempt) ==
  \E r \in Recover(archive).evidence : r.kind = kind /\ r.item = item /\ r.attempt = attempt

(* No request is sent twice, by one process or by two, through deaths and     *)
(* whatever evidence the operator adds; and what was sent has its intent.     *)
NoRequestSentTwice ==
  /\ IsInjective(sent)
  /\ \A n \in DOMAIN sent : InLog("intent", sent[n][1], sent[n][2])

(* Nothing is asked about an item unless the one before it is coded: an item  *)
(* that failed for good or stayed ambiguous blocks the rest of the order.     *)
ItemsInOrder ==
  \A n \in DOMAIN sent : sent[n][1] > 1 =>
    Replay(Log).items[sent[n][1] - 1].status = "coded"

(* An attempt has evidence of one kind: no result stands beside a declaration *)
(* that the attempt is incomplete, ambiguous or was not sent, and an audit    *)
(* beside a response only if it recovers those bytes.                         *)
EvidenceAgrees ==
  \A r \in Recover(archive).evidence : r.kind = "response" =>
    LET Beside(kind) ==
          {s \in Recover(archive).evidence : s.kind = kind /\ s.item = r.item /\ s.attempt = r.attempt}
    IN /\ Beside("marker") \union Beside("ambiguous") \union Beside("negative") = {}
       /\ \A s \in Beside("audit") : s.value = r.value /\ Beside("recovered") # {}

(* Whenever nobody writes, the archive can be opened, unless a process died   *)
(* while it wrote the terminal projection.                                    *)
OpensUnlessTorn == writing = None /\ ~rootLitter => Opens

(* Through deaths between any two files of a transaction and appends by two   *)
(* processes, the archive is one log of records that its replay accepts.      *)
Ledger == INSTANCE JudgeLedger WITH log <- Log, closed <- terminal # None
ImplementsLedger == Ledger!LedgerSpec
=============================================================================
