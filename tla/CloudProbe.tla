----------------------------- MODULE CloudProbe -----------------------------
(***************************************************************************)
(* A cloud probe run (calibration/cloud_run.py): the commands `run`,       *)
(* `resume` and `seal` work one after another on one probe store, and any  *)
(* of them may die between two writes.                                     *)
(*                                                                         *)
(* Before a request is sent, its intent is appended to the store's journal *)
(* of reviews; when its answer is durable, a resolution is appended.  A    *)
(* request whose intent has no durable answer may have reached the         *)
(* provider: it must never be sent again.                                  *)
(*                                                                         *)
(* The store itself is taken as it promises to be, a set of append-only    *)
(* records in which a write is atomic.                                     *)
(***************************************************************************)
EXTENDS ProbeAttempts

CONSTANTS
  TotalBudget,    \* max_total_transport_attempts
  MaxFaults,      \* bounds deaths, adapter crashes and changes of free disk space
  None

ASSUME BudgetAssumption == TotalBudget \in Nat \ {0} /\ MaxFaults \in Nat

VARIABLES
  stored,      \* durable attempts
  intents,     \* durable dispatch intents
  resolved,    \* durable dispatch resolutions
  terminal,    \* the terminal marker
  sealed,      \* the store is sealed
  sent,        \* history: the requests sent to the provider
  pc,          \* what the running command does next
  view,        \* the projection it holds
  answer,      \* the attempt it made last and has not stored
  added,       \* it has stored an attempt
  lowDisk,     \* free disk space is below the threshold
  faults

journal == <<stored, intents, resolved, terminal, sealed>>
vars == <<journal, sent, pc, view, answer, added, lowDisk, faults>>

(* request_id is derived from the case, the index, the kind and the text.    *)
Request(a) == [case |-> a.case, index |-> a.index, kind |-> a.kind, origin |-> a.origin]

Answered == {Request(stored[at[1]][at[2]]) : at \in Places(stored)}

(* Mutant: an intent without an answer is taken for one that was not sent.   *)
NothingIsUnresolved == {}

Unresolved == intents \ Answered

Unmarked == Answered \ resolved

Init ==
  /\ stored = NoAttempts /\ intents = {} /\ resolved = {}
  /\ terminal = None /\ sealed = FALSE
  /\ sent = <<>>
  /\ pc = "reconcile" /\ view = NoAttempts /\ answer = None /\ added = FALSE
  /\ lowDisk = FALSE /\ faults = 0

Exit ==
  /\ pc' = "idle" /\ view' = NoAttempts /\ answer' = None /\ added' = FALSE

-----------------------------------------------------------------------------
(* _reconcile_dispatch_journal(reject_unresolved=True) *)

(* Every durable answer without a resolution gets one.                       *)
Resolve ==
  /\ pc \in {"reconcile", "resolve", "sealing"}
  /\ \E r \in Unmarked :
       /\ r \in intents
       /\ resolved' = resolved \union {r}
  /\ UNCHANGED <<stored, intents, terminal, sealed, sent, pc, view, answer, added, lowDisk, faults>>

(* AmbiguousCloudDispatchError                                               *)
Refuse ==
  /\ pc \in {"reconcile", "resolve", "sealing"}
  /\ Unmarked = {} /\ Unresolved # {}
  /\ Exit
  /\ UNCHANGED <<journal, sent, lowDisk, faults>>

Reconciled == Unmarked = {} /\ Unresolved = {}

(* reconstruct_cloud_projection                                              *)
Readable == Reconciled /\ Replays(stored)

-----------------------------------------------------------------------------
(* execute_cloud_probe, resume_cloud_probe *)

(* The command `resume`; `run` has created the store, which it can do once,  *)
(* and is the command that is running at first.                              *)
Resume ==
  /\ pc = "idle" /\ ~sealed
  /\ pc' = "reconcile"
  /\ UNCHANGED <<journal, sent, view, answer, added, lowDisk, faults>>

(* Mutant: `resume` does not look for the terminal marker.                    *)
ReconstructAlways ==
  /\ pc = "reconcile" /\ Readable
  /\ pc' = "loop" /\ view' = stored
  /\ UNCHANGED <<journal, sent, answer, added, lowDisk, faults>>

(* The projection is rebuilt; a terminal run is not resumed.                  *)
Reconstruct ==
  /\ pc = "reconcile" /\ Readable
  /\ terminal = None
  /\ pc' = "loop" /\ view' = stored
  /\ UNCHANGED <<journal, sent, answer, added, lowDisk, faults>>

IsTerminal ==
  /\ pc = "reconcile" /\ Readable
  /\ terminal # None
  /\ Exit
  /\ UNCHANGED <<journal, sent, lowDisk, faults>>

(* _cloud_budget_failure_reason; the token and time budgets stop a run like   *)
(* the attempt budget does and are left out.                                  *)
OverBudget(attempts) ==
  ~IsComplete(attempts) /\ (Total(attempts) >= TotalBudget \/ lowDisk)

(* Mutant: a case waiting for its repair is passed over.                      *)
UnstartedOrPending(attempts) ==
  {c \in Case : StatusOf(attempts[c]) \in {"unstarted", "pending"}}

Eligible(attempts) == {c \in Case : StatusOf(attempts[c]) \in Open}

(* _continue_cloud_probe returns: a budget is used up, no case is left, or an *)
(* attempt was stored and stop_after_attempts or a failure ends the loop.     *)
Leave ==
  /\ pc = "loop"
  /\ \/ OverBudget(view)
     \/ Eligible(view) = {} /\ ~RuntimeFailed(view)
     \/ added
  /\ pc' = "finish"
  /\ UNCHANGED <<journal, sent, view, answer, added, lowDisk, faults>>

(* resume_probe_run: "runtime_failed is irreversible".                        *)
Irreversible ==
  /\ pc = "loop" /\ ~OverBudget(view) /\ ~added
  /\ RuntimeFailed(view) /\ Eligible(view) = {}
  /\ Exit
  /\ UNCHANGED <<journal, sent, lowDisk, faults>>

(* _continue_run takes the first open case; its request's intent is appended. *)
Dispatch ==
  /\ pc = "loop" /\ ~OverBudget(view)
  /\ ~(added /\ RuntimeFailed(view))
  /\ \E c \in Eligible(view) :
       /\ \A d \in Eligible(view) : c <= d
       /\ LET kind == NextKind(view[c])
              r == [case |-> c, index |-> Len(view[c]) + 1, kind |-> kind,
                    origin |-> Origin(view[c], kind)]
          IN /\ intents' = intents \union {r}
             /\ answer' = r
  /\ pc' = "send"
  /\ UNCHANGED <<stored, resolved, terminal, sealed, sent, view, added, lowDisk, faults>>

Send ==
  /\ pc = "send"
  /\ sent' = Append(sent, answer)
  /\ pc' = "wait"
  /\ UNCHANGED <<journal, view, answer, added, lowDisk, faults>>

(* The adapter returns text, an error code of the server, or one of its own.  *)
Receive ==
  /\ pc = "wait"
  /\ \E result \in Result :
       answer' = MakeAttempt(view[answer.case], answer.case, result)
  /\ pc' = "persist"
  /\ UNCHANGED <<journal, sent, view, added, lowDisk, faults>>

(* _persist_projection, up to the reconciliation at its end.                  *)
Persist ==
  /\ pc = "persist"
  /\ LET projection == WithAttempt(view, answer) IN
       /\ IsListPrefix(stored, projection)
       /\ stored' = projection
       /\ view' = projection
  /\ pc' = "resolve" /\ answer' = None
  /\ UNCHANGED <<intents, resolved, terminal, sealed, sent, added, lowDisk, faults>>

Persisted ==
  /\ pc = "resolve" /\ Reconciled
  /\ pc' = "loop" /\ added' = TRUE
  /\ UNCHANGED <<journal, sent, view, answer, lowDisk, faults>>

(* _terminal_runtime_reason, mark_cloud_probe_terminal.                       *)
Finish ==
  /\ pc = "finish"
  /\ terminal' = IF RuntimeFailed(view) \/ OverBudget(view) THEN "incomplete" ELSE terminal
  /\ Exit
  /\ UNCHANGED <<stored, intents, resolved, sealed, sent, lowDisk, faults>>

-----------------------------------------------------------------------------
(* seal_cloud_probe_report *)

BeginSeal ==
  /\ pc = "idle" /\ ~sealed
  /\ pc' = "sealing"
  /\ UNCHANGED <<journal, sent, view, answer, added, lowDisk, faults>>

(* The bundle is of the durable attempts; its report is complete only if      *)
(* they are.  A run without a marker gets the one its report calls for.       *)
MarkForSeal ==
  /\ pc = "sealing" /\ Readable
  /\ terminal = None
  /\ terminal' \in {"incomplete"} \union (IF IsComplete(stored) THEN {"complete"} ELSE {})
  /\ UNCHANGED <<stored, intents, resolved, sealed, sent, pc, view, answer, added, lowDisk, faults>>

Seal ==
  /\ pc = "sealing" /\ Readable
  /\ terminal # None
  /\ sealed' = TRUE
  /\ Exit
  /\ UNCHANGED <<stored, intents, resolved, terminal, sent, lowDisk, faults>>

-----------------------------------------------------------------------------
Fault == faults < MaxFaults /\ faults' = faults + 1

(* The process dies, or its adapter raises: of the projection that            *)
(* ProbeRunCrash carries nothing is left to store.                            *)
Die ==
  /\ pc # "idle"
  /\ Fault
  /\ Exit
  /\ UNCHANGED <<journal, sent, lowDisk>>

DiskChanges ==
  /\ Fault
  /\ lowDisk' = ~lowDisk
  /\ UNCHANGED <<journal, sent, pc, view, answer, added>>

Proceed ==
  \/ Resolve \/ Refuse \/ Reconstruct \/ IsTerminal
  \/ Leave \/ Irreversible \/ Dispatch \/ Send \/ Receive \/ Persist \/ Persisted \/ Finish
  \/ MarkForSeal \/ Seal

Next ==
  \/ Proceed \/ Resume \/ BeginSeal
  \/ Die \/ DiskChanges

(* A command that runs goes on, and the operator keeps resuming the run.      *)
Spec == Init /\ [][Next]_vars /\ WF_vars(Proceed) /\ SF_vars(Resume)

-----------------------------------------------------------------------------
(* Properties *)

(* No request reaches the provider twice, whatever dies when (the dispatch    *)
(* journal of _bind_dispatch_journal and _reconcile_dispatch_journal).        *)
NoRequestSentTwice == IsInjective(sent)

(* The budgets hold over the life of the run, not of a command: no case has   *)
(* more errors of a code than its budget or a second repair, and the run has  *)
(* no more attempts than the total.                                           *)
BudgetsHold ==
  /\ Total(stored) <= TotalBudget
  /\ \A c \in Case : LET chain == stored[c] IN
       /\ \A code \in Code : Cardinality({k \in DOMAIN chain : chain[k].result = code}) <= Budget[code]
       /\ Cardinality({k \in DOMAIN chain : chain[k].result \in Text}) <= 2

(* What is durable can always be read back: the attempts replay to a          *)
(* projection, and every one of them has its intent                           *)
(* (reconstruct_cloud_projection).                                            *)
DurableReplays == Replays(stored) /\ Answered \subseteq intents

(* After the terminal marker nothing is sent and nothing is recorded but the  *)
(* seal (_existing_terminal_record).                                          *)
TerminalIsFinal ==
  [][terminal # None => UNCHANGED <<terminal, stored, intents, sent>>]_vars

(* However often commands die, a run that is resumed ends: complete, with a   *)
(* terminal marker, with a request whose answer is lost, or with a case that  *)
(* failed for good and none that is left.                                     *)
EventuallyDecided ==
  <>[](\/ IsComplete(stored) \/ terminal # None \/ Unresolved # {}
       \/ RuntimeFailed(stored) /\ Eligible(stored) = {})

(* A runtime failure stops the run before a second request, as the test of    *)
(* irreversible failures demands.                                             *)
StopsAtRuntimeFailure == [][RuntimeFailed(stored) => sent' = sent]_vars
=============================================================================
