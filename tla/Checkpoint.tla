----------------------------- MODULE Checkpoint -----------------------------
(***************************************************************************)
(* Checkpoints of a run store (platform/src/agent_ex/checkpoint.py).       *)
(*                                                                         *)
(* A checkpoint is a file with a projection of the store at one moment.    *)
(* When a run is resumed, validate_checkpoint compares it with the store:  *)
(* "current" if nothing happened since, "stale" if the store went on from  *)
(* it, and an error otherwise.  For an older checkpoint it cannot compare  *)
(* with the past, which is gone; it reconstructs what the store must have  *)
(* looked like from the append-only rows of the present.                   *)
(*                                                                         *)
(* The question is whether that reconstruction is exact.  To have          *)
(* checkpoints that are not of this history, the database file may be      *)
(* copied and, later, put back: the run then goes on from the copy, while  *)
(* the checkpoint file is of the abandoned continuation.                   *)
(***************************************************************************)
EXTENDS RunStoreIntegrity, SequencesExt

CONSTANT None

ASSUME NoneAssumption == None \notin Link

VARIABLES
  file,     \* the checkpoint file
  taken,    \* history: the store when it was written
  copy,     \* a copy of the database file, with its history
  past      \* history: the projections of all states the store went through

store == <<sealed, private, cursor, pointer, next, events, posts, head, journal, chain, exec>>

checkpointVars == <<store, file, taken, copy, past>>

-----------------------------------------------------------------------------
(* The recovery evidence of the store at an ordinal *)

Shown(row) ==
  [status |-> row.status,
   answer |-> IF row.status \in Terminal THEN row.reply ELSE NoReply]

AttemptPrefix(o) ==
  IF o = EventCount THEN <<>> ELSE [k \in DOMAIN journal[o] |-> Shown(journal[o][k])]

Covered(o) == [i \in 1 .. (IF o = EventCount THEN o ELSE o + 1) |-> i - 1]

(* The attempts of the covered events whose row Has something, in the order *)
(* of events and attempts.                                                  *)
Table(o, Has(_), Value(_, _)) ==
  FlattenSeq([i \in DOMAIN Covered(o) |->
    FlattenSeq([k \in DOMAIN journal[i - 1] |->
      IF Has(journal[i - 1][k]) THEN <<Value(i - 1, k)>> ELSE <<>>])])

Position(e, k) == <<e, k>>
Answered(e, k) == <<e, k, journal[e][k].reply>>

(* Mutant: the projection leaves the v6 evidence out.                       *)
NoEvidence(o) ==
  [inputs |-> <<>>, requests |-> <<>>, invocations |-> <<>>, parses |-> <<>>, bindings |-> <<>>]

(* The v6 rows visible at an ordinal, each table in the order of events and *)
(* attempts (event_input_evidence and attempt_policy_evidence together).    *)
EvidenceTables(o) ==
  LET requests == Table(o, LAMBDA row : row.request, Position)
  IN [inputs      |-> SelectSeq(Covered(o), LAMBDA e : \E k \in DOMAIN journal[e] : journal[e][k].request),
      requests    |-> requests,
      invocations |-> Table(o, LAMBDA row : row.request /\ row.reply # NoReply, Answered),
      parses      |-> Table(o, LAMBDA row : row.request /\ row.parsed, Answered),
      bindings    |-> IF requests = <<>> THEN <<>> ELSE <<"binding">>]

(* Mutant: links of later events are kept.                                  *)
WholeChain(o) == chain

ChainTo(o) ==
  LET upTo[n \in 0 .. Len(chain)] ==
        IF n = 0 THEN <<>>
        ELSE IF chain[n].ordinal <= o THEN Append(upTo[n - 1], chain[n]) ELSE upTo[n - 1]
  IN upTo[Len(chain)]

(* Mutant: a failure is exposed although it was authorized.                 *)
AnyLink(links, o, kind) ==
  LET found == SelectSeq(links, LAMBDA link : link.kind = kind /\ link.ordinal = o)
  IN IF found = <<>> THEN None ELSE Last(found)

(* The link a projection exposes: the last one, if it is of this event.     *)
CurrentLink(links, o, kind) ==
  IF links # <<>> /\ Last(links).kind = kind /\ Last(links).ordinal = o
  THEN Last(links) ELSE None

(* ExecutionState as it follows from an ordinal, its attempts and failure.  *)
ReplayedExecution(o, prefix, failure) ==
  [status  |-> IF o = EventCount THEN "COMPLETE"
               ELSE IF failure # None THEN "FAILED" ELSE "RUNNING",
   next    |-> o,
   current |-> o,
   ids     |-> IF prefix = <<>> THEN 0 .. o - 1 ELSE 0 .. o,
   counts  |-> [s \in Status |-> (IF s = "succeeded" THEN o ELSE 0)
                 + (IF prefix # <<>> /\ Last(prefix).status = s THEN 1 ELSE 0)],
   failed  |-> IF failure = None THEN {} ELSE {o}]

(* log stands for the event chain head and the four roots of agent state    *)
(* that are replayed from the same events.                                  *)
Projection(o, execution) ==
  [ordinal       |-> o,
   log           |-> SubSeq(head.log, 1, o),
   prefix        |-> AttemptPrefix(o),
   execution     |-> execution,
   failure       |-> CurrentLink(ChainTo(o), o, "failure"),
   authorization |-> CurrentLink(ChainTo(o), o, "authorization"),
   chain         |-> ChainTo(o),
   tables        |-> EvidenceTables(o)]

(* build_checkpoint                                                         *)
Snapshot == Projection(next, exec)

(* _build_checkpoint_from_evidence                                          *)
History(o) == Projection(o, ReplayedExecution(o, AttemptPrefix(o), None))

-----------------------------------------------------------------------------
(* Checkpoint.from_payload: what a checkpoint must satisfy by itself        *)

ChainAlternates(c) ==
  \A i \in DOMAIN c.chain :
    /\ c.chain[i].ordinal <= c.ordinal
    /\ c.chain[i].kind = IF i % 2 = 1 THEN "failure" ELSE "authorization"
    /\ i % 2 = 0 => c.chain[i] = Authorization(c.chain[i - 1].ordinal, c.chain[i - 1].index)

CurrentLinkFits(c) ==
  /\ c.failure = CurrentLink(c.chain, c.ordinal, "failure")
  /\ c.authorization = CurrentLink(c.chain, c.ordinal, "authorization")
  /\ c.failure # None => /\ c.prefix # <<>> /\ Last(c.prefix).status = "failed"
                         /\ c.failure.index = Len(c.prefix)

(* The status contract of an attempt, whether its answer is stored with it  *)
(* or referred to: no answer before the terminal transition, success only   *)
(* of a parsed one, failure never of a parsed one.                          *)
AnswerFits(shown) == shown.answer # NoReply => shown.status = Outcome(shown.answer)

(* A complete run has no current attempts; only a failed attempt precedes   *)
(* another.                                                                 *)
PrefixFits(c) ==
  /\ c.ordinal = EventCount => c.prefix = <<>>
  /\ \A k \in DOMAIN c.prefix : AnswerFits(c.prefix[k])
  /\ \A k \in 1 .. Len(c.prefix) - 1 : c.prefix[k].status = "failed"

(* Every retry in it was authorized.                                        *)
RetriesFit(c) ==
  \A k \in 1 .. Len(c.prefix) - 1 :
    \E i \in 1 .. Len(c.chain) - 1 : /\ c.chain[i] = Failure(c.ordinal, k)
                                     /\ c.chain[i + 1] = Authorization(c.ordinal, k)

WellFormed(c) ==
  /\ ChainAlternates(c)
  /\ PrefixFits(c)
  /\ CurrentLinkFits(c)
  /\ RetriesFit(c)
  /\ c.execution = ReplayedExecution(c.ordinal, c.prefix, c.failure)

(* resume_action                                                            *)
ResumeAction(c) ==
  IF c.ordinal = EventCount THEN "complete"
  ELSE IF c.prefix = <<>> THEN "start_current_event"
  ELSE CASE Last(c.prefix).status \in {"pending", "in_progress"} -> "resume_same_attempt"
         [] Last(c.prefix).status = "succeeded" -> "commit_landed_success"
         [] Last(c.prefix).status = "failed" ->
              IF c.failure # None THEN "halted_current_event" ELSE "retry_same_event"

-----------------------------------------------------------------------------
(* validate_checkpoint *)

Rank == [pending |-> 1, in_progress |-> 2, failed |-> 3, succeeded |-> 3]

(* _is_attempt_prefix: the transitions of an attempt follow one another, so *)
(* one list of them is a prefix of another when it ends earlier or is it.   *)
IsAttemptPrefix(c, stored) ==
  /\ Len(c.prefix) <= Len(stored.prefix)
  /\ \A k \in DOMAIN c.prefix :
       \/ c.prefix[k] = stored.prefix[k]
       \/ Rank[c.prefix[k].status] < Rank[stored.prefix[k].status]

CountAttempts(c, statuses) == Cardinality({k \in DOMAIN c.prefix : c.prefix[k].status \in statuses})

(* _is_status_conditioned_v6_prefix: what the stored tables hold of earlier *)
(* events is the same for both; what they hold of the current event follows *)
(* from the statuses of its attempts.                                       *)
StatusConditioned(c, stored) ==
  LET inProgress(x) == IF CountAttempts(x, {"in_progress"}) > 0 THEN 1 ELSE 0
      decided(x)    == CountAttempts(x, Terminal)
      started(x)    == IF x.prefix = <<>> THEN 0 ELSE 1
      rows(x, t)    == Len(x.tables[t])
      baseParses    == rows(stored, "parses") - decided(stored)
      settled       == rows(stored, "invocations") = baseParses + decided(stored)
      baseAnswers   == rows(stored, "invocations") - decided(stored)
                       - (IF settled THEN 0 ELSE inProgress(stored))
      extra         == rows(c, "invocations") - baseAnswers - decided(c)
  IN IF \A t \in DOMAIN stored.tables \ {"bindings"} : stored.tables[t] = <<>>
     THEN \A t \in DOMAIN c.tables : c.tables[t] = <<>>
     ELSE /\ rows(stored, "invocations") >= baseParses + decided(stored)
          /\ rows(c, "inputs")   = rows(stored, "inputs") - started(stored) + started(c)
          /\ rows(c, "requests") = rows(stored, "requests") - Len(stored.prefix) + Len(c.prefix)
          /\ rows(c, "parses")   = baseParses + decided(c)
          /\ extra \in 0 .. inProgress(c)
          /\ rows(c, "bindings") = IF c.tables.requests = <<>> THEN 0 ELSE 1

(* Mutant: the tables are compared by length.                               *)
ShorterEvidence(c, stored) ==
  /\ \A t \in DOMAIN c.tables : Len(c.tables[t]) <= Len(stored.tables[t])
  /\ StatusConditioned(c, stored)

(* _is_evidence_prefix                                                      *)
IsEvidencePrefix(c, stored) ==
  /\ \A t \in DOMAIN c.tables : IsPrefix(c.tables[t], stored.tables[t])
  /\ StatusConditioned(c, stored)
  /\ LET committed == SelectSeq(stored.chain, LAMBDA link : link.ordinal < c.ordinal) IN
       IsPrefix(committed, c.chain)
  /\ IsPrefix(c.chain, stored.chain)

(* _candidate_covers_bound_failures                                         *)
CoversBoundFailures(c, stored) ==
  \A i \in DOMAIN stored.chain :
    LET link == stored.chain[i] IN
    (link.kind = "failure" /\ link.ordinal = c.ordinal /\ link.index < Len(c.prefix))
      => \E j \in DOMAIN c.chain : c.chain[j] = link

(* The prefix checks, and the equality with _replace_progress_evidence: the *)
(* fields that are not taken from the candidate are the ordinal and the log. *)
IsStale(c, stored) ==
  /\ IsAttemptPrefix(c, stored)
  /\ IsEvidencePrefix(c, stored)
  /\ CoversBoundFailures(c, stored)
  /\ c.log = stored.log
  /\ c.execution = ReplayedExecution(c.ordinal, c.prefix, c.failure)

Verdict(c) ==
  IF ~WellFormed(c) THEN "malformed"
  ELSE IF c.ordinal > next THEN "ahead"
  ELSE IF c.ordinal = next /\ c = Snapshot THEN "current"
  ELSE IF IsStale(c, IF c.ordinal < next THEN History(c.ordinal) ELSE Snapshot) THEN "stale"
  ELSE "conflict"

-----------------------------------------------------------------------------
CheckpointInit ==
  /\ Init
  /\ file = None
  /\ taken = None
  /\ copy = None
  /\ past = {}

(* A write of the run.                                                      *)
Write ==
  /\ Next
  /\ past' = past \union (IF sealed' THEN {Snapshot'} ELSE {})
  /\ UNCHANGED <<file, taken, copy>>

(* write_checkpoint_atomic(path, build_checkpoint(storage)).                *)
SaveCheckpoint ==
  /\ file = None
  /\ sealed
  /\ VerifyIntegrity
  /\ file' = Snapshot
  /\ taken' = store
  /\ UNCHANGED <<store, copy, past>>

(* The operator copies the database file, and puts the copy back once there *)
(* is a checkpoint.                                                         *)
CopyDatabase ==
  /\ copy = None /\ file = None
  /\ sealed
  /\ copy' = <<store, past>>
  /\ UNCHANGED <<store, file, taken, past>>

RestoreDatabase ==
  /\ copy # None /\ file # None
  /\ LET s == copy[1] IN
     /\ sealed' = s[1] /\ private' = s[2] /\ cursor' = s[3] /\ pointer' = s[4]
     /\ next' = s[5] /\ events' = s[6] /\ posts' = s[7] /\ head' = s[8]
     /\ journal' = s[9] /\ chain' = s[10] /\ exec' = s[11]
  /\ past' = copy[2]
  /\ copy' = None
  /\ UNCHANGED <<file, taken>>

CheckpointNext == Write \/ SaveCheckpoint \/ CopyDatabase \/ RestoreDatabase

CheckpointSpec == CheckpointInit /\ [][CheckpointNext]_checkpointVars

-----------------------------------------------------------------------------
(* Properties *)

(* A checkpoint validates against a store exactly if the store has been in  *)
(* the state it was taken of: none of the present history is refused, none  *)
(* of an abandoned continuation is accepted.                                *)
ValidExactlyIfPast ==
  file # None => (Verdict(file) \in {"current", "stale"} <=> file \in past)

(* "current" means that the store is, row for row, what it was when the     *)
(* checkpoint was written.                                                  *)
CurrentMeansUnchanged ==
  file # None /\ Verdict(file) = "current" => store = taken

(* build_checkpoint never fails on a sealed store that verifies: the        *)
(* projection passes Checkpoint.from_payload, and so does the historical    *)
(* one of every committed ordinal.                                          *)
AlwaysCheckpointable ==
  sealed => WellFormed(Snapshot) /\ \A o \in 0 .. next - 1 : WellFormed(History(o))

(* The recovery action a checkpoint names is the one the journal of the     *)
(* store calls for.                                                         *)
ActionOf ==
  [complete |-> "complete",
   new_attempt |-> "start_current_event",
   pending_attempt_requires_same_request |-> "resume_same_attempt",
   in_progress_requires_provider_reconciliation |-> "resume_same_attempt",
   succeeded_attempt_requires_atomic_commit |-> "commit_landed_success",
   failed_attempt_requires_external_authorization |-> "halted_current_event",
   halted_current_event |-> "halted_current_event",
   retry_same_event |-> "retry_same_event"]

ResumeActionAgrees == sealed => ResumeAction(Snapshot) = ActionOf[ResumeState]
=============================================================================
