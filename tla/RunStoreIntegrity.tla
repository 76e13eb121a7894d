------------------------- MODULE RunStoreIntegrity -------------------------
(***************************************************************************)
(* RunStorage.verify_integrity() and what the store promises.              *)
(*                                                                         *)
(* verify_integrity replays every row against every other.  It runs when a *)
(* store is opened and before a write whose connection state it has not    *)
(* yet seen, so a state it rejects is a run nobody can open or continue.   *)
(* The operators below are its checks; the invariants say that no sequence *)
(* of writes leads to a state it rejects.                                  *)
(***************************************************************************)
EXTENDS RunStore

(* Every table holds rows of its schema (the CHECK clauses of create() and  *)
(* the types the rows are decoded to); in particular the execution-state    *)
(* row stays a well-formed ExecutionState.                                  *)
TypeOK ==
  /\ sealed \in BOOLEAN
  /\ private \in [Agents -> Ordinals \union {Round0, Absent}]
  /\ cursor  \in [Agents -> Ordinals \union {Round0, Absent}]
  /\ pointer \in [Agents -> Ordinals \union {Round0, Absent}]
  /\ next \in 0 .. EventCount
  /\ events \in SUBSET Ordinals
  /\ posts \in SUBSET Ordinals
  /\ head \in [root : BOOLEAN, log : Seq(Entry)]
  /\ journal \in [Ordinals -> Seq(Attempt)]
  /\ chain \in Seq(Link)
  /\ exec \in ExecutionState

-----------------------------------------------------------------------------
(* verify_integrity: the checks *)

Rows(table) == {a \in Agents : table[a] # Absent}

RosterIsCovered ==
  /\ Rows(private) = Rows(cursor)
  /\ Rows(private) = Rows(pointer)
  /\ sealed => Rows(private) = Agents

ProgressIsContiguous ==
  /\ next \in 0 .. EventCount
  /\ events = 0 .. next - 1

(* One hash-linked chain: failure, authorization of that failure, failure,  *)
(* ... with each failure bound to a FAILED attempt, none ahead of the       *)
(* progress, and none of a committed event left unauthorized.               *)
ChainIsLinked ==
  /\ chain # <<>> => chain[1].kind = "failure"
  /\ \A i \in 1 .. Len(chain) - 1 :
       /\ chain[i].kind = "failure" =>
            chain[i + 1] = Authorization(chain[i].ordinal, chain[i].index)
       /\ chain[i].kind = "authorization" => chain[i + 1].kind = "failure"

FailuresAreBound ==
  \A i \in DOMAIN chain : chain[i].kind = "failure" =>
    LET e == chain[i].ordinal
        k == chain[i].index
    IN /\ k \in DOMAIN journal[e] /\ journal[e][k].status = "failed"
       /\ e <= next
       /\ e < next => i < Len(chain)
       /\ \A j \in 1 .. i - 1 :
            chain[j].kind = "failure" /\ chain[j].ordinal = e => chain[j].index < k

HaltIsCurrent ==
  Halted => /\ Running
            /\ LastLink.ordinal = next
            /\ LatestIs(next, "failed")

(* The execution-state row, recomputed from progress, journal and chain.    *)
CurrentStarted == Running /\ journal[next] # <<>>

DerivedExecution ==
  [status  |-> IF ~Running THEN "COMPLETE" ELSE IF Halted THEN "FAILED" ELSE "RUNNING",
   next    |-> next,
   current |-> next,
   ids     |-> IF CurrentStarted THEN 0 .. next ELSE 0 .. next - 1,
   counts  |-> [s \in Status |->
                  (IF s = "succeeded" THEN next ELSE 0)
                  + (IF CurrentStarted /\ Latest(next).status = s THEN 1 ELSE 0)],
   failed  |-> IF Halted THEN {next} ELSE {}]

ExecutionReplays == exec = DerivedExecution

(* Attempts exist up to the current event only, and an attempt is followed  *)
(* by another one only if it failed.                                        *)
AttemptsAreCovered ==
  /\ \A e \in Ordinals : e > next => journal[e] = <<>>
  /\ \A e \in Ordinals : e < next => LatestIs(e, "succeeded")
  /\ \A e \in Ordinals : \A k \in DOMAIN journal[e] :
       k < Len(journal[e]) => journal[e][k].status = "failed"

RetriesAreAuthorized ==
  \A e \in Ordinals : \A k \in DOMAIN journal[e] :
    k > 1 => \E i \in 1 .. Len(chain) - 1 :
               /\ chain[i] = Failure(e, k - 1)
               /\ chain[i + 1] = Authorization(e, k - 1)

HasEvidence(row) == row.request \/ row.reply # NoReply \/ row.parsed

EvidenceFits(e, k) ==
  LET row == journal[e][k] IN
  /\ row.request
  /\ row.status = "pending" => row.reply = NoReply
  /\ row.parsed <=> row.status \in Terminal
  /\ row.status \in Terminal =>
       /\ row.reply # NoReply
       /\ row.status = Outcome(row.reply)
       /\ row.status = "failed" => Bound(e, k)

AnyEvidence ==
  \E e \in Ordinals : \E k \in DOMAIN journal[e] : HasEvidence(journal[e][k])

(* Once any v6 row lands, all v6 tables are an exact cover: every attempt   *)
(* of the run has exactly the evidence rows its status calls for            *)
(* (_verify_v6_evidence_exact_cover).                                       *)
EvidenceIsExactCover ==
  AnyEvidence => \A e \in Ordinals : \A k \in DOMAIN journal[e] : EvidenceFits(e, k)

(* Current private state, cursor, pointer, posts and chain head, replayed   *)
(* from the committed events.                                               *)
IsLastOf(e, S) ==
  \/ S = {} /\ e = Round0
  \/ e \in S /\ \A f \in S : f <= e

CommittedBy(a) == {e \in Ordinals : e < next /\ Agent[e] = a}

StateReplays ==
  \A a \in Rows(private) :
    /\ IsLastOf(private[a], CommittedBy(a))
    /\ cursor[a] = private[a]
    /\ IsLastOf(pointer[a], {e \in CommittedBy(a) : Publish[e]})

HeadReplays ==
  /\ posts = {e \in Ordinals : e < next /\ Publish[e]}
  /\ head.root = sealed
  /\ Len(head.log) = next
  /\ \A i \in 1 .. next :
       head.log[i] = [ordinal |-> i - 1, attempts |-> Len(journal[i - 1]),
                      posted |-> Publish[i - 1]]

(* What verify_integrity checks apart from the v6 evidence holds whatever   *)
(* the callers do: the roster, the contiguous progress, the causal chain of *)
(* failures and authorizations, the execution-state row, the attempts, the  *)
(* current agent state and the event chain head replay from one another.    *)
LifecycleReplays ==
  /\ RosterIsCovered
  /\ ProgressIsContiguous
  /\ ChainIsLinked
  /\ FailuresAreBound
  /\ HaltIsCurrent
  /\ ExecutionReplays
  /\ AttemptsAreCovered
  /\ RetriesAreAuthorized
  /\ StateReplays
  /\ HeadReplays

(* No sequence of writes leads to a store that verify_integrity() rejects:  *)
(* it can always be opened again and written on.                            *)
VerifyIntegrity == LifecycleReplays /\ EvidenceIsExactCover

-----------------------------------------------------------------------------
(* What a write may do to the evidence that is already there *)

Grows(old, new) ==
  /\ Len(old) <= Len(new)
  /\ \A i \in 1 .. Len(old) : new[i] = old[i]

RowGrows(old, new) ==
  /\ old.status \in Terminal => new.status = old.status /\ new.parsed = old.parsed
  /\ old.request => new.request
  /\ old.reply # NoReply => new.reply = old.reply

(* Evidence is append-only: no transaction rewrites or drops a terminal     *)
(* attempt, a recorded answer, a link of the causal chain or a committed    *)
(* event, and an event that is not the current one is never touched.        *)
AppendOnly ==
  /\ Grows(chain, chain')
  /\ Grows(head.log, head.log')
  /\ \A e \in Ordinals :
       /\ e # next => journal'[e] = journal[e]
       /\ Len(journal[e]) <= Len(journal'[e])
       /\ \A k \in DOMAIN journal[e] : RowGrows(journal[e][k], journal'[e][k])

EvidenceIsAppendOnly == [][AppendOnly]_vars

-----------------------------------------------------------------------------
(* The store implements SerialRun *)

Phase ==
  IF ~Running \/ journal[next] = <<>> THEN "idle"
  ELSE CASE Latest(next).status \in {"pending", "in_progress"} -> "running"
         [] Latest(next).status = "succeeded" -> "decided"
         [] Latest(next).status = "failed" ->
              IF Freed(next, Len(journal[next])) THEN "authorized" ELSE "halted"

Serial == INSTANCE SerialRun WITH
  log    <- [i \in DOMAIN head.log |-> head.log[i].attempts],
  phase  <- Phase,
  tries  <- IF Running THEN Len(journal[next]) ELSE 0,
  public <- [a \in Agents |-> IF pointer[a] = Absent THEN Round0 ELSE pointer[a]]

(* Whatever the writers do, with or without the v6 evidence, the run reads  *)
(* as one serial history: RunStore implements SerialRun, each commit_success *)
(* being its Commit and each retry a Try behind an Authorize.               *)
ImplementsSerialRun == Serial!Spec
=============================================================================
