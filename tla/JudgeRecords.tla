---------------------------- MODULE JudgeRecords ----------------------------
(***************************************************************************)
(* The records of a judge run and their replay (replay_judge_records in    *)
(* calibration/judge_runner.py).                                           *)
(*                                                                         *)
(* A judge codes the items of an approved order, one after another.  Each  *)
(* attempt at an item is an intent, written before the request is sent,    *)
(* and evidence of what became of it.  The evidence takes one of several   *)
(* lanes: a response; an audit of the provider's log and the response it   *)
(* recovers; a marker that the attempt is incomplete and a declaration     *)
(* that it stays ambiguous; or a proof that nothing was sent.              *)
(***************************************************************************)
EXTENDS Naturals, Sequences, FiniteSets

CONSTANTS
  ItemCount,     \* items of the approved order
  MaxAttempts,   \* max_attempts_per_item
  Code,          \* failure codes, of the transport and of the parser
  Retryable      \* retryable_codes

ASSUME ManifestAssumption ==
  /\ ItemCount \in Nat \ {0} /\ MaxAttempts \in Nat \ {0}
  /\ Retryable \subseteq Code
  /\ "coded" \notin Code

Item == 1 .. ItemCount
Result == {"coded"} \union Code
Outcome == {"coded", "retryable_failed", "terminal_failed"}

(* Hashes bind a record to its intent, which is named by item and attempt.    *)
(* value: the bytes of an answer, as the result they parse to; or an outcome. *)
Record ==
  [kind : {"preflight", "start", "intent", "response", "attempt", "resolution",
           "audit", "recovered", "negative", "marker", "ambiguous"},
   item : Item \union {0}, attempt : 0 .. MaxAttempts, value : Result \union Outcome \union {"none"}]

RecordOf(kind, item, attempt, value) ==
  [kind |-> kind, item |-> item, attempt |-> attempt, value |-> value]

Final == {"coded", "terminal_failed", "ambiguous_incomplete"}

(* A projection: how many of preflight and service start are there, and the   *)
(* states of the items that were begun, in their order.                       *)
Empty == [lifecycle |-> 0, items |-> <<>>]

NewItem ==
  [status |-> "new", count |-> 0, unresolved |-> FALSE,
   lane |-> "none", bytes |-> "none", completed |-> FALSE, error |-> "none"]

CanRetry(code, attempt) == code \in Retryable /\ attempt < MaxAttempts

OutcomeOf(result, attempt) ==
  IF result = "coded" THEN "coded"
  ELSE IF CanRetry(result, attempt) THEN "retryable_failed"
  ELSE "terminal_failed"

AcceptsIntent(projection, r) ==
  LET items == projection.items IN
  /\ projection.lifecycle = 2
  /\ r.attempt <= MaxAttempts
  /\ \/ /\ r.item = Len(items) + 1 /\ r.item \in Item
        /\ \A i \in DOMAIN items : ~items[i].unresolved
        /\ r.attempt = 1
     \/ /\ r.item \in DOMAIN items
        /\ items[r.item].status = "pending_retry"
        /\ r.attempt = items[r.item].count + 1

(* The record is of the intent that waits for evidence.                       *)
Covers(projection, r) ==
  /\ r.item \in DOMAIN projection.items
  /\ projection.items[r.item].unresolved
  /\ projection.items[r.item].count = r.attempt

(* Mutant: a lane does not exclude another.                                   *)
AcceptsAnyEvidence(item, r) ==
  CASE r.kind = "attempt"    -> ~item.completed /\ item.bytes = r.value
    [] r.kind = "resolution" -> item.completed /\ r.value = OutcomeOf(item.bytes, item.count)
    [] OTHER                 -> r.kind \notin {"preflight", "start", "intent"}

AcceptsEvidence(item, r) ==
  CASE r.kind \in {"audit", "negative", "marker"} -> item.lane = "none"
    [] r.kind = "recovered"  -> item.lane = "audit" /\ item.bytes = r.value
    [] r.kind = "ambiguous"  -> item.lane \in {"none", "marker"}
    [] r.kind = "response"   -> item.lane = "none" \/ (item.lane = "recovered" /\ item.bytes = r.value)
    [] r.kind = "attempt"    -> item.lane = "response" /\ ~item.completed /\ item.bytes = r.value
    [] r.kind = "resolution" -> item.completed /\ r.value = OutcomeOf(item.bytes, item.count)
    [] OTHER                 -> FALSE

Accepts(projection, r) ==
  \/ r.kind = "preflight" /\ projection.lifecycle = 0
  \/ r.kind = "start" /\ projection.lifecycle = 1
  \/ r.kind = "intent" /\ AcceptsIntent(projection, r)
  \/ Covers(projection, r) /\ AcceptsEvidence(projection.items[r.item], r)

-----------------------------------------------------------------------------
Resolved(item, outcome) ==
  [item EXCEPT !.unresolved = FALSE,
     !.status = IF outcome = "retryable_failed" THEN "pending_retry" ELSE outcome,
     !.error = IF outcome = "coded" THEN "none" ELSE item.bytes]

ItemAfter(item, r) ==
  CASE r.kind = "intent" ->
         [NewItem EXCEPT !.status = "dispatch_unresolved", !.count = r.attempt, !.unresolved = TRUE]
    [] r.kind \in {"audit", "response"}    -> [item EXCEPT !.lane = r.kind, !.bytes = r.value]
    [] r.kind \in {"negative", "marker"}   -> [item EXCEPT !.lane = r.kind]
    [] r.kind = "recovered"  -> [item EXCEPT !.lane = "recovered", !.status = "recovered_response"]
    [] r.kind = "ambiguous"  ->
         [item EXCEPT !.lane = "ambiguous", !.status = "ambiguous_incomplete", !.unresolved = FALSE]
    [] r.kind = "attempt"    -> [item EXCEPT !.completed = TRUE]
    [] r.kind = "resolution" -> Resolved(item, r.value)

After(projection, r) ==
  IF r.kind \in {"preflight", "start"}
  THEN [projection EXCEPT !.lifecycle = @ + 1]
  ELSE IF r.item = Len(projection.items) + 1
  THEN [projection EXCEPT !.items = Append(@, ItemAfter(NewItem, r))]
  ELSE [projection EXCEPT !.items[r.item] = ItemAfter(@, r)]

(* replay_judge_records of a log that it accepts.                             *)
Replay(log) ==
  LET upTo[n \in 0 .. Len(log)] == IF n = 0 THEN Empty ELSE After(upTo[n - 1], log[n])
  IN upTo[Len(log)]

Unresolved(projection) == {i \in DOMAIN projection.items : projection.items[i].unresolved}

(* _require_terminal_cover                                                    *)
TerminalCover(projection) ==
  /\ Len(projection.items) = ItemCount
  /\ \A i \in Item : projection.items[i].status \in Final
=============================================================================
