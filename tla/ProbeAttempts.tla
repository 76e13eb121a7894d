--------------------------- MODULE ProbeAttempts ---------------------------
(***************************************************************************)
(* Attempts at the cases of a calibration probe: what the runner decides   *)
(* after each answer (calibration/runner.py), and how a projection replays *)
(* a list of attempts (ProbeRunProjection in calibration/contracts.py).    *)
(* The two are written independently in the code, and here.                *)
(*                                                                         *)
(* Cases are numbered in the order of their identifiers.  A projection's   *)
(* attempts are sorted by case and index; the list is kept here as the     *)
(* runner's by_case, the chain of each case in its order.  An answer is    *)
(* "parsed", "refusal" or "malformed" text, or the code of a transport     *)
(* error.                                                                  *)
(***************************************************************************)
EXTENDS Naturals, Sequences, FiniteSets, SequencesExt

CONSTANTS
  CaseCount,    \* number of cases
  Code,         \* codes of transport errors
  Retryable,    \* those that are tried again
  Budget        \* max_transport_attempts_by_code

ASSUME PolicyAssumption ==
  /\ CaseCount \in Nat \ {0}
  /\ Retryable \subseteq Code
  /\ Budget \in [Code -> Nat \ {0}]

Case == 1 .. CaseCount

Text == {"parsed", "refusal", "malformed"}
ASSUME CodesAreNotTexts == Code \cap Text = {}
Result == Text \union Code

Decided == {"parsed", "parse_failed", "refused"}
Open == {"unstarted", "pending", "format_pending"}
Kind == {"semantic", "format_repair"}

(* ProbeAttempt.__post_init__: ordinal is the number of this error among    *)
(* the errors of the case with its code, origin the malformed answer that a *)
(* repair is of; the status is derived from the rest.                       *)
AttemptValid(a) ==
  /\ a.index >= 1 /\ a.kind \in Kind /\ a.result \in Result
  /\ a.ordinal >= 1 <=> a.result \in Code
  /\ a.status =
       CASE a.result = "parsed"    -> "parsed"
         [] a.result = "refusal"   -> "refused"
         [] a.result = "malformed" -> IF a.kind = "semantic" THEN "format_pending" ELSE "parse_failed"
         [] a.result \in Code      ->
              IF a.ordinal >= Budget[a.result] \/ a.result \notin Retryable THEN "runtime_failed" ELSE "pending"

NoAttempts == [c \in Case |-> <<>>]

(* len(projection.attempts)                                                 *)
Places(attempts) == UNION {{c} \X DOMAIN attempts[c] : c \in Case}

Total(attempts) == Cardinality(Places(attempts))

(* ProbeRunProjection.create sorts by case and index: the next attempt of a *)
(* case goes to the end of its chain.                                       *)
WithAttempt(attempts, a) == [attempts EXCEPT ![a.case] = Append(@, a)]

(* The sorted list of some attempts is a prefix of that of others.          *)
IsListPrefix(some, others) ==
  \E c \in Case :
    /\ \A d \in Case : d < c => some[d] = others[d]
    /\ IsPrefix(some[c], others[c])
    /\ \A d \in Case : d > c => some[d] = <<>>

StatusOf(chain) == IF chain = <<>> THEN "unstarted" ELSE Last(chain).status

Statuses(attempts) == {StatusOf(attempts[c]) : c \in Case}

IsComplete(attempts) == Statuses(attempts) \subseteq Decided

RuntimeFailed(attempts) == "runtime_failed" \in Statuses(attempts)

-----------------------------------------------------------------------------
(* The runner *)

(* Mutant: a transport retry asks the question anew.                         *)
KindFromStatus(chain) ==
  IF StatusOf(chain) = "format_pending" THEN "format_repair" ELSE "semantic"

NextKind(chain) ==
  CASE StatusOf(chain) = "format_pending" -> "format_repair"
    [] StatusOf(chain) = "pending"        -> Last(chain).kind
    [] OTHER                              -> "semantic"

(* repair_context_for_next_request                                           *)
Origin(chain, kind) ==
  IF kind = "semantic" THEN 0
  ELSE IF StatusOf(chain) = "format_pending" THEN Len(chain)
  ELSE Last(chain).origin

(* Mutant: the errors of the question and of its repair are counted apart.   *)
ConsumedByKind(chain, code) ==
  Cardinality({k \in DOMAIN chain : chain[k].result = code /\ chain[k].kind = NextKind(chain)})

Consumed(chain, code) == Cardinality({k \in DOMAIN chain : chain[k].result = code})

MayRetry(code, ordinal) == code \in Retryable /\ ordinal < Budget[code]

StatusAfter(kind, result, ordinal) ==
  CASE result = "parsed"    -> "parsed"
    [] result = "refusal"   -> "refused"
    [] result = "malformed" -> IF kind = "semantic" THEN "format_pending" ELSE "parse_failed"
    [] result \in Code      -> IF MayRetry(result, ordinal) THEN "pending" ELSE "runtime_failed"

MakeAttempt(chain, c, result) ==
  LET kind    == NextKind(chain)
      ordinal == IF result \in Code THEN Consumed(chain, result) + 1 ELSE 0
  IN [case |-> c, index |-> Len(chain) + 1, kind |-> kind, origin |-> Origin(chain, kind),
      result |-> result, ordinal |-> ordinal, status |-> StatusAfter(kind, result, ordinal)]

-----------------------------------------------------------------------------
(* The projection's replay *)

(* validate_request_against_prior_chain: a question asked again follows a    *)
(* transport error; a repair follows the malformed answer it is of, or an    *)
(* unanswered repair of the same one.                                        *)
RequestFits(a, prior) ==
  IF a.kind = "semantic"
  THEN a.origin = 0 /\ (prior # <<>> => Last(prior).status = "pending")
  ELSE /\ a.origin \in DOMAIN prior
       /\ prior[a.origin].kind = "semantic" /\ prior[a.origin].status = "format_pending"
       /\ \/ a.origin = Len(prior)
          \/ /\ Last(prior).kind = "format_repair" /\ Last(prior).status = "pending"
             /\ Last(prior).origin = a.origin

(* Attempt a of a case, after the attempts in prior.                         *)
ReplaysAfter(a, prior) ==
  LET errors == {k \in DOMAIN prior : prior[k].result = a.result}
      ordinal == Cardinality(errors) + 1
  IN /\ StatusOf(prior) \in Open
     /\ a.index = Len(prior) + 1
     /\ prior # <<>> /\ Last(prior).status = "format_pending" => a.kind = "format_repair"
     /\ prior # <<>> /\ Last(prior).status = "pending" => a.kind = Last(prior).kind
     /\ prior = <<>> => a.kind = "semantic"
     /\ RequestFits(a, prior)
     /\ a.result \in Code =>
          /\ a.ordinal = ordinal
          /\ a.status = "pending" <=> a.result \in Retryable /\ ordinal < Budget[a.result]
          /\ a.status \in {"pending", "runtime_failed"}
     /\ a.result = "malformed" =>
          a.status = IF a.kind = "semantic" THEN "format_pending" ELSE "parse_failed"

ChainReplays(chain) ==
  \A k \in DOMAIN chain : AttemptValid(chain[k]) /\ ReplaysAfter(chain[k], SubSeq(chain, 1, k - 1))

(* _replay_attempts                                                          *)
Replays(attempts) == \A c \in Case : ChainReplays(attempts[c])
=============================================================================
