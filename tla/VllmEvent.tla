----------------------------- MODULE VllmEvent ------------------------------
(***************************************************************************)
(* One request of the Phase 0B diagnostic to its vLLM server               *)
(* (phase0b/vllm_event_adapter.py): what an HTTP exchange can be, how the   *)
(* adapter classifies it, what the parser of phase0b/pipeline.py makes of  *)
(* the body, and the JSONL journal of dispatches.                          *)
(***************************************************************************)
EXTENDS Naturals, Sequences, SequencesExt

CONSTANTS
  Labels,     \* stances a reply may state
  Null       \* None of the source

(* What a body can be, as far as the adapter and the parser tell.           *)
Unusable == {"empty", "oom", "not_json", "not_object"}
Mislabelled == {"other_model", "bad_shape", "bad_usage"}
Unparsable == {"content_not_json", "content_fields", "content_contract"}
Body == Unusable \union Mislabelled \union Unparsable \union Labels

(* An exchange: the exception that ends it, the status line, the header     *)
(* x-request-id, and the body that was read to its end, cut at the limit or *)
(* not.  An exception leaves the body empty, also after the headers.        *)
Exchange ==
  {x \in [error : {"none", "timeout", "os", "protocol"}, status : {Null, 200, 302, 400, 429, 500},
          id : {"absent", "blank", "given"}, truncated : BOOLEAN, body : Body] :
    /\ x.status = Null => x.error # "none" /\ x.id = "absent"
    /\ x.error # "none" => x.body = "empty" /\ ~x.truncated
    /\ x.truncated => x.body # "empty"}

(* _classify: the error of an exchange that brought a status line.          *)
Classify(x) ==
  CASE x.truncated -> "provider_response_too_large"
    [] x.status = 302 -> "provider_redirect"
    [] x.status = 429 -> "provider_busy"
    [] x.status = 500 /\ x.body = "oom" -> "oom"
    [] x.status >= 400 -> "provider_fatal"
    [] x.body \in {"empty", "oom", "not_json"} -> "provider_invalid_json"
    [] x.body = "not_object" -> "provider_schema_error"
    [] x.id = "absent" -> "provider_missing_request_id"
    [] x.body = "other_model" -> "provider_identity_mismatch"
    [] x.body \in {"bad_shape", "bad_usage"} -> "provider_schema_error"
    [] OTHER -> Null

(* The error of any exchange: a status line overrides the exception.        *)
ErrorOf(x) ==
  CASE x.status # Null -> Classify(x)
    [] x.error = "timeout" -> "timeout"
    [] OTHER -> "provider_unreachable"

(* Exceptions of http.client pass through generate(), and a blank header    *)
(* makes the evidence refuse its own fields: no answer, after the request.  *)
Raises(x) == x.error = "protocol" \/ x.id = "blank"

(* What generate() returns: a response with its body, or the outcome with   *)
(* an error code.  oom and timeout are outcomes of their own.               *)
AnswerTo(x) ==
  LET code == ErrorOf(x)
      outcome == IF code = Null THEN "response"
                 ELSE IF code \in {"oom", "timeout"} THEN code ELSE "provider_error"
  IN [outcome |-> outcome, code |-> code, body |-> IF code = Null THEN x.body ELSE Null]
Answers == {AnswerTo(x) : x \in {y \in Exchange : ~Raises(y)}}

(* _parse_vllm_message_content: the stance of a reply that keeps to the     *)
(* contract, or Null.                                                       *)
ReplyStance(answer) == IF answer.outcome = "response" /\ answer.body \in Labels THEN answer.body ELSE Null

-----------------------------------------------------------------------------
(* A JSONL file: its lines, and whether it ends inside a line.  A line that *)
(* is appended behind a torn one becomes part of it.                        *)
NewFile == [lines |-> <<>>, torn |-> FALSE]
Appended(file, line) == IF file.torn THEN file ELSE [file EXCEPT !.lines = Append(@, line)]
Torn(file) == [file EXCEPT !.torn = TRUE]

(* Phase0BDispatchJournal: intents and resolutions of requests.             *)
Entry(kind, request) == [kind |-> kind, request |-> request]
Listed(file, kind) == {line.request : line \in {l \in ToSet(file.lines) : l.kind = kind}}

(* Mutant: duplicates are merged by their key.                              *)
JournalMerges(file) == ~file.torn
(* _records raises on a torn line and on an entry that is there twice.      *)
JournalReadable(file) == ~file.torn /\ IsInjective(file.lines)
Unresolved(file) == Listed(file, "intent") \ Listed(file, "resolution")

(* record_before_dispatch, record_resolution: the checks before the append. *)
MayDispatch(file, request) ==
  /\ JournalReadable(file)
  /\ request \notin Listed(file, "intent")
  /\ request \notin Listed(file, "resolution")
MayResolve(file, request) ==
  /\ JournalReadable(file)
  /\ request \in Listed(file, "intent")
  /\ request \notin Listed(file, "resolution")
=============================================================================
