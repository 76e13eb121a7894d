------------------------------- MODULE Prompt -------------------------------
(***************************************************************************)
(* What a request shows an agent (prompt.py), how a scripted model answers *)
(* it (adapters/) and what the parser makes of the answer (parser.py).     *)
(*                                                                         *)
(* A committed event is [ordinal, agent, publish, attempts]; its attempts  *)
(* are [status, stance], the last one the only success.  A context is the  *)
(* sequence of the events it was validated with.                           *)
(***************************************************************************)
EXTENDS Feed

CONSTANTS
  Stances,     \* the labels of the topic
  None,        \* absence of a stance, an input, an answer
  Window       \* updates a prompt shows

ASSUME PromptAssumption == None \notin Stances /\ Window \in Nat \ {0}

-----------------------------------------------------------------------------
(* The run context: which events a prompt may rest on.                      *)

SlotOf(event) == [agent |-> event.agent, publish |-> event.publish]

(* Attempts are complete: failures, then the success.                       *)
ChainComplete(attempts) ==
  /\ attempts # <<>>
  /\ Last(attempts).status = "succeeded"
  /\ \A i \in 1 .. Len(attempts) - 1 : attempts[i].status = "failed"

(* advance_validated_prompt_run_context: one more event, the next one.      *)
MayExtend(context, event, slots) ==
  /\ event.ordinal = Len(context)
  /\ event.ordinal < Len(slots)
  /\ SlotOf(event) = slots[event.ordinal + 1]
  /\ ChainComplete(event.attempts)

(* validate_prompt_run_context, and rebuild_validated_prompt_run_context,    *)
(* which extends an empty one event by event.                               *)
ContextValid(events, slots) ==
  \A i \in DOMAIN events : MayExtend(SubSeq(events, 1, i - 1), events[i], slots)

(* build_prompt_view, bind_successful_source and bind_update_content: an    *)
(* update of an event is what the last attempt of that event says.          *)
SourceBound(context, update, ordinal) ==
  update.ordinal # RoundZero =>
    /\ update.ordinal + 1 \in DOMAIN context
    /\ update.ordinal < ordinal
    /\ LET source == context[update.ordinal + 1]
       IN /\ source.ordinal = update.ordinal
          /\ SlotOf(source) = [agent |-> update.agent, publish |-> update.published]
          /\ ChainComplete(source.attempts)
          /\ Last(source.attempts).stance = update.stance

(* ... and a post that was scanned is what such an update published.        *)
PostBound(context, post, updates, ordinal) ==
  \E u \in updates : PostOfUpdate(post, u) /\ SourceBound(context, u, ordinal)

(* What build_prompt_view refuses.  rows are the agent's, updates those the *)
(* scanned posts come from.                                                 *)
MayPrompt(context, slots, mode, ordinal, rows, updates, exposure) ==
  LET agent == slots[ordinal + 1].agent
  IN /\ ordinal < Len(slots) /\ Len(context) = ordinal
     /\ HistoryComplete(rows.updates, agent)
     /\ rows.state.count = Len(rows.updates)
     /\ StateOfUpdate(rows.state, Last(rows.updates))
     /\ \A i \in DOMAIN rows.updates : rows.updates[i].ordinal < ordinal
     /\ exposure.agent = agent /\ exposure.ordinal = ordinal
     /\ mode = "self_history_only" => exposure.scanned = <<>>
     /\ ExposureValid(exposure) /\ exposure.before = rows.cursor
     /\ \A i \in DOMAIN rows.updates : SourceBound(context, rows.updates[i], ordinal)
     /\ \A i \in DOMAIN exposure.scanned : PostBound(context, exposure.scanned[i], updates, ordinal)

(* PromptView: the agent's own last updates and the posts it is shown.  It  *)
(* also carries the prefix of the run it was built on.                      *)
View(context, ordinal, rows, exposure) ==
  [ordinal |-> ordinal, agent |-> exposure.agent, prefix |-> Len(context),
   memory |-> MemoryView(rows.updates, Window), social |-> exposure.shown]

-----------------------------------------------------------------------------
(* The scripted adapter.  A script gives an event the answers to its        *)
(* attempts, in order: a stance, a timeout, text that breaks the contract,  *)
(* or text that exceeds the parser's limits (MockScriptStep).               *)
Answer == Stances \union {"timeout", "garbled", "oversized"}
ScriptValid(script) == \A i \in DOMAIN script : script[i] # <<>> /\ ToSet(script[i]) \subseteq Answer

(* AdapterRequest.create                                                    *)
Request(view, attempt) == [view |-> view, attempt |-> attempt]

(* MockAdapter.generate raises for an attempt the script does not have.     *)
Scripted(script, request) == request.attempt \in DOMAIN script[request.view.ordinal + 1]
Generate(script, request) ==
  [request |-> request, answer |-> script[request.view.ordinal + 1][request.attempt]]

(* _validate_mock_response_against_binding: a response that is brought back *)
(* must be the scripted one, to this request.                               *)
ResponseBound(response, request, script) ==
  Scripted(script, request) /\ response = Generate(script, request)

(* parse_agent_update: what exceeds a limit raises; what breaks the         *)
(* contract fails.                                                          *)
Parses(answer) == answer # "oversized"
ParsedStance(answer) == IF answer \in Stances THEN answer ELSE None
=============================================================================
