--------------------------- MODULE EventPipeline ----------------------------
(***************************************************************************)
(* The event pipeline (pipeline.py) on a run store that several processes  *)
(* share: read the agent, select its feed, build the prompt, ask the       *)
(* scripted model, parse, commit.  The engine decides from the journal     *)
(* what to do with the current event (engine.py); the store refuses what   *)
(* does not match what it already has.                                     *)
(*                                                                         *)
(* A pipeline keeps an index of committed events and a prompt context, and *)
(* the deterministic clock of a mock run, rebuilt when it is opened, must  *)
(* replay the start of an attempt that is in progress.                     *)
(***************************************************************************)
EXTENDS Prompt

CONSTANTS
  Process,       \* processes that open the run
  Cell,          \* the frozen cells a run may be of
  MaxAttempts    \* bound: attempts an operator authorizes for one event

VARIABLES
  cell,    \* the frozen cell: roster, slots, mode, graph, scripts, initial stances,
           \* and the feed capacities a caller may ask for
  log,     \* committed events, each with its input and the process that committed it
  rows,    \* per agent: updates, state, pointer, cursor
  posts,   \* public posts in the order they were stored
  open,    \* the current event: its phase, attempts, input, request, start, response
  stamp,   \* the latest clock value among the durable records
  lease,   \* the process that holds the run lease
  pipe     \* the processes

store == <<log, rows, posts, open, stamp, lease>>
pipelineVars == <<cell, store, pipe>>

Agents == ToSet(cell.roster)
Events == Len(cell.slots)
NextOrdinal == Len(log)
Slot == cell.slots[NextOrdinal + 1]

(* _validate_expected_exposure: a run reads a graph exactly if its mode is  *)
(* social, and the graph has one node per agent of the roster.              *)
ExposureBound(c) ==
  IF c.mode = "self_history_only" THEN c.edges = {}
  ELSE /\ c.mode \in {"shuffled_social", "ws_neighbors"}
       /\ DOMAIN c.node = ToSet(c.roster) /\ IsInjective(c.node)
       /\ UNION c.edges \subseteq {c.node[a] : a \in DOMAIN c.node}

(* Frozen slots cover whole sweeps of the population.                       *)
CellValid(c) ==
  /\ IsInjective(c.roster) /\ Len(c.roster) > 0
  /\ Len(c.slots) \in Nat \ {0} /\ Len(c.slots) % Len(c.roster) = 0
  /\ \A i \in DOMAIN c.slots : c.slots[i].agent \in ToSet(c.roster)
  /\ Len(c.script) = Len(c.slots) /\ ScriptValid(c.script)
  /\ ExposureBound(c)
ASSUME PipelineAssumption == \A c \in Cell : CellValid(c)

(* _validate_frozen_neighbors: whose posts an agent reads.                  *)
Neighbours(agent) ==
  IF cell.mode = "self_history_only" THEN {}
  ELSE {b \in Agents : {cell.node[agent], cell.node[b]} \in cell.edges}

NoEvent ==
  [phase |-> "none", attempts |-> <<>>, input |-> None, request |-> None,
   started |-> 0, response |-> None]
NoContext == -1
Closed ==
  [at |-> "closed", index |-> 0, context |-> NoContext, replay |-> <<>>, tick |-> 0,
   reconcile |-> FALSE, request |-> None, started |-> 0, response |-> None, own |-> 0,
   outcome |-> None, news |-> FALSE, read |-> "never"]

StoreInit ==
  /\ cell \in Cell
  /\ log = <<>> /\ open = NoEvent /\ stamp = 0 /\ lease = None
  /\ rows = [a \in Agents |-> InitialRows(a, cell.stance[a]) @@ [cursor |-> InitialCursor(a)]]
  /\ posts = [i \in DOMAIN cell.roster |-> rows[cell.roster[i]].pointer]
PipelineInit == StoreInit /\ pipe = [p \in Process |-> Closed]

-----------------------------------------------------------------------------
(* Processes *)

(* p becomes r; whoever else is open has missed a write.                    *)
Step(p, r) == pipe' = [pipe EXCEPT ![p] = r]
Wrote(p, r) ==
  pipe' = [q \in Process |-> IF q = p THEN r
                             ELSE IF pipe[q].at = "closed" THEN pipe[q]
                             ELSE [pipe[q] EXCEPT !.news = TRUE]]

InProgress == open.phase \in {"sent", "answered"}

(* The pipeline is built on an open store, with a clock rebuilt from the    *)
(* durable records: the start of an attempt in progress, then fresh values. *)
(* The operator may have fetched the answer to a lost request.              *)
Reopen(p, reconcile) ==
  /\ pipe[p].at = "closed"
  /\ reconcile => open.phase = "sent" /\ Scripted(cell.script, open.request)
  /\ Step(p, [Closed EXCEPT !.at = "open", !.reconcile = reconcile,
                !.replay = IF InProgress THEN <<open.started>> ELSE <<>>,
                !.tick = stamp + IF reconcile THEN 2 ELSE 1])
  /\ UNCHANGED <<cell, store>>

Free(p) == lease' = IF lease = p THEN None ELSE lease

(* A process dies.  The lease is a file lock and goes with it.              *)
Crash(p) ==
  /\ pipe[p].at # "closed"
  /\ Step(p, Closed) /\ Free(p)
  /\ UNCHANGED <<cell, log, rows, posts, open, stamp>>

(* What a call leaves when it returns or raises.                            *)
Ended(r, outcome) ==
  [r EXCEPT !.at = "open", !.outcome = outcome, !.request = None, !.started = 0, !.response = None, !.own = 0]

(* Mutant: the start of an attempt in progress is not replayed.             *)
ReadingAnew(r) == r.tick

(* MockClockLedger.__call__                                                 *)
Reading(r) == IF r.replay # <<>> THEN Head(r.replay) ELSE r.tick
Ticked(r) == IF r.replay # <<>> THEN [r EXCEPT !.replay = Tail(@)] ELSE [r EXCEPT !.tick = @ + 1]
Later(a, b) == IF a > b THEN a ELSE b

(* How often attempts have read the clock of a process, for the properties. *)
ReadAgain(read) == IF read = "never" THEN "once" ELSE "more"

-----------------------------------------------------------------------------
(* Preparing an attempt *)

Committed(n) == [i \in 1 .. n |-> log[i].event]
UpdatesOf(scanned) ==
  UNION {ToSet(rows[scanned[i].author].updates) : i \in DOMAIN scanned}

(* Mutant: a context is used for whatever event comes.                      *)
KeepContext(r) == [r EXCEPT !.index = NextOrdinal, !.context = IF @ = NoContext THEN NextOrdinal ELSE @]

(* _source_indexes and _ensure_run_context: the index takes up what was     *)
(* committed meanwhile; a context of another ordinal is thrown away and     *)
(* built again.                                                             *)
EnsureContext(r) == [r EXCEPT !.index = NextOrdinal, !.context = NextOrdinal]

(* select_unread_feed on what the store returns.                            *)
Exposed(capacity) ==
  LET cursor == rows[Slot.agent].cursor
      unread == Unread(posts, Neighbours(Slot.agent), cursor.last)
  IN Exposure(unread, cursor, NextOrdinal, capacity, cell.order[Slot.agent])

(* _prepare: EventInputEvidence, or a refusal.                              *)
MayPrepare(context, exposure) ==
  /\ MaySelect(exposure.scanned, Neighbours(Slot.agent), exposure.before, NextOrdinal)
  /\ MayPrompt(Committed(context), cell.slots, cell.mode, NextOrdinal,
               rows[Slot.agent], UpdatesOf(exposure.scanned), exposure)
InputOf(context, exposure) ==
  [exposure |-> exposure, publish |-> Slot.publish,
   view |-> View(Committed(context), NextOrdinal, rows[Slot.agent], exposure)]

(* execute(): the lease, the journal's decision, and for an attempt its     *)
(* preparation.  A request that differs from the stored one is refused.     *)
Refuse(p, r, why) ==
  Step(p, Ended(r, why)) /\ UNCHANGED <<cell, store>>

Reconciles(p) == pipe[p].reconcile /\ (open.phase = "sent" \/ open.phase = "answered")

Attempt(p, capacity) ==
  LET r == [EnsureContext(Ticked(pipe[p])) EXCEPT !.read = ReadAgain(@), !.reconcile = FALSE]
      exposure == Exposed(capacity)
      input == InputOf(r.context, exposure)
      request == Request(input.view, Len(open.attempts) + 1)
      ready == [r EXCEPT !.request = request, !.started = Reading(pipe[p])]
  IN IF ~MayPrepare(r.context, exposure) THEN Refuse(p, r, "inconsistent")
     ELSE IF open.phase \in {"none", "authorized"} THEN
       IF open.input # None /\ open.input # input THEN Refuse(p, r, "input")
       ELSE /\ Wrote(p, [ready EXCEPT !.at = "prepared"])
            /\ open' = [open EXCEPT !.phase = "pending", !.input = input, !.request = request]
            /\ lease' = p /\ UNCHANGED <<cell, log, rows, posts, stamp>>
     ELSE IF open.phase = "pending" THEN
       IF open.input # input THEN Refuse(p, r, "input")
       ELSE /\ Step(p, [ready EXCEPT !.at = "prepared"])
            /\ lease' = p /\ UNCHANGED <<cell, log, rows, posts, open, stamp>>
     ELSE
       IF open.started # ready.started THEN Refuse(p, r, "start")
       ELSE IF open.input # input THEN Refuse(p, r, "input")
       ELSE IF (open.phase = "answered") = Reconciles(p) THEN Refuse(p, r, "reconciliation")
       ELSE /\ Step(p, [ready EXCEPT !.at = IF open.phase = "sent" THEN "called" ELSE "answered",
                          !.response = IF open.phase = "sent" THEN Generate(cell.script, request)
                                       ELSE open.response])
            /\ lease' = p /\ UNCHANGED <<cell, log, rows, posts, open, stamp>>

Execute(p, capacity) ==
  /\ pipe[p].at = "open" /\ lease = None
  /\ IF pipe[p].reconcile /\ ~InProgress THEN Refuse(p, [pipe[p] EXCEPT !.reconcile = FALSE], "reconciliation")
     ELSE IF NextOrdinal = Events THEN Refuse(p, pipe[p], "complete")
     ELSE IF open.phase = "failed" THEN Refuse(p, pipe[p], "halted")
     ELSE IF open.phase = "succeeded" THEN
       /\ Step(p, [pipe[p] EXCEPT !.at = "landed"])
       /\ lease' = p /\ UNCHANGED <<cell, log, rows, posts, open, stamp>>
     ELSE Attempt(p, capacity)

-----------------------------------------------------------------------------
(* Running it *)

Holds(p, at) == pipe[p].at = at /\ lease = p

(* What a process still has to say when it keeps going.                     *)
Proceed(p, at, r) == Wrote(p, [r EXCEPT !.at = at])

(* The IN_PROGRESS transition is appended, then the adapter is called.  It  *)
(* raises when the script has no answer left for this event.                *)
Start(p) ==
  /\ Holds(p, "prepared")
  /\ open' = [open EXCEPT !.phase = "sent", !.started = pipe[p].started]
  /\ stamp' = Later(stamp, pipe[p].started)
  /\ IF Scripted(cell.script, pipe[p].request)
     THEN /\ Proceed(p, "called", [pipe[p] EXCEPT !.response = Generate(cell.script, pipe[p].request)])
          /\ UNCHANGED lease
     ELSE Wrote(p, Ended(pipe[p], "unscripted")) /\ Free(p)
  /\ UNCHANGED <<cell, log, rows, posts>>

(* _validate_invocation and record_invocation_evidence: an answer to this   *)
(* request, begun when the journal says.                                    *)
Binds(response, r) ==
  /\ response.request = r.request /\ r.request = open.request
  /\ r.started = open.started
  /\ ResponseBound(response, open.request, cell.script)
Persist(p) ==
  /\ Holds(p, "called")
  /\ IF Binds(pipe[p].response, pipe[p])
     THEN /\ open' = [open EXCEPT !.phase = "answered", !.response = pipe[p].response]
          /\ stamp' = Later(stamp, Reading(pipe[p]))
          /\ Proceed(p, "answered", Ticked(pipe[p]))
          /\ UNCHANGED lease
     ELSE Step(p, Ended(pipe[p], "inconsistent")) /\ Free(p) /\ UNCHANGED <<open, stamp>>
  /\ UNCHANGED <<cell, log, rows, posts>>

(* _finalize and record_finalized_attempt: the attempt ends as its answer   *)
(* parses.  An answer beyond the parser's limits raises, now and whenever   *)
(* the attempt is taken up again.                                           *)
Finish(p) ==
  /\ Holds(p, "answered")
  /\ LET answer == pipe[p].response.answer
         stance == ParsedStance(answer)
         status == IF stance = None THEN "failed" ELSE "succeeded"
     IN IF ~Parses(answer)
        THEN Step(p, Ended(pipe[p], "unparsable")) /\ Free(p) /\ UNCHANGED <<open, stamp>>
        ELSE /\ open' = [open EXCEPT !.phase = status,
                            !.attempts = Append(@, [status |-> status, stance |-> stance])]
             /\ IF stance = None
                THEN /\ Wrote(p, Ended(Ticked(pipe[p]), "failed")) /\ Free(p)
                     /\ stamp' = Later(stamp, Reading(pipe[p]))
                ELSE Proceed(p, "landed", pipe[p]) /\ UNCHANGED <<lease, stamp>>
  /\ UNCHANGED <<cell, log, rows, posts>>

-----------------------------------------------------------------------------
(* Committing *)

(* _build_commit: the update of the successful attempt, on the agent's row. *)
Made ==
  Update(Slot.agent, NextOrdinal, rows[Slot.agent].state.count, Last(open.attempts).stance, Slot.publish)

(* _validate_success_bundle: what the store asks of it. The last of the     *)
(* attempts alone succeeded, with this stance; the cursor is the advance of *)
(* the agent's stored one.                                                  *)
BundleReplays ==
  /\ \A i \in DOMAIN open.attempts :
       open.attempts[i].status = IF i = Len(open.attempts) THEN "succeeded" ELSE "failed"
  /\ Made.stance # None
  /\ open.input.exposure.after = Advance(rows[Slot.agent].cursor, NextOrdinal)

MayCommit ==
  LET row == rows[Slot.agent]
  IN /\ BundleReplays
     /\ UpdateValid(Made) /\ MayFollow(Made, row.state)
     /\ CursorValid(open.input.exposure.after) /\ open.input.exposure.before = row.cursor
     /\ Slot.publish => MayPoint(Post(Made), row.pointer)

Event == [ordinal |-> NextOrdinal, agent |-> Slot.agent, publish |-> Slot.publish, attempts |-> open.attempts]
(* Mutant: the cursor of the agent's row is left where it was.              *)
RowKeepsCursor(row) ==
  [updates |-> Append(row.updates, Made), state |-> NextState(Made, row.state),
   pointer |-> IF Slot.publish THEN Post(Made) ELSE row.pointer, cursor |-> row.cursor]

RowAfter(row) ==
  [updates |-> Append(row.updates, Made), state |-> NextState(Made, row.state),
   pointer |-> IF Slot.publish THEN Post(Made) ELSE row.pointer, cursor |-> open.input.exposure.after]

(* commit_success, then the lease is given back.                            *)
Commit(p) ==
  /\ Holds(p, "landed")
  /\ IF MayCommit
     THEN /\ log' = Append(log, [event |-> Event, input |-> open.input, by |-> p])
          /\ rows' = [rows EXCEPT ![Slot.agent] = RowAfter(@)]
          /\ posts' = IF Slot.publish THEN Append(posts, Post(Made)) ELSE posts
          /\ open' = NoEvent
          /\ Wrote(p, [pipe[p] EXCEPT !.at = "committed", !.own = Len(log'),
                          !.request = None, !.started = 0, !.response = None])
     ELSE Step(p, Ended(pipe[p], "inconsistent")) /\ UNCHANGED <<log, rows, posts, open>>
  /\ Free(p)
  /\ UNCHANGED <<cell, stamp>>

(* _advance_run_context_after_commit, outside the lease: the last committed *)
(* event must be the one this process committed; a context is extended by   *)
(* what it has not seen.                                                    *)
Extended(r) ==
  [r EXCEPT !.index = NextOrdinal, !.context = IF @ = NoContext THEN @ ELSE NextOrdinal]
AdvanceContext(p) ==
  /\ pipe[p].at = "committed"
  /\ LET r == Extended(pipe[p])
     IN IF pipe[p].own # NextOrdinal
        THEN Step(p, Ended([pipe[p] EXCEPT !.index = NextOrdinal], "overtaken"))
        ELSE IF ~ContextValid(Committed(NextOrdinal), cell.slots)
        THEN Step(p, Ended(pipe[p], "inconsistent"))
        ELSE Step(p, Ended(r, "committed"))
  /\ UNCHANGED <<cell, store>>

(* The operator authorizes one more attempt of the halted event.            *)
Authorize ==
  /\ lease = None /\ open.phase = "failed" /\ Len(open.attempts) < MaxAttempts
  /\ open' = [open EXCEPT !.phase = "authorized", !.request = None, !.started = 0, !.response = None]
  /\ pipe' = [q \in Process |-> IF pipe[q].at = "closed" THEN pipe[q] ELSE [pipe[q] EXCEPT !.news = TRUE]]
  /\ UNCHANGED <<cell, log, rows, posts, stamp, lease>>

PipelineStep(p) ==
  \/ Start(p) \/ Persist(p) \/ Finish(p) \/ Commit(p) \/ AdvanceContext(p)
=============================================================================
