----------------------------- MODULE AgentState -----------------------------
(***************************************************************************)
(* What a run remembers of an agent (state.py, memory.py): the complete    *)
(* history of its updates, the current private state, what it has made     *)
(* public, and the last few updates a prompt shows it.  Records are        *)
(* identified by the ordinal of the event that made them.                  *)
(***************************************************************************)
EXTENDS Integers, Sequences, SequencesExt, FiniteSetsExt

(* A record of the initialization has no event; None sorts before event 0.  *)
RoundZero == -1

(* PrivateUpdate.create                                                     *)
Update(agent, ordinal, index, stance, published) ==
  [agent |-> agent, ordinal |-> ordinal, index |-> index, stance |-> stance, published |-> published]

(* PrivateUpdate.__post_init__: the first update of an agent has no event    *)
(* and is public; every later one has both an event and a place behind it.  *)
UpdateValid(u) ==
  IF u.ordinal = RoundZero THEN u.index = 0 /\ u.published ELSE u.index > 0

(* PrivateState.from_update, for the first update and for a later one.      *)
FirstState(u) == [agent |-> u.agent, ordinal |-> u.ordinal, stance |-> u.stance, count |-> 1]

MayFollow(u, state) ==
  /\ u.agent = state.agent
  /\ u.index = state.count
  /\ u.ordinal > state.ordinal
NextState(u, state) == [state EXCEPT !.ordinal = u.ordinal, !.stance = u.stance, !.count = @ + 1]

(* PublicPost.from_private_update                                           *)
Post(u) == [author |-> u.agent, ordinal |-> u.ordinal, stance |-> u.stance]

(* LatestPublicPointer.from_post                                            *)
MayPoint(post, pointer) == post.author = pointer.author /\ post.ordinal > pointer.ordinal

(* validate_private_state and validate_public_post: a record against the    *)
(* update it was made from.                                                 *)
StateOfUpdate(state, u) ==
  state = [agent |-> u.agent, ordinal |-> u.ordinal, stance |-> u.stance, count |-> u.index + 1]
PostOfUpdate(post, u) == u.published /\ post = Post(u)

(* build_memory_view refuses a history that is not the complete one ...      *)
HistoryComplete(history, agent) ==
  /\ history # <<>>
  /\ \A i \in DOMAIN history :
       /\ history[i].agent = agent /\ history[i].index = i - 1
       /\ (i = 1) = (history[i].ordinal = RoundZero)
       /\ i > 1 => history[i].ordinal > history[i - 1].ordinal

(* ... and shows the latest of it.                                          *)
MemoryView(history, window) ==
  SubSeq(history, IF Len(history) > window THEN Len(history) - window + 1 ELSE 1, Len(history))

(* The rows of an agent when its round-0 update is stored.                  *)
InitialRows(agent, stance) ==
  LET u == Update(agent, RoundZero, 0, stance, TRUE)
  IN [updates |-> <<u>>, state |-> FirstState(u), pointer |-> Post(u)]
=============================================================================
