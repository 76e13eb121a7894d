-------------------------------- MODULE Feed --------------------------------
(***************************************************************************)
(* Which public posts an agent is shown (feed.py).  An agent reads its     *)
(* neighbours' posts when it is activated.  The cursor says how far it has *)
(* scanned; what it scanned and was not shown is gone for good.            *)
(***************************************************************************)
EXTENDS AgentState

CONSTANT Never     \* no event ordinal: the cursor of an agent that was never activated

ASSUME FeedAssumption == Never \in Int /\ Never < RoundZero

(* FeedCursor.initial, its invariant, and advance                           *)
InitialCursor(agent) == [agent |-> agent, last |-> Never, count |-> 0]

CursorValid(cursor) == (cursor.count = 0) = (cursor.last = Never)

MayAdvance(cursor, ordinal) == ordinal > cursor.last
Advance(cursor, ordinal) == [cursor EXCEPT !.last = ordinal, !.count = @ + 1]

(* RunStorage.unread_public_posts_for_agents: the posts are stored in the   *)
(* order they were made, round 0 first.                                     *)
Unread(posts, neighbours, last) ==
  SelectSeq(posts, LAMBDA x : x.author \in neighbours /\ (last = Never \/ x.ordinal > last))

(* _validate_timeline                                                       *)
TimelineValid(posts, ordinal) ==
  /\ IsInjective(posts)
  /\ \A i \in DOMAIN posts :
       /\ posts[i].ordinal < ordinal
       /\ i > 1 => \/ posts[i - 1].ordinal = RoundZero
                   \/ posts[i - 1].ordinal < posts[i].ordinal

(* What select_unread_feed refuses.                                         *)
MaySelect(posts, neighbours, cursor, ordinal) ==
  /\ ordinal > cursor.last
  /\ TimelineValid(posts, ordinal)
  /\ cursor.agent \notin neighbours
  /\ \A i \in DOMAIN posts :
       /\ posts[i].author \in neighbours
       /\ cursor.count > 0 => posts[i].ordinal # RoundZero /\ posts[i].ordinal > cursor.last

(* The seeded shuffle of the round-0 posts: order lists the other agents.   *)
Shuffled(posts, order) ==
  LET authors == {posts[i].author : i \in DOMAIN posts}
      listed == SelectSeq(order, LAMBDA a : a \in authors)
  IN [k \in DOMAIN listed |-> CHOOSE x \in ToSet(posts) : x.author = listed[k]]

(* Everything unread is scanned; the last posts are shown.  A round-0 post  *)
(* has the lowest priority; the rest go by age.                             *)
Priority(posts, order) ==
  Shuffled(SelectSeq(posts, LAMBDA x : x.ordinal = RoundZero), order)
    \o SelectSeq(posts, LAMBDA x : x.ordinal # RoundZero)
LastOf(sequence, capacity) ==
  SubSeq(sequence, IF Len(sequence) > capacity THEN Len(sequence) - capacity + 1 ELSE 1, Len(sequence))

(* select_unread_feed and build_exposure_record; the slots in which the     *)
(* posts are displayed are left out.                                        *)
Exposure(posts, cursor, ordinal, capacity, order) ==
  [agent |-> cursor.agent, ordinal |-> ordinal, capacity |-> capacity,
   before |-> cursor, after |-> Advance(cursor, ordinal),
   scanned |-> posts, shown |-> LastOf(Priority(posts, order), capacity)]

Expired(exposure) == ToSet(exposure.scanned) \ ToSet(exposure.shown)

(* ExposureSelection.__post_init__                                          *)
ExposureValid(x) ==
  /\ MayAdvance(x.before, x.ordinal) /\ x.after = Advance(x.before, x.ordinal)
  /\ IsInjective(x.scanned) /\ IsInjective(x.shown)
  /\ ToSet(x.shown) \subseteq ToSet(x.scanned)
  /\ Len(x.shown) <= x.capacity
=============================================================================
