---------------------------- MODULE ProcessAudit -----------------------------
(***************************************************************************)
(* The process audit of a mock run (process_audit.py).  It is built from   *)
(* one committed snapshot, at a boundary of whole sweeps: the private      *)
(* states, the public stock and what was published in each sweep, what     *)
(* the agents were shown, and how the counts of the labels moved.          *)
(***************************************************************************)
EXTENDS MockRun

Population == Len(cell.roster)
Boundary == Len(log)

(* build_mock_process_audit is given the ordinal of the boundary.           *)
MayAudit ==
  /\ Boundary > 0 /\ Boundary % Population = 0
  /\ open.phase = "none"

-----------------------------------------------------------------------------
(* Evidence *)

LaterUpdates(agent) == Tail(rows[agent].updates)
UpdateOrdinals(agent) == {u.ordinal : u \in ToSet(LaterUpdates(agent))}
PostsBy(agent) == SelectSeq(posts, LAMBDA x : x.author = agent)
PostOrdinals(agent) == {x.ordinal : x \in ToSet(Tail(PostsBy(agent)))}

(* The committed records cover the boundary exactly, and agree: one update   *)
(* per event, of its agent, and a post where the schedule says publish.     *)
EvidenceCovers ==
  /\ UNION {UpdateOrdinals(a) : a \in Agents} = 0 .. Boundary - 1
  /\ \A a, b \in Agents : a # b => UpdateOrdinals(a) \intersect UpdateOrdinals(b) = {}
  /\ \A a \in Agents : PostsBy(a) # <<>> /\ Head(PostsBy(a)).ordinal = RoundZero
  /\ \A i \in 1 .. Boundary :
       LET event == log[i].event
       IN /\ event.ordinal = i - 1
          /\ i - 1 \in UpdateOrdinals(event.agent)
          /\ event.publish = (\E a \in Agents : i - 1 \in PostOrdinals(a))
          /\ log[i].input.publish = event.publish

UpdateAt(n) == CHOOSE u \in ToSet(LaterUpdates(log[n + 1].event.agent)) : u.ordinal = n
PostAt(n) == CHOOSE x \in ToSet(posts) : x.ordinal = n

(* Every state and post replays from the updates.                           *)
RoundZeroView ==
  [state |-> [a \in Agents |-> FirstState(Head(rows[a].updates))],
   stock |-> [a \in Agents |-> Head(PostsBy(a))]]
ReplayedStates ==
  LET f[n \in 0 .. Boundary] ==
        IF n = 0 THEN RoundZeroView.state
        ELSE [f[n - 1] EXCEPT ![log[n].event.agent] = NextState(UpdateAt(n - 1), @)]
  IN f
ReplayedStock ==
  LET f[n \in 0 .. Boundary] ==
        IF n = 0 THEN RoundZeroView.stock
        ELSE IF ~log[n].event.publish THEN f[n - 1]
        ELSE [f[n - 1] EXCEPT ![log[n].event.agent] = PostAt(n - 1)]
  IN f
ReplayHolds ==
  \A n \in 1 .. Boundary :
    /\ MayFollow(UpdateAt(n - 1), ReplayedStates[n - 1][log[n].event.agent])
    /\ log[n].event.publish => PostAt(n - 1) = Post(UpdateAt(n - 1))

-----------------------------------------------------------------------------
(* The audit of a sweep *)

LabelCounts(records) ==
  [label \in Stances |-> Cardinality({i \in DOMAIN records : records[i].stance = label})]
Delta(current, baseline) == [label \in Stances |-> current[label] - baseline[label]]

(* _process_summary: what the agents of these events were shown.            *)
ShownIn(sweep) == FlattenSeq([i \in DOMAIN sweep |-> sweep[i].exposure.shown])
AgesIn(sweep) ==
  FlattenSeq([i \in DOMAIN sweep |->
    LET x == sweep[i].exposure
        events == SelectSeq(x.shown, LAMBDA post : post.ordinal # RoundZero)
    IN [j \in DOMAIN events |-> x.ordinal - events[j].ordinal]])
ProcessSummary(sweep) ==
  LET shown == ShownIn(sweep)
      sources == {post.author : post \in ToSet(shown)}
  IN [counts |-> [i \in DOMAIN sweep |-> Len(sweep[i].exposure.shown)],
      ages |-> AgesIn(sweep),
      roundZero |-> Len(SelectSeq(shown, LAMBDA post : post.ordinal = RoundZero)),
      activity |-> [a \in sources |-> Len(SelectSeq(shown, LAMBDA post : post.author = a))],
      repeated |-> Len(shown) - Cardinality(sources),
      empty |-> Cardinality({i \in DOMAIN sweep : sweep[i].exposure.shown = <<>>}),
      expired |-> MapThenSumSet(LAMBDA i : Cardinality(Expired(sweep[i].exposure)), DOMAIN sweep)]
SummaryValid(sweep) ==
  /\ \A i \in DOMAIN sweep : sweep[i].exposure.ordinal = sweep[1].exposure.ordinal + i - 1
  /\ \A i \in DOMAIN AgesIn(sweep) : AgesIn(sweep)[i] > 0
  /\ \A post \in ToSet(ShownIn(sweep)) : post.author \in Agents

SweepInputs(k) == [i \in 1 .. Population |-> log[(k - 1) * Population + i].input]

(* Mutant: what was published in the sweeps before is not put aside.        *)
FlowSinceStart(k) == SelectSeq(posts, LAMBDA x : x.ordinal \in 0 .. k * Population - 1)
Flow(k) == SelectSeq(posts, LAMBDA x : x.ordinal \in (k - 1) * Population .. k * Population - 1)

Sweep(k) ==
  LET n == k * Population
      state == ReplayedStates[n]
      stock == ReplayedStock[n]
  IN [index |-> k, boundary |-> n, state |-> state, stock |-> stock, flow |-> Flow(k),
      process |-> ProcessSummary(SweepInputs(k)),
      stateDelta |-> Delta(LabelCounts(state), LabelCounts(RoundZeroView.state)),
      stockDelta |-> Delta(LabelCounts(stock), LabelCounts(RoundZeroView.stock)),
      flowDelta |-> Delta(LabelCounts(Flow(k)), LabelCounts(RoundZeroView.stock))]
Audit ==
  [boundary |-> Boundary, roundZero |-> RoundZeroView,
   sweeps |-> [k \in 1 .. Boundary \div Population |-> Sweep(k)]]

(* build_mock_comparable_run_projection: the events, the final rows and the *)
(* audit without what is particular to one launch.                          *)
ExposureSemantics(x) ==
  [capacity |-> x.capacity, sources |-> [i \in DOMAIN x.shown |-> x.shown[i].author],
   ordinals |-> [i \in DOMAIN x.shown |-> x.shown[i].ordinal], expired |-> Cardinality(Expired(x))]
Projection ==
  [events |-> [i \in 1 .. Boundary |->
     [ordinal |-> i - 1, agent |-> log[i].event.agent, publish |-> log[i].event.publish,
      exposure |-> ExposureSemantics(log[i].input.exposure), attempts |-> log[i].event.attempts]],
   state |-> [a \in Agents |-> rows[a].state], stock |-> [a \in Agents |-> Last(PostsBy(a))],
   cursor |-> [a \in Agents |-> rows[a].cursor], audit |-> Audit]

-----------------------------------------------------------------------------
ShownCount(k) == Len(ShownIn(SweepInputs(k)))
Sweeps == 1 .. Boundary \div Population
SumOver(Value(_)) == MapThenSumSet(Value, Sweeps)

(* At every boundary at which it may be asked for, the audit of a run that  *)
(* several processes worked on is accepted by its own checks, and balances: *)
(* its last sweep is where the rows stand, the sweeps' flows are together   *)
(* everything published since round 0, each once, and what was shown and    *)
(* what expired are together every post that was ever unread by its reader. *)
AuditBalances ==
  JustCommitted /\ MayAudit =>
    LET audit == Audit
    IN /\ EvidenceCovers /\ ReplayHolds
       /\ \A k \in Sweeps : SummaryValid(SweepInputs(k))
       /\ Last(audit.sweeps).state = Projection.state
       /\ Last(audit.sweeps).stock = [a \in Agents |-> rows[a].pointer]
       /\ Projection.stock = Last(audit.sweeps).stock
       /\ FlattenSeq([k \in Sweeps |-> audit.sweeps[k].flow])
            = SelectSeq(posts, LAMBDA x : x.ordinal # RoundZero)
       /\ LET Seen(k) == ShownCount(k) + audit.sweeps[k].process.expired
          IN SumOver(Seen) = Cardinality(UNION {{<<k, x>> : x \in UnreadBy(k)} : k \in 0 .. Boundary - 1})
=============================================================================
