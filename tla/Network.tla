------------------------------ MODULE Network -------------------------------
(***************************************************************************)
(* The graphs of a matched seed (network.py): the Watts-Strogatz graph,    *)
(* its shadow, in which every agent keeps its degree and loses every       *)
(* neighbour, and the structural gate.  The shadow is built by a bounded   *)
(* search of random edge swaps that may fail, start over and give up.      *)
(*                                                                         *)
(* A graph is a set of edges, an edge a set of two nodes.  What a seeded   *)
(* stream draws is a choice.                                               *)
(***************************************************************************)
EXTENDS Integers, FiniteSets, Sequences

CONSTANTS
  Orders,      \* what is asked for: [n, k, generated, nulls, attempts, budget]
  NoEdge       \* no edge is being removed

(* _validate_ws_parameters and the checks of the budgets.                   *)
OrderValid(o) ==
  /\ o.n \in Nat /\ o.n >= 3
  /\ o.k \in 2 .. o.n - 1 /\ o.k % 2 = 0
  /\ o.attempts \in Nat \ {0} /\ o.budget \in Nat \ {0}
Nodes(o) == 0 .. o.n - 1
Edge(o, e) == \E u, v \in Nodes(o) : u # v /\ e = {u, v}
(* networkx returns a simple graph.                                         *)
ASSUME NetworkAssumption ==
  \A o \in Orders :
    /\ OrderValid(o)
    /\ IsFiniteSet(o.generated) /\ \A e \in o.generated : Edge(o, e)
    /\ NoEdge \notin o.generated

VARIABLES
  order,       \* what is asked for; "generated" is what networkx answers
  stage,       \* "asked", "ws", "round", "trial", "shadow", "gated", "refused", "raised"
  graph,       \* the graph of the current attempt
  removed,     \* the edge the current round wants to remove
  tried,       \* the swaps this round has tried
  audits       \* per attempt: swaps accepted, connectivity checks, trials, edges left

networkVars == <<order, stage, graph, removed, tried, audits>>

-----------------------------------------------------------------------------
Degree(g, node) == Cardinality({e \in g : node \in e})

(* nx.is_connected: every part of the nodes has an edge to the rest.        *)
Connected(o, g) ==
  \A part \in (SUBSET Nodes(o)) \ {{}, Nodes(o)} : \E e \in g : e \intersect part # {} /\ ~(e \subseteq part)

(* A graph clusters, on average, exactly when it has a triangle.            *)
Clusters(g) == \E e, f \in g : e # f /\ e \intersect f # {} /\ (e \union f) \ (e \intersect f) \in g
RingLattice(o) == {{i, (i + j) % o.n} : i \in Nodes(o), j \in 1 .. o.k \div 2}

(* The edges both graphs have: those the shadow must lose.                  *)
Overlap == order.generated \intersect graph

NewAudit == [accepted |-> 0, checks |-> 0, trials |-> 0, left |-> 0]
Current == audits[Len(audits)]
Recorded(audit) == [audits EXCEPT ![Len(audits)] = audit]

NetworkInit ==
  /\ order \in Orders /\ stage = "asked"
  /\ graph = {} /\ removed = NoEdge /\ tried = {} /\ audits = <<>>

(* build_ws_artifact: what the generator returns is refused unless it is a  *)
(* connected graph of n nodes and nk/2 edges.                               *)
BuildWs ==
  /\ stage = "asked"
  /\ stage' = IF Cardinality(order.generated) = (order.n * order.k) \div 2 /\ Connected(order, order.generated)
              THEN "ws" ELSE "refused"
  /\ UNCHANGED <<order, graph, removed, tried, audits>>

(* build_shadow_artifact: a node needs as many other neighbours as it has.  *)
BeginShadow ==
  /\ stage = "ws"
  /\ IF \A v \in Nodes(order) : Degree(order.generated, v) <= order.n - 1 - Degree(order.generated, v)
     THEN stage' = "round" /\ graph' = order.generated /\ audits' = <<NewAudit>>
     ELSE stage' = "refused" /\ UNCHANGED <<graph, audits>>
  /\ UNCHANGED <<order, removed, tried>>

(* A round: an edge of the overlap is to go.                                *)
PickRemoved ==
  /\ stage = "round"
  /\ \E e \in Overlap : removed' = e
  /\ stage' = "trial" /\ tried' = {}
  /\ UNCHANGED <<order, graph, audits>>

(* The two ways to cross the ends of the edge with those of another one,    *)
(* in either order, the second before any other edge's.                     *)
Swaps(second) ==
  {[second |-> second, made |-> {{q[1], q[3]}, {q[2], q[4]}}] :
    q \in {q \in removed \X removed \X second \X second : q[1] # q[2] /\ q[3] # q[4]}}
Untried ==
  LET halfTried == {second \in graph \ {removed} : \E s \in tried : s.second = second /\ ~(Swaps(second) \subseteq tried)}
      candidates == IF halfTried # {} THEN halfTried ELSE graph \ {removed}
  IN (UNION {Swaps(second) : second \in candidates}) \ tried
Exhausted == Untried = {} \/ Cardinality(tried) >= order.budget

(* Mutant: an edge that is already there is added again.                    *)
AdmissibleTwice(swap) ==
  /\ \A e \in swap.made : Cardinality(e) = 2
  /\ Cardinality(swap.made) = 2
  /\ swap.made \intersect order.generated = {}
(* Mutant: an edge of the original graph may come back.                     *)
AdmissibleAgain(swap) ==
  /\ \A e \in swap.made : Cardinality(e) = 2
  /\ Cardinality(swap.made) = 2
  /\ swap.made \intersect (graph \ {removed, swap.second}) = {}
(* Neither a loop nor an edge that is forbidden or already there.           *)
Admissible(swap) ==
  /\ \A e \in swap.made : Cardinality(e) = 2
  /\ Cardinality(swap.made) = 2
  /\ swap.made \intersect order.generated = {}
  /\ swap.made \intersect (graph \ {removed, swap.second}) = {}

Swapped(swap) == (graph \ {removed, swap.second}) \union swap.made

(* Mutant: a swap that disconnects the graph is not undone.                 *)
SettleSwapped(swap) == IF Admissible(swap) THEN Swapped(swap) ELSE graph
(* The graph after a trial: a swap that disconnects it is undone.           *)
Settle(swap) == IF Admissible(swap) /\ Connected(order, Swapped(swap)) THEN Swapped(swap) ELSE graph

(* What a trial adds to the audit of its attempt.                           *)
Tested(admissible, accepted) ==
  [accepted |-> Current.accepted + (IF accepted THEN 1 ELSE 0),
   checks |-> Current.checks + (IF admissible THEN 1 ELSE 0),
   trials |-> Current.trials + 1, left |-> Current.left]

TrySwap ==
  /\ stage = "trial" /\ ~Exhausted
  /\ \E swap \in Untried :
       LET admissible == Admissible(swap)
           accepted == admissible /\ Connected(order, Swapped(swap))
       IN /\ graph' = Settle(swap)
          /\ audits' = Recorded(Tested(admissible, accepted))
          /\ stage' = (IF accepted THEN "round" ELSE "trial")
          /\ tried' = IF accepted THEN {} ELSE tried \union {swap}
          /\ removed' = IF accepted THEN NoEdge ELSE removed
  /\ UNCHANGED order

(* No swap was accepted: the attempt fails, and the next one starts over.   *)
AbandonAttempt ==
  /\ stage = "trial" /\ Exhausted
  /\ removed' = NoEdge /\ tried' = {}
  /\ LET failed == Recorded([Current EXCEPT !.left = Cardinality(Overlap)])
     IN IF Len(audits) < order.attempts
        THEN stage' = "round" /\ graph' = order.generated /\ audits' = Append(failed, NewAudit)
        ELSE stage' = "refused" /\ graph' = graph /\ audits' = failed
  /\ UNCHANGED order

(* _validate_shadow_artifact: the graph, and the audit of its construction. *)
GraphMatches ==
  /\ \A e \in graph : Edge(order, e)
  /\ Connected(order, graph)
  /\ \A v \in Nodes(order) : Degree(graph, v) = Degree(order.generated, v)
  /\ Overlap = {}
Total(field) ==
  LET upTo[i \in 0 .. Len(audits)] == IF i = 0 THEN 0 ELSE upTo[i - 1] + audits[i][field]
  IN upTo[Len(audits)]
AuditMatches ==
  LET most == Cardinality(graph) * order.budget
      used == Len(audits)
  IN /\ used \in 1 .. order.attempts
     /\ Total("accepted") <= Total("checks") /\ Total("checks") <= Total("trials")
     /\ Total("trials") <= used * most
     /\ \A i \in DOMAIN audits : audits[i].trials <= most /\ (audits[i].left = 0 <=> i = used)

(* No edge is left: the artifact is built and validated.                    *)
FinishShadow ==
  /\ stage = "round" /\ Overlap = {}
  /\ stage' = IF GraphMatches /\ AuditMatches THEN "shadow" ELSE "rejected"
  /\ UNCHANGED <<order, graph, removed, tried, audits>>

(* build_structural_gate_artifact: the random graphs it compares with must  *)
(* be connected and cluster.  It divides by the clustering of the ring.     *)
Gate ==
  /\ stage = "ws"
  /\ stage' = IF \E g \in order.nulls : ~Connected(order, g) THEN "refused"
              ELSE IF \A g \in order.nulls : ~Clusters(g) THEN "refused"
              ELSE IF ~Clusters(RingLattice(order)) THEN "raised"
              ELSE "gated"
  /\ UNCHANGED <<order, graph, removed, tried, audits>>

NetworkNext ==
  \/ BuildWs \/ BeginShadow \/ PickRemoved \/ TrySwap \/ AbandonAttempt \/ FinishShadow \/ Gate

-----------------------------------------------------------------------------
(* The search and the validator agree: whatever swaps were drawn, undone    *)
(* and given up, a search that ends with no edge left has kept every degree *)
(* and the connection, and its audit is within the bounds the validator     *)
(* computes from the budget.  The artifact is never rejected by its builder.*)
ShadowPassesItsValidator == stage # "rejected"

(* What a search has at hand is always a graph of the same degrees and in   *)
(* one piece: a swap is undone, or it exchanged two pairs of ends.          *)
DegreesAreKept ==
  stage \in {"round", "trial"} =>
    Connected(order, graph) /\ \A v \in Nodes(order) : Degree(graph, v) = Degree(order.generated, v)

(* Every accepted swap shrinks the overlap: an attempt has no more rounds   *)
(* than the graph has edges.                                                *)
RoundsAreBounded ==
  stage \in {"round", "trial"} => Current.accepted + Cardinality(Overlap) <= Cardinality(order.generated)
=============================================================================
