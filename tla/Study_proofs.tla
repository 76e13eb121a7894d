---------------------------- MODULE Study_proofs ----------------------------
(***************************************************************************)
(* Proofs about the programs that Study puts side by side, and about the   *)
(* handles on the run store.                                               *)
(*                                                                         *)
(* The search for a shadow (Network), for every graph it is given: each    *)
(* accepted swap takes at least one edge out of the overlap, so an attempt *)
(* has at most one accepted swap per edge of the WS graph, which bounds the*)
(* rounds that the code's loop does not count; no swap changes a node's    *)
(* degree; and the artifact the search ends with passes the validator of   *)
(* the builder.                                                            *)
(*                                                                         *)
(* The smoke run (Smoke), for every number of prompts, of diagnostics, of  *)
(* stops and of commands run by however many operators: a result that says *)
(* "passed" stands for one pass through the service.                       *)
(*                                                                         *)
(* The collection of the diagnostic (Diagnostic), for every manifest and   *)
(* however many processes: what the verifier accepts is one whole run, each*)
(* event of which was sent once.                                           *)
(*                                                                         *)
(* The schedule of attention (Schedule), for every plan: it is never       *)
(* rejected by the record it is frozen into, agents act in proportion to   *)
(* their attention, and one that never publishes has no event that does.   *)
(*                                                                         *)
(* The bundle and the cells of a matched seed (Matrix), for every family of*)
(* artifacts mixed in, edit and drift: what is called built or valid does  *)
(* match.                                                                  *)
(*                                                                         *)
(* The population (Population), for every survey: none of its roundings    *)
(* loses an agent. The sums it needs are a section of their own.           *)
(*                                                                         *)
(* The handles (StoreHandle), for any number of them and any bounds: what  *)
(* execution_state() answers is what the database holds.                   *)
(***************************************************************************)
EXTENDS
  Network, Smoke, Diagnostic, Schedule, Matrix, Population, StoreHandle,
  FiniteSetTheorems, SequenceTheorems, WellFoundedInduction, TLAPS

NetworkSpec == NetworkInit /\ [][NetworkNext]_networkVars

Audit == [accepted : Nat, checks : Nat, trials : Nat, left : Nat]
Searching == stage \in {"round", "trial"}

(* The strengthening: the audits are there, and the edge a round removes is *)
(* one of the overlap until it is gone.                                     *)
SearchInv ==
  /\ order \in Orders
  /\ audits \in Seq(Audit)
  /\ Searching => Len(audits) > 0
  /\ stage = "trial" => removed \in Overlap
  /\ RoundsAreBounded

(* The overlap is a part of a finite graph.                                 *)
LEMMA OverlapIsFinite ==
  ASSUME order \in Orders
  PROVE  /\ IsFiniteSet(order.generated) /\ IsFiniteSet(Overlap)
         /\ Cardinality(order.generated) \in Nat /\ Cardinality(Overlap) \in Nat
<1>1. IsFiniteSet(order.generated)
  BY NetworkAssumption
<1>2. IsFiniteSet(Overlap)
  BY <1>1, FS_Subset DEF Overlap
<1>3. QED
  BY <1>1, <1>2, FS_CardinalityType

(* An admissible swap takes the removed edge out of the overlap and puts    *)
(* none in.                                                                 *)
LEMMA SwapShrinksOverlap ==
  ASSUME NEW swap, order \in Orders, removed \in Overlap, Admissible(swap)
  PROVE  Cardinality(order.generated \intersect Swapped(swap)) + 1 <= Cardinality(Overlap)
<1> DEFINE rest == order.generated \intersect Swapped(swap)
<1>1. rest \subseteq Overlap \ {removed}
  BY DEF Overlap, Swapped, Admissible
<1>2. IsFiniteSet(Overlap) /\ Cardinality(Overlap) \in Nat
  BY OverlapIsFinite
<1>3. IsFiniteSet(Overlap \ {removed}) /\ Cardinality(Overlap \ {removed}) = Cardinality(Overlap) - 1
  BY <1>2, FS_RemoveElement
<1>4. Cardinality(rest) <= Cardinality(Overlap \ {removed}) /\ IsFiniteSet(rest)
  BY <1>1, <1>3, FS_Subset
<1>5. Cardinality(rest) \in Nat
  BY <1>4, FS_CardinalityType
<1> HIDE DEF rest
<1>6. Cardinality(rest) + 1 <= Cardinality(Overlap)
  BY <1>2, <1>3, <1>4, <1>5
<1>7. QED
  BY <1>6 DEF rest

(* The audit of the current attempt can be replaced.                        *)
LEMMA RecordedIsCurrent ==
  ASSUME audits \in Seq(Audit), Len(audits) > 0, NEW audit \in Audit
  PROVE  /\ Recorded(audit) \in Seq(Audit) /\ Len(Recorded(audit)) = Len(audits)
         /\ Recorded(audit)[Len(audits)] = audit
         /\ Current \in Audit
  BY DEF Recorded, Current

LEMMA SearchBegins == NetworkInit => SearchInv
  BY DEF NetworkInit, SearchInv, Searching, RoundsAreBounded

(* A step of the builder keeps the bound.                                   *)
LEMMA SearchGoesOn == SearchInv /\ [NetworkNext]_networkVars => SearchInv'
<1> SUFFICES ASSUME SearchInv, [NetworkNext]_networkVars PROVE SearchInv'
  OBVIOUS
<1> USE DEF SearchInv, Searching
<1>0. /\ IsFiniteSet(order.generated) /\ IsFiniteSet(Overlap)
      /\ Cardinality(order.generated) \in Nat /\ Cardinality(Overlap) \in Nat
  BY OverlapIsFinite
<1>1. CASE BuildWs
  BY <1>1 DEF BuildWs, RoundsAreBounded
<1>2. CASE BeginShadow
  <2>1. CASE stage' = "refused"
    BY <1>2, <2>1 DEF BeginShadow, RoundsAreBounded
  <2>2. CASE stage' = "round"
    <3>1. graph' = order.generated /\ audits' = <<NewAudit>> /\ order' = order
      BY <1>2, <2>2 DEF BeginShadow
    <3>2. Overlap' = order.generated
      BY <3>1 DEF Overlap
    <3>3. audits' \in Seq(Audit) /\ Len(audits') = 1 /\ Current'.accepted = 0
      BY <3>1 DEF NewAudit, Audit, Current
    <3>4. Current'.accepted + Cardinality(Overlap') <= Cardinality(order'.generated)
      BY <1>0, <3>1, <3>2, <3>3
    <3>5. QED
      BY <2>2, <3>1, <3>3, <3>4 DEF RoundsAreBounded
  <2>3. QED
    BY <1>2, <2>1, <2>2 DEF BeginShadow
<1>3. CASE PickRemoved
  <2>1. /\ removed' \in Overlap /\ stage = "round" /\ stage' = "trial"
        /\ UNCHANGED <<order, graph, audits>>
    BY <1>3 DEF PickRemoved
  <2>2. Overlap' = Overlap /\ Current' = Current
    BY <2>1 DEF Overlap, Current
  <2>3. QED
    BY <2>1, <2>2 DEF RoundsAreBounded
<1>4. CASE TrySwap
  <2>1. PICK swap \in Untried :
          LET admissible == Admissible(swap)
              accepted == admissible /\ Connected(order, Swapped(swap))
          IN /\ graph' = Settle(swap)
             /\ audits' = Recorded(Tested(admissible, accepted))
             /\ stage' = (IF accepted THEN "round" ELSE "trial")
             /\ tried' = IF accepted THEN {} ELSE tried \union {swap}
             /\ removed' = IF accepted THEN NoEdge ELSE removed
    BY <1>4 DEF TrySwap
  <2> DEFINE accepted == Admissible(swap) /\ Connected(order, Swapped(swap))
  <2> DEFINE audit == Tested(Admissible(swap), accepted)
  <2>2. stage = "trial" /\ order' = order /\ removed \in Overlap /\ Len(audits) > 0
    BY <1>4 DEF TrySwap
  <2>3. Current \in Audit
    BY <2>2 DEF Current
  <2>4. audit \in Audit /\ audit.accepted = IF accepted THEN Current.accepted + 1 ELSE Current.accepted
    <3> HIDE DEF accepted
    <3>1. Current.trials \in Nat /\ Current.checks \in Nat /\ Current.accepted \in Nat /\ Current.left \in Nat
      BY <2>3 DEF Audit
    <3>2. QED
      BY <3>1 DEF Tested, Audit
  <2>5. audits' = Recorded(audit)
    BY <2>1
  <2>6. audits' \in Seq(Audit) /\ Len(audits') = Len(audits) /\ audits'[Len(audits)] = audit
    BY <2>2, <2>4, <2>5, RecordedIsCurrent
  <2>7. Current' = audit
    BY <2>6 DEF Current
  <2>8. CASE accepted
    <3>1. graph' = Swapped(swap) /\ stage' = "round"
      BY <2>1, <2>8 DEF Settle
    <3>2. Overlap' = order.generated \intersect Swapped(swap)
      BY <2>2, <3>1 DEF Overlap
    <3>3. Cardinality(Overlap') + 1 <= Cardinality(Overlap)
      BY <2>2, <2>8, <3>2, SwapShrinksOverlap
    <3>4. Cardinality(Overlap') \in Nat
      <4>1. IsFiniteSet(Overlap')
        BY <1>0, <3>2, FS_Subset
      <4>2. QED
        BY <4>1, FS_CardinalityType
    <3>5. Current.accepted + Cardinality(Overlap) <= Cardinality(order.generated) /\ Current.accepted \in Nat
      BY <2>2, <2>3 DEF RoundsAreBounded, Audit
    <3>6. Current'.accepted = Current.accepted + 1
      BY <2>4, <2>7, <2>8
    <3>7. Current'.accepted + Cardinality(Overlap') <= Cardinality(order'.generated)
      BY <1>0, <2>2, <3>3, <3>4, <3>5, <3>6
    <3>8. QED
      BY <2>2, <2>6, <3>1, <3>7 DEF RoundsAreBounded
  <2>9. CASE ~accepted
    <3>1. graph' = graph /\ stage' = "trial" /\ removed' = removed
      BY <2>1, <2>9 DEF Settle
    <3>2. Overlap' = Overlap
      BY <2>2, <3>1 DEF Overlap
    <3>3. Current'.accepted = Current.accepted
      BY <2>4, <2>7, <2>9
    <3>4. Current'.accepted + Cardinality(Overlap') <= Cardinality(order'.generated)
      BY <2>2, <3>2, <3>3 DEF RoundsAreBounded
    <3>5. QED
      BY <2>2, <2>6, <3>1, <3>2, <3>4 DEF RoundsAreBounded
  <2>10. QED
    BY <2>8, <2>9
<1>5. CASE AbandonAttempt
  <2> DEFINE failed == Recorded([Current EXCEPT !.left = Cardinality(Overlap)])
  <2>1. stage = "trial" /\ order' = order /\ Len(audits) > 0
    BY <1>5 DEF AbandonAttempt
  <2>2. Current \in Audit
    BY <2>1 DEF Current
  <2>3. [Current EXCEPT !.left = Cardinality(Overlap)] \in Audit
    BY <1>0, <2>2 DEF Audit
  <2>4. failed \in Seq(Audit) /\ Len(failed) = Len(audits)
    BY <2>1, <2>3, RecordedIsCurrent
  <2> HIDE DEF failed
  <2>5. CASE Len(audits) < order.attempts
    <3>1. stage' = "round" /\ graph' = order.generated /\ audits' = Append(failed, NewAudit)
      BY <1>5, <2>5 DEF AbandonAttempt, failed
    <3>2. NewAudit \in Audit /\ NewAudit.accepted = 0
      BY DEF NewAudit, Audit
    <3>3. audits' \in Seq(Audit) /\ Len(audits') = Len(failed) + 1 /\ audits'[Len(failed) + 1] = NewAudit
      BY <2>4, <3>1, <3>2
    <3>4. Current'.accepted = 0 /\ Overlap' = order.generated
      BY <2>1, <3>1, <3>2, <3>3 DEF Current, Overlap
    <3>5. Current'.accepted + Cardinality(Overlap') <= Cardinality(order'.generated)
      BY <1>0, <2>1, <3>4
    <3>6. QED
      BY <2>1, <2>4, <3>1, <3>3, <3>5 DEF RoundsAreBounded
  <2>6. CASE ~(Len(audits) < order.attempts)
    <3>1. stage' = "refused" /\ audits' = failed
      BY <1>5, <2>6 DEF AbandonAttempt, failed
    <3>2. QED
      BY <2>1, <2>4, <3>1 DEF RoundsAreBounded
  <2>7. QED
    BY <2>5, <2>6
<1>6. CASE FinishShadow
  BY <1>6 DEF FinishShadow, RoundsAreBounded
<1>7. CASE Gate
  BY <1>7 DEF Gate, RoundsAreBounded
<1>8. CASE UNCHANGED networkVars
  <2>1. UNCHANGED <<order, stage, graph, removed, audits>>
    BY <1>8 DEF networkVars
  <2>2. Overlap' = Overlap /\ Current' = Current
    BY <2>1 DEF Overlap, Current
  <2>3. QED
    BY <2>1, <2>2 DEF RoundsAreBounded
<1>9. QED
  BY <1>1, <1>2, <1>3, <1>4, <1>5, <1>6, <1>7, <1>8 DEF NetworkNext

(* For every graph, attempt and trial budget: in an attempt the swaps       *)
(* accepted and the edges still to go are together no more than the edges   *)
(* of the WS graph, whatever is drawn (_try_shadow_attempt).                *)
THEOREM SearchIsBounded == NetworkSpec => []RoundsAreBounded
<1>1. SearchInv => RoundsAreBounded
  BY DEF SearchInv
<1>2. QED
  BY <1>1, SearchBegins, SearchGoesOn, PTL DEF NetworkSpec

-----------------------------------------------------------------------------
(* The strengthening for the degrees: the graph is finite, and its edges    *)
(* join two nodes.                                                          *)
DegreeInv ==
  /\ order \in Orders
  /\ stage \in {"ws", "round", "trial"} => Connected(order, order.generated)
  /\ stage \in {"round", "trial"} => IsFiniteSet(graph) /\ \A e \in graph : Edge(order, e)
  /\ stage = "trial" => removed \in Overlap
  /\ DegreesAreKept

(* The ends of an admissible swap are four nodes.                           *)
LEMMA SwapHasFourEnds ==
  ASSUME order \in Orders, removed \in Overlap, \A e \in graph : Edge(order, e),
         NEW swap \in Untried, Admissible(swap)
  PROVE  /\ swap.second \in graph \ {removed}
         /\ swap.made \intersect graph = {}
         /\ \E a, b, c, d \in Nodes(order) :
              /\ removed = {a, b} /\ swap.second = {c, d} /\ swap.made = {{a, c}, {b, d}}
              /\ a # b /\ a # c /\ a # d /\ b # c /\ b # d /\ c # d
<1>1. PICK second \in graph \ {removed} : swap \in Swaps(second)
  BY DEF Untried
<1>2. PICK q \in removed \X removed \X second \X second :
        q[1] # q[2] /\ q[3] # q[4] /\ swap = [second |-> second, made |-> {{q[1], q[3]}, {q[2], q[4]}}]
  BY <1>1 DEF Swaps
<1>3. PICK u, v \in Nodes(order) : u # v /\ removed = {u, v}
  BY DEF Overlap, Edge
<1>4. PICK x, y \in Nodes(order) : x # y /\ second = {x, y}
  BY <1>1 DEF Edge
<1> DEFINE a == q[1]
<1> DEFINE b == q[2]
<1> DEFINE c == q[3]
<1> DEFINE d == q[4]
<1>5. /\ a \in removed /\ b \in removed /\ c \in second /\ d \in second /\ a # b /\ c # d
      /\ swap.second = second /\ swap.made = {{a, c}, {b, d}}
  BY <1>2
<1> HIDE DEF a, b, c, d
<1>6. removed = {a, b} /\ second = {c, d} /\ a \in Nodes(order) /\ b \in Nodes(order) /\ c \in Nodes(order) /\ d \in Nodes(order)
  BY <1>3, <1>4, <1>5
<1>7. a # c /\ b # d
  <2>1. Cardinality({a, c}) = 2 /\ Cardinality({b, d}) = 2
    BY <1>5 DEF Admissible
  <2>2. Cardinality({a}) = 1 /\ Cardinality({b}) = 1
    BY FS_Singleton
  <2>3. a = c => {a, c} = {a}
    OBVIOUS
  <2>4. b = d => {b, d} = {b}
    OBVIOUS
  <2>5. QED
    BY <2>1, <2>2, <2>3, <2>4
<1>8. swap.made \intersect order.generated = {} /\ removed \in order.generated
  BY DEF Admissible, Overlap
<1>9. a # d
  <2>1. a = d => {b, d} = removed
    BY <1>6
  <2>2. QED
    BY <1>5, <1>8, <2>1
<1>10. b # c
  <2>1. b = c => {a, c} = removed
    BY <1>6
  <2>2. QED
    BY <1>5, <1>8, <2>1
<1>11. {a, c} # second /\ {b, d} # second
  BY <1>6, <1>7, <1>9, <1>10, <1>5
<1>12. swap.made \intersect graph = {}
  <2>1. swap.made \intersect (graph \ {removed, second}) = {}
    BY <1>5 DEF Admissible
  <2>2. removed \notin swap.made /\ second \notin swap.made
    BY <1>5, <1>8, <1>11
  <2>3. QED
    BY <2>1, <2>2
<1>13. QED
  BY <1>1, <1>5, <1>6, <1>7, <1>9, <1>10, <1>12

(* One edge of a finite set replaced by another that was not in it.         *)
LEMMA ReplaceOne ==
  ASSUME NEW S, IsFiniteSet(S), NEW x \in S, NEW y, y \notin S
  PROVE  Cardinality((S \ {x}) \union {y}) = Cardinality(S)
<1>1. IsFiniteSet(S \ {x}) /\ Cardinality(S \ {x}) = Cardinality(S) - 1 /\ Cardinality(S) \in Nat
  BY FS_RemoveElement, FS_CardinalityType
<1>2. Cardinality((S \ {x}) \union {y}) = Cardinality(S \ {x}) + 1
  BY <1>1, FS_AddElement
<1>3. QED
  BY <1>1, <1>2

(* A swap leaves every node as many edges as it had.                        *)
LEMMA SwapKeepsDegrees ==
  ASSUME order \in Orders, removed \in Overlap, IsFiniteSet(graph), \A e \in graph : Edge(order, e),
         NEW swap \in Untried, Admissible(swap)
  PROVE  /\ IsFiniteSet(Swapped(swap)) /\ \A e \in Swapped(swap) : Edge(order, e)
         /\ \A v \in Nodes(order) : Degree(Swapped(swap), v) = Degree(graph, v)
<1>1. PICK a, b, c, d \in Nodes(order) :
        /\ removed = {a, b} /\ swap.second = {c, d} /\ swap.made = {{a, c}, {b, d}}
        /\ a # b /\ a # c /\ a # d /\ b # c /\ b # d /\ c # d
  BY SwapHasFourEnds
<1>2. {a, b} \in graph /\ {c, d} \in graph /\ {a, c} \notin graph /\ {b, d} \notin graph
  <2>1. removed \in graph /\ swap.second \in graph /\ swap.made \intersect graph = {}
    BY SwapHasFourEnds DEF Overlap
  <2>2. QED
    BY <1>1, <2>1
<1>3. Swapped(swap) = (graph \ {{a, b}, {c, d}}) \union {{a, c}, {b, d}}
  BY <1>1 DEF Swapped
<1>4. IsFiniteSet(Swapped(swap))
  <2>1. IsFiniteSet(graph \ {{a, b}, {c, d}})
    BY FS_Subset
  <2>2. IsFiniteSet((graph \ {{a, b}, {c, d}}) \union {{a, c}})
    BY <2>1, FS_AddElement
  <2>3. IsFiniteSet(((graph \ {{a, b}, {c, d}}) \union {{a, c}}) \union {{b, d}})
    BY <2>2, FS_AddElement
  <2>4. Swapped(swap) = ((graph \ {{a, b}, {c, d}}) \union {{a, c}}) \union {{b, d}}
    BY <1>3
  <2>5. QED
    BY <2>3, <2>4
<1>5. \A e \in Swapped(swap) : Edge(order, e)
  BY <1>1, <1>3 DEF Edge
<1>6. ASSUME NEW v \in Nodes(order) PROVE Degree(Swapped(swap), v) = Degree(graph, v)
  <2> DEFINE before == {e \in graph : v \in e}
  <2> DEFINE after == {e \in Swapped(swap) : v \in e}
  <2>0. Degree(graph, v) = Cardinality(before) /\ Degree(Swapped(swap), v) = Cardinality(after)
    BY DEF Degree
  <2>1. IsFiniteSet(before)
    BY FS_Subset
  <2>2. CASE v = a
    <3>1. after = (before \ {{a, b}}) \union {{a, c}} /\ {a, b} \in before /\ {a, c} \notin before
      BY <1>1, <1>2, <1>3, <2>2
    <3> HIDE DEF before, after
    <3>2. Cardinality(after) = Cardinality(before)
      BY <2>1, <3>1, ReplaceOne
    <3>3. QED
      BY <2>0, <3>2
  <2>3. CASE v = b
    <3>1. after = (before \ {{a, b}}) \union {{b, d}} /\ {a, b} \in before /\ {b, d} \notin before
      BY <1>1, <1>2, <1>3, <2>3
    <3> HIDE DEF before, after
    <3>2. Cardinality(after) = Cardinality(before)
      BY <2>1, <3>1, ReplaceOne
    <3>3. QED
      BY <2>0, <3>2
  <2>4. CASE v = c
    <3>1. after = (before \ {{c, d}}) \union {{a, c}} /\ {c, d} \in before /\ {a, c} \notin before
      BY <1>1, <1>2, <1>3, <2>4
    <3> HIDE DEF before, after
    <3>2. Cardinality(after) = Cardinality(before)
      BY <2>1, <3>1, ReplaceOne
    <3>3. QED
      BY <2>0, <3>2
  <2>5. CASE v = d
    <3>1. after = (before \ {{c, d}}) \union {{b, d}} /\ {c, d} \in before /\ {b, d} \notin before
      BY <1>1, <1>2, <1>3, <2>5
    <3> HIDE DEF before, after
    <3>2. Cardinality(after) = Cardinality(before)
      BY <2>1, <3>1, ReplaceOne
    <3>3. QED
      BY <2>0, <3>2
  <2>6. CASE v \notin {a, b, c, d}
    <3>1. after = before
      BY <1>3, <2>6
    <3>2. QED
      BY <3>1 DEF Degree
  <2>7. QED
    BY <2>2, <2>3, <2>4, <2>5, <2>6
<1>7. QED
  BY <1>4, <1>5, <1>6

(* A step of the builder keeps the degrees and the connection.              *)
LEMMA DegreesGoOn == DegreeInv /\ [NetworkNext]_networkVars => DegreeInv'
<1> SUFFICES ASSUME DegreeInv, [NetworkNext]_networkVars PROVE DegreeInv'
  OBVIOUS
<1> USE DEF DegreeInv
<1>0. IsFiniteSet(order.generated) /\ \A e \in order.generated : Edge(order, e)
  BY NetworkAssumption
<1>1. CASE BuildWs
  BY <1>1 DEF BuildWs, DegreesAreKept, Connected, Nodes
<1>2. CASE BeginShadow
  <2>1. order' = order /\ stage = "ws"
    BY <1>2 DEF BeginShadow
  <2>2. CASE stage' = "refused"
    BY <2>1, <2>2 DEF DegreesAreKept
  <2>3. CASE stage' = "round"
    <3>1. graph' = order.generated
      BY <1>2, <2>3 DEF BeginShadow
    <3>2. Connected(order, order.generated)
      BY <2>1
    <3>3. Connected(order, graph)' /\ Connected(order, order.generated)'
      BY <2>1, <3>1, <3>2 DEF Connected, Nodes
    <3>4. \A v \in Nodes(order') : Degree(graph', v) = Degree(order'.generated, v)
      BY <2>1, <3>1
    <3>5. QED
      BY <1>0, <2>1, <2>3, <3>1, <3>3, <3>4 DEF DegreesAreKept, Edge, Nodes, Degree
  <2>4. QED
    BY <1>2, <2>2, <2>3 DEF BeginShadow
<1>3. CASE PickRemoved
  <2>1. stage = "round" /\ stage' = "trial" /\ removed' \in Overlap /\ UNCHANGED <<order, graph>>
    BY <1>3 DEF PickRemoved
  <2>2. QED
    BY <2>1 DEF DegreesAreKept, Overlap, Connected, Nodes, Degree, Edge
<1>4. CASE TrySwap
  <2>1. PICK swap \in Untried : graph' = Settle(swap) /\ stage' \in {"round", "trial"}
                                /\ (stage' = "trial" => ~(Admissible(swap) /\ Connected(order, Swapped(swap))) /\ removed' = removed)
    BY <1>4, Zenon DEF TrySwap
  <2>2. stage = "trial" /\ order' = order /\ removed \in Overlap /\ IsFiniteSet(graph) /\ \A e \in graph : Edge(order, e)
    BY <1>4 DEF TrySwap
  <2>3. Connected(order, graph) /\ Connected(order, order.generated)
        /\ \A v \in Nodes(order) : Degree(graph, v) = Degree(order.generated, v)
    BY <2>2 DEF DegreesAreKept
  <2>4. IsFiniteSet(graph') /\ Connected(order, graph') /\ (\A e \in graph' : Edge(order, e))
        /\ \A v \in Nodes(order) : Degree(graph', v) = Degree(order.generated, v)
    <3>1. CASE Admissible(swap) /\ Connected(order, Swapped(swap))
      <4>1. graph' = Swapped(swap)
        BY <2>1, <3>1 DEF Settle
      <4>2. QED
        BY <2>2, <2>3, <3>1, <4>1, SwapKeepsDegrees
    <3>2. CASE ~(Admissible(swap) /\ Connected(order, Swapped(swap)))
      <4>1. graph' = graph
        BY <2>1, <3>2 DEF Settle
      <4>2. QED
        BY <2>2, <2>3, <4>1
    <3>3. QED
      BY <3>1, <3>2
  <2>5. stage' = "trial" => removed' \in Overlap'
    <3>1. SUFFICES ASSUME stage' = "trial" PROVE removed' \in Overlap'
      OBVIOUS
    <3>2. graph' = graph /\ removed' = removed
      BY <2>1, <3>1 DEF Settle
    <3>3. QED
      BY <2>2, <3>2 DEF Overlap
  <2>6. QED
    BY <2>1, <2>2, <2>3, <2>4, <2>5 DEF DegreesAreKept, Connected, Nodes, Degree, Edge
<1>5. CASE AbandonAttempt
  <2>1. stage = "trial" /\ order' = order
    BY <1>5 DEF AbandonAttempt
  <2>2. CASE stage' = "refused"
    BY <2>1, <2>2 DEF DegreesAreKept
  <2>3. CASE stage' = "round" /\ graph' = order.generated
    <3>1. Connected(order, order.generated)
      BY <2>1
    <3>2. QED
      BY <1>0, <2>1, <2>3, <3>1 DEF DegreesAreKept, Connected, Nodes, Degree, Edge
  <2>4. QED
    BY <1>5, <2>2, <2>3 DEF AbandonAttempt
<1>6. CASE FinishShadow
  BY <1>6 DEF FinishShadow, DegreesAreKept
<1>7. CASE Gate
  BY <1>7 DEF Gate, DegreesAreKept
<1>8. CASE UNCHANGED networkVars
  BY <1>8 DEF networkVars, DegreesAreKept, Overlap, Connected, Nodes, Degree, Edge
<1>9. QED
  BY <1>1, <1>2, <1>3, <1>4, <1>5, <1>6, <1>7, <1>8 DEF NetworkNext

(* For every graph, attempt and trial budget: whatever swaps are drawn, the *)
(* graph of a search is connected and every node has the degree it has in   *)
(* the WS graph, so a finished search can only fail its validator's audit.  *)
THEOREM SearchKeepsDegrees == NetworkSpec => []DegreesAreKept
<1>1. NetworkInit => DegreeInv
  BY DEF NetworkInit, DegreeInv, DegreesAreKept
<1>2. DegreeInv => DegreesAreKept
  BY DEF DegreeInv
<1>3. QED
  BY <1>1, <1>2, DegreesGoOn, PTL DEF NetworkSpec
-----------------------------------------------------------------------------
(* Sums over the audits                                                      *)

LEMMA SetInduction ==
  ASSUME NEW T, 0 \in T, \A n \in Nat : n \in T => n + 1 \in T
  PROVE  Nat \subseteq T
<1> SUFFICES ASSUME Nat \ T # {} PROVE FALSE
  OBVIOUS
<1> DEFINE R == {ss \in Nat \X Nat : ss[1] < ss[2]}
<1>1. IsWellFoundedOn(R, Nat)
  BY NatLessThanWellFounded DEF OpToRel
<1>2. \E x \in Nat \ T : \A y \in Nat \ T : <<y, x>> \notin R
  BY <1>1, WFMin
<1>3. PICK x \in Nat \ T : \A y \in Nat \ T : ~(y < x)
  BY <1>2
<1>4. x # 0 /\ x - 1 \in Nat /\ x - 1 < x /\ (x - 1) + 1 = x
  BY <1>3
<1> QED
  BY <1>3, <1>4

(* f is the function upTo of Total.                                         *)
Sums(f, field, n) ==
  f = [i \in 0 .. n |-> IF i = 0 THEN 0 ELSE f[i - 1] + audits[i][field]]

LEMMA SumsExist == \A field : \A n \in Nat : \E f : Sums(f, field, n)
<1> SUFFICES ASSUME NEW field PROVE \A n \in Nat : \E f : Sums(f, field, n)
  OBVIOUS
<1> DEFINE T == {n \in Nat : \E f : Sums(f, field, n)}
<1>1. 0 \in T
  <2>1. Sums([i \in 0 .. 0 |-> 0], field, 0)
    BY DEF Sums
  <2> QED
    BY <2>1
<1>2. ASSUME NEW n \in Nat, n \in T PROVE n + 1 \in T
  <2>1. PICK f : Sums(f, field, n)
    BY <1>2
  <2> DEFINE h == [i \in 0 .. n + 1 |-> IF i = n + 1 THEN f[n] + audits[n + 1][field] ELSE f[i]]
  <2>2. f = [i \in 0 .. n |-> IF i = 0 THEN 0 ELSE f[i - 1] + audits[i][field]]
    BY <2>1 DEF Sums
  <2>3. ASSUME NEW i \in 0 .. n + 1
        PROVE  h[i] = IF i = 0 THEN 0 ELSE h[i - 1] + audits[i][field]
    <3>1. CASE i = n + 1
      BY <3>1
    <3>2. CASE i # n + 1
      <4>1. i \in 0 .. n /\ h[i] = f[i] /\ (i # 0 => i - 1 \in 0 .. n /\ h[i - 1] = f[i - 1])
        BY <3>2
      <4> QED
        BY <2>2, <4>1
    <3> QED
      BY <3>1, <3>2
  <2>4. h = [i \in 0 .. n + 1 |-> h[i]]
    OBVIOUS
  <2> HIDE DEF h
  <2>5. Sums(h, field, n + 1)
    BY <2>3, <2>4 DEF Sums
  <2> QED
    BY <2>5
<1> HIDE DEF T
<1>3. Nat \subseteq T
  BY <1>1, <1>2, SetInduction
<1> QED
  BY <1>3 DEF T

LEMMA TotalIs ==
  ASSUME NEW field, Len(audits) \in Nat
  PROVE  \E f : Sums(f, field, Len(audits)) /\ Total(field) = f[Len(audits)]
<1> DEFINE f == CHOOSE g : Sums(g, field, Len(audits))
<1>1. Sums(f, field, Len(audits))
  BY SumsExist
<1>2. Total(field) = f[Len(audits)]
  BY DEF Total, Sums
<1> QED
  BY <1>1, <1>2

(* A field that is nowhere more than another has no greater total.          *)
LEMMA TotalsCompare ==
  ASSUME NEW low, NEW high, audits \in Seq(Audit), low \in DOMAIN NewAudit, high \in DOMAIN NewAudit,
         \A i \in 1 .. Len(audits) : audits[i][low] <= audits[i][high]
  PROVE  Total(low) <= Total(high) /\ Total(high) \in Nat
<1> DEFINE n == Len(audits)
<1>0. n \in Nat /\ \A i \in 1 .. n : audits[i][low] \in Nat /\ audits[i][high] \in Nat
  <2>1. n \in Nat /\ \A i \in 1 .. n : audits[i] \in Audit
    OBVIOUS
  <2>2. \A a \in Audit : a[low] \in Nat /\ a[high] \in Nat
    BY DEF Audit, NewAudit
  <2> QED
    BY <2>1, <2>2
<1>a. n \in Nat
  BY <1>0
<1>1. PICK f : Sums(f, low, n) /\ Total(low) = f[n]
  BY <1>0, TotalIs
<1>2. PICK g : Sums(g, high, n) /\ Total(high) = g[n]
  BY <1>0, TotalIs
<1>3. /\ \A i \in 1 .. n : f[i] = f[i - 1] + audits[i][low] /\ g[i] = g[i - 1] + audits[i][high]
      /\ f[0] = 0 /\ g[0] = 0
  <2>1. f = [i \in 0 .. n |-> IF i = 0 THEN 0 ELSE f[i - 1] + audits[i][low]]
    BY <1>1 DEF Sums
  <2>2. g = [i \in 0 .. n |-> IF i = 0 THEN 0 ELSE g[i - 1] + audits[i][high]]
    BY <1>2 DEF Sums
  <2> HIDE DEF n
  <2> QED
    BY <1>0, <2>1, <2>2
<1> HIDE DEF n
<1> DEFINE T == {i \in Nat : i <= n => f[i] \in Nat /\ g[i] \in Nat /\ f[i] <= g[i]}
<1>4. 0 \in T
  BY <1>3
<1>5. ASSUME NEW i \in Nat, i \in T PROVE i + 1 \in T
  <2>1. CASE i + 1 <= n
    <3>1. i + 1 \in 1 .. n /\ (i + 1) - 1 = i
      <4> HIDE DEF T
      <4> QED
        BY <2>1, <1>a
    <3>2. f[i + 1] = f[i] + audits[i + 1][low] /\ g[i + 1] = g[i] + audits[i + 1][high]
      BY <3>1, <1>3
    <3>3. f[i] \in Nat /\ g[i] \in Nat /\ f[i] <= g[i]
      BY <1>5, <2>1, <1>0
    <3>4. audits[i + 1][low] <= audits[i + 1][high] /\ audits[i + 1][low] \in Nat /\ audits[i + 1][high] \in Nat
      BY <3>1, <1>0 DEF n
    <3>5. f[i + 1] \in Nat /\ g[i + 1] \in Nat /\ f[i + 1] <= g[i + 1]
      <4> HIDE DEF T
      <4>1. PICK a, b, c, d : a = f[i] /\ b = g[i] /\ c = audits[i + 1][low] /\ d = audits[i + 1][high]
        OBVIOUS
      <4>2. a \in Nat /\ b \in Nat /\ c \in Nat /\ d \in Nat /\ a <= b /\ c <= d
        BY <3>3, <3>4, <4>1
      <4>3. a + c \in Nat /\ b + d \in Nat /\ a + c <= b + d
        BY <4>2
      <4> QED
        BY <3>2, <4>1, <4>3
    <3> QED
      BY <3>5
  <2>2. CASE ~(i + 1 <= n)
    BY <2>2
  <2> QED
    BY <2>1, <2>2
<1> HIDE DEF T
<1>6. n \in T
  BY <1>4, <1>5, <1>0, SetInduction
<1> QED
  BY <1>6, <1>1, <1>2, <1>0 DEF T

LEMMA TotalIsBounded ==
  ASSUME NEW most \in Nat, audits \in Seq(Audit), \A i \in 1 .. Len(audits) : audits[i].trials <= most
  PROVE  Total("trials") <= Len(audits) * most
<1> DEFINE n == Len(audits)
<1>0. n \in Nat /\ \A i \in 1 .. n : audits[i]["trials"] \in Nat /\ audits[i]["trials"] <= most
  <2>1. n \in Nat /\ \A i \in 1 .. n : audits[i] \in Audit
    OBVIOUS
  <2> QED
    BY <2>1 DEF Audit
<1>a. n \in Nat
  BY <1>0
<1>1. PICK f : Sums(f, "trials", n) /\ Total("trials") = f[n]
  BY <1>0, TotalIs
<1> HIDE DEF n
<1>2. f[0] = 0 /\ \A i \in 1 .. n : f[i] = f[i - 1] + audits[i]["trials"]
  <2>1. f = [i \in 0 .. n |-> IF i = 0 THEN 0 ELSE f[i - 1] + audits[i]["trials"]]
    BY <1>1 DEF Sums
  <2> QED
    BY <1>0, <2>1
<1> DEFINE T == {i \in Nat : i <= n => f[i] \in Nat /\ f[i] <= i * most}
<1>3. 0 \in T
  BY <1>2
<1>4. ASSUME NEW i \in Nat, i \in T PROVE i + 1 \in T
  <2>1. CASE i + 1 <= n
    <3>1. i + 1 \in 1 .. n /\ (i + 1) - 1 = i
      <4> HIDE DEF T
      <4> QED
        BY <2>1, <1>a
    <3>2. f[i + 1] = f[i] + audits[i + 1]["trials"]
      BY <3>1, <1>2
    <3>3. f[i] \in Nat /\ f[i] <= i * most
      BY <1>4, <2>1, <1>0
    <3>4. audits[i + 1]["trials"] \in Nat /\ audits[i + 1]["trials"] <= most
      BY <3>1, <1>0
    <3>5. (i + 1) * most = i * most + most /\ i * most \in Nat
      OBVIOUS
    <3> QED
      BY <3>2, <3>3, <3>4, <3>5
  <2>2. CASE ~(i + 1 <= n)
    BY <2>2
  <2> QED
    BY <2>1, <2>2
<1> HIDE DEF T
<1>5. n \in T
  BY <1>3, <1>4, <1>0, SetInduction
<1> QED
  BY <1>5, <1>1, <1>0 DEF T, n

-----------------------------------------------------------------------------
(* The audits                                                               *)

(* The counts of an attempt.                                                *)
Ordered(audit) == audit.accepted <= audit.checks /\ audit.checks <= audit.trials

(* What the validator computes from the budget is what the search used: in  *)
(* each round at most a budget of trials, and no more rounds than edges.    *)
AuditInv ==
  /\ IsFiniteSet(tried)
  /\ stage \in {"asked", "ws"} => tried = {}
  /\ Searching =>
       /\ Len(audits) <= order.attempts
       /\ Cardinality(graph) = Cardinality(order.generated)
       /\ Cardinality(tried) <= order.budget
       /\ Ordered(Current) /\ Current.left = 0
       /\ Current.trials <= Current.accepted * order.budget + Cardinality(tried)
       /\ \A i \in 1 .. Len(audits) - 1 :
            /\ Ordered(audits[i]) /\ audits[i].left > 0
            /\ audits[i].trials <= Cardinality(order.generated) * order.budget
  /\ stage = "round" => tried = {}

BuilderInv == SearchInv /\ DegreeInv /\ AuditInv /\ ShadowPassesItsValidator

LEMMA OrderIs ==
  ASSUME order \in Orders
  PROVE  /\ order.budget \in Nat \ {0} /\ order.attempts \in Nat \ {0}
         /\ IsFiniteSet(order.generated) /\ Cardinality(order.generated) \in Nat
         /\ \A e \in order.generated : Edge(order, e)
  BY NetworkAssumption, FS_CardinalityType DEF OrderValid

LEMMA UntriedIsNew == \A swap \in Untried : swap \notin tried
<1>1. \E S : Untried = S \ tried
  BY DEF Untried
<1> QED
  BY <1>1

(* A swap leaves as many edges as there were.                               *)
LEMMA SwapKeepsEdges ==
  ASSUME order \in Orders, removed \in Overlap, IsFiniteSet(graph), \A e \in graph : Edge(order, e),
         NEW swap \in Untried, Admissible(swap)
  PROVE  Cardinality(Swapped(swap)) = Cardinality(graph)
<1>1. PICK a, b, c, d \in Nodes(order) :
        /\ removed = {a, b} /\ swap.second = {c, d} /\ swap.made = {{a, c}, {b, d}}
        /\ a # b /\ a # c /\ a # d /\ b # c /\ b # d /\ c # d
  BY SwapHasFourEnds
<1>2. {a, b} \in graph /\ {c, d} \in graph /\ {a, c} \notin graph /\ {b, d} \notin graph
  <2>1. removed \in graph /\ swap.second \in graph /\ swap.made \intersect graph = {}
    BY SwapHasFourEnds DEF Overlap
  <2> QED
    BY <1>1, <2>1
<1> DEFINE once == (graph \ {{a, b}}) \union {{a, c}}
<1>3. IsFiniteSet(once) /\ Cardinality(once) = Cardinality(graph)
  <2>1. IsFiniteSet(graph \ {{a, b}})
    BY FS_Subset
  <2>2. IsFiniteSet(once)
    BY <2>1, FS_AddElement
  <2> QED
    BY <2>2, <1>2, ReplaceOne
<1>4. {c, d} \in once /\ {b, d} \notin once
  <2>1. {c, d} # {a, b} /\ {b, d} # {a, c}
    BY <1>1
  <2> QED
    BY <2>1, <1>2
<1>5. Swapped(swap) = (once \ {{c, d}}) \union {{b, d}}
  <2>1. {a, c} # {c, d} /\ Swapped(swap) = (graph \ {{a, b}, {c, d}}) \union {{a, c}, {b, d}}
    BY <1>1 DEF Swapped
  <2> QED
    BY <2>1
<1> HIDE DEF once
<1>6. Cardinality((once \ {{c, d}}) \union {{b, d}}) = Cardinality(once)
  BY <1>3, <1>4, ReplaceOne
<1> QED
  BY <1>3, <1>5, <1>6

(* A round that ends has used at most its budget of trials, and so has the  *)
(* attempt for every edge.                                                  *)
LEMMA ProductIsMonotonic ==
  ASSUME NEW a \in Nat, NEW b \in Nat, NEW m \in Nat, a <= m
  PROVE  a * b <= m * b /\ a * b \in Nat /\ m * b \in Nat
<1>1. PICK d \in Nat : m = a + d
  <2>1. m - a \in Nat /\ m = a + (m - a)
    OBVIOUS
  <2> QED
    BY <2>1
<1>2. (a + d) * b = a * b + d * b /\ d * b \in Nat /\ a * b \in Nat
  OBVIOUS
<1> QED
  BY <1>1, <1>2

LEMMA TrialsAreBounded ==
  ASSUME SearchInv, AuditInv, Searching, Cardinality(tried) = 0 \/ Overlap # {}
  PROVE  Current.trials <= Cardinality(order.generated) * order.budget
<1> DEFINE edges == Cardinality(order.generated)
           used == Current.accepted
           most == order.budget
<1>1. /\ edges \in Nat /\ most \in Nat /\ used \in Nat /\ Current.trials \in Nat
      /\ Cardinality(tried) \in Nat /\ Cardinality(tried) <= most
      /\ Current.trials <= used * most + Cardinality(tried)
      /\ used + Cardinality(Overlap) <= edges /\ Cardinality(Overlap) \in Nat
  <2>1. Len(audits) > 0 /\ audits \in Seq(Audit) /\ order \in Orders
    BY DEF SearchInv
  <2>2. Current \in Audit
    BY <2>1 DEF Current
  <2>3. Cardinality(tried) \in Nat
    BY FS_CardinalityType DEF AuditInv
  <2> QED
    BY <2>1, <2>2, <2>3, OrderIs, OverlapIsFinite DEF AuditInv, SearchInv, RoundsAreBounded,
       Searching, Audit
<1> HIDE DEF edges, used, most
<1>2. CASE Cardinality(tried) = 0
  <2>1. used <= edges
    BY <1>1
  <2>2. used * most <= edges * most /\ used * most \in Nat /\ edges * most \in Nat
    BY <2>1, <1>1, ProductIsMonotonic
  <2> QED
    BY <1>1, <1>2, <2>2 DEF edges, most
<1>3. CASE Overlap # {}
  <2>1. Cardinality(Overlap) # 0
    BY <1>3, FS_EmptySet, OverlapIsFinite DEF SearchInv
  <2>2. used + 1 <= edges /\ used + 1 \in Nat
    BY <1>1, <2>1
  <2>3. (used + 1) * most <= edges * most /\ edges * most \in Nat
    BY <2>2, <1>1, ProductIsMonotonic
  <2>4. (used + 1) * most = used * most + most /\ used * most \in Nat
    BY <1>1
  <2> QED
    BY <1>1, <2>3, <2>4 DEF edges, most
<1> QED
  BY <1>2, <1>3

(* The audits of a search that has no edge left are what its validator      *)
(* accepts.                                                                 *)
LEMMA FinishedPasses ==
  ASSUME BuilderInv, stage = "round", Overlap = {}
  PROVE  GraphMatches /\ AuditMatches
<1> DEFINE most == Cardinality(graph) * order.budget
<1>0. /\ SearchInv /\ DegreeInv /\ AuditInv /\ order \in Orders
      /\ audits \in Seq(Audit) /\ Len(audits) > 0 /\ Len(audits) \in Nat /\ Searching
  BY DEF BuilderInv, SearchInv, Searching
<1>1. GraphMatches
  BY <1>0 DEF GraphMatches, DegreeInv, DegreesAreKept
<1>2. most \in Nat /\ most = Cardinality(order.generated) * order.budget
  BY <1>0, OrderIs DEF AuditInv
<1>3. Cardinality(tried) = 0
  BY <1>0, FS_EmptySet DEF AuditInv
<1>4. /\ Ordered(Current) /\ Current.left = 0 /\ Current.trials <= most
      /\ \A i \in 1 .. Len(audits) - 1 : Ordered(audits[i]) /\ audits[i].left > 0 /\ audits[i].trials <= most
  <2>1. Current.trials <= most
    BY <1>0, <1>2, <1>3, TrialsAreBounded
  <2> HIDE DEF most
  <2> QED
    BY <2>1, <1>0, <1>2 DEF AuditInv
<1> HIDE DEF most
<1>5. \A i \in 1 .. Len(audits) :
        /\ Ordered(audits[i]) /\ audits[i].trials <= most
        /\ audits[i].left \in Nat /\ (audits[i].left = 0 <=> i = Len(audits))
  <2>1. \A i \in 1 .. Len(audits) : audits[i].left \in Nat
    <3>1. \A a \in Audit : a.left \in Nat
      BY DEF Audit
    <3>2. \A i \in 1 .. Len(audits) : audits[i] \in Audit
      BY <1>0
    <3> QED
      BY <3>1, <3>2
  <2>2. \A i \in 1 .. Len(audits) : i = Len(audits) \/ i \in 1 .. Len(audits) - 1
    BY <1>0
  <2>3. Current = audits[Len(audits)]
    BY DEF Current
  <2>4. ASSUME NEW i \in 1 .. Len(audits)
        PROVE  /\ Ordered(audits[i]) /\ audits[i].trials <= most
               /\ (audits[i].left = 0 <=> i = Len(audits))
    <3>1. CASE i = Len(audits)
      BY <3>1, <2>3, <1>4
    <3>2. CASE i \in 1 .. Len(audits) - 1
      BY <3>2, <1>4, <1>0
    <3> QED
      BY <3>1, <3>2, <2>2
  <2> QED
    BY <2>1, <2>4
<1>6. \A i \in 1 .. Len(audits) :
        audits[i]["accepted"] <= audits[i]["checks"] /\ audits[i]["checks"] <= audits[i]["trials"]
  BY <1>5 DEF Ordered
<1>7. {"accepted", "checks", "trials"} \subseteq DOMAIN NewAudit
  BY DEF NewAudit
<1>8. Total("accepted") <= Total("checks") /\ Total("checks") <= Total("trials")
  BY <1>0, <1>6, <1>7, TotalsCompare
<1>9. Total("trials") <= Len(audits) * most
  BY <1>0, <1>2, <1>5, TotalIsBounded
<1>10. Len(audits) \in 1 .. order.attempts
  BY <1>0, OrderIs DEF AuditInv
<1>11. DOMAIN audits = 1 .. Len(audits)
  BY <1>0
<1>12. AuditMatches
  BY <1>5, <1>8, <1>9, <1>10, <1>11 DEF AuditMatches, most
<1> QED
  BY <1>1, <1>12

LEMMA AuditGoesOn == BuilderInv /\ [NetworkNext]_networkVars => AuditInv' /\ ShadowPassesItsValidator'
<1> SUFFICES ASSUME BuilderInv, [NetworkNext]_networkVars PROVE AuditInv' /\ ShadowPassesItsValidator'
  OBVIOUS
<1>0. /\ SearchInv /\ DegreeInv /\ AuditInv /\ ShadowPassesItsValidator /\ order \in Orders
      /\ audits \in Seq(Audit) /\ order.budget \in Nat \ {0} /\ order.attempts \in Nat \ {0}
      /\ Cardinality(order.generated) \in Nat /\ IsFiniteSet(order.generated)
      /\ IsFiniteSet(tried) /\ Cardinality(tried) \in Nat
  BY OrderIs, FS_CardinalityType DEF BuilderInv, SearchInv, AuditInv
<1>e. IsFiniteSet({}) /\ Cardinality({}) = 0
  BY FS_EmptySet
<1>1. CASE BuildWs
  BY <1>1, <1>0 DEF BuildWs, AuditInv, Searching, ShadowPassesItsValidator
<1>2. CASE BeginShadow
  <2>1. tried = {} /\ tried' = {} /\ order' = order
    BY <1>2, <1>0 DEF BeginShadow, AuditInv
  <2>2. CASE stage' = "refused"
    BY <2>1, <2>2, <1>e DEF AuditInv, Searching, ShadowPassesItsValidator
  <2>3. CASE stage' = "round" /\ graph' = order.generated /\ audits' = <<NewAudit>>
    <3>1. Current' = NewAudit /\ Len(audits') = 1
      BY <2>3 DEF Current
    <3>2. Ordered(NewAudit) /\ NewAudit.left = 0 /\ NewAudit.trials = 0 /\ NewAudit.accepted = 0
      BY DEF Ordered, NewAudit
    <3>3. Current'.trials <= Current'.accepted * order'.budget + Cardinality(tried')
      BY <2>1, <3>1, <3>2, <1>0, <1>e
    <3>4. Len(audits') <= order'.attempts /\ Cardinality(graph') = Cardinality(order'.generated)
          /\ Cardinality(tried') <= order'.budget
      BY <2>1, <2>3, <3>1, <1>0, <1>e
    <3> QED
      BY <2>1, <2>3, <3>1, <3>2, <3>3, <3>4, <1>e DEF AuditInv, Searching, ShadowPassesItsValidator
  <2> QED
    BY <1>2, <2>2, <2>3 DEF BeginShadow
<1>3. CASE PickRemoved
  <2>1. /\ stage = "round" /\ stage' = "trial" /\ tried' = {} /\ tried = {} /\ UNCHANGED <<order, graph, audits>>
    BY <1>3, <1>0 DEF PickRemoved, AuditInv
  <2>2. Current' = Current
    BY <2>1 DEF Current
  <2> QED
    BY <2>1, <2>2, <1>0, <1>e DEF AuditInv, Searching, ShadowPassesItsValidator
<1>4. CASE TrySwap
  <2>1. PICK swap \in Untried :
          LET admissible == Admissible(swap)
              accepted == admissible /\ Connected(order, Swapped(swap))
          IN /\ graph' = Settle(swap)
             /\ audits' = Recorded(Tested(admissible, accepted))
             /\ stage' = (IF accepted THEN "round" ELSE "trial")
             /\ tried' = IF accepted THEN {} ELSE tried \union {swap}
             /\ removed' = IF accepted THEN NoEdge ELSE removed
    BY <1>4 DEF TrySwap
  <2> DEFINE accepted == Admissible(swap) /\ Connected(order, Swapped(swap))
             audit == Tested(Admissible(swap), accepted)
  <2>2. /\ stage = "trial" /\ order' = order /\ removed \in Overlap /\ Len(audits) > 0 /\ Len(audits) \in Nat
        /\ Cardinality(tried) < order.budget /\ Current \in Audit /\ Searching
        /\ IsFiniteSet(graph) /\ \A e \in graph : Edge(order, e)
    <3>1. stage = "trial" /\ order' = order /\ ~(Cardinality(tried) >= order.budget)
      BY <1>4 DEF TrySwap, Exhausted
    <3>2. removed \in Overlap /\ Len(audits) > 0 /\ Len(audits) \in Nat
      BY <3>1, <1>0 DEF SearchInv, Searching
    <3>3. IsFiniteSet(graph) /\ \A e \in graph : Edge(order, e)
      BY <3>1, <1>0 DEF DegreeInv
    <3> QED
      BY <3>1, <3>2, <3>3, <1>0 DEF Current, Searching
  <2>3. /\ Len(audits) <= order.attempts
        /\ Cardinality(graph) = Cardinality(order.generated)
        /\ Ordered(Current) /\ Current.left = 0
        /\ Current.trials <= Current.accepted * order.budget + Cardinality(tried)
        /\ \A i \in 1 .. Len(audits) - 1 :
             /\ Ordered(audits[i]) /\ audits[i].left > 0
             /\ audits[i].trials <= Cardinality(order.generated) * order.budget
    BY <2>2, <1>0 DEF AuditInv
  <2>4. swap \notin tried
    BY UntriedIsNew
  <2>5. /\ audit \in Audit /\ audit.trials = Current.trials + 1 /\ audit.left = Current.left
        /\ audit.accepted = IF accepted THEN Current.accepted + 1 ELSE Current.accepted
        /\ audit.checks = IF Admissible(swap) THEN Current.checks + 1 ELSE Current.checks
    <3> HIDE DEF accepted
    <3>1. Current.trials \in Nat /\ Current.checks \in Nat /\ Current.accepted \in Nat /\ Current.left \in Nat
      BY <2>2 DEF Audit
    <3> QED
      BY <3>1 DEF Tested, Audit
  <2>6. Ordered(audit)
    <3>1. accepted => Admissible(swap)
      OBVIOUS
    <3> HIDE DEF accepted
    <3>2. Current.trials \in Nat /\ Current.checks \in Nat /\ Current.accepted \in Nat
      BY <2>2 DEF Audit
    <3> QED
      BY <3>1, <3>2, <2>3, <2>5 DEF Ordered
  <2>7. /\ audits' = [audits EXCEPT ![Len(audits)] = audit]
    BY <2>1 DEF Recorded
  <2>8. /\ Len(audits') = Len(audits) /\ Current' = audit
        /\ \A i \in 1 .. Len(audits) - 1 : audits'[i] = audits[i]
    <3> HIDE DEF audit
    <3> QED
      BY <2>7, <2>2, <1>0 DEF Current
  <2>9. CASE accepted
    <3>1. graph' = Swapped(swap) /\ stage' = "round" /\ tried' = {}
      BY <2>1, <2>9 DEF Settle
    <3>2. Cardinality(graph') = Cardinality(order'.generated)
      BY <3>1, <2>2, <2>3, <2>9, <1>0, SwapKeepsEdges
    <3>3. audit.trials <= audit.accepted * order.budget
      <4> DEFINE used == Current.accepted
                 most == order.budget
      <4>1. /\ used \in Nat /\ most \in Nat /\ Current.trials \in Nat
            /\ Current.trials <= used * most + Cardinality(tried) /\ Cardinality(tried) < most
            /\ audit.trials = Current.trials + 1 /\ audit.accepted = used + 1
        BY <2>2, <2>3, <2>5, <2>9, <1>0 DEF Audit
      <4> HIDE DEF used, most, audit
      <4>2. (used + 1) * most = used * most + most /\ used * most \in Nat
        BY <4>1
      <4>3. audit.trials <= (used + 1) * most
        BY <4>1, <4>2, <1>0
      <4> QED
        BY <4>1, <4>3 DEF most
    <3>4. audit.accepted * order.budget \in Nat
      BY <2>5, <1>0 DEF Audit
    <3> HIDE DEF audit, accepted
    <3>5. Current'.trials <= Current'.accepted * order'.budget + Cardinality(tried')
      BY <3>1, <3>3, <3>4, <2>2, <2>8, <1>e
    <3>6. /\ Len(audits') <= order'.attempts /\ Cardinality(tried') <= order'.budget
          /\ Ordered(Current') /\ Current'.left = 0
      BY <3>1, <2>2, <2>3, <2>5, <2>6, <2>8, <1>0, <1>e
    <3>7. \A i \in 1 .. Len(audits') - 1 :
             /\ Ordered(audits'[i]) /\ audits'[i].left > 0
             /\ audits'[i].trials <= Cardinality(order'.generated) * order'.budget
      BY <2>2, <2>3, <2>8
    <3> QED
      BY <3>1, <3>2, <3>5, <3>6, <3>7, <1>e DEF AuditInv, Searching, ShadowPassesItsValidator,
         Ordered, Current
  <2>10. CASE ~accepted
    <3>1. graph' = graph /\ stage' = "trial" /\ tried' = tried \union {swap}
      BY <2>1, <2>10 DEF Settle
    <3>2. IsFiniteSet(tried') /\ Cardinality(tried') = Cardinality(tried) + 1
      BY <3>1, <2>4, <1>0, FS_AddElement
    <3> HIDE DEF audit, accepted
    <3>a. audit.trials = Current.trials + 1 /\ audit.accepted = Current.accepted
      BY <2>5, <2>10
    <3>b. Current.trials \in Nat /\ Current.accepted \in Nat
      BY <2>2 DEF Audit
    <3>3. audit.trials = Current.trials + 1 /\ audit.accepted = Current.accepted
          /\ Current.trials \in Nat /\ Current.accepted * order.budget \in Nat
      BY <3>a, <3>b, <1>0
    <3>4. audit.trials <= audit.accepted * order.budget + Cardinality(tried')
      BY <3>2, <3>3, <2>3, <1>0
    <3>5. /\ Len(audits') <= order'.attempts /\ Cardinality(tried') <= order'.budget
          /\ Ordered(Current') /\ Current'.left = 0
      BY <3>2, <2>2, <2>3, <2>5, <2>6, <2>8, <1>0
    <3>6. \A i \in 1 .. Len(audits') - 1 :
             /\ Ordered(audits'[i]) /\ audits'[i].left > 0
             /\ audits'[i].trials <= Cardinality(order'.generated) * order'.budget
      BY <2>2, <2>3, <2>8
    <3>7. /\ Current'.trials <= Current'.accepted * order'.budget + Cardinality(tried')
          /\ Cardinality(graph') = Cardinality(order'.generated)
      BY <3>1, <3>4, <2>2, <2>3, <2>8
    <3> QED
      BY <3>1, <3>2, <3>5, <3>6, <3>7 DEF AuditInv, Searching, ShadowPassesItsValidator, Ordered,
         Current
  <2> QED
    BY <2>9, <2>10
<1>5. CASE AbandonAttempt
  <2> DEFINE given == [Current EXCEPT !.left = Cardinality(Overlap)]
             failed == Recorded(given)
  <2>1. /\ stage = "trial" /\ order' = order /\ tried' = {} /\ Searching
        /\ Len(audits) > 0 /\ Len(audits) \in Nat /\ Current \in Audit /\ removed \in Overlap
    <3>1. stage = "trial" /\ order' = order /\ tried' = {}
      BY <1>5 DEF AbandonAttempt
    <3> QED
      BY <3>1, <1>0 DEF SearchInv, Searching, Current
  <2>2. CASE stage' = "refused"
    BY <2>1, <2>2, <1>e DEF AuditInv, Searching, ShadowPassesItsValidator
  <2>3. CASE Len(audits) < order.attempts /\ stage' = "round" /\ graph' = order.generated /\ audits' = Append(failed, NewAudit)
    <3>1. Cardinality(Overlap) \in Nat /\ Cardinality(Overlap) > 0
      BY <2>1, <1>0, OverlapIsFinite, FS_EmptySet
    <3>2. /\ given \in Audit /\ given.left = Cardinality(Overlap) /\ given.trials = Current.trials
          /\ given.accepted = Current.accepted /\ given.checks = Current.checks
      BY <2>1, <3>1 DEF Audit
    <3>3. Ordered(given) /\ given.left > 0 /\ given.trials <= Cardinality(order.generated) * order.budget
      <4>1. Current.trials <= Cardinality(order.generated) * order.budget
        BY <2>1, <1>0, TrialsAreBounded
      <4>2. Ordered(Current)
        BY <2>1, <1>0 DEF AuditInv
      <4> HIDE DEF given
      <4> QED
        BY <4>1, <4>2, <3>1, <3>2 DEF Ordered
    <3> HIDE DEF given
    <3>4. /\ failed = [audits EXCEPT ![Len(audits)] = given]
      BY DEF Recorded
    <3>5. /\ failed \in Seq(Audit) /\ Len(failed) = Len(audits)
          /\ failed[Len(audits)] = given /\ \A i \in 1 .. Len(audits) - 1 : failed[i] = audits[i]
      BY <3>2, <3>4, <2>1, <1>0
    <3> HIDE DEF failed
    <3>6. NewAudit \in Audit
      BY DEF NewAudit, Audit
    <3>7. /\ Len(audits') = Len(audits) + 1 /\ audits'[Len(audits) + 1] = NewAudit
          /\ \A i \in 1 .. Len(audits) : audits'[i] = failed[i]
      BY <2>3, <3>5, <3>6
    <3>8. Current' = NewAudit
      BY <3>7, <2>1 DEF Current
    <3>9. Ordered(NewAudit) /\ NewAudit.left = 0 /\ NewAudit.trials = 0 /\ NewAudit.accepted = 0
      BY DEF Ordered, NewAudit
    <3>10. Current'.trials <= Current'.accepted * order'.budget + Cardinality(tried')
      BY <2>1, <3>8, <3>9, <1>0, <1>e
    <3>11. /\ Len(audits') <= order'.attempts /\ Cardinality(graph') = Cardinality(order'.generated)
           /\ Cardinality(tried') <= order'.budget
      BY <2>1, <2>3, <3>7, <1>0, <1>e
    <3>12. \A i \in 1 .. Len(audits) - 1 :
             /\ Ordered(audits[i]) /\ audits[i].left > 0
             /\ audits[i].trials <= Cardinality(order.generated) * order.budget
      BY <2>1, <1>0 DEF AuditInv
    <3>13. ASSUME NEW i \in 1 .. Len(audits') - 1
           PROVE  /\ Ordered(audits'[i]) /\ audits'[i].left > 0
                  /\ audits'[i].trials <= Cardinality(order'.generated) * order'.budget
      <4>1. i \in 1 .. Len(audits) /\ audits'[i] = failed[i]
        BY <3>7, <2>1
      <4>2. CASE i = Len(audits)
        BY <4>1, <4>2, <3>3, <3>5, <2>1
      <4>3. CASE i # Len(audits)
        <5>1. i \in 1 .. Len(audits) - 1
          BY <4>1, <4>3, <2>1
        <5> QED
          BY <4>1, <5>1, <3>5, <3>12, <2>1
      <4> QED
        BY <4>2, <4>3
    <3> QED
      BY <2>1, <2>3, <3>8, <3>9, <3>10, <3>11, <3>13, <1>e DEF AuditInv, Searching,
         ShadowPassesItsValidator, Ordered, Current
  <2> QED
    BY <1>5, <2>2, <2>3 DEF AbandonAttempt
<1>6. CASE FinishShadow
  <2>1. stage = "round" /\ Overlap = {} /\ tried' = tried
    BY <1>6 DEF FinishShadow
  <2>2. GraphMatches /\ AuditMatches
    BY <2>1, FinishedPasses
  <2>3. stage' = "shadow"
    BY <2>2, <1>6 DEF FinishShadow
  <2> QED
    BY <2>1, <2>3, <1>0 DEF AuditInv, Searching, ShadowPassesItsValidator
<1>7. CASE Gate
  BY <1>7, <1>0 DEF Gate, AuditInv, Searching, ShadowPassesItsValidator
<1>8. CASE UNCHANGED networkVars
  <2>1. UNCHANGED <<order, stage, graph, tried, audits>>
    BY <1>8 DEF networkVars
  <2>2. Current' = Current
    BY <2>1 DEF Current
  <2> QED
    BY <2>1, <2>2, <1>0 DEF AuditInv, Searching, ShadowPassesItsValidator
<1> QED
  BY <1>1, <1>2, <1>3, <1>4, <1>5, <1>6, <1>7, <1>8 DEF NetworkNext

(* For every graph, attempt and trial budget: the builder never rejects the *)
(* shadow it has found (build_shadow_artifact, _validate_shadow_artifact).  *)
THEOREM ShadowIsAccepted == NetworkSpec => []ShadowPassesItsValidator
<1>1. NetworkInit => BuilderInv
  BY FS_EmptySet, SearchBegins DEF NetworkInit, BuilderInv, DegreeInv, DegreesAreKept, AuditInv,
     Searching, ShadowPassesItsValidator
<1>2. BuilderInv /\ [NetworkNext]_networkVars => BuilderInv'
  BY SearchGoesOn, DegreesGoOn, AuditGoesOn DEF BuilderInv
<1>3. BuilderInv => ShadowPassesItsValidator
  BY DEF BuilderInv
<1> QED
  BY <1>1, <1>2, <1>3, PTL DEF NetworkSpec

-----------------------------------------------------------------------------
(* The events without the stops that are not this one                       *)

SmokeEvent == {"prompt", "diagnosed", "stop"} \X (Nat \union Stops)
Stays(event, stop) == event[1] = "stop" => event[2] = stop

(* f is the function upTo of Kept, as far as n.                             *)
Filters(f, events, stop, n) ==
  f = [i \in 0 .. n |-> IF i = 0 THEN <<>> ELSE IF Stays(events[i], stop) THEN Append(f[i - 1], events[i]) ELSE f[i - 1]]

LEMMA FiltersExist ==
  ASSUME NEW events, NEW stop
  PROVE  \A n \in Nat : \E f : Filters(f, events, stop, n)
<1> DEFINE T == {n \in Nat : \E f : Filters(f, events, stop, n)}
<1>1. 0 \in T
  <2>1. Filters([i \in 0 .. 0 |-> <<>>], events, stop, 0)
    BY DEF Filters
  <2> QED
    BY <2>1
<1>2. ASSUME NEW n \in Nat, n \in T PROVE n + 1 \in T
  <2>1. PICK f : Filters(f, events, stop, n)
    BY <1>2
  <2> DEFINE last == IF Stays(events[n + 1], stop) THEN Append(f[n], events[n + 1]) ELSE f[n]
  <2> DEFINE h == [i \in 0 .. n + 1 |-> IF i = n + 1 THEN last ELSE f[i]]
  <2>2. f = [i \in 0 .. n |-> IF i = 0 THEN <<>> ELSE IF Stays(events[i], stop) THEN Append(f[i - 1], events[i]) ELSE f[i - 1]]
    BY <2>1 DEF Filters
  <2>3. ASSUME NEW i \in 0 .. n + 1
        PROVE  h[i] = IF i = 0 THEN <<>> ELSE IF Stays(events[i], stop) THEN Append(h[i - 1], events[i]) ELSE h[i - 1]
    <3>1. CASE i = n + 1
      <4>1. h[i] = last /\ h[i - 1] = f[n] /\ i # 0
        BY <3>1
      <4> QED
        BY <4>1, <3>1
    <3>2. CASE i # n + 1
      <4>1. i \in 0 .. n /\ h[i] = f[i] /\ (i # 0 => h[i - 1] = f[i - 1])
        BY <3>2
      <4> QED
        BY <4>1, <2>2
    <3> QED
      BY <3>1, <3>2
  <2>4. Filters(h, events, stop, n + 1)
    <3> HIDE DEF last
    <3>1. h = [i \in 0 .. n + 1 |-> h[i]]
      OBVIOUS
    <3> HIDE DEF h
    <3> QED
      BY <2>3, <3>1 DEF Filters
  <2> QED
    BY <2>4
<1> HIDE DEF T
<1>3. Nat \subseteq T
  BY <1>1, <1>2, SetInduction
<1> QED
  BY <1>3 DEF T

LEMMA KeptIs ==
  ASSUME NEW events, NEW stop, Len(events) \in Nat
  PROVE  \E f : Filters(f, events, stop, Len(events)) /\ Kept(events, stop) = f[Len(events)]
<1> DEFINE f == CHOOSE g : Filters(g, events, stop, Len(events))
<1>1. Filters(f, events, stop, Len(events))
  BY FiltersExist
<1>2. Kept(events, stop) = f[Len(events)]
  BY DEF Kept, Filters, Stays
<1> QED
  BY <1>1, <1>2

LEMMA KeptOfNone == \A stop : Kept(<<>>, stop) = <<>>
<1> SUFFICES ASSUME NEW stop PROVE Kept(<<>>, stop) = <<>>
  OBVIOUS
<1>1. Len(<<>>) = 0
  OBVIOUS
<1>2. PICK f : Filters(f, <<>>, stop, 0) /\ Kept(<<>>, stop) = f[0]
  BY <1>1, KeptIs
<1>3. f[0] = <<>>
  BY <1>2 DEF Filters
<1> QED
  BY <1>2, <1>3

(* One event more.                                                          *)
LEMMA KeptGrows ==
  ASSUME NEW events \in Seq(SmokeEvent), NEW e \in SmokeEvent, NEW stop
  PROVE  Kept(Append(events, e), stop) = IF Stays(e, stop) THEN Append(Kept(events, stop), e) ELSE Kept(events, stop)
<1> DEFINE n == Len(events)
<1> DEFINE more == Append(events, e)
<1>1. n \in Nat /\ Len(more) = n + 1 /\ more[n + 1] = e /\ \A i \in 1 .. n : more[i] = events[i]
  OBVIOUS
<1>2. PICK f : Filters(f, events, stop, n) /\ Kept(events, stop) = f[n]
  BY <1>1, KeptIs
<1> HIDE DEF n, more
<1>3. PICK g : Filters(g, more, stop, n + 1) /\ Kept(more, stop) = g[n + 1]
  <2>1. Len(more) \in Nat
    BY <1>1
  <2>2. \E g : Filters(g, more, stop, Len(more)) /\ Kept(more, stop) = g[Len(more)]
    BY <2>1, KeptIs
  <2> QED
    BY <1>1, <2>2
<1>4. /\ f[0] = <<>> /\ g[0] = <<>>
      /\ \A i \in 1 .. n : f[i] = IF Stays(events[i], stop) THEN Append(f[i - 1], events[i]) ELSE f[i - 1]
      /\ \A i \in 1 .. n : g[i] = IF Stays(events[i], stop) THEN Append(g[i - 1], events[i]) ELSE g[i - 1]
      /\ g[n + 1] = IF Stays(e, stop) THEN Append(g[n], e) ELSE g[n]
  <2>1. f = [i \in 0 .. n |-> IF i = 0 THEN <<>> ELSE IF Stays(events[i], stop) THEN Append(f[i - 1], events[i]) ELSE f[i - 1]]
    BY <1>2 DEF Filters
  <2>2. g = [i \in 0 .. n + 1 |-> IF i = 0 THEN <<>> ELSE IF Stays(more[i], stop) THEN Append(g[i - 1], more[i]) ELSE g[i - 1]]
    BY <1>3 DEF Filters
  <2>3. f[0] = <<>> /\ g[0] = <<>>
    BY <1>1, <2>1, <2>2
  <2>4. \A i \in 1 .. n : f[i] = IF Stays(events[i], stop) THEN Append(f[i - 1], events[i]) ELSE f[i - 1]
    <3> SUFFICES ASSUME NEW i \in 1 .. n
                 PROVE  f[i] = IF Stays(events[i], stop) THEN Append(f[i - 1], events[i]) ELSE f[i - 1]
      OBVIOUS
    <3>1. i \in 0 .. n /\ i # 0
      BY <1>1
    <3> QED
      BY <2>1, <3>1
  <2>5. ASSUME NEW i \in 1 .. n PROVE g[i] = IF Stays(events[i], stop) THEN Append(g[i - 1], events[i]) ELSE g[i - 1]
    <3>1. i \in 0 .. n + 1 /\ i # 0 /\ more[i] = events[i]
      BY <1>1
    <3> QED
      BY <2>2, <3>1
  <2>6. g[n + 1] = IF Stays(e, stop) THEN Append(g[n], e) ELSE g[n]
    <3>1. n + 1 \in 0 .. n + 1 /\ n + 1 # 0 /\ (n + 1) - 1 = n
      BY <1>1
    <3> QED
      BY <2>2, <3>1, <1>1
  <2> QED
    BY <2>3, <2>4, <2>5, <2>6
<1> DEFINE T == {i \in Nat : i <= n => f[i] = g[i]}
<1>5. 0 \in T
  BY <1>4
<1>6. ASSUME NEW i \in Nat, i \in T PROVE i + 1 \in T
  <2>1. CASE i + 1 <= n
    <3>1. i + 1 \in 1 .. n /\ (i + 1) - 1 = i /\ i <= n
      BY <1>1, <2>1
    <3>2. f[i] = g[i]
      BY <1>6, <3>1
    <3>3. f[i + 1] = g[i + 1]
      BY <1>4, <3>1, <3>2
    <3> QED
      BY <3>3
  <2>2. CASE ~(i + 1 <= n)
    BY <2>2
  <2> QED
    BY <2>1, <2>2
<1> HIDE DEF T
<1>7. n \in T
  BY <1>1, <1>5, <1>6, SetInduction
<1>8. f[n] = g[n]
  BY <1>1, <1>7 DEF T
<1> QED
  BY <1>2, <1>3, <1>4, <1>8 DEF more
-----------------------------------------------------------------------------
(* The inductive invariant of the smoke run                                 *)

SmokeTypeOK ==
  /\ archive \in Archive \union {Nothing}
  /\ running \in [Operator -> Command \union {Nothing}]
  /\ wire \in Seq(SmokeEvent)
  /\ removals \in Nat

Diagnosed == << <<"diagnosed", Diagnostics>> >>
Before(k) == Diagnosed \o Sent(1, k)
Around(stop, k) == Diagnosed \o Sent(1, Early) \o << <<"stop", stop>> >> \o Sent(Early + 1, k)

(* How many attempts there are; whether the first c of them are accepted and*)
(* their intents resolved.                                                  *)
Attempted == Len(archive.attempts)
Done(c) == c <= Attempted /\ \A i \in 1 .. c : archive.attempts[i].outcome = "accepted" /\ i \in archive.resolved
Reached(number) == \E r \in archive.progress : r.number = number
Started == \E r \in archive.progress : r.number >= 2

Sends(p) == At(p, "send") \/ At(p, "record")

(* A stop that a phase two looked at: the only one there was then.          *)
Named(stop) ==
  \/ archive.stops = {stop}
  \/ \E p \in Operator : running[p] # Nothing /\ running[p].command = "phase_two" /\ running[p].stop = stop
  \/ \E r \in archive.progress : r.number = 5 /\ r.stop = stop

Steps(command) ==
  CASE command = "diagnostics" -> {"progress", "publish", "diagnose", "append"}
    [] command \in {"phase_one", "phase_two"} -> {"intend", "send", "record", "resolve", "progress", "publish"}
    [] command = "mark_stopped" -> {"stop", "progress", "publish"}
    [] command = "finalize" -> {"pass", "progress", "publish"}
Numbers(command) ==
  CASE command = "diagnostics" -> {1, 2}
    [] command = "phase_one" -> {3}
    [] command = "mark_stopped" -> {4}
    [] command = "phase_two" -> {5}
    [] command = "finalize" -> {6}

(* What a process holds is still so.                                        *)
Publishes(c) ==
  c.step \in {"publish", "diagnose"} =>
    c.record \in Progress /\ c.record.number \in Numbers(c.command) /\ c.record.phase = Phases[c.record.number] /\ c.record.stop = c.stop
Lists(c) ==
  c.command # "diagnostics" =>
    Len(c.listed) <= Attempted /\ \A i \in 1 .. Len(c.listed) : c.listed[i] = archive.attempts[i]
GoalOf(c) == IF c.command = "phase_one" THEN Early ELSE Prompts
Works(c) ==
  c.command \in {"phase_one", "phase_two"} =>
    /\ c.step \in {"intend", "send", "record"} => Len(c.listed) < GoalOf(c) /\ Done(Len(c.listed))
    /\ c.step = "record" => c.record \in PromptAttempt /\ c.record.ordinal = Len(c.listed) + 1
    /\ c.step = "resolve" =>
         /\ Len(c.listed) \in 1 .. GoalOf(c) /\ Done(Len(c.listed) - 1)
         /\ c.record \in PromptAttempt /\ c.record = c.listed[Len(c.listed)]
    /\ c.step \in {"progress", "publish"} => Len(c.listed) = GoalOf(c) /\ Done(Len(c.listed))
Knows(c) ==
  /\ (c.command = "diagnostics") <=> ~Started
  /\ c.command \in {"mark_stopped", "phase_two"} => Done(Early)
  /\ c.command = "mark_stopped" => c.stop \in Stops
  /\ c.command = "finalize" => Reached(5)
  /\ c.command = "phase_two" => c.stop \in archive.stops
Sound(c) == c.step \in Steps(c.command) /\ Publishes(c) /\ Lists(c) /\ Works(c) /\ Knows(c)

(* Before the diagnostics are complete there is one process, that of the    *)
(* diagnostics, which has executed them or not.                             *)
Opened(p) ==
  \/ At(p, "append")
  \/ At(p, "progress") /\ archive.diagnostics # 0
  \/ At(p, "publish") /\ running[p].record.number = 2
BeforeStart ==
  ~Started =>
    /\ archive.intents = {} /\ archive.attempts = <<>> /\ archive.stops = {}
    /\ \A p, q \in Operator : running[p] # Nothing /\ running[q] # Nothing => p = q
    /\ \A p \in Operator : running[p] # Nothing => wire = IF Opened(p) THEN Diagnosed ELSE <<>>

(* What the records say is so.                                              *)
Kinds(r) ==
  /\ r.phase = Phases[r.number]
  /\ r.number >= 3 => Done(Early)
  /\ r.number >= 5 => Done(Prompts)
  /\ r.number = 5 => r.stop \in archive.stops
Records ==
  /\ archive.stops # {} => Done(Early)
  /\ archive.passed => Reached(5)
  /\ archive.resolved \subseteq 1 .. Attempted
  /\ \A r \in archive.progress : Kinds(r)

(* m intents, of which k went out and all but at most one were recorded; the*)
(* process between the intent and the attempt is alone.                     *)
Counted(m, k) ==
  /\ \A i \in 1 .. Attempted : archive.attempts[i].ordinal = i
  /\ archive.intents = 1 .. m
  /\ Attempted <= k /\ k <= m /\ m <= Attempted + 1
  /\ m > Early => archive.stops # {}
Alone(m, k) ==
  \A p \in Operator : Sends(p) =>
    /\ Len(running[p].listed) = Attempted /\ m = Attempted + 1
    /\ k = IF At(p, "send") THEN Attempted ELSE Attempted + 1
    /\ \A q \in Operator : Sends(q) => q = p
Wired(k) ==
  Started => \A s \in Stops :
    /\ s \notin archive.stops => Kept(wire, s) = Before(k)
    /\ Named(s) => Kept(wire, s) = Around(s, k)
Shape == \E m, k \in 0 .. Prompts : Counted(m, k) /\ Alone(m, k) /\ Wired(k)

SmokeInv ==
  /\ SmokeTypeOK
  /\ archive = Nothing => wire = <<>> /\ \A p \in Operator : running[p] = Nothing
  /\ archive # Nothing => BeforeStart /\ Records /\ Shape /\ \A p \in Operator : running[p] # Nothing => Sound(running[p])

-----------------------------------------------------------------------------
(* Lemmas *)

LEMMA SmokeNumbers ==
  ASSUME SmokeValid
  PROVE  Early \in Nat /\ Prompts \in Nat /\ Early >= 1 /\ Early < Prompts /\ Diagnostics \in Nat /\ Diagnostics # 0
  BY DEF SmokeValid

LEMMA NoneIsNothing ==
  ASSUME SmokeValid
  PROVE  (\A c \in Command : c # Nothing) /\ (\A a \in Archive : a # Nothing)
  BY DEF SmokeValid

LEMMA PhaseNumbers ==
  /\ DOMAIN Phases = 1 .. 6
  /\ \A i \in 1 .. 6 :
       /\ Phases[i] = "ready" <=> i = 1
       /\ Phases[i] = "diagnostics_complete" <=> i = 2
       /\ Phases[i] = "phase_one_complete" <=> i = 3
       /\ Phases[i] = "service_stopped" <=> i = 4
       /\ Phases[i] = "phase_two_complete" <=> i = 5
       /\ Phases[i] = "finalized" <=> i = 6
  BY DEF Phases

(* The next prompt goes to the end.                                         *)
LEMMA SentGrows ==
  ASSUME NEW first \in Nat, NEW last \in Nat, first <= last + 1
  PROVE  /\ Sent(first, last) \in Seq({"prompt"} \X Nat)
         /\ Append(Sent(first, last), <<"prompt", last + 1>>) = Sent(first, last + 1)
<1> DEFINE n == last - first + 1
<1>1. n \in Nat /\ (last + 1) - first + 1 = n + 1
  OBVIOUS
<1>2. Sent(first, last) = [i \in 1 .. n |-> <<"prompt", first + i - 1>>]
  BY DEF Sent
<1>3. Sent(first, last + 1) = [i \in 1 .. n + 1 |-> <<"prompt", first + i - 1>>]
  BY <1>1 DEF Sent
<1> HIDE DEF n
<1>4. \A i \in 1 .. n + 1 : first + i - 1 \in Nat
  BY <1>1
<1>5. Sent(first, last) \in Seq({"prompt"} \X Nat) /\ Len(Sent(first, last)) = n
  BY <1>1, <1>2, <1>4
<1>6. Sent(first, last + 1) \in Seq({"prompt"} \X Nat) /\ Len(Sent(first, last + 1)) = n + 1
  <2> DEFINE most == n + 1
  <2>1. most \in Nat /\ \A i \in 1 .. most : first + i - 1 \in Nat
    BY <1>1, <1>4
  <2>2. Sent(first, last + 1) = [i \in 1 .. most |-> <<"prompt", first + i - 1>>]
    BY <1>3
  <2> HIDE DEF most
  <2>3. Sent(first, last + 1) \in Seq({"prompt"} \X Nat) /\ Len(Sent(first, last + 1)) = most
    BY <2>1, <2>2
  <2> QED
    BY <2>3 DEF most
<1>7. last + 1 = first + (n + 1) - 1
  BY DEF n
<1> DEFINE more == Append(Sent(first, last), <<"prompt", last + 1>>)
<1>8. more \in Seq({"prompt"} \X Nat) /\ Len(more) = n + 1
  BY <1>5
<1>9. ASSUME NEW i \in 1 .. n + 1 PROVE more[i] = Sent(first, last + 1)[i]
  <2>1. CASE i = n + 1
    <3>1. more[i] = <<"prompt", last + 1>>
      BY <2>1, <1>5
    <3>2. Sent(first, last + 1)[i] = <<"prompt", first + (n + 1) - 1>>
      BY <2>1, <1>3
    <3> QED
      BY <3>1, <3>2, <1>7
  <2>2. CASE i # n + 1
    <3>1. i \in 1 .. n
      BY <1>1, <2>2
    <3>2. more[i] = Sent(first, last)[i]
      BY <3>1, <1>1, <1>5
    <3>3. Sent(first, last)[i] = <<"prompt", first + i - 1>>
      BY <3>1, <1>2
    <3>4. Sent(first, last + 1)[i] = <<"prompt", first + i - 1>>
      BY <1>3
    <3> QED
      BY <3>2, <3>3, <3>4
  <2> QED
    BY <2>1, <2>2
<1> HIDE DEF more
<1>10. more = Sent(first, last + 1)
  BY <1>6, <1>8, <1>9, SeqEqual
<1> QED
  BY <1>5, <1>10 DEF more

LEMMA WireGrows ==
  ASSUME SmokeValid, NEW stop \in Stops, NEW k \in Nat
  PROVE  /\ Before(0) = Diagnosed
         /\ Append(Before(k), <<"prompt", k + 1>>) = Before(k + 1)
         /\ Append(Before(Early), <<"stop", stop>>) = Around(stop, Early)
         /\ k >= Early => Append(Around(stop, k), <<"prompt", k + 1>>) = Around(stop, k + 1)
<1>0. Early \in Nat /\ Diagnostics \in Nat
  BY SmokeNumbers
<1> DEFINE P == {"prompt"} \X Nat
<1>1. P \subseteq SmokeEvent /\ <<"stop", stop>> \in SmokeEvent /\ <<"diagnosed", Diagnostics>> \in SmokeEvent
  BY <1>0 DEF SmokeEvent
<1>2. Diagnosed \in Seq(SmokeEvent) /\ << <<"stop", stop>> >> \in Seq(SmokeEvent)
  BY <1>1 DEF Diagnosed
<1>3. ASSUME NEW a \in Nat, NEW b \in Nat, a <= b + 1 PROVE Sent(a, b) \in Seq(SmokeEvent)
  BY <1>1, <1>3, SentGrows, SeqMonotonic
<1>4. Sent(1, 0) = <<>> /\ Sent(Early + 1, Early) = <<>>
  <2>1. 0 - 1 + 1 = 0 /\ Early - (Early + 1) + 1 = 0
    BY <1>0
  <2> QED
    BY <2>1 DEF Sent
<1>5. ASSUME NEW x \in Seq(SmokeEvent), NEW y \in Seq(SmokeEvent), NEW e \in SmokeEvent
      PROVE  Append(x \o y, e) = x \o Append(y, e) /\ x \o y \in Seq(SmokeEvent)
  <2>1. x \o y \in Seq(SmokeEvent) /\ <<e>> \in Seq(SmokeEvent)
    BY <1>5
  <2>2. Append(x \o y, e) = (x \o y) \o <<e>> /\ Append(y, e) = y \o <<e>>
    BY <2>1, AppendIsConcat
  <2> QED
    BY <2>1, <2>2, ConcatAssociative
<1>6. Before(0) = Diagnosed
  BY <1>2, <1>4, ConcatEmptySeq DEF Before
<1>7. <<"prompt", k + 1>> \in SmokeEvent /\ Sent(1, k) \in Seq(SmokeEvent) /\ Sent(1, Early) \in Seq(SmokeEvent)
  <2>1. k + 1 \in Nat /\ 1 <= k + 1 /\ 1 <= Early + 1
    BY <1>0
  <2>2. <<"prompt", k + 1>> \in P
    BY <2>1
  <2> QED
    BY <2>1, <2>2, <1>0, <1>1, <1>3
<1>8. Append(Before(k), <<"prompt", k + 1>>) = Before(k + 1)
  <2>1. Append(Sent(1, k), <<"prompt", k + 1>>) = Sent(1, k + 1)
    <3>1. 1 \in Nat /\ 1 <= k + 1
      OBVIOUS
    <3> QED
      BY <3>1, SentGrows
  <2>2. Append(Diagnosed \o Sent(1, k), <<"prompt", k + 1>>) = Diagnosed \o Append(Sent(1, k), <<"prompt", k + 1>>)
    BY <1>2, <1>5, <1>7
  <2> QED
    BY <2>1, <2>2 DEF Before
<1> DEFINE trunk == Diagnosed \o Sent(1, Early) \o << <<"stop", stop>> >>
<1>9. /\ Diagnosed \o Sent(1, Early) \in Seq(SmokeEvent) /\ trunk \in Seq(SmokeEvent)
      /\ trunk = Append(Before(Early), <<"stop", stop>>)
  <2>1. Diagnosed \o Sent(1, Early) \in Seq(SmokeEvent)
    BY <1>2, <1>7, <1>1, <1>5
  <2> QED
    BY <2>1, <1>1, <1>2, <1>5, AppendIsConcat DEF Before
<1>10. \A j : Around(stop, j) = trunk \o Sent(Early + 1, j)
  BY DEF Around
<1> HIDE DEF trunk, P
<1>11. Append(Before(Early), <<"stop", stop>>) = Around(stop, Early)
  BY <1>4, <1>9, <1>10, ConcatEmptySeq
<1>12. ASSUME k >= Early PROVE Append(Around(stop, k), <<"prompt", k + 1>>) = Around(stop, k + 1)
  <2>1. Early + 1 \in Nat /\ Early + 1 <= k + 1
    BY <1>0, <1>12
  <2>2. Append(Sent(Early + 1, k), <<"prompt", k + 1>>) = Sent(Early + 1, k + 1) /\ Sent(Early + 1, k) \in Seq(SmokeEvent)
    BY <2>1, SentGrows, <1>3
  <2>3. Append(trunk \o Sent(Early + 1, k), <<"prompt", k + 1>>) = trunk \o Sent(Early + 1, k + 1)
    <3>1. Append(trunk \o Sent(Early + 1, k), <<"prompt", k + 1>>) = trunk \o Append(Sent(Early + 1, k), <<"prompt", k + 1>>)
      <4> DEFINE y == Sent(Early + 1, k)
      <4> DEFINE e == <<"prompt", k + 1>>
      <4>1. trunk \in Seq(SmokeEvent) /\ y \in Seq(SmokeEvent) /\ e \in SmokeEvent
        BY <2>2, <1>7, <1>9
      <4> HIDE DEF y, e
      <4>2. Append(trunk \o y, e) = trunk \o Append(y, e)
        BY <4>1, <1>5
      <4> QED
        BY <4>2 DEF y, e
    <3> QED
      BY <2>2, <3>1
  <2> QED
    BY <2>3, <1>10
<1> QED
  BY <1>6, <1>8, <1>11, <1>12

(* The step of a command tells which command it is.                         *)
LEMMA StepsTell ==
  ASSUME NEW c \in Command, c.step \in Steps(c.command)
  PROVE  /\ c.step \in {"intend", "send", "record", "resolve"} => c.command \in {"phase_one", "phase_two"}
         /\ c.step = "stop" => c.command = "mark_stopped"
         /\ c.step = "pass" => c.command = "finalize"
         /\ c.step \in {"diagnose", "append"} => c.command = "diagnostics"
<1>1. c.command \in {"diagnostics", "phase_one", "mark_stopped", "phase_two", "finalize"}
  BY DEF Command
<1> QED
  BY <1>1 DEF Steps

LEMMA SmokeTypesGoOn ==
  ASSUME SmokeValid, SmokeInv, [SmokeNext]_smokeVars, removals' = removals
  PROVE  SmokeTypeOK'
<1> USE DEF SmokeTypeOK
<1> SmokeTypeOK /\ (archive = Nothing => \A p \in Operator : running[p] = Nothing)
  BY DEF SmokeInv
<1>0. /\ DOMAIN Phases = 1 .. 6 /\ Diagnostics \in Nat /\ Prompts \in Nat
      /\ EmptyArchive \in Archive
  BY SmokeNumbers, PhaseNumbers DEF EmptyArchive, Archive
<1>1. CASE UNCHANGED <<archive, running, wire>>
  BY <1>1
<1>2. ASSUME NEW p \in Operator, NEW c \in Command \union {Nothing}, running' = [running EXCEPT ![p] = c]
      PROVE  running' \in [Operator -> Command \union {Nothing}]
  BY <1>2
<1>3. ASSUME NEW p \in Operator, running[p] # Nothing
      PROVE  /\ Sound(running[p]) /\ running[p] \in Command /\ archive \in Archive
             /\ running[p].listed \in Seq(PromptAttempt) /\ Ordinal(p) \in Nat
             /\ \A next \in {"progress", "publish", "diagnose", "append", "intend", "send", "record", "resolve", "stop", "pass"} :
                  [running[p] EXCEPT !.step = next] \in Command
  <2>1. running[p] \in Command /\ archive \in Archive
    BY <1>3
  <2>a. Sound(running[p])
    BY <1>3, <2>1, NoneIsNothing DEF SmokeInv
  <2>2. running[p].listed \in Seq(PromptAttempt) /\ Ordinal(p) \in Nat
    BY <2>1 DEF Command, Ordinal
  <2>3. \A next \in {"progress", "publish", "diagnose", "append", "intend", "send", "record", "resolve", "stop", "pass"} :
          [running[p] EXCEPT !.step = next] \in Command
    BY <2>1 DEF Command
  <2> QED
    BY <2>1, <2>2, <2>3, <2>a
<1>4. ASSUME NEW p \in Operator, Quit(p) PROVE running' \in [Operator -> Command \union {Nothing}]
  BY <1>4, <1>2 DEF Quit
<1>6. ASSUME NEW p \in Operator, running[p] # Nothing, NEW next \in
          {"progress", "publish", "diagnose", "append", "intend", "send", "record", "resolve", "stop", "pass"}, Goto(p, next)
      PROVE  running' \in [Operator -> Command \union {Nothing}]
  BY <1>6, <1>3 DEF Goto
<1>7. ASSUME NEW p \in Operator, NEW next \in {"progress", "intend", "stop", "pass"}, NEW stop \in Stops \union {Nothing},
             NEW command \in {"diagnostics", "phase_one", "mark_stopped", "phase_two", "finalize"}, Enter(p, command, next, stop)
      PROVE  running' \in [Operator -> Command \union {Nothing}]
  <2>1. (IF archive = Nothing THEN <<>> ELSE archive.attempts) \in Seq(PromptAttempt)
    BY DEF Archive
  <2>2. [command |-> command, step |-> next, opened |-> removals, listed |-> IF archive = Nothing THEN <<>> ELSE archive.attempts, stop |-> stop, record |-> Nothing]
          \in Command
    BY <2>1 DEF Command
  <2> QED
    BY <2>2, <1>7 DEF Enter
<1>8. ASSUME NEW r, r \in Latest("service_stopped") \union Latest("phase_two_complete"), archive # Nothing PROVE r.stop \in Stops \union {Nothing}
  BY <1>8 DEF Latest, Archive, Progress
<1>9. ASSUME NEW e \in SmokeEvent, wire' = Append(wire, e) PROVE wire' \in Seq(SmokeEvent)
  BY <1>9
<1> SUFFICES ASSUME SmokeNext PROVE SmokeTypeOK'
  BY <1>1 DEF smokeVars
<1>10. PICK p \in Operator :
         \/ BeginDiagnostics(p) \/ Create(p) \/ CreateTooLate(p) \/ BeginPhaseOne(p) \/ BeginMarkStopped(p) \/ BeginPhaseTwo(p) \/ BeginFinalize(p)
         \/ Intend(p) \/ Send(p) \/ RecordAttempt(p) \/ Resolve(p)
         \/ Diagnose(p) \/ AppendTransportDiagnostic(p) \/ AppendServiceStop(p) \/ AppendResult(p)
         \/ PrepareProgress(p) \/ PublishProgress(p) \/ Stopped(p)
  BY DEF SmokeNext
<1>11. CASE BeginDiagnostics(p)
  BY <1>11, <1>1 DEF BeginDiagnostics
<1>27. CASE Create(p)
  BY <1>27, <1>0, <1>7 DEF Create
<1>28. CASE CreateTooLate(p)
  BY <1>28 DEF CreateTooLate
<1>12. CASE BeginPhaseOne(p)
  BY <1>12, <1>7 DEF BeginPhaseOne
<1>13. CASE BeginMarkStopped(p)
  BY <1>13, <1>7 DEF BeginMarkStopped
<1>14. CASE BeginPhaseTwo(p)
  BY <1>14, <1>7, <1>8 DEF BeginPhaseTwo
<1>15. CASE BeginFinalize(p)
  BY <1>15, <1>7, <1>8 DEF BeginFinalize
<1>16. CASE Intend(p)
  <2>1. running[p] # Nothing /\ wire' = wire
    BY <1>16 DEF Intend, AtArchive, At
  <2>2. CASE Quit(p) /\ archive' = archive
    BY <2>1, <2>2, <1>4
  <2>3. CASE archive' = [archive EXCEPT !.intents = @ \union {Ordinal(p)}] /\ Goto(p, "send")
    <3>1. archive' \in Archive
      BY <2>1, <2>3, <1>3 DEF Archive
    <3> QED
      BY <2>1, <2>3, <3>1, <1>6
  <2> QED
    BY <1>16, <2>2, <2>3 DEF Intend
<1>17. CASE Send(p)
  <2>1. running[p] # Nothing /\ wire' = Append(wire, <<"prompt", Ordinal(p)>>) /\ archive' = archive
    BY <1>17 DEF Send, At
  <2>2. <<"prompt", Ordinal(p)>> \in SmokeEvent
    BY <2>1, <1>3 DEF SmokeEvent
  <2>3. PICK outcome \in {"accepted", "drifted", "failed"} :
          running' = [running EXCEPT ![p].step = "record", ![p].record = [ordinal |-> Ordinal(p), outcome |-> outcome]]
    BY <1>17 DEF Send
  <2>4. [ordinal |-> Ordinal(p), outcome |-> outcome] \in PromptAttempt
    BY <2>1, <1>3 DEF PromptAttempt
  <2>5. [running[p] EXCEPT !.step = "record", !.record = [ordinal |-> Ordinal(p), outcome |-> outcome]] \in Command
    <3> DEFINE attempt == [ordinal |-> Ordinal(p), outcome |-> outcome]
    <3>1. attempt \in PromptAttempt /\ running[p] \in Command
      BY <2>1, <2>4, <1>3
    <3> HIDE DEF attempt
    <3>2. [running[p] EXCEPT !.step = "record", !.record = attempt] \in Command
      BY <3>1 DEF Command
    <3> QED
      BY <3>2 DEF attempt
  <2>6. running' \in [Operator -> Command \union {Nothing}]
    BY <2>3, <2>5
  <2> QED
    BY <2>1, <2>2, <2>6, <1>9
<1>18. CASE RecordAttempt(p)
  <2>1. running[p] # Nothing /\ wire' = wire
    BY <1>18 DEF RecordAttempt, AtArchive, At
  <2>2. CASE Quit(p) /\ archive' = archive
    BY <2>1, <2>2, <1>4
  <2>3. CASE /\ archive' = [archive EXCEPT !.attempts = Append(@, running[p].record)]
             /\ running' = [running EXCEPT ![p].step = "resolve", ![p].listed = Append(@, running[p].record)]
    <3> DEFINE c == running[p]
    <3>1. c \in Command /\ archive \in Archive /\ Sound(c) /\ c.step = "record"
      BY <1>18, <2>1, <1>3 DEF RecordAttempt, AtArchive, At
    <3>2. c.record \in PromptAttempt
      BY <3>1 DEF Sound, Steps, Works, Command
    <3> HIDE DEF c
    <3>3. Append(archive.attempts, c.record) \in Seq(PromptAttempt) /\ Append(c.listed, c.record) \in Seq(PromptAttempt)
      BY <3>1, <3>2 DEF Archive, Command
    <3>4. [archive EXCEPT !.attempts = Append(@, c.record)] \in Archive
      BY <3>1, <3>3 DEF Archive
    <3>5. [c EXCEPT !.step = "resolve", !.listed = Append(@, c.record)] \in Command
      BY <3>1, <3>3 DEF Command
    <3>6. running' = [running EXCEPT ![p] = [c EXCEPT !.step = "resolve", !.listed = Append(@, c.record)]]
      BY <2>3 DEF c
    <3>7. archive' = [archive EXCEPT !.attempts = Append(@, c.record)]
      BY <2>3 DEF c
    <3> QED
      BY <2>1, <3>4, <3>5, <3>6, <3>7
  <2> QED
    BY <1>18, <2>2, <2>3 DEF RecordAttempt
<1>19. CASE Resolve(p)
  <2> DEFINE c == running[p]
  <2>1. c # Nothing /\ wire' = wire /\ c.step = "resolve" /\ archive' = [archive EXCEPT !.resolved = @ \union {c.record.ordinal}]
    BY <1>19 DEF Resolve, AtArchive, At
  <2>2. c \in Command /\ archive \in Archive /\ Sound(c)
    BY <2>1, <1>3
  <2>3. c.record \in PromptAttempt
    BY <2>1, <2>2 DEF Sound, Steps, Works, Command
  <2>4. c.record.ordinal \in Nat
    BY <2>3 DEF PromptAttempt
  <2>5. archive' \in Archive
    <3> HIDE DEF c
    <3> QED
      BY <2>1, <2>2, <2>4 DEF Archive
  <2>6. running' \in [Operator -> Command \union {Nothing}]
    BY <1>19, <2>1, <1>4, <1>6 DEF Resolve
  <2> QED
    BY <2>1, <2>5, <2>6
<1>20. CASE Diagnose(p)
  <2>1. <<"diagnosed", Diagnostics>> \in SmokeEvent
    BY <1>0 DEF SmokeEvent
  <2> QED
    BY <1>20, <2>1, <1>6, <1>9 DEF Diagnose, At
<1>21. CASE AppendTransportDiagnostic(p)
  <2>1. running[p] # Nothing /\ wire' = wire
    BY <1>21 DEF AppendTransportDiagnostic, AtArchive, At
  <2>2. archive \in Archive /\ archive' = [archive EXCEPT !.diagnostics = @ + 1]
    BY <1>21, <2>1, <1>3 DEF AppendTransportDiagnostic
  <2>3. archive' \in Archive
    <3>1. archive.diagnostics + 1 \in Nat
      BY <2>2 DEF Archive
    <3> QED
      BY <2>2, <3>1 DEF Archive
  <2>4. running' \in [Operator -> Command \union {Nothing}]
    BY <1>21, <2>1, <1>6 DEF AppendTransportDiagnostic
  <2> QED
    BY <2>1, <2>3, <2>4
<1>22. CASE AppendServiceStop(p)
  <2>1. running[p] # Nothing /\ archive \in Archive /\ running[p] \in Command
    BY <1>22, <1>3 DEF AppendServiceStop, AtArchive, At
  <2>2. CASE Quit(p) /\ UNCHANGED <<archive, wire>>
    BY <2>2, <2>1, <1>4
  <2>3. CASE /\ archive' = [archive EXCEPT !.stops = @ \union {running[p].stop}]
             /\ wire' = Append(wire, <<"stop", running[p].stop>>) /\ Goto(p, "progress")
    <3>1. running[p].stop \in Stops
      <4>1. running[p].stop \in Stops \union {Nothing}
        BY <2>1 DEF Command
      <4> QED
        <5>1. Sound(running[p]) /\ running[p].step = "stop"
          BY <1>22, <2>1, <1>3 DEF AppendServiceStop, AtArchive, At
        <5>2. running[p].command = "mark_stopped"
          BY <5>1, <2>1, StepsTell DEF Sound
        <5> QED
          BY <5>1, <5>2 DEF Sound, Knows
    <3>2. <<"stop", running[p].stop>> \in SmokeEvent
      BY <3>1 DEF SmokeEvent
    <3>3. archive' \in Archive
      BY <2>1, <2>3, <3>1 DEF Archive
    <3> QED
      BY <2>1, <2>3, <3>2, <3>3, <1>6, <1>9
  <2> QED
    BY <1>22, <2>2, <2>3 DEF AppendServiceStop
<1>23. CASE AppendResult(p)
  <2>1. running[p] # Nothing /\ wire' = wire /\ archive \in Archive
    BY <1>23, <1>3 DEF AppendResult, AtArchive, At
  <2>2. archive' \in Archive
    BY <1>23, <2>1 DEF AppendResult, Archive
  <2> QED
    BY <1>23, <2>1, <2>2, <1>4, <1>6 DEF AppendResult
<1>24. CASE PrepareProgress(p)
  <2> DEFINE record == [number |-> Cardinality(archive.progress) + 1, phase |-> PhaseOf(p), attempts |-> running[p].listed, stop |-> running[p].stop]
  <2>1. running[p] # Nothing /\ UNCHANGED <<archive, wire>> /\ running[p] \in Command
    BY <1>24, <1>3 DEF PrepareProgress, AtArchive, At
  <2>2. CASE Quit(p)
    BY <2>1, <2>2, <1>4
  <2>3. CASE record.number \in DOMAIN Phases /\ ProgressValid(record)
              /\ running' = [running EXCEPT ![p].step = "publish", ![p].record = record]
    <3>1. record \in Progress
      <4>1. record.phase = Phases[record.number]
        BY <2>3 DEF ProgressValid
      <4>2. running[p].listed \in Seq(PromptAttempt) /\ running[p].stop \in Stops \union {Nothing}
        BY <2>1 DEF Command
      <4> QED
        BY <4>1, <4>2, <2>3 DEF Progress
    <3> HIDE DEF record
    <3>2. [running[p] EXCEPT !.step = "publish", !.record = record] \in Command
      BY <2>1, <3>1 DEF Command
    <3> QED
      BY <2>1, <2>3, <3>2
  <2> QED
    BY <1>24, <2>2, <2>3 DEF PrepareProgress
<1>25. CASE PublishProgress(p)
  <2> DEFINE c == running[p]
  <2>1. c # Nothing /\ wire' = wire /\ c.step = "publish" /\ archive' = [archive EXCEPT !.progress = @ \union {c.record}]
    BY <1>25 DEF PublishProgress, AtArchive, At
  <2>2. archive \in Archive /\ Sound(c)
    BY <2>1, <1>3
  <2>3. c.record \in Progress
    BY <2>1, <2>2 DEF Sound, Publishes
  <2>4. archive' \in Archive
    <3> HIDE DEF c
    <3> QED
      BY <2>1, <2>2, <2>3 DEF Archive
  <2>5. running' \in [Operator -> Command \union {Nothing}]
    BY <1>25, <2>1, <1>4, <1>6 DEF PublishProgress
  <2> QED
    BY <2>1, <2>4, <2>5
<1>26. CASE Stopped(p)
  BY <1>26, <1>4 DEF Stopped
<1> QED
  BY <1>10, <1>11, <1>12, <1>13, <1>14, <1>15, <1>16, <1>17, <1>18, <1>19, <1>20, <1>21, <1>22, <1>23, <1>24, <1>25, <1>26, <1>27, <1>28

(* The archive only grows.                                                  *)
Grows ==
  /\ archive \in Archive /\ archive' \in Archive
  /\ Attempted <= Attempted' /\ \A i \in 1 .. Attempted : archive'.attempts[i] = archive.attempts[i]
  /\ archive.resolved \subseteq archive'.resolved /\ archive.stops \subseteq archive'.stops
  /\ archive.progress \subseteq archive'.progress

LEMMA MadeIsNat ==
  /\ archive \in Archive => Attempted \in Nat
  /\ archive' \in Archive => Attempted' \in Nat
<1>1. archive \in Archive => Attempted \in Nat
  BY DEF Attempted, Archive
<1>2. archive' \in Archive => Attempted' \in Nat
  BY DEF Attempted, Archive
<1> QED
  BY <1>1, <1>2

LEMMA DoneStays ==
  ASSUME Grows
  PROVE  \A c \in Int : Done(c) => Done(c)'
<1> SUFFICES ASSUME NEW c \in Int, Done(c) PROVE Done(c)'
  OBVIOUS
<1>1. Attempted \in Nat /\ Attempted' \in Nat /\ Attempted <= Attempted' /\ c <= Attempted
  BY MadeIsNat DEF Grows, Done
<1>2. ASSUME NEW i \in 1 .. c PROVE archive'.attempts[i].outcome = "accepted" /\ i \in archive'.resolved
  <2>1. i \in 1 .. Attempted
    BY <1>1
  <2> QED
    BY <2>1 DEF Grows, Done
<1> QED
  BY <1>1, <1>2 DEF Done

LEMMA SoundStays ==
  ASSUME SmokeValid, Grows, Started' <=> Started
  PROVE  \A c \in Command : Sound(c) => Sound(c)'
<1> SUFFICES ASSUME NEW c \in Command, Sound(c) PROVE Sound(c)'
  OBVIOUS
<1>0. Len(c.listed) \in Nat /\ Early \in Int /\ Attempted \in Nat /\ Attempted' \in Nat
  BY SmokeNumbers, MadeIsNat DEF Command, Grows
<1>1. c.step \in Steps(c.command) /\ Publishes(c) /\ Publishes(c)'
  BY DEF Sound, Publishes
<1>2. Lists(c)'
  <2> SUFFICES ASSUME c.command # "diagnostics"
               PROVE  Len(c.listed) <= Attempted' /\ \A i \in 1 .. Len(c.listed) : c.listed[i] = archive'.attempts[i]
    BY DEF Lists
  <2>1. Len(c.listed) <= Attempted /\ \A i \in 1 .. Len(c.listed) : c.listed[i] = archive.attempts[i]
    BY DEF Sound, Lists
  <2>2. ASSUME NEW i \in 1 .. Len(c.listed) PROVE c.listed[i] = archive'.attempts[i]
    <3>1. i \in 1 .. Attempted
      BY <1>0, <2>1
    <3> QED
      BY <2>1, <3>1 DEF Grows
  <2> QED
    BY <1>0, <2>1, <2>2 DEF Grows
<1>3. Works(c)'
  <2>1. Len(c.listed) \in Int /\ Len(c.listed) - 1 \in Int
    BY <1>0
  <2>2. (Done(Len(c.listed)) => Done(Len(c.listed))') /\ (Done(Len(c.listed) - 1) => Done(Len(c.listed) - 1)')
    BY <2>1, DoneStays
  <2>3. Works(c) /\ GoalOf(c)' = GoalOf(c)
    BY DEF Sound, GoalOf
  <2> QED
    BY <2>2, <2>3 DEF Works
<1>4. Knows(c)'
  <2>1. Done(Early) => Done(Early)'
    BY <1>0, DoneStays
  <2>2. Reached(5) => Reached(5)'
    BY DEF Reached, Grows
  <2>3. archive.stops \subseteq archive'.stops /\ Knows(c)
    BY DEF Grows, Sound
  <2> QED
    BY <2>1, <2>2, <2>3 DEF Knows
<1> QED
  BY <1>1, <1>2, <1>3, <1>4 DEF Sound

(* What is said of the other processes, when one of them takes a step.      *)
LEMMA OthersStay ==
  ASSUME SmokeValid, SmokeInv, SmokeTypeOK', Grows, Started' <=> Started,
         NEW p \in Operator, NEW c \in Command \union {Nothing}, running' = [running EXCEPT ![p] = c],
         c # Nothing => Sound(c)'
  PROVE  \A q \in Operator : running'[q] # Nothing => Sound(running[q])'
<1> SUFFICES ASSUME NEW q \in Operator, running'[q] # Nothing PROVE Sound(running[q])'
  OBVIOUS
<1>1. running \in [Operator -> Command \union {Nothing}] /\ archive # Nothing
  BY NoneIsNothing DEF SmokeInv, SmokeTypeOK, Grows
<1>2. CASE q = p
  <2>1. running'[q] = c
    BY <1>1, <1>2
  <2> QED
    BY <2>1
<1>3. CASE q # p
  <2>1. running'[q] = running[q] /\ running[q] \in Command /\ Sound(running[q])
    BY <1>1, <1>3 DEF SmokeInv
  <2>2. \A d \in Command : Sound(d) => Sound(d)'
    BY SoundStays
  <2>3. PICK d \in Command : d = running[q]
    BY <2>1
  <2>4. Sound(d)' /\ d = running'[q]
    BY <2>1, <2>2, <2>3
  <2> QED
    BY <2>4
<1> QED
  BY <1>2, <1>3

LEMMA KindsStay ==
  ASSUME SmokeValid, Grows
  PROVE  \A r : Kinds(r) => Kinds(r)'
<1> SUFFICES ASSUME NEW r, Kinds(r) PROVE Kinds(r)'
  OBVIOUS
<1>1. (Done(Early) => Done(Early)') /\ (Done(Prompts) => Done(Prompts)')
  BY SmokeNumbers, DoneStays
<1>2. archive.stops \subseteq archive'.stops
  BY DEF Grows
<1> QED
  BY <1>1, <1>2 DEF Kinds

(* One process takes a step to c: the other one that is between an intent   *)
(* and its attempt remains alone.                                           *)
LEMMA AloneStays ==
  ASSUME SmokeValid, SmokeInv, NEW p \in Operator, NEW c \in Command \union {Nothing}, running' = [running EXCEPT ![p] = c],
         c # Nothing => c.step \notin {"send", "record"}, Attempted' = Attempted
  PROVE  \A m, k : Alone(m, k) => Alone(m, k)'
<1> SUFFICES ASSUME NEW m, NEW k, Alone(m, k) PROVE Alone(m, k)'
  OBVIOUS
<1>1. running \in [Operator -> Command \union {Nothing}]
  BY DEF SmokeInv, SmokeTypeOK
<1>2. ASSUME NEW q \in Operator, Sends(q)' PROVE q # p /\ running'[q] = running[q] /\ Sends(q) /\ (At(q, "send")' <=> At(q, "send"))
  <2>1. running'[q] # Nothing /\ running'[q].step \in {"send", "record"}
    BY <1>2 DEF Sends, At
  <2>2. running'[p] = c
    BY <1>1
  <2>3. q # p
    BY <2>1, <2>2
  <2>4. running'[q] = running[q]
    BY <1>1, <2>3
  <2> QED
    BY <1>2, <2>3, <2>4 DEF Sends, At
<1>3. ASSUME NEW q \in Operator, Sends(q)'
      PROVE  /\ Len(running'[q].listed) = Attempted' /\ m = Attempted' + 1
             /\ k = IF At(q, "send")' THEN Attempted' ELSE Attempted' + 1
             /\ \A o \in Operator : Sends(o)' => o = q
  <2>1. Sends(q) /\ running'[q] = running[q] /\ (At(q, "send")' <=> At(q, "send"))
    BY <1>2, <1>3
  <2>2. /\ Len(running[q].listed) = Attempted /\ m = Attempted + 1
        /\ k = IF At(q, "send") THEN Attempted ELSE Attempted + 1
        /\ \A o \in Operator : Sends(o) => o = q
    BY <2>1 DEF Alone
  <2> QED
    BY <1>2, <2>1, <2>2
<1> QED
  BY <1>3 DEF Alone

LEMMA NamedStays ==
  ASSUME SmokeValid, SmokeInv, NEW p \in Operator, NEW c \in Command \union {Nothing}, running' = [running EXCEPT ![p] = c],
         c # Nothing /\ c.command = "phase_two" => Named(c.stop),
         \A r \in archive'.progress : r.number = 5 => r \in archive.progress \/ Named(r.stop)
  PROVE  \A s : Named(s)' => Named(s) \/ archive'.stops = {s}
<1> SUFFICES ASSUME NEW s, Named(s)', archive'.stops # {s} PROVE Named(s)
  OBVIOUS
<1>1. running \in [Operator -> Command \union {Nothing}]
  BY DEF SmokeInv, SmokeTypeOK
<1>2. CASE \E q \in Operator : running'[q] # Nothing /\ running'[q].command = "phase_two" /\ running'[q].stop = s
  <2>1. PICK q \in Operator : running'[q] # Nothing /\ running'[q].command = "phase_two" /\ running'[q].stop = s
    BY <1>2
  <2>2. CASE q = p
    <3>1. running'[q] = c
      BY <1>1, <2>2
    <3> QED
      BY <2>1, <3>1
  <2>3. CASE q # p
    <3>1. running'[q] = running[q]
      BY <1>1, <2>3
    <3> QED
      BY <2>1, <3>1 DEF Named
  <2> QED
    BY <2>2, <2>3
<1>3. CASE \E r \in archive'.progress : r.number = 5 /\ r.stop = s
  BY <1>3 DEF Named
<1> QED
  BY <1>2, <1>3 DEF Named

LEMMA WiredStays ==
  ASSUME wire' = wire, archive'.stops = archive.stops, Started' => Started, \A s : Named(s)' => Named(s)
  PROVE  \A k : Wired(k) => Wired(k)'
<1> SUFFICES ASSUME NEW k, Wired(k) PROVE Wired(k)'
  OBVIOUS
<1>1. Before(k)' = Before(k) /\ \A s : Around(s, k)' = Around(s, k)
  BY DEF Before, Around, Diagnosed, Sent
<1> SUFFICES ASSUME Started', NEW s \in Stops
             PROVE  /\ s \notin archive'.stops => Kept(wire, s)' = Before(k)
                    /\ Named(s)' => Kept(wire, s)' = Around(s, k)
  BY <1>1 DEF Wired
<1>2. Kept(wire, s)' = Kept(wire, s)
  BY DEF Kept
<1> QED
  BY <1>2 DEF Wired

(* Before the diagnostics are complete: their process takes a step.         *)
LEMMA FreshStays ==
  ASSUME SmokeValid, SmokeInv, archive # Nothing, ~Started,
         NEW p \in Operator, NEW c \in Command \union {Nothing}, running' = [running EXCEPT ![p] = c], running[p] # Nothing,
         archive'.intents = archive.intents, archive'.attempts = archive.attempts, archive'.stops = archive.stops,
         c # Nothing => wire' = IF Opened(p)' THEN Diagnosed ELSE <<>>
  PROVE  BeforeStart'
<1>1. running \in [Operator -> Command \union {Nothing}] /\ BeforeStart
  BY DEF SmokeInv, SmokeTypeOK
<1>2. \A q \in Operator : running'[q] # Nothing => q = p /\ c # Nothing
  BY <1>1 DEF BeforeStart
<1>3. archive'.intents = {} /\ archive'.attempts = <<>> /\ archive'.stops = {}
  BY <1>1 DEF BeforeStart
<1>4. Diagnosed' = Diagnosed
  BY DEF Diagnosed
<1> QED
  BY <1>2, <1>3, <1>4 DEF BeforeStart

(* A step that writes nothing.                                              *)
LEMMA Quiet ==
  ASSUME SmokeValid, SmokeInv, SmokeTypeOK', archive # Nothing,
         NEW p \in Operator, NEW c \in Command \union {Nothing}, running' = [running EXCEPT ![p] = c], UNCHANGED <<archive, wire>>,
         c # Nothing => Sound(c) /\ c.step \notin {"send", "record"},
         c # Nothing /\ c.command = "phase_two" => Named(c.stop),
         ~Started => running[p] # Nothing /\ (c # Nothing => (Opened(p)' <=> Opened(p)))
  PROVE  SmokeInv'
<1>1. /\ Attempted' = Attempted /\ (Started' <=> Started) /\ archive \in Archive /\ archive' = archive
      /\ \A m, k : Counted(m, k)' <=> Counted(m, k)
  BY DEF Attempted, Started, Counted, SmokeInv, SmokeTypeOK
<1>2. Grows
  BY <1>1, MadeIsNat DEF Grows
<1>3. c # Nothing => Sound(c)'
  BY SoundStays, <1>1, <1>2
<1>4. \A q \in Operator : running'[q] # Nothing => Sound(running[q])'
  BY <1>1, <1>2, <1>3, OthersStay
<1>5. Records'
  <2>1. Records
    BY DEF SmokeInv
  <2> QED
    BY <1>1, <2>1 DEF Records, Kinds, Reached, Done, Attempted
<1>6. BeforeStart'
  <2>1. CASE Started
    BY <2>1, <1>1 DEF BeforeStart
  <2>2. CASE ~Started
    <3>1. c # Nothing => wire' = IF Opened(p)' THEN Diagnosed ELSE <<>>
      BY <2>2 DEF SmokeInv, BeforeStart
    <3> QED
      BY <2>2, <3>1, FreshStays
  <2> QED
    BY <2>1, <2>2
<1>7. Shape'
  <2>1. PICK m, k \in 0 .. Prompts : Counted(m, k) /\ Alone(m, k) /\ Wired(k)
    BY DEF SmokeInv, Shape
  <2>2. Counted(m, k)' /\ Alone(m, k)'
    BY <1>1, <2>1, AloneStays
  <2>3. \A s : Named(s)' => Named(s)
    <3>1. \A s : Named(s)' => Named(s) \/ archive'.stops = {s}
      BY <1>1, NamedStays
    <3> QED
      BY <1>1, <3>1 DEF Named
  <2>4. Wired(k)'
    BY <1>1, <2>1, <2>3, WiredStays
  <2> QED
    BY <2>1, <2>2, <2>4 DEF Shape
<1> QED
  BY <1>1, <1>4, <1>5, <1>6, <1>7 DEF SmokeInv

-----------------------------------------------------------------------------
(* The steps *)

LEMMA FinishIsQuiet ==
  ASSUME SmokeValid, SmokeInv, SmokeTypeOK', NEW p \in Operator, running[p] # Nothing, Quit(p), UNCHANGED <<archive, wire>>
  PROVE  SmokeInv'
<1>1. archive # Nothing
  BY DEF SmokeInv
<1>2. running' = [running EXCEPT ![p] = Nothing]
  BY DEF Quit
<1> QED
  BY <1>1, <1>2, Quiet

(* A record of the progress that a command begins from.                     *)
LEMMA LatestTells ==
  ASSUME SmokeValid, SmokeInv, archive # Nothing, NEW named, NEW r \in Latest(named)
  PROVE  /\ r \in archive.progress /\ r.number \in 1 .. 6 /\ Kinds(r) /\ r.stop \in Stops \union {Nothing}
         /\ named = "diagnostics_complete" => r.number = 2
         /\ named = "phase_one_complete" => r.number = 3
         /\ named = "service_stopped" => r.number = 4
         /\ named = "phase_two_complete" => r.number = 5
<1>1. r \in archive.progress /\ r.phase = named /\ archive \in Archive
  BY DEF Latest, SmokeInv, SmokeTypeOK
<1>2. r \in Progress
  BY <1>1 DEF Archive
<1>3. r.number \in 1 .. 6 /\ r.stop \in Stops \union {Nothing}
  BY <1>2, PhaseNumbers DEF Progress
<1>4. Kinds(r) /\ named = Phases[r.number]
  BY <1>1 DEF SmokeInv, Records, Kinds
<1> QED
  BY <1>1, <1>3, <1>4, PhaseNumbers

(* A command that begins holds the attempts that are there.                 *)
LEMMA BeginTells ==
  ASSUME SmokeValid, SmokeInv, SmokeTypeOK', archive # Nothing, NEW p \in Operator,
         NEW command \in {"diagnostics", "phase_one", "mark_stopped", "phase_two", "finalize"},
         NEW next \in {"intend", "stop", "pass"}, NEW stop \in Stops \union {Nothing}, Enter(p, command, next, stop)
  PROVE  \E c \in Command :
           /\ running' = [running EXCEPT ![p] = c]
           /\ c.command = command /\ c.step = next /\ c.stop = stop /\ c.listed = archive.attempts
<1>1. running' = [running EXCEPT ![p] =
        [command |-> command, step |-> next, opened |-> removals, listed |-> archive.attempts, stop |-> stop, record |-> Nothing]]
  BY DEF Enter
<1> DEFINE c == [command |-> command, step |-> next, opened |-> removals, listed |-> archive.attempts, stop |-> stop, record |-> Nothing]
<1>2. archive.attempts \in Seq(PromptAttempt)
  BY DEF SmokeInv, SmokeTypeOK, Archive
<1>3. c \in Command
  BY <1>2 DEF Command, SmokeInv, SmokeTypeOK
<1> QED
  BY <1>1, <1>3

LEMMA BeginIsQuiet ==
  ASSUME SmokeValid, SmokeInv, SmokeTypeOK', archive # Nothing, NEW p \in Operator,
         NEW c \in Command, running' = [running EXCEPT ![p] = c], UNCHANGED <<archive, wire>>,
         c.listed = archive.attempts, c.step \in {"intend", "stop", "pass"}, c.step \in Steps(c.command),
         Started, Knows(c), c.command = "phase_two" => archive.stops = {c.stop},
         c.command \in {"phase_one", "phase_two"} => Len(c.listed) < GoalOf(c) /\ Done(Len(c.listed))
  PROVE  SmokeInv'
<1>1. Publishes(c) /\ Works(c)
  BY DEF Publishes, Works
<1>2. Lists(c)
  <2>1. archive \in Archive
    BY DEF SmokeInv, SmokeTypeOK
  <2>2. Attempted \in Nat /\ Len(c.listed) = Attempted
    BY <2>1, MadeIsNat DEF Attempted
  <2> QED
    BY <2>2 DEF Lists
<1>3. Sound(c)
  BY <1>1, <1>2 DEF Sound
<1>4. c.command = "phase_two" => Named(c.stop)
  BY DEF Named
<1> QED
  BY <1>3, <1>4, Quiet

LEMMA AttemptsTell ==
  ASSUME NEW count \in Nat, archive \in Archive, AttemptsAre(count, archive.attempts)
  PROVE  Attempted = count /\ Len(archive.attempts) = count
<1>1. archive.attempts \in Seq(PromptAttempt)
  BY DEF Archive
<1>2. Ordinals(archive.attempts) = [i \in 1 .. count |-> i]
  BY DEF AttemptsAre
<1>3. DOMAIN Ordinals(archive.attempts) = DOMAIN archive.attempts
  BY DEF Ordinals
<1>4. DOMAIN archive.attempts = 1 .. count
  BY <1>2, <1>3
<1> QED
  BY <1>1, <1>4 DEF Attempted

LEMMA BeginPhaseOneStep ==
  ASSUME SmokeValid, SmokeInv, SmokeTypeOK', NEW p \in Operator, BeginPhaseOne(p)
  PROVE  SmokeInv'
<1> USE DEF BeginPhaseOne
<1>1. archive # Nothing /\ archive \in Archive
  BY DEF SmokeInv, SmokeTypeOK
<1>2. PICK c \in Command : /\ running' = [running EXCEPT ![p] = c]
                           /\ c.command = "phase_one" /\ c.step = "intend" /\ c.stop = Nothing /\ c.listed = archive.attempts
  BY <1>1, BeginTells
<1>3. Attempted = 0 /\ Len(c.listed) = 0
  BY <1>1, <1>2, AttemptsTell
<1>4. PICK r \in Latest("diagnostics_complete") : TRUE
  OBVIOUS
<1>5. Started
  BY <1>1, LatestTells DEF Started
<1>6. Done(Len(c.listed)) /\ Len(c.listed) < GoalOf(c)
  BY <1>2, <1>3, SmokeNumbers DEF Done, GoalOf
<1>7. Knows(c) /\ c.step \in Steps(c.command)
  BY <1>2, <1>5 DEF Knows, Steps
<1> QED
  BY <1>1, <1>2, <1>5, <1>6, <1>7, BeginIsQuiet

LEMMA BeginMarkStoppedStep ==
  ASSUME SmokeValid, SmokeInv, SmokeTypeOK', NEW p \in Operator, BeginMarkStopped(p)
  PROVE  SmokeInv'
<1> USE DEF BeginMarkStopped
<1>1. archive # Nothing /\ archive \in Archive
  BY DEF SmokeInv, SmokeTypeOK
<1>2. PICK stop \in Stops : Enter(p, "mark_stopped", "stop", stop)
  OBVIOUS
<1>3. PICK c \in Command : /\ running' = [running EXCEPT ![p] = c]
                           /\ c.command = "mark_stopped" /\ c.step = "stop" /\ c.stop = stop /\ c.listed = archive.attempts
  BY <1>1, <1>2, BeginTells
<1>4. PICK r \in Latest("phase_one_complete") : TRUE
  OBVIOUS
<1>5. r \in archive.progress /\ r.number = 3 /\ Kinds(r)
  BY <1>1, LatestTells
<1>6. Started /\ Done(Early)
  BY <1>5 DEF Started, Kinds
<1>7. Knows(c) /\ c.step \in Steps(c.command)
  BY <1>3, <1>6 DEF Knows, Steps
<1> QED
  BY <1>1, <1>3, <1>6, <1>7, BeginIsQuiet

LEMMA BeginPhaseTwoStep ==
  ASSUME SmokeValid, SmokeInv, SmokeTypeOK', NEW p \in Operator, BeginPhaseTwo(p)
  PROVE  SmokeInv'
<1> USE DEF BeginPhaseTwo
<1>0. Early \in Nat /\ Prompts \in Nat /\ Early < Prompts
  BY SmokeNumbers
<1>1. archive # Nothing /\ archive \in Archive
  BY DEF SmokeInv, SmokeTypeOK
<1>2. PICK r \in Latest("service_stopped") : archive.stops = {r.stop} /\ Enter(p, "phase_two", "intend", r.stop)
  OBVIOUS
<1>3. r \in archive.progress /\ r.number = 4 /\ Kinds(r) /\ r.stop \in Stops \union {Nothing}
  BY <1>1, LatestTells
<1>4. PICK c \in Command : /\ running' = [running EXCEPT ![p] = c]
                           /\ c.command = "phase_two" /\ c.step = "intend" /\ c.stop = r.stop /\ c.listed = archive.attempts
  BY <1>1, <1>2, <1>3, BeginTells
<1>5. Started /\ Done(Early)
  BY <1>3 DEF Started, Kinds
<1>6. Len(c.listed) = Early
  BY <1>0, <1>1, <1>4, AttemptsTell
<1>7. Done(Len(c.listed)) /\ Len(c.listed) < GoalOf(c)
  BY <1>0, <1>4, <1>5, <1>6 DEF GoalOf
<1>8. Knows(c) /\ c.step \in Steps(c.command)
  BY <1>2, <1>4, <1>5 DEF Knows, Steps
<1> QED
  BY <1>1, <1>2, <1>4, <1>5, <1>7, <1>8, BeginIsQuiet

LEMMA BeginFinalizeStep ==
  ASSUME SmokeValid, SmokeInv, SmokeTypeOK', NEW p \in Operator, BeginFinalize(p)
  PROVE  SmokeInv'
<1> USE DEF BeginFinalize
<1>1. archive # Nothing /\ archive \in Archive
  BY DEF SmokeInv, SmokeTypeOK
<1>2. PICK r \in Latest("phase_two_complete") : Enter(p, "finalize", "pass", r.stop)
  OBVIOUS
<1>3. r \in archive.progress /\ r.number = 5 /\ r.stop \in Stops \union {Nothing}
  BY <1>1, LatestTells
<1>4. PICK c \in Command : /\ running' = [running EXCEPT ![p] = c]
                           /\ c.command = "finalize" /\ c.step = "pass" /\ c.stop = r.stop /\ c.listed = archive.attempts
  BY <1>1, <1>2, <1>3, BeginTells
<1>5. Started /\ Reached(5)
  BY <1>3 DEF Started, Reached
<1>6. Knows(c) /\ c.step \in Steps(c.command)
  BY <1>4, <1>5 DEF Knows, Steps
<1> QED
  BY <1>1, <1>4, <1>5, <1>6, BeginIsQuiet

LEMMA PrepareStep ==
  ASSUME SmokeValid, SmokeInv, SmokeTypeOK', NEW p \in Operator, PrepareProgress(p)
  PROVE  SmokeInv'
<1> DEFINE record == [number |-> Cardinality(archive.progress) + 1, phase |-> PhaseOf(p), attempts |-> running[p].listed, stop |-> running[p].stop]
<1>1. /\ running[p] # Nothing /\ running[p].step = "progress" /\ UNCHANGED <<archive, wire>>
      /\ archive # Nothing /\ running[p] \in Command /\ Sound(running[p])
  BY DEF PrepareProgress, AtArchive, At, SmokeInv, SmokeTypeOK
<1>2. CASE Quit(p)
  BY <1>1, <1>2, FinishIsQuiet
<1>3. CASE /\ record.number \in DOMAIN Phases /\ ProgressValid(record)
           /\ running' = [running EXCEPT ![p].step = "publish", ![p].record = record]
  <2> DEFINE d == [running[p] EXCEPT !.step = "publish", !.record = record]
  <2>1. record \in Progress
    <3>1. record.phase = Phases[record.number]
      BY <1>3 DEF ProgressValid
    <3>2. running[p].listed \in Seq(PromptAttempt) /\ running[p].stop \in Stops \union {Nothing}
      BY <1>1 DEF Command
    <3> QED
      BY <3>1, <3>2, <1>3 DEF Progress
  <2>2. record.phase = Phases[record.number] /\ record.number \in 1 .. 6 /\ record.stop = running[p].stop /\ record.phase = PhaseOf(p)
    BY <1>3, PhaseNumbers DEF ProgressValid
  <2>3. running[p].command \in {"diagnostics", "phase_one", "mark_stopped", "phase_two", "finalize"}
    BY <1>1 DEF Command
  <2>4. record.number \in Numbers(running[p].command) /\ (running[p].command = "diagnostics" => (record.number = 2 <=> archive.diagnostics # 0))
    <3> HIDE DEF record
    <3>1. CASE running[p].command = "diagnostics"
      <4>1. Phases[record.number] = IF archive.diagnostics = 0 THEN "ready" ELSE "diagnostics_complete"
        BY <3>1, <2>2 DEF PhaseOf
      <4>2. record.number = IF archive.diagnostics = 0 THEN 1 ELSE 2
        <5>1. CASE archive.diagnostics = 0
          BY <5>1, <4>1, <2>2, PhaseNumbers
        <5>2. CASE archive.diagnostics # 0
          BY <5>2, <4>1, <2>2, PhaseNumbers
        <5> QED
          BY <5>1, <5>2
      <4>3. record.number \in {1, 2} /\ (record.number = 2 <=> archive.diagnostics # 0)
        BY <4>2
      <4> QED
        BY <4>3, <3>1 DEF Numbers
    <3>2. CASE running[p].command = "phase_one"
      <4>1. Phases[record.number] = "phase_one_complete"
        BY <3>2, <2>2 DEF PhaseOf
      <4>2. record.number = 3
        BY <4>1, <2>2, PhaseNumbers
      <4> QED
        BY <4>2, <3>2 DEF Numbers
    <3>3. CASE running[p].command = "mark_stopped"
      <4>1. Phases[record.number] = "service_stopped"
        BY <3>3, <2>2 DEF PhaseOf
      <4>2. record.number = 4
        BY <4>1, <2>2, PhaseNumbers
      <4> QED
        BY <4>2, <3>3 DEF Numbers
    <3>4. CASE running[p].command = "phase_two"
      <4>1. Phases[record.number] = "phase_two_complete"
        BY <3>4, <2>2 DEF PhaseOf
      <4>2. record.number = 5
        BY <4>1, <2>2, PhaseNumbers
      <4> QED
        BY <4>2, <3>4 DEF Numbers
    <3>5. CASE running[p].command = "finalize"
      <4>1. Phases[record.number] = "finalized"
        BY <3>5, <2>2 DEF PhaseOf
      <4>2. record.number = 6
        BY <4>1, <2>2, PhaseNumbers
      <4> QED
        BY <4>2, <3>5 DEF Numbers
    <3> QED
      BY <2>3, <3>1, <3>2, <3>3, <3>4, <3>5
  <2> HIDE DEF record
  <2>5. /\ d \in Command /\ d.step = "publish" /\ d.record = record /\ d.command = running[p].command
        /\ d.listed = running[p].listed /\ d.stop = running[p].stop /\ running' = [running EXCEPT ![p] = d]
    BY <1>1, <1>3, <2>1 DEF Command
  <2> HIDE DEF d
  <2>6. PICK c \in Command : c = d
    BY <2>5
  <2>7. Sound(c)
    <3>1. "publish" \in Steps(c.command)
      BY <2>3, <2>5, <2>6 DEF Steps
    <3>2. Publishes(c)
      BY <2>1, <2>2, <2>4, <2>5, <2>6 DEF Publishes
    <3>3. Lists(c)
      BY <1>1, <2>5, <2>6 DEF Sound, Lists
    <3>4. Works(c)
      <4>1. GoalOf(c) = GoalOf(running[p])
        BY <2>5, <2>6 DEF GoalOf
      <4> QED
        BY <4>1, <1>1, <2>5, <2>6 DEF Sound, Works
    <3>5. Knows(c)
      BY <1>1, <2>5, <2>6 DEF Sound, Knows
    <3> QED
      BY <3>1, <3>2, <3>3, <3>4, <3>5, <2>5, <2>6 DEF Sound
  <2>8. c.command = "phase_two" => Named(c.stop)
    BY <1>1, <2>5, <2>6 DEF Named
  <2>9. ASSUME ~Started PROVE Opened(p)' <=> Opened(p)
    <3>1. running[p].command = "diagnostics"
      BY <1>1, <2>9 DEF Sound, Knows
    <3>2. running'[p] = d /\ d # Nothing /\ archive' = archive
      BY <1>1, <2>5, NoneIsNothing DEF SmokeInv, SmokeTypeOK
    <3> QED
      BY <1>1, <3>1, <3>2, <2>4, <2>5 DEF Opened, At
  <2> QED
    BY <1>1, <2>5, <2>6, <2>7, <2>8, <2>9, Quiet
<1> QED
  BY <1>2, <1>3 DEF PrepareProgress

(* Nothing goes out, is intended or attempted, or stops the service.        *)
LEMMA ShapeStays ==
  ASSUME SmokeValid, SmokeInv, archive # Nothing, archive' \in Archive,
         NEW p \in Operator, NEW c \in Command \union {Nothing}, running' = [running EXCEPT ![p] = c],
         wire' = wire, archive'.intents = archive.intents, archive'.attempts = archive.attempts, archive'.stops = archive.stops,
         Started' => Started, c # Nothing => c.step \notin {"send", "record"},
         c # Nothing /\ c.command = "phase_two" => Named(c.stop),
         \A r \in archive'.progress : r.number = 5 => r \in archive.progress \/ Named(r.stop)
  PROVE  Shape'
<1>1. Attempted' = Attempted /\ \A m, k : Counted(m, k) => Counted(m, k)'
  BY DEF Attempted, Counted
<1>2. PICK m, k \in 0 .. Prompts : Counted(m, k) /\ Alone(m, k) /\ Wired(k)
  BY DEF SmokeInv, Shape
<1>3. Counted(m, k)' /\ Alone(m, k)'
  BY <1>1, <1>2, AloneStays
<1>4. \A s : Named(s)' => Named(s)
  <2>1. \A s : Named(s)' => Named(s) \/ archive'.stops = {s}
    BY NamedStays
  <2> QED
    BY <2>1 DEF Named
<1>5. Wired(k)'
  BY <1>2, <1>4, WiredStays
<1> QED
  BY <1>2, <1>3, <1>5 DEF Shape

LEMMA RecordsStay ==
  ASSUME SmokeValid, SmokeInv, archive # Nothing, Grows,
         archive'.stops # {} => archive.stops # {} \/ Done(Early), archive'.passed => archive.passed \/ Reached(5),
         archive'.resolved \subseteq 1 .. Attempted',
         \A r \in archive'.progress : r \in archive.progress \/ Kinds(r)
  PROVE  Records'
<1>1. Records /\ \A r \in archive.progress : Kinds(r)
  BY DEF SmokeInv, Records
<1>2. \A r : Kinds(r) => Kinds(r)'
  BY KindsStay
<1>3. \A r \in archive'.progress : Kinds(r)'
  BY <1>1, <1>2
<1>4. Done(Early) => Done(Early)'
  BY SmokeNumbers, DoneStays
<1>5. Reached(5) => Reached(5)'
  BY DEF Reached, Grows
<1> QED
  BY <1>1, <1>3, <1>4, <1>5 DEF Records

(* The diagnostics are not complete before the step, nor after it.          *)
LEMMA Diagnosing ==
  ASSUME SmokeValid, SmokeInv, SmokeTypeOK', archive # Nothing, Grows, ~Started, ~Started',
         NEW p \in Operator, running[p] # Nothing, NEW c \in Command, running' = [running EXCEPT ![p] = c],
         archive'.intents = archive.intents, archive'.attempts = archive.attempts, archive'.stops = archive.stops,
         Sound(c)', c.command = "diagnostics", c.step \notin {"send", "record"}, Records', wire' = IF Opened(p)' THEN Diagnosed ELSE <<>>
  PROVE  SmokeInv'
<1>1. \A q \in Operator : running'[q] # Nothing => Sound(running[q])'
  BY OthersStay
<1>2. BeforeStart'
  BY FreshStays
<1>3. Shape'
  <2>1. Attempted' = Attempted /\ \A m, k : Counted(m, k) => Counted(m, k)'
    BY DEF Attempted, Counted
  <2>2. PICK m, k \in 0 .. Prompts : Counted(m, k) /\ Alone(m, k)
    BY DEF SmokeInv, Shape
  <2>3. Counted(m, k)' /\ Alone(m, k)'
    BY <2>1, <2>2, AloneStays
  <2>4. Wired(k)'
    BY DEF Wired
  <2> QED
    BY <2>2, <2>3, <2>4 DEF Shape
<1>4. archive' # Nothing
  BY NoneIsNothing DEF Grows
<1> QED
  BY <1>1, <1>2, <1>3, <1>4 DEF SmokeInv

LEMMA CreateStep ==
  ASSUME SmokeValid, SmokeInv, SmokeTypeOK', NEW p \in Operator, Create(p)
  PROVE  SmokeInv'
<1>1. archive = Nothing /\ archive' = EmptyArchive /\ wire' = <<>> /\ \A q \in Operator : running[q] = Nothing
  BY DEF Create, SmokeInv
<1>0. PICK c : c = [command |-> "diagnostics", step |-> "progress", opened |-> removals, listed |-> <<>>, stop |-> Nothing, record |-> Nothing]
  OBVIOUS
<1>2. running' = [running EXCEPT ![p] = c] /\ running \in [Operator -> Command \union {Nothing}]
  BY <1>0, <1>1 DEF Create, Enter, SmokeInv, SmokeTypeOK
<1>3. c \in Command
  BY <1>0 DEF Command, SmokeInv, SmokeTypeOK
<1>4. /\ running'[p] = c /\ c # Nothing /\ \A q \in Operator : q # p => running'[q] = Nothing
  BY <1>1, <1>2, <1>3, NoneIsNothing
<1>5. /\ archive'.progress = {} /\ archive'.diagnostics = 0 /\ archive'.intents = {} /\ archive'.attempts = <<>>
      /\ archive'.resolved = {} /\ archive'.stops = {} /\ archive'.passed = FALSE /\ archive' # Nothing
  <2>1. EmptyArchive \in Archive
    BY DEF EmptyArchive, Archive
  <2> QED
    BY <1>1, <2>1, NoneIsNothing DEF EmptyArchive
<1>6. ~Started' /\ Attempted' = 0
  BY <1>5 DEF Started, Attempted
<1>7. Sound(c)'
  BY <1>0, <1>6 DEF Sound, Steps, Publishes, Lists, Works, Knows
<1>8. \A q \in Operator : running'[q] # Nothing => Sound(running[q])'
  <2>1. Sound(running[p])'
    BY <1>4, <1>7
  <2> QED
    BY <1>4, <2>1
<1>9. BeforeStart'
  <2>1. ~Opened(p)'
    BY <1>0, <1>4, <1>5 DEF Opened, At
  <2> QED
    BY <2>1, <1>1, <1>4, <1>5 DEF BeforeStart
<1>10. Records'
  BY <1>5 DEF Records
<1>11. Shape'
  <2>1. 0 \in 0 .. Prompts /\ Early \in Nat
    BY SmokeNumbers
  <2>2. Counted(0, 0)'
    BY <1>5, <1>6, <2>1 DEF Counted
  <2>3. Alone(0, 0)'
    <3>1. \A q \in Operator : ~Sends(q)'
      BY <1>0, <1>4 DEF Sends, At
    <3> QED
      BY <3>1 DEF Alone
  <2>4. Wired(0)'
    BY <1>6 DEF Wired
  <2> QED
    BY <2>1, <2>2, <2>3, <2>4 DEF Shape
<1> QED
  BY <1>5, <1>8, <1>9, <1>10, <1>11 DEF SmokeInv

LEMMA DiagnoseStep ==
  ASSUME SmokeValid, SmokeInv, SmokeTypeOK', NEW p \in Operator, Diagnose(p)
  PROVE  SmokeInv'
<1>1. /\ running[p] # Nothing /\ running[p].step = "diagnose" /\ archive' = archive
      /\ archive # Nothing /\ archive \in Archive /\ running[p] \in Command /\ Sound(running[p])
  BY DEF Diagnose, At, SmokeInv, SmokeTypeOK
<1>2. running[p].command = "diagnostics"
  BY <1>1, StepsTell DEF Sound
<1>3. ~Started
  BY <1>1, <1>2 DEF Sound, Knows
<1>4. PICK c : c = [running[p] EXCEPT !.step = "append"]
  OBVIOUS
<1>5. /\ c \in Command /\ c.step = "append" /\ c.command = "diagnostics"
      /\ running' = [running EXCEPT ![p] = c]
  BY <1>1, <1>2, <1>4 DEF Diagnose, Goto, Command
<1>6. Attempted' = Attempted /\ ~Started' /\ Grows
  BY <1>1, <1>3, MadeIsNat DEF Attempted, Started, Grows
<1>7. Sound(c)'
  BY <1>5, <1>6 DEF Sound, Steps, Publishes, Lists, Works, Knows
<1>8. wire = <<>>
  BY <1>1, <1>3 DEF SmokeInv, BeforeStart, Opened, At
<1>9. wire' = Diagnosed /\ Opened(p)'
  <2>1. running'[p] = c /\ c # Nothing
    BY <1>5, NoneIsNothing DEF SmokeInv, SmokeTypeOK
  <2>2. wire' = Append(<<>>, <<"diagnosed", Diagnostics>>)
    BY <1>8 DEF Diagnose
  <2> QED
    BY <2>1, <2>2, <1>5 DEF Opened, At, Diagnosed
<1>10. Records'
  <2>1. Records
    BY <1>1 DEF SmokeInv
  <2> QED
    BY <1>1, <1>6, <2>1 DEF Records, Kinds, Reached, Done, Attempted
<1> QED
  BY <1>1, <1>3, <1>5, <1>6, <1>7, <1>9, <1>10, Diagnosing

LEMMA AppendDiagnosticStep ==
  ASSUME SmokeValid, SmokeInv, SmokeTypeOK', NEW p \in Operator, AppendTransportDiagnostic(p)
  PROVE  SmokeInv'
<1>1. /\ running[p] # Nothing /\ running[p].step = "append" /\ archive' = [archive EXCEPT !.diagnostics = @ + 1] /\ wire' = wire
      /\ archive # Nothing /\ archive \in Archive /\ running[p] \in Command /\ Sound(running[p])
  BY DEF AppendTransportDiagnostic, AtArchive, At, SmokeInv, SmokeTypeOK
<1>2. running[p].command = "diagnostics"
  BY <1>1, StepsTell DEF Sound
<1>3. ~Started
  BY <1>1, <1>2 DEF Sound, Knows
<1>4. PICK c : c = [running[p] EXCEPT !.step = IF archive'.diagnostics < Diagnostics THEN "append" ELSE "progress"]
  OBVIOUS
<1>5. /\ c \in Command /\ c.step \in {"append", "progress"} /\ c.command = "diagnostics"
      /\ running' = [running EXCEPT ![p] = c]
  BY <1>1, <1>2, <1>4 DEF AppendTransportDiagnostic, Goto, Command
<1>6. /\ archive' \in Archive /\ archive'.diagnostics = archive.diagnostics + 1 /\ archive.diagnostics \in Nat
      /\ archive'.intents = archive.intents /\ archive'.attempts = archive.attempts /\ archive'.stops = archive.stops
      /\ archive'.progress = archive.progress /\ archive'.resolved = archive.resolved /\ archive'.passed = archive.passed
  BY <1>1 DEF Archive
<1>7. Attempted' = Attempted /\ ~Started' /\ Grows
  BY <1>1, <1>3, <1>6, MadeIsNat DEF Attempted, Started, Grows
<1>8. Sound(c)'
  BY <1>5, <1>7 DEF Sound, Steps, Publishes, Lists, Works, Knows
<1>9. wire' = Diagnosed
  BY <1>1, <1>3 DEF SmokeInv, BeforeStart, Opened, At
<1>10. Opened(p)'
  <2>1. running'[p] = c /\ c # Nothing
    BY <1>5, NoneIsNothing DEF SmokeInv, SmokeTypeOK
  <2> QED
    BY <2>1, <1>5, <1>6 DEF Opened, At
<1>11. Records'
  <2>1. Records
    BY <1>1 DEF SmokeInv
  <2> QED
    BY <1>6, <1>7, <2>1 DEF Records, Kinds, Reached, Done, Attempted
<1> QED
  BY <1>1, <1>3, <1>5, <1>6, <1>7, <1>8, <1>9, <1>10, <1>11, Diagnosing

(* A process that works on the prompts: what it is, what it knows.          *)
LEMMA WorkingTells ==
  ASSUME SmokeValid, SmokeInv, NEW p \in Operator, running[p] # Nothing, running[p].step \in {"intend", "send", "record", "resolve"}
  PROVE  /\ archive # Nothing /\ archive \in Archive /\ running[p] \in Command /\ Sound(running[p])
         /\ running[p].command \in {"phase_one", "phase_two"} /\ Started
         /\ running[p].command = "phase_two" => Named(running[p].stop) /\ archive.stops # {}
         /\ Len(running[p].listed) \in Nat /\ Len(running[p].listed) <= Attempted /\ Attempted \in Nat
         /\ Early \in Nat /\ Prompts \in Nat /\ Early < Prompts
         /\ GoalOf(running[p]) = (IF running[p].command = "phase_one" THEN Early ELSE Prompts)
<1>1. archive # Nothing /\ archive \in Archive /\ running[p] \in Command /\ Sound(running[p])
  BY DEF SmokeInv, SmokeTypeOK
<1>2. running[p].command \in {"phase_one", "phase_two"}
  BY <1>1, StepsTell DEF Sound
<1>3. Started
  BY <1>1, <1>2 DEF Sound, Knows
<1>4. running[p].command = "phase_two" => Named(running[p].stop) /\ archive.stops # {}
  BY <1>1 DEF Named, Sound, Knows
<1>5. Len(running[p].listed) \in Nat /\ Len(running[p].listed) <= Attempted /\ Attempted \in Nat
  BY <1>1, <1>2, MadeIsNat DEF Sound, Lists, Command
<1> QED
  BY <1>1, <1>2, <1>3, <1>4, <1>5, SmokeNumbers DEF GoalOf

LEMMA IntendStep ==
  ASSUME SmokeValid, SmokeInv, SmokeTypeOK', NEW p \in Operator, Intend(p)
  PROVE  SmokeInv'
<1> DEFINE l == Len(running[p].listed)
<1>1. running[p] # Nothing /\ running[p].step = "intend" /\ wire' = wire
  BY DEF Intend, AtArchive, At
<1>2. /\ archive # Nothing /\ archive \in Archive /\ running[p] \in Command /\ Sound(running[p])
      /\ running[p].command \in {"phase_one", "phase_two"} /\ Started
      /\ running[p].command = "phase_two" => Named(running[p].stop) /\ archive.stops # {}
      /\ l \in Nat /\ l <= Attempted /\ Attempted \in Nat
      /\ Early \in Nat /\ Prompts \in Nat /\ Early < Prompts
      /\ GoalOf(running[p]) = (IF running[p].command = "phase_one" THEN Early ELSE Prompts)
  BY <1>1, WorkingTells
<1>3. CASE Quit(p) /\ archive' = archive
  BY <1>1, <1>3, FinishIsQuiet
<1>4. CASE Ordinal(p) \notin archive.intents /\ archive' = [archive EXCEPT !.intents = @ \union {Ordinal(p)}] /\ Goto(p, "send")
  <2>1. PICK c : c = [running[p] EXCEPT !.step = "send"]
    OBVIOUS
  <2>2. /\ c \in Command /\ c.step = "send" /\ c.command = running[p].command /\ c.stop = running[p].stop
        /\ c.listed = running[p].listed /\ running' = [running EXCEPT ![p] = c]
    BY <1>2, <1>4, <2>1 DEF Goto, Command
  <2>3. /\ archive' \in Archive /\ archive'.intents = archive.intents \union {l + 1}
        /\ archive'.attempts = archive.attempts /\ archive'.stops = archive.stops
        /\ archive'.progress = archive.progress /\ archive'.resolved = archive.resolved /\ archive'.passed = archive.passed
    <3>1. Ordinal(p) = l + 1 /\ archive.intents \union {l + 1} \in SUBSET Nat
      BY <1>2 DEF Archive, Ordinal
    <3>2. archive' = [archive EXCEPT !.intents = archive.intents \union {l + 1}]
      BY <1>4, <3>1
    <3> QED
      BY <1>2, <3>1, <3>2 DEF Archive
  <2>4. Attempted' = Attempted /\ (Started' <=> Started) /\ Grows
    BY <1>2, <2>3, MadeIsNat DEF Attempted, Started, Grows
  <2>5. l < GoalOf(running[p]) /\ Done(l)
    BY <1>1, <1>2 DEF Sound, Works
  <2>6. Sound(c)'
    <3>1. Publishes(c) /\ Lists(c) /\ Knows(c) /\ "send" \in Steps(c.command)
      BY <1>2, <2>2 DEF Sound, Publishes, Lists, Knows, Steps
    <3>2. Works(c)
      BY <2>2, <2>5 DEF Works, GoalOf
    <3>3. Sound(c)
      BY <2>2, <3>1, <3>2 DEF Sound
    <3> QED
      BY <2>2, <2>4, <3>3, SoundStays
  <2>7. \A q \in Operator : running'[q] # Nothing => Sound(running[q])'
    BY <2>2, <2>4, <2>6, OthersStay
  <2>8. PICK m, k \in 0 .. Prompts : Counted(m, k) /\ Alone(m, k) /\ Wired(k)
    BY <1>2 DEF SmokeInv, Shape
  <2>9. /\ archive.intents = 1 .. m /\ Attempted <= k /\ k <= m /\ m <= Attempted + 1
        /\ \A i \in 1 .. Attempted : archive.attempts[i].ordinal = i
    BY <2>8 DEF Counted
  <2>10. l = Attempted /\ m = Attempted /\ k = Attempted
    <3>1. l + 1 \notin 1 .. m
      BY <1>4, <2>9 DEF Ordinal
    <3> QED
      BY <3>1, <2>9, <1>2
  <2>11. m + 1 \in 0 .. Prompts /\ (m + 1 > Early => archive.stops # {})
    BY <1>2, <2>5, <2>10
  <2>12. Counted(m + 1, k)'
    <3>1. 1 .. m + 1 = (1 .. m) \union {m + 1}
      BY <1>2, <2>10
    <3>2. archive'.intents = 1 .. m + 1
      BY <2>3, <2>9, <2>10, <3>1
    <3>3. Attempted' <= k /\ k <= m + 1 /\ m + 1 <= Attempted' + 1
      BY <1>2, <2>4, <2>10
    <3>4. \A i \in 1 .. Attempted' : archive'.attempts[i].ordinal = i
      BY <2>3, <2>4, <2>9
    <3> QED
      BY <2>3, <2>11, <3>2, <3>3, <3>4 DEF Counted
  <2>13. Alone(m + 1, k)'
    <3>1. \A q \in Operator : ~Sends(q)
      BY <1>2, <2>8, <2>10 DEF Alone
    <3>2. running'[p] = c /\ \A q \in Operator : q # p => running'[q] = running[q]
      BY <2>2 DEF SmokeInv, SmokeTypeOK
    <3>3. \A q \in Operator : q # p => ~Sends(q)'
      BY <3>1, <3>2 DEF Sends, At
    <3>4. At(p, "send")'
      BY <2>2, <3>2, NoneIsNothing DEF At
    <3>5. Len(running'[p].listed) = Attempted' /\ m + 1 = Attempted' + 1 /\ k = Attempted'
      BY <2>2, <2>4, <2>10, <3>2
    <3>6. ASSUME NEW q \in Operator, Sends(q)'
          PROVE  /\ Len(running'[q].listed) = Attempted' /\ m + 1 = Attempted' + 1
                 /\ k = IF At(q, "send")' THEN Attempted' ELSE Attempted' + 1
                 /\ \A o \in Operator : Sends(o)' => o = q
      <4>1. q = p
        BY <3>3, <3>6
      <4> QED
        BY <4>1, <3>3, <3>4, <3>5
    <3> QED
      BY <3>6 DEF Alone
  <2>14. Wired(k)'
    <3>1. \A s : Named(s)' => Named(s) \/ archive'.stops = {s}
      BY <1>2, <2>2, <2>3, NamedStays
    <3>2. \A s : Named(s)' => Named(s)
      BY <2>3, <3>1 DEF Named
    <3> QED
      BY <1>1, <2>3, <2>4, <2>8, <3>2, WiredStays
  <2>15. Shape'
    BY <2>8, <2>11, <2>12, <2>13, <2>14 DEF Shape
  <2>16. Records'
    <3>1. archive'.resolved \subseteq 1 .. Attempted'
      BY <1>2, <2>3, <2>4 DEF SmokeInv, Records
    <3> QED
      BY <1>2, <2>3, <2>4, <3>1, RecordsStay
  <2>17. archive' # Nothing /\ BeforeStart'
    BY <1>2, <2>3, <2>4, NoneIsNothing DEF BeforeStart
  <2> QED
    BY <2>7, <2>15, <2>16, <2>17 DEF SmokeInv
<1> QED
  BY <1>3, <1>4 DEF Intend

(* A stop that is there, or that a phase two looked at, comes after the     *)
(* early prompts.                                                           *)
LEMMA NamedTells ==
  ASSUME SmokeValid, SmokeInv, archive # Nothing
  PROVE  \A s : Named(s) => archive.stops # {} /\ Done(Early) /\ s \in archive.stops
<1> SUFFICES ASSUME NEW s, Named(s) PROVE archive.stops # {} /\ Done(Early) /\ s \in archive.stops
  OBVIOUS
<1>1. s \in archive.stops
  <2>1. CASE archive.stops = {s}
    BY <2>1
  <2>2. CASE \E p \in Operator : running[p] # Nothing /\ running[p].command = "phase_two" /\ running[p].stop = s
    BY <2>2 DEF SmokeInv, Sound, Knows
  <2>3. CASE \E r \in archive.progress : r.number = 5 /\ r.stop = s
    BY <2>3 DEF SmokeInv, Records, Kinds
  <2> QED
    BY <2>1, <2>2, <2>3 DEF Named
<1> QED
  BY <1>1 DEF SmokeInv, Records

LEMMA SendStep ==
  ASSUME SmokeValid, SmokeInv, SmokeTypeOK', NEW p \in Operator, Send(p)
  PROVE  SmokeInv'
<1> DEFINE l == Len(running[p].listed)
<1>1. running[p] # Nothing /\ running[p].step = "send" /\ archive' = archive /\ wire' = Append(wire, <<"prompt", l + 1>>)
  BY DEF Send, At, Ordinal
<1>2. /\ archive # Nothing /\ archive \in Archive /\ running[p] \in Command /\ Sound(running[p])
      /\ running[p].command \in {"phase_one", "phase_two"} /\ Started
      /\ running[p].command = "phase_two" => Named(running[p].stop) /\ archive.stops # {}
      /\ l \in Nat /\ l <= Attempted /\ Attempted \in Nat
      /\ Early \in Nat /\ Prompts \in Nat /\ Early < Prompts
  BY <1>1, WorkingTells
<1>3. PICK outcome \in {"accepted", "drifted", "failed"} :
        running' = [running EXCEPT ![p].step = "record", ![p].record = [ordinal |-> Ordinal(p), outcome |-> outcome]]
  BY DEF Send
<1>4. PICK attempt : attempt = [ordinal |-> l + 1, outcome |-> outcome]
  OBVIOUS
<1>5. attempt \in PromptAttempt /\ attempt.ordinal = l + 1
  BY <1>2, <1>4 DEF PromptAttempt
<1>6. PICK c : c = [running[p] EXCEPT !.step = "record", !.record = attempt]
  OBVIOUS
<1>7. /\ c \in Command /\ c.step = "record" /\ c.command = running[p].command /\ c.stop = running[p].stop
      /\ c.listed = running[p].listed /\ c.record = attempt
  BY <1>2, <1>5, <1>6 DEF Command
<1>8. running' = [running EXCEPT ![p] = c]
  BY <1>3, <1>4, <1>6 DEF Ordinal
<1>9. Attempted' = Attempted /\ (Started' <=> Started) /\ Grows
  BY <1>1, <1>2, MadeIsNat DEF Attempted, Started, Grows
<1>10. l < GoalOf(running[p]) /\ Done(l)
  BY <1>1, <1>2 DEF Sound, Works
<1>11. Sound(c)'
  <2>1. Publishes(c) /\ Lists(c) /\ Knows(c) /\ "record" \in Steps(c.command)
    BY <1>2, <1>7 DEF Sound, Publishes, Lists, Knows, Steps
  <2>2. Works(c)
    BY <1>5, <1>7, <1>10 DEF Works, GoalOf
  <2>3. Sound(c)
    BY <1>7, <2>1, <2>2 DEF Sound
  <2> QED
    BY <1>7, <1>9, <2>3, SoundStays
<1>12. \A q \in Operator : running'[q] # Nothing => Sound(running[q])'
  BY <1>7, <1>8, <1>9, <1>11, OthersStay
<1>13. PICK m, k \in 0 .. Prompts : Counted(m, k) /\ Alone(m, k) /\ Wired(k)
  BY <1>2 DEF SmokeInv, Shape
<1>14. At(p, "send") /\ Sends(p)
  BY <1>1 DEF Sends, At
<1>15. l = Attempted /\ m = Attempted + 1 /\ k = Attempted /\ \A q \in Operator : Sends(q) => q = p
  BY <1>13, <1>14 DEF Alone
<1>16. k + 1 \in 0 .. Prompts
  BY <1>13, <1>15
<1>17. Counted(m, k + 1)'
  <2>1. Attempted' <= k + 1 /\ k + 1 <= m
    BY <1>2, <1>9, <1>15
  <2> QED
    BY <1>1, <1>9, <1>13, <2>1 DEF Counted
<1>18. Alone(m, k + 1)'
  <2>1. running'[p] = c /\ \A q \in Operator : q # p => running'[q] = running[q]
    BY <1>8 DEF SmokeInv, SmokeTypeOK
  <2>2. \A q \in Operator : q # p => ~Sends(q)'
    BY <2>1, <1>15 DEF Sends, At
  <2>3. ~At(p, "send")' /\ Len(running'[p].listed) = Attempted' /\ m = Attempted' + 1 /\ k + 1 = Attempted' + 1
    BY <1>7, <1>9, <1>15, <2>1 DEF At
  <2>4. ASSUME NEW q \in Operator, Sends(q)'
        PROVE  /\ Len(running'[q].listed) = Attempted' /\ m = Attempted' + 1
               /\ k + 1 = IF At(q, "send")' THEN Attempted' ELSE Attempted' + 1
               /\ \A o \in Operator : Sends(o)' => o = q
    <3>1. q = p
      BY <2>2, <2>4
    <3> QED
      BY <3>1, <2>2, <2>3
  <2> QED
    BY <2>4 DEF Alone
<1>19. Wired(k + 1)'
  <2>1. \A s : Named(s)' => Named(s)
    <3>1. \A s : Named(s)' => Named(s) \/ archive'.stops = {s}
      BY <1>1, <1>2, <1>7, <1>8, NamedStays
    <3> QED
      BY <1>1, <3>1 DEF Named
  <2> DEFINE e == <<"prompt", k + 1>>
  <2>2. e \in SmokeEvent /\ wire' = Append(wire, e) /\ wire \in Seq(SmokeEvent) /\ k \in Nat /\ \A s : Stays(e, s)
    BY <1>1, <1>2, <1>15 DEF SmokeEvent, SmokeInv, SmokeTypeOK, Stays
  <2> HIDE DEF e
  <2>3. ASSUME NEW s \in Stops PROVE Kept(wire, s)' = Append(Kept(wire, s), e)
    <3>1. Kept(Append(wire, e), s) = Append(Kept(wire, s), e)
      BY <2>2, KeptGrows
    <3>2. Kept(wire, s)' = Kept(Append(wire, e), s)
      BY <2>2 DEF Kept
    <3> QED
      BY <3>1, <3>2
  <2>4. ASSUME NEW s \in Stops, s \notin archive.stops PROVE Kept(wire, s)' = Before(k + 1)
    <3>1. Kept(wire, s) = Before(k)
      BY <1>2, <1>13, <2>4 DEF Wired
    <3>2. Append(Before(k), <<"prompt", k + 1>>) = Before(k + 1)
      BY <2>2, WireGrows
    <3> QED
      BY <2>3, <3>1, <3>2 DEF e
  <2>5. ASSUME NEW s \in Stops, Named(s) PROVE Kept(wire, s)' = Around(s, k + 1)
    <3>1. Kept(wire, s) = Around(s, k)
      BY <1>2, <1>13, <2>5 DEF Wired
    <3>2. k >= Early
      BY <1>2, <1>15, <2>5, NamedTells DEF Done
    <3>3. Append(Around(s, k), <<"prompt", k + 1>>) = Around(s, k + 1)
      BY <2>2, <3>2, WireGrows
    <3> QED
      BY <2>3, <3>1, <3>3 DEF e
  <2>6. Before(k + 1)' = Before(k + 1) /\ \A s : Around(s, k + 1)' = Around(s, k + 1)
    BY DEF Before, Around, Diagnosed, Sent
  <2> QED
    BY <1>1, <2>1, <2>4, <2>5, <2>6 DEF Wired
<1>20. Shape'
  BY <1>13, <1>16, <1>17, <1>18, <1>19 DEF Shape
<1>21. Records' /\ BeforeStart'
  <2>1. Records
    BY <1>2 DEF SmokeInv
  <2>2. Records'
    BY <1>1, <1>9, <2>1 DEF Records, Kinds, Reached, Done, Attempted
  <2> QED
    BY <1>2, <1>9, <2>2 DEF BeforeStart
<1> QED
  BY <1>1, <1>2, <1>12, <1>20, <1>21 DEF SmokeInv

LEMMA RecordStep ==
  ASSUME SmokeValid, SmokeInv, SmokeTypeOK', NEW p \in Operator, RecordAttempt(p)
  PROVE  SmokeInv'
<1> DEFINE l == Len(running[p].listed)
<1>1. running[p] # Nothing /\ running[p].step = "record" /\ wire' = wire
  BY DEF RecordAttempt, AtArchive, At
<1>2. /\ archive # Nothing /\ archive \in Archive /\ running[p] \in Command /\ Sound(running[p])
      /\ running[p].command \in {"phase_one", "phase_two"} /\ Started
      /\ running[p].command = "phase_two" => Named(running[p].stop) /\ archive.stops # {}
      /\ l \in Nat /\ l <= Attempted /\ Attempted \in Nat
      /\ Early \in Nat /\ Prompts \in Nat /\ Early < Prompts
      /\ GoalOf(running[p]) = (IF running[p].command = "phase_one" THEN Early ELSE Prompts)
  BY <1>1, WorkingTells
<1>3. CASE Quit(p) /\ archive' = archive
  BY <1>1, <1>3, FinishIsQuiet
<1>4. CASE /\ archive' = [archive EXCEPT !.attempts = Append(@, running[p].record)]
           /\ running' = [running EXCEPT ![p].step = "resolve", ![p].listed = Append(@, running[p].record)]
  <2>1. PICK c : c = [running[p] EXCEPT !.step = "resolve", !.listed = Append(@, running[p].record)]
    OBVIOUS
  <2>2. /\ running[p].record \in PromptAttempt /\ running[p].record.ordinal = l + 1
        /\ l < GoalOf(running[p]) /\ Done(l)
    BY <1>1, <1>2 DEF Sound, Works
  <2>3. /\ c \in Command /\ c.step = "resolve" /\ c.command = running[p].command /\ c.stop = running[p].stop
        /\ c.listed = Append(running[p].listed, running[p].record) /\ c.record = running[p].record
        /\ running' = [running EXCEPT ![p] = c]
    <3>1. Append(running[p].listed, running[p].record) \in Seq(PromptAttempt)
      BY <1>2, <2>2 DEF Command
    <3>2. c \in Command
      BY <1>2, <2>1, <3>1 DEF Command
    <3>3. PICK longer : longer = Append(running[p].listed, running[p].record)
      OBVIOUS
    <3>4. c = [running[p] EXCEPT !.step = "resolve", !.listed = longer] /\ running[p] \in Command
      BY <1>2, <2>1, <3>3
    <3>5. /\ c.step = "resolve" /\ c.command = running[p].command /\ c.stop = running[p].stop
          /\ c.listed = longer /\ c.record = running[p].record
      BY <3>4 DEF Command
    <3>6. running' = [running EXCEPT ![p] = c]
      BY <1>4, <2>1
    <3> QED
      BY <3>2, <3>3, <3>5, <3>6
  <2>4. running[p].listed \in Seq(PromptAttempt) /\ archive.attempts \in Seq(PromptAttempt)
    BY <1>2 DEF Command, Archive
  <2>5. /\ Len(c.listed) = l + 1 /\ c.listed[l + 1] = c.record
        /\ \A i \in 1 .. l : c.listed[i] = running[p].listed[i]
    BY <2>2, <2>3, <2>4
  <2>6. /\ archive' \in Archive /\ archive'.intents = archive.intents
        /\ archive'.attempts = Append(archive.attempts, c.record) /\ archive'.stops = archive.stops
        /\ archive'.progress = archive.progress /\ archive'.resolved = archive.resolved /\ archive'.passed = archive.passed
    <3>1. Append(archive.attempts, running[p].record) \in Seq(PromptAttempt)
      BY <2>2, <2>4
    <3>2. PICK longer : longer = Append(archive.attempts, running[p].record)
      OBVIOUS
    <3>3. longer \in Seq(PromptAttempt) /\ archive' = [archive EXCEPT !.attempts = longer] /\ archive \in Archive
      BY <1>2, <1>4, <3>1, <3>2
    <3>4. /\ archive' \in Archive /\ archive'.intents = archive.intents
          /\ archive'.attempts = longer /\ archive'.stops = archive.stops
          /\ archive'.progress = archive.progress /\ archive'.resolved = archive.resolved /\ archive'.passed = archive.passed
      BY <3>3 DEF Archive
    <3> QED
      BY <2>3, <3>2, <3>4
  <2>7. /\ Attempted' = Attempted + 1 /\ archive'.attempts[Attempted + 1] = c.record
        /\ \A i \in 1 .. Attempted : archive'.attempts[i] = archive.attempts[i]
    BY <2>2, <2>3, <2>4, <2>6 DEF Attempted
  <2>8. (Started' <=> Started) /\ Grows
    <3>1. Started' <=> Started
      BY <2>6 DEF Started
    <3>2. Attempted <= Attempted'
      BY <1>2, <2>7
    <3>3. archive.resolved \subseteq archive'.resolved /\ archive.stops \subseteq archive'.stops /\ archive.progress \subseteq archive'.progress
      BY <2>6
    <3> QED
      BY <1>2, <2>6, <2>7, <3>1, <3>2, <3>3 DEF Grows
  <2>9. PICK m, k \in 0 .. Prompts : Counted(m, k) /\ Alone(m, k) /\ Wired(k)
    BY <1>2 DEF SmokeInv, Shape
  <2>10. Sends(p) /\ ~At(p, "send")
    BY <1>1 DEF Sends, At
  <2>11. l = Attempted /\ m = Attempted + 1 /\ k = Attempted + 1 /\ \A q \in Operator : Sends(q) => q = p
    BY <2>9, <2>10 DEF Alone
  <2>12. Sound(c)'
    <3>1. Publishes(c)' /\ "resolve" \in Steps(c.command)
      BY <1>2, <2>3 DEF Publishes, Steps
    <3>2. Lists(c)'
      <4>1. \A i \in 1 .. l : running[p].listed[i] = archive.attempts[i]
        BY <1>2 DEF Sound, Lists
      <4>2. ASSUME NEW i \in 1 .. l + 1 PROVE c.listed[i] = archive'.attempts[i]
        <5>1. CASE i = l + 1
          BY <5>1, <2>5, <2>7, <2>11
        <5>2. CASE i # l + 1
          <6>1. i \in 1 .. l /\ i \in 1 .. Attempted
            BY <5>2, <1>2
          <6> QED
            BY <6>1, <4>1, <2>5, <2>7
        <5> QED
          BY <5>1, <5>2
      <4>3. Len(c.listed) <= Attempted'
        BY <1>2, <2>5, <2>7, <2>11
      <4>4. \A i \in 1 .. Len(c.listed) : c.listed[i] = archive'.attempts[i]
        BY <4>2, <2>5
      <4> QED
        BY <4>3, <4>4 DEF Lists
    <3>3. Works(c)'
      <4>1. Len(c.listed) - 1 = l /\ Len(c.listed) \in 1 .. GoalOf(c)
        BY <1>2, <2>2, <2>3, <2>5 DEF GoalOf
      <4>2. Done(Len(c.listed) - 1) /\ Len(c.listed) - 1 \in Int
        BY <1>2, <2>2, <4>1
      <4>3. Done(Len(c.listed) - 1)'
        BY <4>2, <2>8, DoneStays
      <4> QED
        BY <4>1, <4>3, <2>2, <2>3, <2>5 DEF Works, GoalOf
    <3>4. Knows(c)'
      <4>1. Knows(running[p])
        BY <1>2 DEF Sound
      <4>2. Done(Early) => Done(Early)'
        BY <1>2, <2>8, DoneStays
      <4> QED
        BY <1>2, <4>1, <4>2, <2>3, <2>6, <2>8 DEF Knows, Reached
    <3> QED
      BY <2>3, <3>1, <3>2, <3>3, <3>4 DEF Sound
  <2>13. \A q \in Operator : running'[q] # Nothing => Sound(running[q])'
    BY <2>3, <2>8, <2>12, OthersStay
  <2>14. Counted(m, k)'
    <3>1. Attempted' <= k /\ k <= m /\ m <= Attempted' + 1
      BY <1>2, <2>7, <2>11
    <3>2. ASSUME NEW i \in 1 .. Attempted' PROVE archive'.attempts[i].ordinal = i
      <4>1. CASE i = Attempted + 1
        BY <4>1, <2>2, <2>3, <2>7, <2>11
      <4>2. CASE i # Attempted + 1
        <5>1. i \in 1 .. Attempted
          BY <4>2, <2>7, <1>2
        <5> QED
          BY <5>1, <2>7, <2>9 DEF Counted
      <4> QED
        BY <4>1, <4>2
    <3> QED
      BY <2>6, <2>9, <3>1, <3>2 DEF Counted
  <2>15. Alone(m, k)'
    <3>1. running'[p] = c /\ \A q \in Operator : q # p => running'[q] = running[q]
      BY <2>3 DEF SmokeInv, SmokeTypeOK
    <3>2. \A q \in Operator : ~Sends(q)'
      BY <3>1, <2>3, <2>11 DEF Sends, At
    <3> QED
      BY <3>2 DEF Alone
  <2>16. Wired(k)'
    <3>1. \A s : Named(s)' => Named(s) \/ archive'.stops = {s}
      BY <1>2, <2>3, <2>6, NamedStays
    <3>2. \A s : Named(s)' => Named(s)
      BY <2>6, <3>1 DEF Named
    <3> QED
      BY <1>1, <2>6, <2>8, <2>9, <3>2, WiredStays
  <2>17. Shape'
    BY <2>9, <2>14, <2>15, <2>16 DEF Shape
  <2>18. Records'
    <3>1. archive'.resolved \subseteq 1 .. Attempted'
      <4>1. archive.resolved \subseteq 1 .. Attempted
        BY <1>2 DEF SmokeInv, Records
      <4> QED
        BY <4>1, <1>2, <2>6, <2>7
    <3> QED
      BY <1>2, <2>6, <2>8, <3>1, RecordsStay
  <2>19. archive' # Nothing /\ BeforeStart'
    BY <1>2, <2>6, <2>8, NoneIsNothing DEF BeforeStart
  <2> QED
    BY <2>13, <2>17, <2>18, <2>19 DEF SmokeInv
<1> QED
  BY <1>3, <1>4 DEF RecordAttempt

LEMMA ResolveStep ==
  ASSUME SmokeValid, SmokeInv, SmokeTypeOK', NEW p \in Operator, Resolve(p)
  PROVE  SmokeInv'
<1> DEFINE l == Len(running[p].listed)
<1>1. running[p] # Nothing /\ running[p].step = "resolve" /\ wire' = wire
  BY DEF Resolve, AtArchive, At
<1>2. /\ archive # Nothing /\ archive \in Archive /\ running[p] \in Command /\ Sound(running[p])
      /\ running[p].command \in {"phase_one", "phase_two"} /\ Started
      /\ running[p].command = "phase_two" => Named(running[p].stop) /\ archive.stops # {}
      /\ l \in Nat /\ l <= Attempted /\ Attempted \in Nat
      /\ Early \in Nat /\ Prompts \in Nat /\ Early < Prompts
      /\ GoalOf(running[p]) = (IF running[p].command = "phase_one" THEN Early ELSE Prompts)
  BY <1>1, WorkingTells
<1>3. /\ l \in 1 .. GoalOf(running[p]) /\ Done(l - 1)
      /\ running[p].record \in PromptAttempt /\ running[p].record = running[p].listed[l]
  BY <1>1, <1>2 DEF Sound, Works
<1>4. running[p].record = archive.attempts[l] /\ running[p].record.ordinal = l /\ l \in 1 .. Attempted
  <2>1. l \in 1 .. l /\ l \in 1 .. Attempted
    BY <1>2, <1>3
  <2>2. running[p].record = archive.attempts[l]
    BY <1>2, <1>3, <2>1 DEF Sound, Lists
  <2> QED
    BY <1>2, <2>1, <2>2 DEF SmokeInv, Shape, Counted
<1>5. /\ archive' \in Archive /\ archive'.intents = archive.intents
      /\ archive'.attempts = archive.attempts /\ archive'.stops = archive.stops
      /\ archive'.progress = archive.progress /\ archive'.resolved = archive.resolved \union {l} /\ archive'.passed = archive.passed
  <2>1. archive' = [archive EXCEPT !.resolved = @ \union {l}]
    BY <1>4 DEF Resolve
  <2>2. archive' \in Archive
    BY <1>2, <2>1 DEF Archive
  <2> QED
    BY <1>2, <2>1, <2>2 DEF Archive
<1>6. Attempted' = Attempted /\ (Started' <=> Started) /\ Grows
  BY <1>2, <1>5, MadeIsNat DEF Attempted, Started, Grows
<1>7. Records'
  <2>1. archive'.resolved \subseteq 1 .. Attempted'
    BY <1>2, <1>4, <1>5, <1>6 DEF SmokeInv, Records
  <2> QED
    BY <1>2, <1>5, <1>6, <2>1, RecordsStay
<1>8. archive' # Nothing /\ BeforeStart'
  BY <1>2, <1>5, <1>6, NoneIsNothing DEF BeforeStart
<1>9. ASSUME NEW c \in Command \union {Nothing}, running' = [running EXCEPT ![p] = c], c # Nothing => c.step \notin {"send", "record"} /\ Sound(c)',
             c # Nothing /\ c.command = "phase_two" => Named(c.stop)
      PROVE  SmokeInv'
  <2>1. \A q \in Operator : running'[q] # Nothing => Sound(running[q])'
    BY <1>6, <1>9, OthersStay
  <2>2. Shape'
    BY <1>1, <1>2, <1>5, <1>6, <1>9, ShapeStays
  <2> QED
    BY <1>7, <1>8, <2>1, <2>2 DEF SmokeInv
<1>10. CASE running[p].record.outcome # "accepted"
  <2>1. running' = [running EXCEPT ![p] = Nothing]
    BY <1>10 DEF Resolve, Quit
  <2> QED
    BY <1>9, <2>1
<1>11. CASE running[p].record.outcome = "accepted"
  <2>1. PICK c : c = [running[p] EXCEPT !.step = IF l < Goal(p) THEN "intend" ELSE "progress"]
    OBVIOUS
  <2>2. /\ c \in Command /\ c.command = running[p].command /\ c.stop = running[p].stop
        /\ c.listed = running[p].listed /\ running' = [running EXCEPT ![p] = c]
        /\ c.step = (IF l < GoalOf(running[p]) THEN "intend" ELSE "progress")
    BY <1>2, <1>11, <2>1 DEF Resolve, Goto, Command, Goal, GoalOf
  <2>3. Done(Len(c.listed))'
    <3> DEFINE n == Len(c.listed)
    <3>0. n = l /\ n \in Nat
      BY <1>2, <2>2
    <3>1. \A i \in 1 .. l - 1 : archive.attempts[i].outcome = "accepted" /\ i \in archive.resolved
      BY <1>3 DEF Done
    <3>2. ASSUME NEW i \in 1 .. n PROVE archive'.attempts[i].outcome = "accepted" /\ i \in archive'.resolved
      <4>1. CASE i = l
        BY <3>0, <4>1, <1>4, <1>5, <1>11
      <4>2. CASE i # l
        <5>1. i \in 1 .. l - 1
          BY <3>0, <4>2, <1>2
        <5> QED
          BY <5>1, <3>1, <1>5
      <4> QED
        BY <4>1, <4>2
    <3> QED
      BY <3>0, <3>2, <1>2, <1>6 DEF Done
  <2>4. Sound(c)'
    <3>1. Publishes(c)' /\ c.step \in Steps(c.command)
      BY <1>2, <2>2 DEF Publishes, Steps
    <3>2. Lists(c)'
      BY <1>2, <1>5, <1>6, <2>2 DEF Sound, Lists
    <3>3. Works(c)'
      <4>1. GoalOf(c) = GoalOf(running[p]) /\ GoalOf(c)' = GoalOf(c) /\ GoalOf(c) \in Nat /\ Len(c.listed) = l
        BY <1>2, <2>2 DEF GoalOf
      <4>3. (c.step = "intend" /\ l < GoalOf(c)) \/ (c.step = "progress" /\ l = GoalOf(c))
        BY <1>2, <1>3, <2>2, <4>1
      <4> QED
        BY <2>3, <4>1, <4>3 DEF Works
    <3>4. Knows(c)'
      <4>1. Knows(running[p])
        BY <1>2 DEF Sound
      <4>2. Done(Early) => Done(Early)'
        BY <1>2, <1>6, DoneStays
      <4> QED
        BY <1>2, <4>1, <4>2, <2>2, <1>5, <1>6 DEF Knows, Reached
    <3> QED
      BY <3>1, <3>2, <3>3, <3>4 DEF Sound
  <2>5. c.step \notin {"send", "record"} /\ (c.command = "phase_two" => Named(c.stop))
    BY <1>2, <2>2
  <2> QED
    BY <1>9, <2>2, <2>4, <2>5
<1> QED
  BY <1>10, <1>11

LEMMA StopStep ==
  ASSUME SmokeValid, SmokeInv, SmokeTypeOK', NEW p \in Operator, AppendServiceStop(p)
  PROVE  SmokeInv'
<1>1. /\ running[p] # Nothing /\ running[p].step = "stop"
      /\ archive # Nothing /\ archive \in Archive /\ running[p] \in Command /\ Sound(running[p])
  BY DEF AppendServiceStop, AtArchive, At, SmokeInv, SmokeTypeOK
<1>2. running[p].command = "mark_stopped"
  BY <1>1, StepsTell DEF Sound
<1>3. Started /\ Done(Early) /\ running[p].stop \in Stops
  BY <1>1, <1>2 DEF Sound, Knows
<1>4. CASE Quit(p) /\ UNCHANGED <<archive, wire>>
  BY <1>1, <1>4, FinishIsQuiet
<1>5. CASE /\ running[p].stop \notin archive.stops
           /\ archive' = [archive EXCEPT !.stops = @ \union {running[p].stop}]
           /\ wire' = Append(wire, <<"stop", running[p].stop>>) /\ Goto(p, "progress")
  <2>1. PICK stop \in Stops : stop = running[p].stop
    BY <1>3
  <2>2. PICK c : c = [running[p] EXCEPT !.step = "progress"]
    OBVIOUS
  <2>3. /\ c \in Command /\ c.step = "progress" /\ c.command = "mark_stopped" /\ c.stop = stop
        /\ c.listed = running[p].listed /\ running' = [running EXCEPT ![p] = c]
    BY <1>1, <1>2, <1>5, <2>1, <2>2 DEF Goto, Command
  <2>4. /\ archive' \in Archive /\ archive'.intents = archive.intents
        /\ archive'.attempts = archive.attempts /\ archive'.stops = archive.stops \union {stop}
        /\ archive'.progress = archive.progress /\ archive'.resolved = archive.resolved /\ archive'.passed = archive.passed
    <3>1. archive' = [archive EXCEPT !.stops = @ \union {stop}]
      BY <1>5, <2>1
    <3>2. archive' \in Archive
      BY <1>1, <3>1 DEF Archive
    <3> QED
      BY <1>1, <3>1, <3>2 DEF Archive
  <2>5. Attempted' = Attempted /\ (Started' <=> Started) /\ Grows /\ Attempted \in Nat
    BY <1>1, <2>4, MadeIsNat DEF Attempted, Started, Grows
  <2>6. Sound(c)'
    <3>1. Publishes(c) /\ Lists(c) /\ Knows(c) /\ Works(c) /\ c.step \in Steps(c.command)
      BY <1>1, <1>2, <2>1, <2>3 DEF Sound, Publishes, Lists, Knows, Works, Steps
    <3>2. Sound(c)
      BY <3>1 DEF Sound
    <3> QED
      BY <2>3, <2>5, <3>2, SoundStays
  <2>7. \A q \in Operator : running'[q] # Nothing => Sound(running[q])'
    BY <2>3, <2>5, <2>6, OthersStay
  <2>8. Records'
    <3>1. archive'.resolved \subseteq 1 .. Attempted'
      BY <1>1, <2>4, <2>5 DEF SmokeInv, Records
    <3> QED
      BY <1>1, <1>3, <2>4, <2>5, <3>1, RecordsStay
  <2>9. PICK m, k \in 0 .. Prompts : Counted(m, k) /\ Alone(m, k) /\ Wired(k)
    BY <1>1 DEF SmokeInv, Shape
  <2>10. Counted(m, k)'
    BY <2>4, <2>5, <2>9 DEF Counted
  <2>11. Alone(m, k)'
    BY <2>3, <2>5, <2>9, AloneStays
  <2>12. Wired(k)'
    <3> DEFINE e == <<"stop", stop>>
    <3>1. e \in SmokeEvent /\ wire' = Append(wire, e) /\ wire \in Seq(SmokeEvent) /\ \A s : Stays(e, s) <=> s = stop
      BY <1>5, <2>1 DEF SmokeEvent, SmokeInv, SmokeTypeOK, Stays
    <3> HIDE DEF e
    <3>2. ASSUME NEW s \in Stops PROVE Kept(wire, s)' = IF s = stop THEN Append(Kept(wire, s), e) ELSE Kept(wire, s)
      <4>1. Kept(Append(wire, e), s) = IF Stays(e, s) THEN Append(Kept(wire, s), e) ELSE Kept(wire, s)
        BY <3>1, KeptGrows
      <4>2. Kept(wire, s)' = Kept(Append(wire, e), s)
        BY <3>1 DEF Kept
      <4>3. Stays(e, s) <=> s = stop
        BY <3>1
      <4> QED
        BY <4>1, <4>2, <4>3
    <3>3. \A s : Named(s)' => Named(s) \/ archive'.stops = {s}
      BY <1>1, <2>3, <2>4, NamedStays
    <3>4. ASSUME NEW s \in Stops, s \notin archive'.stops PROVE Kept(wire, s)' = Before(k)
      <4>1. s # stop /\ s \notin archive.stops
        BY <3>4, <2>4
      <4>2. Kept(wire, s) = Before(k)
        BY <1>3, <2>9, <4>1 DEF Wired
      <4> QED
        BY <3>2, <4>1, <4>2
    <3>5. ASSUME NEW s \in Stops, Named(s)' PROVE Kept(wire, s)' = Around(s, k)
      <4>1. CASE Named(s)
        <5>1. s \in archive.stops
          BY <4>1, <1>1, NamedTells
        <5>2. s # stop
          BY <5>1, <1>5, <2>1
        <5>3. Kept(wire, s) = Around(s, k)
          BY <4>1, <1>3, <2>9 DEF Wired
        <5> QED
          BY <3>2, <5>2, <5>3
      <4>2. CASE ~Named(s)
        <5>1. archive'.stops = {s}
          BY <3>3, <3>5, <4>2
        <5>2. s = stop /\ archive.stops \subseteq {stop}
          BY <5>1, <2>4
        <5>3. archive.stops = {}
          BY <5>2, <1>5, <2>1
        <5>4. k = Early
          <6>1. Early <= Attempted /\ Early \in Nat
            BY <1>3, SmokeNumbers DEF Done
          <6>2. Attempted <= k /\ k <= m /\ ~(m > Early)
            BY <5>3, <2>9 DEF Counted
          <6> QED
            BY <6>1, <6>2, <2>5, <2>9, SmokeNumbers
        <5>5. Kept(wire, s) = Before(Early)
          BY <5>2, <5>3, <5>4, <1>3, <2>9 DEF Wired
        <5>6. Append(Before(Early), <<"stop", stop>>) = Around(stop, Early)
          BY WireGrows
        <5> QED
          BY <3>2, <5>2, <5>4, <5>5, <5>6 DEF e
      <4> QED
        BY <4>1, <4>2
    <3>6. Before(k)' = Before(k) /\ \A s : Around(s, k)' = Around(s, k)
      BY DEF Before, Around, Diagnosed, Sent
    <3> QED
      BY <3>4, <3>5, <3>6 DEF Wired
  <2>13. Shape'
    BY <2>9, <2>10, <2>11, <2>12 DEF Shape
  <2>14. archive' # Nothing /\ BeforeStart'
    BY <1>3, <2>4, <2>5, NoneIsNothing DEF BeforeStart
  <2> QED
    BY <2>7, <2>8, <2>13, <2>14 DEF SmokeInv
<1> QED
  BY <1>4, <1>5 DEF AppendServiceStop

LEMMA ResultStep ==
  ASSUME SmokeValid, SmokeInv, SmokeTypeOK', NEW p \in Operator, AppendResult(p)
  PROVE  SmokeInv'
<1>1. /\ running[p] # Nothing /\ running[p].step = "pass" /\ wire' = wire
      /\ archive # Nothing /\ archive \in Archive /\ running[p] \in Command /\ Sound(running[p])
  BY DEF AppendResult, AtArchive, At, SmokeInv, SmokeTypeOK
<1>2. running[p].command = "finalize"
  BY <1>1, StepsTell DEF Sound
<1>3. Started /\ Reached(5)
  BY <1>1, <1>2 DEF Sound, Knows
<1>4. CASE Quit(p) /\ archive' = archive
  BY <1>1, <1>4, FinishIsQuiet
<1>5. CASE archive' = [archive EXCEPT !.passed = TRUE] /\ Goto(p, "progress")
  <2>1. PICK c : c = [running[p] EXCEPT !.step = "progress"]
    OBVIOUS
  <2>2. /\ c \in Command /\ c.step = "progress" /\ c.command = "finalize" /\ c.stop = running[p].stop
        /\ c.listed = running[p].listed /\ running' = [running EXCEPT ![p] = c]
    BY <1>1, <1>2, <1>5, <2>1 DEF Goto, Command
  <2>3. /\ archive' \in Archive /\ archive'.intents = archive.intents
        /\ archive'.attempts = archive.attempts /\ archive'.stops = archive.stops
        /\ archive'.progress = archive.progress /\ archive'.resolved = archive.resolved
    BY <1>1, <1>5 DEF Archive
  <2>4. Attempted' = Attempted /\ (Started' <=> Started) /\ Grows
    BY <1>1, <2>3, MadeIsNat DEF Attempted, Started, Grows
  <2>5. Sound(c)'
    <3>1. Publishes(c) /\ Lists(c) /\ Knows(c) /\ Works(c) /\ c.step \in Steps(c.command)
      BY <1>1, <1>2, <2>2 DEF Sound, Publishes, Lists, Knows, Works, Steps
    <3>2. Sound(c)
      BY <3>1 DEF Sound
    <3> QED
      BY <2>2, <2>4, <3>2, SoundStays
  <2>6. \A q \in Operator : running'[q] # Nothing => Sound(running[q])'
    BY <2>2, <2>4, <2>5, OthersStay
  <2>7. Records'
    <3>1. archive'.resolved \subseteq 1 .. Attempted'
      BY <1>1, <2>3, <2>4 DEF SmokeInv, Records
    <3> QED
      BY <1>1, <1>3, <2>3, <2>4, <3>1, RecordsStay
  <2>8. Shape'
    BY <1>1, <2>2, <2>3, <2>4, ShapeStays
  <2>9. archive' # Nothing /\ BeforeStart'
    BY <1>3, <2>3, <2>4, NoneIsNothing DEF BeforeStart
  <2> QED
    BY <2>6, <2>7, <2>8, <2>9 DEF SmokeInv
<1> QED
  BY <1>4, <1>5 DEF AppendResult

(* What a process that is about to create a record of the progress knows.   *)
LEMMA PublishTells ==
  ASSUME SmokeValid, SmokeInv, NEW p \in Operator, At(p, "publish")
  PROVE  /\ running[p] # Nothing /\ archive # Nothing /\ archive \in Archive /\ running[p] \in Command /\ Sound(running[p])
         /\ running[p].record \in Progress /\ running[p].record.number \in 1 .. 6
         /\ running[p].record.number \in Numbers(running[p].command)
         /\ running[p].record.phase = Phases[running[p].record.number]
         /\ running[p].record.stop = running[p].stop
         /\ Started => Kinds(running[p].record) /\ running[p].record.number >= 3
         /\ ~Started => running[p].command = "diagnostics" /\ running[p].record.number \in {1, 2}
         /\ running[p].record.number = 5 => Named(running[p].record.stop)
<1>1. /\ running[p] # Nothing /\ running[p].step = "publish"
      /\ archive # Nothing /\ archive \in Archive /\ running[p] \in Command /\ Sound(running[p])
  BY DEF At, SmokeInv, SmokeTypeOK
<1>2. /\ running[p].record \in Progress /\ running[p].record.number \in Numbers(running[p].command)
      /\ running[p].record.phase = Phases[running[p].record.number]
      /\ running[p].record.stop = running[p].stop
  BY <1>1 DEF Sound, Publishes
<1>3. running[p].record.number \in 1 .. 6
  BY <1>2, PhaseNumbers DEF Progress
<1>4. running[p].command \in {"diagnostics", "phase_one", "mark_stopped", "phase_two", "finalize"} /\ Knows(running[p])
  BY <1>1 DEF Command, Sound
<1>5. ~Started => running[p].command = "diagnostics" /\ running[p].record.number \in {1, 2}
  BY <1>2, <1>4 DEF Numbers, Knows
<1>6. ASSUME Started PROVE Kinds(running[p].record) /\ running[p].record.number >= 3
  <2> DEFINE r == running[p].record
  <2>1. running[p].command # "diagnostics"
    BY <1>4, <1>6 DEF Knows
  <2>2. CASE running[p].command = "phase_one"
    <3>1. r.number = 3
      BY <1>2, <2>2 DEF Numbers
    <3>2. Done(Early)
      BY <1>1, <2>2 DEF Sound, Works, GoalOf
    <3> QED
      BY <1>2, <3>1, <3>2 DEF Kinds
  <2>3. CASE running[p].command = "mark_stopped"
    <3>1. r.number = 4
      BY <1>2, <2>3 DEF Numbers
    <3>2. Done(Early)
      BY <1>4, <2>3 DEF Knows
    <3> QED
      BY <1>2, <3>1, <3>2 DEF Kinds
  <2>4. CASE running[p].command = "phase_two"
    <3>1. r.number = 5
      BY <1>2, <2>4 DEF Numbers
    <3>2. Done(Early) /\ r.stop \in archive.stops
      BY <1>2, <1>4, <2>4 DEF Knows
    <3>3. Done(Prompts)
      BY <1>1, <2>4 DEF Sound, Works, GoalOf
    <3> QED
      BY <1>2, <3>1, <3>2, <3>3 DEF Kinds
  <2>5. CASE running[p].command = "finalize"
    <3>1. r.number = 6
      BY <1>2, <2>5 DEF Numbers
    <3>2. PICK e \in archive.progress : e.number = 5
      BY <1>4, <2>5 DEF Knows, Reached
    <3>3. Done(Early) /\ Done(Prompts)
      BY <1>1, <3>2 DEF SmokeInv, Records, Kinds
    <3> QED
      BY <1>2, <3>1, <3>3 DEF Kinds
  <2> QED
    BY <1>4, <2>1, <2>2, <2>3, <2>4, <2>5
<1>7. ASSUME running[p].record.number = 5 PROVE Named(running[p].record.stop)
  <2>1. running[p].command = "phase_two"
    BY <1>2, <1>4, <1>7 DEF Numbers
  <2> QED
    BY <1>1, <1>2, <2>1 DEF Named
<1> QED
  BY <1>1, <1>2, <1>3, <1>5, <1>6, <1>7

LEMMA PublishStep ==
  ASSUME SmokeValid, SmokeInv, SmokeTypeOK', NEW p \in Operator, PublishProgress(p)
  PROVE  SmokeInv'
<1>1. At(p, "publish") /\ wire' = wire
  BY DEF PublishProgress, AtArchive
<1>2. PICK r : r = running[p].record
  OBVIOUS
<1>3. /\ running[p] # Nothing /\ archive # Nothing /\ archive \in Archive /\ running[p] \in Command /\ Sound(running[p])
      /\ r \in Progress /\ r.number \in 1 .. 6 /\ r.phase = Phases[r.number]
      /\ Started => Kinds(r) /\ r.number >= 3
      /\ ~Started => running[p].command = "diagnostics" /\ r.number \in {1, 2}
      /\ r.number = 5 => Named(r.stop)
  BY <1>1, <1>2, PublishTells
<1>4. /\ archive' \in Archive /\ archive'.progress = archive.progress \union {r} /\ archive'.intents = archive.intents
      /\ archive'.attempts = archive.attempts /\ archive'.stops = archive.stops /\ archive'.diagnostics = archive.diagnostics
      /\ archive'.resolved = archive.resolved /\ archive'.passed = archive.passed /\ archive' # Nothing
  <2>1. archive' = [archive EXCEPT !.progress = @ \union {r}]
    BY <1>2 DEF PublishProgress
  <2>2. archive' \in Archive
    BY <1>3, <2>1 DEF Archive
  <2> QED
    BY <1>3, <2>1, <2>2, NoneIsNothing DEF Archive
<1>5. Attempted' = Attempted /\ Grows /\ (Started' <=> Started \/ r.number >= 2)
  BY <1>3, <1>4, MadeIsNat DEF Attempted, Started, Grows
<1>6. Kinds(r)
  <2>1. CASE Started
    BY <1>3, <2>1
  <2>2. CASE ~Started
    BY <1>3, <2>2 DEF Kinds
  <2> QED
    BY <2>1, <2>2
<1>7. Records'
  <2>1. archive'.resolved \subseteq 1 .. Attempted'
    BY <1>3, <1>4, <1>5 DEF SmokeInv, Records
  <2> QED
    BY <1>3, <1>4, <1>5, <1>6, <2>1, RecordsStay
<1>8. (r.phase = "ready") <=> r.number = 1
  BY <1>3, PhaseNumbers
<1>9. running \in [Operator -> Command \union {Nothing}] /\ BeforeStart
  BY <1>3 DEF SmokeInv, SmokeTypeOK
<1>10. CASE Started
  <2>1. running' = [running EXCEPT ![p] = Nothing]
    BY <1>2, <1>3, <1>8, <1>10 DEF PublishProgress, Quit
  <2>2. \A q \in Operator : running'[q] # Nothing => Sound(running[q])'
    BY <1>5, <1>10, <2>1, OthersStay
  <2>3. \A e \in archive'.progress : e.number = 5 => e \in archive.progress \/ Named(e.stop)
    BY <1>3, <1>4
  <2>4. Shape'
    BY <1>1, <1>3, <1>4, <1>10, <2>1, <2>3, ShapeStays
  <2>5. BeforeStart'
    BY <1>5, <1>10 DEF BeforeStart
  <2> QED
    BY <1>4, <1>7, <2>2, <2>4, <2>5 DEF SmokeInv
<1>11. CASE ~Started /\ r.number = 1
  <2>1. PICK c : c = [running[p] EXCEPT !.step = "diagnose"]
    OBVIOUS
  <2>2. /\ c \in Command /\ c.step = "diagnose" /\ c.command = "diagnostics" /\ c.record = r /\ c.stop = running[p].stop
        /\ running' = [running EXCEPT ![p] = c]
    BY <1>2, <1>3, <1>8, <1>11, <2>1 DEF PublishProgress, Goto, Command
  <2>3. ~Started'
    BY <1>5, <1>11
  <2>4. Sound(c)'
    <3>1. r.stop = running[p].stop
      BY <1>1, <1>2, PublishTells
    <3> QED
      BY <1>3, <1>11, <2>2, <2>3, <3>1 DEF Sound, Steps, Publishes, Numbers, Lists, Works, Knows
  <2>5. wire' = <<>>
    BY <1>1, <1>2, <1>3, <1>9, <1>11 DEF BeforeStart, Opened, At
  <2>6. ~Opened(p)'
    <3>1. running'[p] = c
      BY <1>9, <2>2
    <3> QED
      BY <3>1, <2>2 DEF Opened, At
  <2>7. wire' = IF Opened(p)' THEN Diagnosed ELSE <<>>
    BY <2>5, <2>6
  <2> QED
    BY <1>3, <1>4, <1>5, <1>7, <1>11, <2>2, <2>3, <2>4, <2>7, Diagnosing
<1>12. CASE ~Started /\ r.number = 2
  <2>1. running' = [running EXCEPT ![p] = Nothing]
    BY <1>2, <1>8, <1>12 DEF PublishProgress, Quit
  <2>2. \A q \in Operator : running'[q] = Nothing
    BY <1>3, <1>9, <1>12, <2>1 DEF BeforeStart
  <2>3. wire = Diagnosed
    BY <1>1, <1>2, <1>3, <1>9, <1>12 DEF BeforeStart, Opened
  <2>4. archive'.intents = {} /\ archive'.attempts = <<>> /\ archive'.stops = {} /\ Attempted' = 0
    BY <1>4, <1>9, <1>12 DEF BeforeStart, Attempted
  <2>5. 0 \in 0 .. Prompts /\ Early \in Nat
    BY SmokeNumbers
  <2>6. Counted(0, 0)' /\ Alone(0, 0)'
    BY <2>2, <2>4, <2>5 DEF Counted, Alone, Sends, At
  <2>7. Wired(0)'
    <3> SUFFICES ASSUME NEW s \in Stops PROVE (~Named(s))' /\ Kept(wire, s)' = Before(0)'
      BY DEF Wired
    <3>1. \A e \in archive'.progress : e.number # 5
      BY <1>4, <1>12 DEF Started
    <3>2. (~Named(s))'
      BY <2>2, <2>4, <3>1 DEF Named
    <3>3. <<"diagnosed", Diagnostics>> \in SmokeEvent /\ <<>> \in Seq(SmokeEvent) /\ Stays(<<"diagnosed", Diagnostics>>, s)
      BY SmokeNumbers DEF SmokeEvent, Stays
    <3>4. Diagnosed = Append(<<>>, <<"diagnosed", Diagnostics>>)
      BY DEF Diagnosed
    <3>5. Kept(Diagnosed, s) = Append(Kept(<<>>, s), <<"diagnosed", Diagnostics>>)
      BY <3>3, <3>4, KeptGrows
    <3>6. Kept(Diagnosed, s) = Diagnosed
      BY <3>4, <3>5, KeptOfNone
    <3>7. Kept(wire, s)' = Kept(Diagnosed, s)
      BY <1>1, <2>3 DEF Kept
    <3>8. Before(0)' = Before(0) /\ Before(0) = Diagnosed
      <4>1. Before(0) = Diagnosed
        BY WireGrows
      <4> QED
        BY <4>1 DEF Before, Diagnosed, Sent
    <3> QED
      BY <3>2, <3>6, <3>7, <3>8
  <2>8. Shape'
    BY <2>5, <2>6, <2>7 DEF Shape
  <2>9. BeforeStart'
    BY <1>5, <1>12 DEF BeforeStart
  <2> QED
    BY <1>4, <1>7, <2>2, <2>8, <2>9 DEF SmokeInv
<1> QED
  BY <1>3, <1>10, <1>11, <1>12

LEMMA SmokeBegins == SmokeValid /\ SmokeInit => SmokeInv
<1> SUFFICES ASSUME SmokeValid, SmokeInit PROVE SmokeInv
  OBVIOUS
<1>1. archive = Nothing /\ running = [p \in Operator |-> Nothing] /\ wire = <<>> /\ removals = 0
  BY DEF SmokeInit
<1>2. SmokeTypeOK
  BY <1>1 DEF SmokeTypeOK
<1> QED
  BY <1>1, <1>2 DEF SmokeInv

(* A step that removes no archive.                                          *)
LEMMA SmokeGoesOn ==
  ASSUME SmokeValid, SmokeInv, [SmokeNext]_smokeVars, removals' = removals
  PROVE  SmokeInv'
<1>1. SmokeTypeOK'
  BY SmokeTypesGoOn
<1>2. CASE UNCHANGED <<archive, running, wire>>
  <2>1. archive' = archive /\ running' = running /\ wire' = wire
    BY <1>2
  <2>2. (BeforeStart' <=> BeforeStart) /\ (Records' <=> Records) /\ (Shape' <=> Shape)
    BY <2>1 DEF BeforeStart, Opened, At, Started, Records, Kinds, Reached, Done, Attempted, Shape, Counted, Alone, Sends, Wired, Named, Kept,
                Before, Around, Diagnosed, Sent
  <2>3. \A q : Sound(running[q])' <=> Sound(running[q])
    BY <2>1 DEF Sound, Publishes, Lists, Works, Knows, Done, Attempted, Reached, Started, GoalOf
  <2> QED
    BY <1>1, <2>1, <2>2, <2>3 DEF SmokeInv
<1>3. CASE SmokeNext
  <2>1. PICK p \in Operator :
          \/ BeginDiagnostics(p) \/ Create(p) \/ CreateTooLate(p) \/ BeginPhaseOne(p) \/ BeginMarkStopped(p) \/ BeginPhaseTwo(p) \/ BeginFinalize(p)
          \/ Intend(p) \/ Send(p) \/ RecordAttempt(p) \/ Resolve(p)
          \/ Diagnose(p) \/ AppendTransportDiagnostic(p) \/ AppendServiceStop(p) \/ AppendResult(p)
          \/ PrepareProgress(p) \/ PublishProgress(p) \/ Stopped(p)
    BY <1>3 DEF SmokeNext
  <2>2. BeginDiagnostics(p) => SmokeInv'
    BY <1>2 DEF BeginDiagnostics
  <2>3. ~CreateTooLate(p)
    BY DEF CreateTooLate, SmokeInv, SmokeTypeOK
  <2>4. Stopped(p) => SmokeInv'
    <3>1. running[p] # Nothing /\ Stopped(p) => SmokeInv'
      BY <1>1, FinishIsQuiet DEF Stopped
    <3>2. running[p] = Nothing /\ Stopped(p) => UNCHANGED <<archive, running, wire>>
      BY DEF Stopped, Quit, SmokeInv, SmokeTypeOK
    <3> QED
      BY <3>1, <3>2, <1>2
  <2> QED
    BY <1>1, <2>1, <2>2, <2>3, <2>4, CreateStep, BeginPhaseOneStep, BeginMarkStoppedStep, BeginPhaseTwoStep, BeginFinalizeStep,
       IntendStep, SendStep, RecordStep, ResolveStep, DiagnoseStep, AppendDiagnosticStep, StopStep, ResultStep, PrepareStep, PublishStep
<1> QED
  BY <1>2, <1>3 DEF smokeVars

(* As long as no archive was removed.                                       *)
LateInv == removals \in Nat /\ (removals = 0 => SmokeInv)

LEMMA LateGoesOn == SmokeValid /\ LateInv /\ [SmokeNext]_smokeVars => LateInv'
<1> SUFFICES ASSUME SmokeValid, LateInv, [SmokeNext]_smokeVars PROVE LateInv'
  OBVIOUS
<1>1. removals \in Nat
  BY DEF LateInv
<1>2. removals' = removals \/ removals' = removals + 1
  BY DEF SmokeNext, smokeVars, BeginDiagnostics, Create, CreateTooLate, BeginPhaseOne, BeginMarkStopped, BeginPhaseTwo, BeginFinalize,
         Intend, Send, RecordAttempt, Resolve, Diagnose, AppendTransportDiagnostic, AppendServiceStop, AppendResult,
         PrepareProgress, PublishProgress, Stopped
<1>3. ASSUME removals' = 0 PROVE SmokeInv'
  <2>1. removals' = removals /\ removals = 0
    BY <1>1, <1>2, <1>3
  <2> QED
    BY <2>1, SmokeGoesOn DEF LateInv
<1> QED
  BY <1>1, <1>2, <1>3 DEF LateInv

LEMMA PassedIsOnce == SmokeValid /\ SmokeInv => PassedOnce
<1> SUFFICES ASSUME SmokeValid, SmokeInv, archive # Nothing, archive.passed
             PROVE  /\ \E r \in archive.progress :
                         r.phase = "phase_two_complete" /\ Kept(wire, r.stop) = Around(r.stop, Prompts)
                    /\ Ordinals(archive.attempts) = [i \in 1 .. Prompts |-> i]
                    /\ \A i \in DOMAIN archive.attempts : archive.attempts[i].outcome = "accepted"
                    /\ archive.intents = 1 .. Prompts /\ archive.resolved = 1 .. Prompts
  BY DEF PassedOnce, Around, Diagnosed
<1>1. Records /\ Shape /\ archive \in Archive /\ Attempted \in Nat
  BY MadeIsNat DEF SmokeInv, SmokeTypeOK
<1>2. PICK r \in archive.progress : r.number = 5
  BY <1>1 DEF Records, Reached
<1>3. r.phase = "phase_two_complete" /\ Done(Prompts) /\ r.stop \in archive.stops
  BY <1>1, <1>2, PhaseNumbers DEF Records, Kinds
<1>4. r.stop \in Stops /\ Named(r.stop) /\ Started
  BY <1>1, <1>2, <1>3 DEF Archive, Named, Started
<1>5. PICK m, k \in 0 .. Prompts : Counted(m, k) /\ Wired(k)
  BY <1>1 DEF Shape
<1>6. Attempted = Prompts /\ m = Prompts /\ k = Prompts
  <2>1. Attempted <= k /\ k <= m /\ Prompts <= Attempted
    BY <1>3, <1>5 DEF Counted, Done
  <2> QED
    BY <2>1, <1>1, <1>5, SmokeNumbers
<1>7. Kept(wire, r.stop) = Around(r.stop, Prompts)
  BY <1>4, <1>5, <1>6 DEF Wired
<1>8. DOMAIN archive.attempts = 1 .. Prompts
  BY <1>1, <1>6 DEF Archive, Attempted
<1>9. Ordinals(archive.attempts) = [i \in 1 .. Prompts |-> i]
  BY <1>5, <1>6, <1>8 DEF Ordinals, Counted
<1>10. \A i \in 1 .. Prompts : archive.attempts[i].outcome = "accepted" /\ i \in archive.resolved
  BY <1>3 DEF Done
<1>11. archive.intents = 1 .. Prompts /\ archive.resolved = 1 .. Prompts
  BY <1>1, <1>5, <1>6, <1>10 DEF Counted, Records
<1> QED
  BY <1>2, <1>3, <1>7, <1>8, <1>9, <1>10, <1>11

(* A smoke result that says "passed" stands for one pass through the        *)
(* service: the diagnostics, the early prompts, the stop that the progress  *)
(* names, the late prompts, each sent once, whoever ran the commands and    *)
(* wherever they died; as long as no process that came too late to create   *)
(* the archive has removed it.                                              *)
THEOREM SmokePassesOnce ==
  ASSUME SmokeValid
  PROVE  SmokeSpec => []PassedOnce
<1>1. SmokeInit => LateInv
  BY SmokeBegins DEF SmokeInit, LateInv
<1>2. LateInv /\ [SmokeNext]_smokeVars => LateInv'
  BY LateGoesOn
<1>3. LateInv => PassedOnce
  BY PassedIsOnce DEF LateInv, PassedOnce
<1> QED
  BY <1>1, <1>2, <1>3, PTL DEF SmokeSpec

-----------------------------------------------------------------------------
(* The collection of the diagnostic                                          *)

diagnosticVars == <<mandate, files, launched, sent>>
DiagnosticSpec == DiagnosticInit /\ [][DiagnosticNext]_diagnosticVars

Voices == Labels \union {Null}
Requests == [event : Nat, prior : Seq(Voices)]
Line == [cell : {CellOf(i) : i \in Nat}, request : Requests, committed : BOOLEAN]
LaunchedProcess ==
  [step : {"idle", "plan", "intend", "post", "resolve", "stage", "project", "report", "done", "dead"},
   index : Nat \ {0}, prior : Seq(Voices), stance : Voices]

DiagnosticTypeOK ==
  /\ dispatch \in [lines : Seq([kind : {"intent", "resolution"}, request : Requests]), torn : BOOLEAN]
  /\ staged \in [lines : Seq(Line), torn : BOOLEAN]
  /\ launched \in [Launcher -> LaunchedProcess]
  /\ sent \in [1 .. EventTotal -> Nat]

(* The intent that every process begins with.                               *)
Opening == Entry("intent", [event |-> 1, prior |-> <<>>])

(* A process that has recorded it, and has not died.                        *)
Engaged(p) ==
  \/ launched[p].step \in {"post", "resolve", "stage", "project", "report", "done"}
  \/ launched[p].step \in {"plan", "intend"} /\ launched[p].index > 1

(* What such a process has done.                                            *)
Over(p) == launched[p].step \in {"project", "report", "done"}
Place(p) == IF Over(p) THEN launched[p].index = LastEvent + 1 ELSE launched[p].index \in 1 .. LastEvent
SentBy(p, i) == i < launched[p].index \/ (i = launched[p].index /\ launched[p].step \in {"resolve", "stage"})
InLine(i) ==
  /\ staged.lines[i].request.event = i
  /\ mandate.runner = "real" =>
       /\ staged.lines[i].committed
       /\ OrdinalOf(i) # 0 => Front(staged.lines[i].request.prior) = staged.lines[i - 1].request.prior
Follows(p) ==
  mandate.runner = "real" /\ OrdinalOf(launched[p].index) # 0 =>
    Front(launched[p].prior) = staged.lines[launched[p].index - 1].request.prior
Account(p) ==
  /\ Place(p)
  /\ ~staged.torn /\ Len(staged.lines) = launched[p].index - 1
  /\ \A i \in 1 .. EventTotal : sent[i] = IF SentBy(p, i) THEN 1 ELSE 0
  /\ \A i \in 1 .. launched[p].index - 1 : InLine(i)
  /\ Follows(p)

Untouched ==
  /\ \A i \in 1 .. EventTotal : sent[i] = 0
  /\ staged = NewFile
  /\ \A p \in Launcher : ~Engaged(p)
Reported ==
  /\ \E p \in Launcher : launched[p].step = "done"
  /\ mandate.runner = "slice" => report.status # "complete"
Unspoken(p) ==
  launched[p].step = "idle" \/ (launched[p].step \in {"plan", "intend"} /\ launched[p].index = 1) =>
    launched[p].index = 1 /\ launched[p].prior = <<>>

OneRun ==
  /\ dispatch.lines = <<>> => Untouched
  /\ dispatch.lines # <<>> => Opening \in ToSet(dispatch.lines)
  /\ \A p, q \in Launcher : Engaged(p) /\ Engaged(q) => p = q
  /\ \A p \in Launcher : Engaged(p) => Account(p)
  /\ report # Null => Reported

DiagnosticInv ==
  /\ DiagnosticTypeOK
  /\ \A p \in Launcher : Unspoken(p)
  /\ JournalReadable(dispatch) => OneRun

-----------------------------------------------------------------------------
LEMMA EventNumbers ==
  ASSUME DiagnosticValid
  PROVE  /\ EventTotal \in Nat /\ LastEvent \in 1 .. EventTotal /\ PerCell \in Nat \ {0}
         /\ OrdinalOf(1) = 0
<1>1. PerCell \in Nat \ {0} /\ Len(Cells) \in Nat \ {0} /\ Slice \in 1 .. PerCell
  BY DEF DiagnosticValid
<1>2. EventTotal \in Nat /\ PerCell <= EventTotal
  <2> DEFINE n == Len(Cells)
  <2>1. n \in Nat /\ n >= 1
    BY <1>1
  <2> HIDE DEF n
  <2>2. n * PerCell \in Nat /\ n * PerCell >= PerCell
    BY <1>1, <2>1
  <2> QED
    BY <2>2 DEF EventTotal, n
<1>3. OrdinalOf(1) = 0
  BY <1>1 DEF OrdinalOf
<1> QED
  BY <1>1, <1>2, <1>3 DEF LastEvent

LEMMA FrontOfAppend ==
  ASSUME NEW S, NEW s \in Seq(S), NEW x \in S
  PROVE  Front(Append(s, x)) = s
<1>1. Len(Append(s, x)) = Len(s) + 1 /\ \A i \in 1 .. Len(s) : Append(s, x)[i] = s[i]
  OBVIOUS
<1>2. Front(Append(s, x)) = SubSeq(Append(s, x), 1, Len(s))
  BY <1>1 DEF Front
<1> QED
  BY <1>1, <1>2

LEMMA AppendedHolds ==
  ASSUME NEW S, NEW s \in Seq(S), NEW x
  PROVE  /\ Append(s, x) # <<>> /\ x \in ToSet(Append(s, x))
         /\ \A y \in ToSet(s) : y \in ToSet(Append(s, x))
<1> DEFINE t == Append(s, x)
           n == Len(s)
<1>1. /\ n \in Nat /\ DOMAIN s = 1 .. n /\ DOMAIN t = 1 .. n + 1
      /\ t[n + 1] = x /\ \A i \in 1 .. n : t[i] = s[i]
  OBVIOUS
<1> HIDE DEF t, n
<1>2. t # <<>>
  <2>1. n + 1 \in DOMAIN t
    BY <1>1
  <2>2. DOMAIN <<>> = {}
    OBVIOUS
  <2> QED
    BY <2>1, <2>2
<1>3. x \in ToSet(t)
  <2>1. n + 1 \in 1 .. n + 1
    BY <1>1
  <2> QED
    BY <1>1, <2>1 DEF ToSet
<1>4. ASSUME NEW y \in ToSet(s) PROVE y \in ToSet(t)
  <2>1. PICK i \in 1 .. n : s[i] = y
    BY <1>1 DEF ToSet
  <2>2. i \in 1 .. n + 1 /\ t[i] = y
    BY <1>1, <2>1
  <2> QED
    BY <1>1, <2>2 DEF ToSet
<1> QED
  BY <1>2, <1>3, <1>4 DEF t

LEMMA AppendedTyped ==
  ASSUME NEW S, NEW file \in [lines : Seq(S), torn : BOOLEAN], NEW x \in S
  PROVE  Appended(file, x) \in [lines : Seq(S), torn : BOOLEAN]
<1>1. file.lines \in Seq(S) /\ Append(file.lines, x) \in Seq(S)
  OBVIOUS
<1>2. [file EXCEPT !.lines = Append(file.lines, x)] \in [lines : Seq(S), torn : BOOLEAN]
  BY <1>1
<1> QED
  BY <1>2 DEF Appended

LEMMA Typed ==
  ASSUME DiagnosticValid, DiagnosticTypeOK, NEW p \in Launcher, DiagnosticStep(p)
  PROVE  DiagnosticTypeOK'
<1> USE DEF DiagnosticTypeOK
<1>1. launched[p] \in LaunchedProcess /\ launched[p].index \in Nat /\ launched[p].prior \in Seq(Voices)
      /\ launched[p].stance \in Voices /\ launched[p].index \in Nat \ {0}
  BY DEF LaunchedProcess
<1>2. RequestOf(p) \in Requests
  BY <1>1 DEF RequestOf, Requests
<1>3. ASSUME NEW next \in {"idle", "plan", "intend", "post", "resolve", "stage", "project", "report", "done", "dead"},
             launched' = [launched EXCEPT ![p].step = next]
      PROVE  launched' \in [Launcher -> LaunchedProcess]
  BY <1>3, <1>1 DEF LaunchedProcess
<1>4. Raise(p) => launched' \in [Launcher -> LaunchedProcess]
  BY <1>3 DEF Raise, Go
<1>5. ASSUME NEW kind \in {"intent", "resolution"}
      PROVE  Appended(dispatch, Entry(kind, RequestOf(p))) \in [lines : Seq([kind : {"intent", "resolution"}, request : Requests]), torn : BOOLEAN]
  <2>1. Entry(kind, RequestOf(p)) \in [kind : {"intent", "resolution"}, request : Requests]
    BY <1>2, <1>5 DEF Entry
  <2> QED
    BY <2>1, AppendedTyped
<1>6. Torn(dispatch) \in [lines : Seq([kind : {"intent", "resolution"}, request : Requests]), torn : BOOLEAN]
      /\ Torn(staged) \in [lines : Seq(Line), torn : BOOLEAN]
  BY DEF Torn
<1>7. CASE Launch(p)
  BY <1>7, <1>3 DEF Launch, Go, files
<1>8. CASE PlanDispatch(p)
  BY <1>8, <1>3, <1>4 DEF PlanDispatch, Go, files
<1>9. CASE AppendIntent(p)
  BY <1>9, <1>3, <1>5 DEF AppendIntent, Go
<1>10. CASE PostRequest(p)
  <2>1. sent' \in [1 .. EventTotal -> Nat]
    <3>1. ASSUME NEW i, sent' = [sent EXCEPT ![i] = @ + 1] PROVE sent' \in [1 .. EventTotal -> Nat]
      <4>1. DOMAIN sent = 1 .. EventTotal /\ \A j \in 1 .. EventTotal : sent[j] \in Nat
        OBVIOUS
      <4>2. DOMAIN sent' = 1 .. EventTotal /\ \A j \in 1 .. EventTotal : sent'[j] = IF j = i THEN sent[j] + 1 ELSE sent[j]
        BY <3>1, <4>1
      <4>3. sent' = [j \in 1 .. EventTotal |-> sent'[j]]
        BY <3>1, <4>1
      <4> QED
        BY <4>1, <4>2, <4>3
    <3> QED
      BY <3>1, <1>10 DEF PostRequest
  <2>2. launched' \in [Launcher -> LaunchedProcess]
    <3>1. CASE Raise(p)
      BY <3>1, <1>4
    <3>2. ASSUME NEW answer \in Answers, NEW said,
                 said = (IF mandate.runner = "real" THEN ReplyStance(answer) ELSE Null),
                 launched' = [launched EXCEPT ![p].step = "resolve", ![p].stance = said]
          PROVE  launched' \in [Launcher -> LaunchedProcess]
      <4>1. said \in Voices
        BY <3>2 DEF ReplyStance, Voices
      <4> QED
        BY <4>1, <3>2, <1>1 DEF LaunchedProcess
    <3> QED
      BY <1>10, <3>1, <3>2 DEF PostRequest
  <2> QED
    BY <2>1, <2>2, <1>10 DEF PostRequest, files
<1>11. CASE ResolveDispatch(p)
  BY <1>11, <1>3, <1>4, <1>5 DEF ResolveDispatch, Go
<1>12. CASE Stage(p)
  <2>1. SanitizedAttempt(p) \in Line
    BY <1>1, <1>2 DEF SanitizedAttempt, Line
  <2>2. staged' \in [lines : Seq(Line), torn : BOOLEAN]
    BY <2>1, <1>12, AppendedTyped DEF Stage
  <2>3. Follow(launched[p]) \in LaunchedProcess
    <3>1. Append(launched[p].prior, launched[p].stance) \in Seq(Voices) /\ <<>> \in Seq(Voices)
      BY <1>1
    <3>2. Null \in Voices /\ launched[p].index + 1 \in Nat \ {0}
      BY <1>1 DEF Voices
    <3> QED
      BY <3>1, <3>2, <1>1 DEF Follow, LaunchedProcess
  <2>4. launched' \in [Launcher -> LaunchedProcess]
    BY <2>3, <1>4, <1>12 DEF Stage
  <2> QED
    BY <2>2, <2>4, <1>12 DEF Stage
<1>13. CASE Project(p)
  BY <1>13, <1>3, <1>4 DEF Project, Go
<1>14. CASE WriteReport(p)
  BY <1>14, <1>3, <1>4 DEF WriteReport, Go
<1>15. CASE LauncherDies(p)
  <2>1. launched' \in [Launcher -> LaunchedProcess] /\ sent' = sent
    BY <1>15, <1>4 DEF LauncherDies
  <2>2. dispatch' \in {dispatch, Torn(dispatch)} /\ staged' \in {staged, Torn(staged)}
    BY <1>15 DEF LauncherDies, files
  <2> QED
    BY <2>1, <2>2, <1>6
<1> QED
  BY <1>7, <1>8, <1>9, <1>10, <1>11, <1>12, <1>13, <1>14, <1>15 DEF DiagnosticStep

(* What cannot be read stays so.                                            *)
LEMMA ReadableBefore ==
  ASSUME DiagnosticTypeOK, NEW kind, NEW request,
         JournalReadable(Appended(dispatch, Entry(kind, request)))
  PROVE  /\ JournalReadable(dispatch)
         /\ Appended(dispatch, Entry(kind, request)).lines = Append(dispatch.lines, Entry(kind, request))
         /\ Entry(kind, request) \notin ToSet(dispatch.lines)
<1> DEFINE e == Entry(kind, request)
           s == dispatch.lines
           t == Append(s, e)
<1>1. ~dispatch.torn
  BY DEF JournalReadable, Appended
<1>2. Appended(dispatch, e) = [dispatch EXCEPT !.lines = t]
  BY <1>1 DEF Appended
<1>3. Appended(dispatch, e).lines = t /\ IsInjective(t)
  BY <1>2 DEF JournalReadable, DiagnosticTypeOK
<1>4. s \in Seq([kind : {"intent", "resolution"}, request : Requests])
  BY DEF DiagnosticTypeOK
<1> HIDE DEF e
<1>5. Len(t) = Len(s) + 1 /\ t[Len(s) + 1] = e /\ \A i \in 1 .. Len(s) : t[i] = s[i]
  BY <1>4
<1>6. DOMAIN s = 1 .. Len(s) /\ DOMAIN t = 1 .. Len(s) + 1 /\ Len(s) \in Nat
  BY <1>4, <1>5
<1> HIDE DEF s, t
<1>7. IsInjective(s)
  BY <1>3, <1>5, <1>6 DEF IsInjective
<1>8. e \notin ToSet(s)
  <2> SUFFICES ASSUME NEW i \in DOMAIN s, s[i] = e PROVE FALSE
    BY DEF ToSet
  <2>1. t[i] = t[Len(s) + 1] /\ i # Len(s) + 1
    BY <1>5, <1>6
  <2> QED
    BY <2>1, <1>3, <1>6 DEF IsInjective
<1> QED
  BY <1>1, <1>3, <1>7, <1>8 DEF JournalReadable, e, s, t

LEMMA OthersStand ==
  ASSUME DiagnosticTypeOK, NEW p \in Launcher, NEW c, launched' = [launched EXCEPT ![p] = c]
  PROVE  /\ launched'[p] = c
         /\ \A q \in Launcher : q # p => launched'[q] = launched[q]
BY DEF DiagnosticTypeOK

(* A process goes on, or dies, and nothing of the run moves.                *)
LEMMA QuietStep ==
  ASSUME DiagnosticInv, DiagnosticTypeOK', NEW p \in Launcher, NEW s, launched' = [launched EXCEPT ![p].step = s],
         launched[p].step # "done", UNCHANGED <<mandate, dispatch, staged, report, sent>>,
         \/ s = "dead"
         \/ launched[p].step = "idle" /\ s = "plan"
         \/ launched[p].step = "plan" /\ s = "intend"
         \/ launched[p].step = "project" /\ s = "report"
  PROVE  DiagnosticInv'
<1> DEFINE c == [launched[p] EXCEPT !.step = s]
<1>1. launched[p] \in LaunchedProcess
  BY DEF DiagnosticInv, DiagnosticTypeOK
<1>2. launched' = [launched EXCEPT ![p] = c]
  OBVIOUS
<1>3. c.step = s /\ c.index = launched[p].index /\ c.prior = launched[p].prior
  BY <1>1 DEF LaunchedProcess
<1>4. launched'[p] = c /\ \A q \in Launcher : q # p => launched'[q] = launched[q]
  BY <1>2, OthersStand DEF DiagnosticInv
<1> HIDE DEF c
<1>5. Unspoken(p)
  BY DEF DiagnosticInv
<1>6. \A q \in Launcher : Unspoken(q)'
  BY <1>3, <1>4, <1>5 DEF DiagnosticInv, Unspoken
<1>7. \A q \in Launcher : Engaged(q)' => Engaged(q)
  BY <1>3, <1>4, <1>5 DEF Engaged, Unspoken
<1>8. ASSUME JournalReadable(dispatch) PROVE OneRun'
  <2>1. OneRun
    BY <1>8 DEF DiagnosticInv
  <2>2. dispatch.lines = <<>> => Untouched'
    BY <2>1, <1>7 DEF OneRun, Untouched
  <2>3. \A q, r \in Launcher : Engaged(q)' /\ Engaged(r)' => q = r
    BY <2>1, <1>7 DEF OneRun
  <2>4. ASSUME NEW q \in Launcher, Engaged(q)' PROVE Account(q)'
    <3>1. Account(q)
      BY <2>1, <2>4, <1>7 DEF OneRun
    <3>2. CASE q = p
      <4>1. s # "dead"
        BY <2>4, <3>2, <1>3, <1>4 DEF Engaged
      <4>2. (Over(p)' <=> Over(p)) /\ \A i : SentBy(p, i)' <=> SentBy(p, i)
        BY <4>1, <1>3, <1>4 DEF Over, SentBy
      <4>3. LastEvent' = LastEvent
        BY DEF LastEvent
      <4>4. Place(p)' /\ Follows(p)'
        BY <3>1, <3>2, <4>2, <4>3, <1>3, <1>4 DEF Account, Place, Follows
      <4>5. \A i : InLine(i)' <=> InLine(i)
        BY DEF InLine
      <4> QED
        BY <3>1, <3>2, <4>2, <4>4, <4>5, <1>3, <1>4 DEF Account
    <3>3. CASE q # p
      BY <3>1, <3>3, <1>4 DEF Account, Place, Over, SentBy, InLine, Follows, LastEvent
    <3> QED
      BY <3>2, <3>3
  <2>5. report # Null => Reported'
    <3>1. ASSUME NEW q \in Launcher, launched[q].step = "done" PROVE launched'[q].step = "done"
      BY <3>1, <1>4
    <3> QED
      BY <2>1, <3>1 DEF OneRun, Reported
  <2> QED
    BY <2>1, <2>2, <2>3, <2>4, <2>5 DEF OneRun
<1> QED
  BY <1>6, <1>8 DEF DiagnosticInv

LEMMA RaiseIsQuiet ==
  ASSUME DiagnosticInv, DiagnosticTypeOK', NEW p \in Launcher, Raise(p), launched[p].step # "done",
         UNCHANGED <<mandate, dispatch, staged, report, sent>>
  PROVE  DiagnosticInv'
BY QuietStep DEF Raise, Go

(* What a step of p, and of nobody else, leaves of the others.              *)
LEMMA OnlyOne ==
  ASSUME DiagnosticTypeOK, OneRun, NEW p \in Launcher, Engaged(p), NEW c, launched' = [launched EXCEPT ![p] = c]
  PROVE  /\ \A q \in Launcher : Engaged(q)' => q = p
         /\ report # Null => launched[p].step = "done"
         /\ dispatch.lines # <<>> /\ Opening \in ToSet(dispatch.lines)
<1>1. \A q \in Launcher : q # p => ~Engaged(q) /\ launched'[q] = launched[q]
  BY OthersStand DEF OneRun
<1>2. \A q \in Launcher : Engaged(q)' => q = p
  BY <1>1 DEF Engaged
<1>3. report # Null => launched[p].step = "done"
  BY <1>1 DEF OneRun, Reported, Engaged
<1>4. dispatch.lines # <<>>
  BY DEF OneRun, Untouched
<1> QED
  BY <1>2, <1>3, <1>4 DEF OneRun

LEMMA UnspokenStays ==
  ASSUME DiagnosticInv, NEW p \in Launcher, NEW c, launched' = [launched EXCEPT ![p] = c],
         c.step = "idle" \/ (c.step \in {"plan", "intend"} /\ c.index = 1) => c.index = 1 /\ c.prior = <<>>
  PROVE  \A q \in Launcher : Unspoken(q)'
BY OthersStand DEF DiagnosticInv, Unspoken

LEMMA AppendIntentStep ==
  ASSUME DiagnosticValid, DiagnosticInv, DiagnosticTypeOK', NEW p \in Launcher, AppendIntent(p)
  PROVE  DiagnosticInv'
<1> DEFINE c == [launched[p] EXCEPT !.step = "post"]
<1>1. /\ launched[p] \in LaunchedProcess /\ launched[p].step = "intend"
      /\ dispatch' = Appended(dispatch, Entry("intent", RequestOf(p)))
      /\ UNCHANGED <<mandate, staged, projection, report, sent>>
  BY DEF DiagnosticInv, DiagnosticTypeOK, AppendIntent, AtStep
<1>2. launched' = [launched EXCEPT ![p] = c]
  BY DEF AppendIntent, Go
<1>3. c.step = "post" /\ c.index = launched[p].index /\ c.prior = launched[p].prior /\ c.index \in Nat \ {0}
  BY <1>1 DEF LaunchedProcess
<1>4. launched'[p] = c /\ \A q \in Launcher : q # p => launched'[q] = launched[q]
  BY <1>2, OthersStand DEF DiagnosticInv
<1> HIDE DEF c
<1>5. \A q \in Launcher : Unspoken(q)'
  BY <1>2, <1>3, UnspokenStays
<1>6. ASSUME JournalReadable(dispatch') PROVE OneRun'
  <2> DEFINE e == Entry("intent", RequestOf(p))
  <2>1. JournalReadable(dispatch) /\ dispatch'.lines = Append(dispatch.lines, e) /\ e \notin ToSet(dispatch.lines)
    BY <1>1, <1>6, ReadableBefore DEF DiagnosticInv
  <2> HIDE DEF e
  <2>2. OneRun
    BY <2>1 DEF DiagnosticInv
  <2>3. dispatch.lines \in Seq([kind : {"intent", "resolution"}, request : Requests])
    BY DEF DiagnosticInv, DiagnosticTypeOK
  <2>4. dispatch'.lines # <<>> /\ e \in ToSet(dispatch'.lines)
        /\ \A x \in ToSet(dispatch.lines) : x \in ToSet(dispatch'.lines)
    BY <2>1, <2>3, AppendedHolds
  <2>5. LastEvent' = LastEvent /\ \A i : InLine(i)' <=> InLine(i)
    BY <1>1 DEF LastEvent, InLine
  <2>6. CASE launched[p].index = 1
    <3>1. e = Opening
      <4>1. launched[p].prior = <<>>
        BY <2>6, <1>1 DEF DiagnosticInv, Unspoken
      <4>2. RequestOf(p) = [event |-> 1, prior |-> <<>>]
        BY <4>1, <2>6 DEF RequestOf
      <4> QED
        BY <4>2 DEF e, Opening
    <3>2. Untouched /\ dispatch.lines = <<>>
      BY <3>1, <2>1, <2>2 DEF OneRun
    <3>3. \A q \in Launcher : Engaged(q)' => q = p
      BY <3>2, <1>4 DEF Untouched, Engaged
    <3>4. report = Null
      BY <3>2, <2>2 DEF OneRun, Reported, Untouched, Engaged
    <3>5. Account(p)'
      <4>1. Place(p)'
        BY <1>3, <1>4, <2>5, <2>6, EventNumbers DEF Place, Over
      <4>2. \A i \in 1 .. EventTotal : ~SentBy(p, i)' /\ sent'[i] = 0
        BY <3>2, <1>1, <1>3, <1>4, <2>6, EventNumbers DEF Untouched, SentBy
      <4>3. staged' = NewFile /\ ~staged'.torn /\ Len(staged'.lines) = 0
        BY <3>2, <1>1 DEF Untouched, NewFile
      <4>4. Follows(p)'
        BY <1>3, <1>4, <2>6, EventNumbers DEF Follows
      <4> QED
        BY <4>1, <4>2, <4>3, <4>4, <1>3, <1>4, <2>6 DEF Account
    <3> QED
      BY <2>4, <3>1, <3>3, <3>4, <3>5, <1>1 DEF OneRun
  <2>7. CASE launched[p].index # 1
    <3>1. Engaged(p)
      BY <2>7, <1>1, <1>3 DEF Engaged
    <3>2. /\ \A q \in Launcher : Engaged(q)' => q = p
          /\ report = Null /\ Opening \in ToSet(dispatch'.lines)
      BY <3>1, <2>2, <2>4, <1>1, <1>2, OnlyOne DEF DiagnosticInv
    <3>3. Account(p)'
      <4>1. Account(p)
        BY <3>1, <2>2 DEF OneRun
      <4>2. Place(p)' /\ Follows(p)' /\ \A i : SentBy(p, i)' <=> SentBy(p, i)
        BY <4>1, <1>1, <1>3, <1>4, <2>5 DEF Account, Place, Over, Follows, SentBy
      <4> QED
        BY <4>1, <4>2, <2>5, <1>1, <1>3, <1>4 DEF Account
    <3> QED
      BY <2>4, <3>2, <3>3, <1>1 DEF OneRun
  <2> QED
    BY <2>6, <2>7
<1> QED
  BY <1>5, <1>6 DEF DiagnosticInv

LEMMA PostStep ==
  ASSUME DiagnosticValid, DiagnosticInv, DiagnosticTypeOK', NEW p \in Launcher, PostRequest(p)
  PROVE  DiagnosticInv'
<1> DEFINE l == launched[p].index
<1>1. /\ launched[p] \in LaunchedProcess /\ launched[p].step = "post" /\ l \in Nat \ {0}
      /\ sent' = [sent EXCEPT ![l] = @ + 1]
      /\ UNCHANGED <<mandate, dispatch, staged, projection, report>>
  BY DEF DiagnosticInv, DiagnosticTypeOK, PostRequest, AtStep, files, LaunchedProcess
<1>2. PICK c : launched' = [launched EXCEPT ![p] = c] /\ c.index = l /\ c.prior = launched[p].prior /\ c.step \in {"resolve", "dead"}
  <2>1. CASE Raise(p)
    <3> DEFINE c == [launched[p] EXCEPT !.step = "dead"]
    <3>1. launched' = [launched EXCEPT ![p] = c] /\ c.index = l /\ c.prior = launched[p].prior /\ c.step = "dead"
      BY <2>1, <1>1 DEF Raise, Go, LaunchedProcess
    <3> QED
      BY <3>1
  <2>2. CASE \E answer \in Answers :
          launched' = [launched EXCEPT ![p].step = "resolve",
                         ![p].stance = IF mandate.runner = "real" THEN ReplyStance(answer) ELSE Null]
    <3>1. PICK answer \in Answers :
          launched' = [launched EXCEPT ![p].step = "resolve",
                         ![p].stance = IF mandate.runner = "real" THEN ReplyStance(answer) ELSE Null]
      BY <2>2
    <3> DEFINE said == IF mandate.runner = "real" THEN ReplyStance(answer) ELSE Null
               c == [launched[p] EXCEPT !.step = "resolve", !.stance = said]
    <3>2. launched' = [launched EXCEPT ![p] = c]
      BY <3>1 DEF DiagnosticInv, DiagnosticTypeOK
    <3>3. c.index = l /\ c.prior = launched[p].prior /\ c.step = "resolve"
      BY <1>1 DEF LaunchedProcess
    <3> QED
      BY <3>2, <3>3
  <2> QED
    BY <2>1, <2>2 DEF PostRequest
<1>4. launched'[p] = c /\ \A q \in Launcher : q # p => launched'[q] = launched[q]
  BY <1>2, OthersStand DEF DiagnosticInv
<1>5. \A q \in Launcher : Unspoken(q)'
  BY <1>2, UnspokenStays
<1>6. ASSUME JournalReadable(dispatch) PROVE OneRun'
  <2>1. OneRun /\ Engaged(p)
    BY <1>1, <1>6 DEF DiagnosticInv, Engaged
  <2>2. /\ \A q \in Launcher : Engaged(q)' => q = p
        /\ report = Null /\ dispatch.lines # <<>> /\ Opening \in ToSet(dispatch.lines)
    BY <2>1, <1>1, <1>2, OnlyOne DEF DiagnosticInv
  <2>3. LastEvent' = LastEvent /\ \A i : InLine(i)' <=> InLine(i)
    BY <1>1 DEF LastEvent, InLine
  <2>4. ASSUME Engaged(p)' PROVE Account(p)'
    <3>1. Account(p) /\ c.step = "resolve"
      BY <2>1, <2>4, <1>2, <1>4 DEF OneRun, Engaged
    <3>2. Place(p)' /\ Follows(p)'
      BY <3>1, <1>1, <1>2, <1>4, <2>3 DEF Account, Place, Over, Follows
    <3>3. ASSUME NEW i \in 1 .. EventTotal PROVE sent'[i] = IF SentBy(p, i)' THEN 1 ELSE 0
      <4>1. sent[i] = IF i < l THEN 1 ELSE 0
        BY <3>1, <1>1 DEF Account, SentBy
      <4>2. SentBy(p, i)' <=> i < l \/ i = l
        BY <3>1, <1>2, <1>4 DEF SentBy
      <4>3. sent'[i] = IF i = l THEN sent[i] + 1 ELSE sent[i]
        BY <1>1 DEF DiagnosticInv, DiagnosticTypeOK
      <4> QED
        BY <4>1, <4>2, <4>3, <1>1, EventNumbers
    <3> QED
      BY <3>1, <3>2, <3>3, <2>3, <1>1, <1>2, <1>4 DEF Account
  <2> QED
    BY <2>2, <2>4, <1>1 DEF OneRun
<1> QED
  BY <1>1, <1>5, <1>6 DEF DiagnosticInv

LEMMA ResolveDispatchStep ==
  ASSUME DiagnosticValid, DiagnosticInv, DiagnosticTypeOK', NEW p \in Launcher, ResolveDispatch(p)
  PROVE  DiagnosticInv'
<1> DEFINE c == [launched[p] EXCEPT !.step = "stage"]
<1>1. /\ launched[p] \in LaunchedProcess /\ launched[p].step = "resolve"
      /\ UNCHANGED <<mandate, staged, projection, report, sent>>
  BY DEF DiagnosticInv, DiagnosticTypeOK, ResolveDispatch, AtStep
<1>2. CASE Raise(p) /\ UNCHANGED dispatch
  BY <1>1, <1>2, RaiseIsQuiet
<1>3. CASE dispatch' = Appended(dispatch, Entry("resolution", RequestOf(p))) /\ Go(p, "stage")
  <2>1. launched' = [launched EXCEPT ![p] = c]
    BY <1>3 DEF Go
  <2>2. c.step = "stage" /\ c.index = launched[p].index /\ c.prior = launched[p].prior
    BY <1>1 DEF LaunchedProcess
  <2>3. launched'[p] = c
    BY <2>1, OthersStand DEF DiagnosticInv
  <2> HIDE DEF c
  <2>4. \A q \in Launcher : Unspoken(q)'
    BY <2>1, <2>2, UnspokenStays
  <2>5. ASSUME JournalReadable(dispatch') PROVE OneRun'
    <3> DEFINE e == Entry("resolution", RequestOf(p))
    <3>1. JournalReadable(dispatch) /\ dispatch'.lines = Append(dispatch.lines, e)
      BY <1>3, <2>5, ReadableBefore DEF DiagnosticInv
    <3> HIDE DEF e
    <3>2. OneRun /\ Engaged(p)
      BY <3>1, <1>1 DEF DiagnosticInv, Engaged
    <3>3. /\ \A q \in Launcher : Engaged(q)' => q = p
          /\ report = Null /\ Opening \in ToSet(dispatch.lines)
      BY <3>2, <1>1, <2>1, OnlyOne DEF DiagnosticInv
    <3>4. dispatch.lines \in Seq([kind : {"intent", "resolution"}, request : Requests])
      BY DEF DiagnosticInv, DiagnosticTypeOK
    <3>5. dispatch'.lines # <<>> /\ Opening \in ToSet(dispatch'.lines)
      <4>1. PICK i \in DOMAIN dispatch.lines : dispatch.lines[i] = Opening
        BY <3>3 DEF ToSet
      <4>2. i \in DOMAIN dispatch'.lines /\ dispatch'.lines[i] = Opening
        BY <4>1, <3>1, <3>4
      <4>3. ToSet(dispatch'.lines) # {} => dispatch'.lines # <<>>
        BY DEF ToSet
      <4> QED
        BY <4>2, <4>3 DEF ToSet
    <3>6. Account(p)'
      <4>1. Account(p)
        BY <3>2 DEF OneRun
      <4>2. LastEvent' = LastEvent /\ \A i : InLine(i)' <=> InLine(i)
        BY <1>1 DEF LastEvent, InLine
      <4>3. Place(p)' /\ Follows(p)' /\ \A i : SentBy(p, i)' <=> SentBy(p, i)
        BY <4>1, <4>2, <1>1, <2>2, <2>3 DEF Account, Place, Over, Follows, SentBy
      <4> QED
        BY <4>1, <4>2, <4>3, <1>1, <2>2, <2>3 DEF Account
    <3> QED
      BY <3>3, <3>5, <3>6, <1>1 DEF OneRun
  <2> QED
    BY <2>4, <2>5 DEF DiagnosticInv
<1> QED
  BY <1>2, <1>3 DEF ResolveDispatch

LEMMA StageStep ==
  ASSUME DiagnosticValid, DiagnosticInv, DiagnosticTypeOK', NEW p \in Launcher, Stage(p)
  PROVE  DiagnosticInv'
<1> DEFINE c == launched[p]
           l == c.index
           n == Len(staged.lines)
<1>1. /\ c \in LaunchedProcess /\ c.step = "stage" /\ l \in Nat \ {0} /\ c.prior \in Seq(Voices) /\ c.stance \in Voices
      /\ staged' = Appended(staged, SanitizedAttempt(p))
      /\ UNCHANGED <<mandate, dispatch, projection, report, sent>>
  BY DEF DiagnosticInv, DiagnosticTypeOK, Stage, AtStep, LaunchedProcess
<1>2. staged.lines \in Seq(Line) /\ n \in Nat
  BY DEF DiagnosticInv, DiagnosticTypeOK
<1>3. PICK d : /\ launched' = [launched EXCEPT ![p] = d]
               /\ \/ d = Follow(c) /\ (mandate.runner = "real" => c.stance # Null)
                  \/ d.step = "dead"
  <2>1. CASE Raise(p)
    <3>1. launched' = [launched EXCEPT ![p] = [c EXCEPT !.step = "dead"]]
      BY <2>1 DEF Raise, Go
    <3>2. [c EXCEPT !.step = "dead"].step = "dead"
      BY <1>1 DEF LaunchedProcess
    <3> QED
      BY <3>1, <3>2
  <2>2. CASE launched' = [launched EXCEPT ![p] = Follow(@)] /\ ~(mandate.runner = "real" /\ c.stance = Null)
    <3>1. launched' = [launched EXCEPT ![p] = Follow(c)]
      BY <2>2
    <3> QED
      BY <2>2, <3>1
  <2> QED
    BY <2>1, <2>2 DEF Stage
<1>4. launched'[p] = d
  BY <1>3, OthersStand DEF DiagnosticInv
<1>5. d = Follow(c) => /\ d.step = (IF l = LastEvent THEN "project" ELSE "plan") /\ d.index = l + 1
                       /\ d.prior = IF OrdinalOf(l + 1) = 0 THEN <<>> ELSE Append(c.prior, c.stance)
  BY DEF Follow
<1>6. \A q \in Launcher : Unspoken(q)'
  <2>1. d.step = "idle" \/ (d.step \in {"plan", "intend"} /\ d.index = 1) => d.index = 1 /\ d.prior = <<>>
    <3>1. l + 1 # 1
      BY <1>1
    <3> QED
      BY <3>1, <1>3, <1>5
  <2> QED
    BY <2>1, <1>3, UnspokenStays
<1>7. ASSUME JournalReadable(dispatch) PROVE OneRun'
  <2>1. OneRun /\ Engaged(p)
    BY <1>1, <1>7 DEF DiagnosticInv, Engaged
  <2>2. /\ \A q \in Launcher : Engaged(q)' => q = p
        /\ report = Null /\ dispatch.lines # <<>> /\ Opening \in ToSet(dispatch.lines)
    BY <2>1, <1>1, <1>3, OnlyOne DEF DiagnosticInv
  <2>3. ASSUME Engaged(p)' PROVE Account(p)'
    <3>1. Account(p) /\ d = Follow(c) /\ (mandate.runner = "real" => c.stance # Null)
      BY <2>1, <2>3, <1>3, <1>4 DEF OneRun, Engaged
    <3>2. LastEvent' = LastEvent /\ LastEvent \in Nat /\ l \in 1 .. LastEvent /\ ~Over(p) /\ EventTotal \in Nat
      BY <3>1, <1>1, EventNumbers DEF LastEvent, Account, Place, Over
    <3>3. Place(p)'
      BY <3>1, <3>2, <1>4, <1>5 DEF Place, Over
    <3>4. n = l - 1 /\ ~staged.torn
      BY <3>1 DEF Account
    <3>5. /\ ~staged'.torn /\ Len(staged'.lines) = l
          /\ staged'.lines[l] = SanitizedAttempt(p)
          /\ \A i \in 1 .. l - 1 : staged'.lines[i] = staged.lines[i]
      <4>1. staged' = [staged EXCEPT !.lines = Append(staged.lines, SanitizedAttempt(p))]
        BY <3>4, <1>1 DEF Appended
      <4>2. ~staged'.torn /\ staged'.lines = Append(staged.lines, SanitizedAttempt(p))
        BY <4>1, <3>4 DEF DiagnosticInv, DiagnosticTypeOK
      <4> QED
        BY <4>2, <3>4, <1>1, <1>2
    <3>6. ASSUME NEW i \in 1 .. EventTotal PROVE sent'[i] = IF SentBy(p, i)' THEN 1 ELSE 0
      <4>1. SentBy(p, i) <=> i < l \/ i = l
        BY <1>1 DEF SentBy
      <4>2. SentBy(p, i)' <=> i < l + 1
        BY <3>1, <1>4, <1>5 DEF SentBy
      <4>3. i < l + 1 <=> i < l \/ i = l
        BY <1>1, <3>2
      <4> QED
        BY <4>1, <4>2, <4>3, <3>1, <1>1 DEF Account
    <3>7. /\ SanitizedAttempt(p).request.event = l
          /\ mandate.runner = "real" => SanitizedAttempt(p).committed /\ SanitizedAttempt(p).request.prior = c.prior
      BY <3>1 DEF SanitizedAttempt, RequestOf
    <3>8. ASSUME NEW i \in 1 .. l PROVE InLine(i)'
      <4>1. CASE i = l
        <5>1. OrdinalOf(l) # 0 => l - 1 \in 1 .. l - 1
          BY <1>1, EventNumbers
        <5> QED
          BY <5>1, <4>1, <3>1, <3>5, <3>7, <1>1 DEF InLine, Account, Follows
      <4>2. CASE i # l
        <5>1. i \in 1 .. l - 1 /\ InLine(i)
          BY <4>2, <3>1, <1>1 DEF Account
        <5>2. OrdinalOf(i) # 0 => i - 1 \in 1 .. l - 1
          BY <5>1, <1>1, EventNumbers
        <5> QED
          BY <5>1, <5>2, <3>5, <1>1 DEF InLine
      <4> QED
        BY <4>1, <4>2
    <3>9. Follows(p)'
      <4>1. Front(Append(c.prior, c.stance)) = c.prior
        BY <1>1, FrontOfAppend
      <4>2. l + 1 - 1 = l
        BY <1>1
      <4> QED
        BY <4>1, <4>2, <3>1, <3>5, <3>7, <1>1, <1>4, <1>5 DEF Follows
    <3>10. launched'[p].index - 1 = l
      BY <3>1, <1>1, <1>4, <1>5
    <3> QED
      BY <3>3, <3>5, <3>6, <3>8, <3>9, <3>10 DEF Account
  <2> QED
    BY <2>2, <2>3, <1>1 DEF OneRun
<1> QED
  BY <1>1, <1>6, <1>7 DEF DiagnosticInv

LEMMA WriteReportStep ==
  ASSUME DiagnosticValid, DiagnosticInv, DiagnosticTypeOK', NEW p \in Launcher, WriteReport(p)
  PROVE  DiagnosticInv'
<1> DEFINE c == [launched[p] EXCEPT !.step = "done"]
<1>1. /\ launched[p] \in LaunchedProcess /\ launched[p].step = "report"
      /\ UNCHANGED <<mandate, dispatch, staged, projection, sent>>
  BY DEF DiagnosticInv, DiagnosticTypeOK, WriteReport, AtStep
<1>2. CASE Raise(p) /\ UNCHANGED report
  BY <1>1, <1>2, RaiseIsQuiet
<1>3. CASE report' = ReportOf(p) /\ Go(p, "done")
  <2>1. launched' = [launched EXCEPT ![p] = c]
    BY <1>3 DEF Go
  <2>2. c.step = "done" /\ c.index = launched[p].index
    BY <1>1 DEF LaunchedProcess
  <2>3. launched'[p] = c
    BY <2>1, OthersStand DEF DiagnosticInv
  <2> HIDE DEF c
  <2>4. \A q \in Launcher : Unspoken(q)'
    BY <2>1, <2>2, UnspokenStays
  <2>5. ASSUME JournalReadable(dispatch) PROVE OneRun'
    <3>1. OneRun /\ Engaged(p)
      BY <2>5, <1>1 DEF DiagnosticInv, Engaged
    <3>2. /\ \A q \in Launcher : Engaged(q)' => q = p
          /\ dispatch.lines # <<>> /\ Opening \in ToSet(dispatch.lines)
      BY <3>1, <2>1, OnlyOne DEF DiagnosticInv
    <3>3. Account(p)'
      <4>1. Account(p)
        BY <3>1 DEF OneRun
      <4>2. LastEvent' = LastEvent /\ \A i : InLine(i)' <=> InLine(i)
        BY <1>1 DEF LastEvent, InLine
      <4>3. launched[p].index = LastEvent + 1
        BY <4>1, <1>1 DEF Account, Place, Over
      <4>4. Place(p)' /\ \A i : SentBy(p, i)' <=> SentBy(p, i)
        BY <4>2, <4>3, <1>1, <2>2, <2>3 DEF Place, Over, SentBy
      <4>5. Follows(p)'
        <5>1. Follows(p) /\ launched'[p].index = launched[p].index /\ launched'[p].prior = launched[p].prior
          BY <4>1, <2>2, <2>3, <1>1 DEF Account, c, LaunchedProcess
        <5> QED
          BY <5>1, <1>1 DEF Follows
      <4> QED
        BY <4>1, <4>2, <4>4, <4>5, <1>1, <2>2, <2>3 DEF Account
    <3>4. Reported'
      <4>1. mandate'.runner = "slice" => report'.status # "complete"
        BY <1>1, <1>3 DEF ReportOf
      <4> QED
        BY <4>1, <2>2, <2>3 DEF Reported
    <3> QED
      BY <3>2, <3>3, <3>4, <1>1 DEF OneRun
  <2> QED
    BY <2>4, <2>5, <1>1 DEF DiagnosticInv
<1> QED
  BY <1>2, <1>3 DEF WriteReport

LEMMA DieStep ==
  ASSUME DiagnosticValid, DiagnosticInv, DiagnosticTypeOK', NEW p \in Launcher, LauncherDies(p)
  PROVE  DiagnosticInv'
<1> DEFINE c == [launched[p] EXCEPT !.step = "dead"]
<1>1. launched[p] \in LaunchedProcess /\ Raise(p) /\ launched[p].step # "done" /\ UNCHANGED <<mandate, sent, report>>
  BY DEF DiagnosticInv, DiagnosticTypeOK, LauncherDies, files
<1>2. CASE UNCHANGED <<dispatch, staged>>
  BY <1>1, <1>2, RaiseIsQuiet
<1>3. launched' = [launched EXCEPT ![p] = c] /\ c.step = "dead"
  BY <1>1 DEF Raise, Go, LaunchedProcess
<1> HIDE DEF c
<1>4. \A q \in Launcher : Unspoken(q)'
  BY <1>3, UnspokenStays
<1>5. CASE dispatch' = Torn(dispatch)
  <2>1. ~JournalReadable(dispatch')
    BY <1>5 DEF JournalReadable, Torn, DiagnosticInv, DiagnosticTypeOK
  <2> QED
    BY <2>1, <1>4 DEF DiagnosticInv
<1>6. CASE launched[p].step = "stage" /\ UNCHANGED dispatch
  <2>1. ASSUME JournalReadable(dispatch) PROVE OneRun'
    <3>1. OneRun /\ Engaged(p)
      BY <2>1, <1>6 DEF DiagnosticInv, Engaged
    <3>2. /\ \A q \in Launcher : Engaged(q)' => q = p
          /\ report = Null /\ dispatch.lines # <<>> /\ Opening \in ToSet(dispatch.lines)
      BY <3>1, <1>3, <1>6, OnlyOne DEF DiagnosticInv
    <3>3. ~Engaged(p)'
      BY <1>3, OthersStand DEF DiagnosticInv, Engaged
    <3> QED
      BY <3>2, <3>3, <1>1, <1>6 DEF OneRun
  <2> QED
    BY <2>1, <1>4, <1>6 DEF DiagnosticInv
<1> QED
  BY <1>2, <1>5, <1>6 DEF LauncherDies, files, AtStep

LEMMA DiagnosticBegins == DiagnosticValid /\ DiagnosticInit => DiagnosticInv
<1> SUFFICES ASSUME DiagnosticValid, DiagnosticInit PROVE DiagnosticInv
  OBVIOUS
<1> USE DEF DiagnosticInit
<1>1. Fresh \in LaunchedProcess
  BY DEF Fresh, LaunchedProcess, Voices
<1>2. DiagnosticTypeOK
  BY <1>1 DEF DiagnosticTypeOK, NewFile
<1>3. \A p \in Launcher : launched[p] = Fresh /\ Fresh.step = "idle" /\ Fresh.index = 1 /\ Fresh.prior = <<>>
  BY DEF Fresh
<1>4. \A p \in Launcher : ~Engaged(p)
  BY <1>3 DEF Engaged
<1>5. OneRun
  <2>1. dispatch.lines = <<>> /\ staged = NewFile /\ \A i \in 1 .. EventTotal : sent[i] = 0
    BY DEF NewFile
  <2> QED
    BY <2>1, <1>4 DEF OneRun, Untouched
<1> QED
  BY <1>2, <1>3, <1>5 DEF DiagnosticInv, Unspoken

LEMMA DiagnosticGoesOn == DiagnosticValid /\ DiagnosticInv /\ [DiagnosticNext]_diagnosticVars => DiagnosticInv'
<1> SUFFICES ASSUME DiagnosticValid, DiagnosticInv, [DiagnosticNext]_diagnosticVars PROVE DiagnosticInv'
  OBVIOUS
<1>1. CASE UNCHANGED diagnosticVars
  BY <1>1 DEF diagnosticVars, files, DiagnosticInv, DiagnosticTypeOK, Unspoken, JournalReadable, OneRun, Untouched, Engaged,
    Account, Place, Over, SentBy, InLine, Follows, LastEvent, Reported
<1>2. ASSUME NEW p \in Launcher, DiagnosticStep(p) PROVE DiagnosticInv'
  <2>1. DiagnosticTypeOK'
    BY <1>2, Typed DEF DiagnosticInv
  <2>2. CASE Launch(p)
    BY <2>1, <2>2, QuietStep DEF Launch, Go, AtStep, files
  <2>3. CASE PlanDispatch(p)
    BY <2>1, <2>3, QuietStep, RaiseIsQuiet DEF PlanDispatch, Go, AtStep, files
  <2>4. CASE Project(p)
    BY <2>1, <2>4, QuietStep, RaiseIsQuiet DEF Project, Go, AtStep
  <2> QED
    BY <1>2, <2>1, <2>2, <2>3, <2>4, AppendIntentStep, PostStep, ResolveDispatchStep, StageStep, WriteReportStep, DieStep
      DEF DiagnosticStep
<1> QED
  BY <1>1, <1>2 DEF DiagnosticNext

LEMMA VerifiedIsWhole == DiagnosticValid /\ DiagnosticInv => VerifiedRunIsWhole
<1> SUFFICES ASSUME DiagnosticValid, DiagnosticInv, Verifies, NEW i \in 1 .. EventTotal
             PROVE  sent[i] = 1 /\ InLine(i)
  BY DEF VerifiedRunIsWhole, InLine
<1>1. OneRun /\ Reported
  BY DEF Verifies, DiagnosticInv, OneRun
<1>2. PICK p \in Launcher : launched[p].step = "done"
  BY <1>1 DEF Reported
<1>3. Account(p)
  BY <1>1, <1>2 DEF OneRun, Engaged
<1>4. LastEvent = EventTotal
  BY <1>1 DEF Verifies, Reported, LastEvent
<1>5. launched[p].index = EventTotal + 1
  BY <1>2, <1>3, <1>4 DEF Account, Place, Over
<1>6. SentBy(p, i) /\ i \in 1 .. launched[p].index - 1
  BY <1>5, EventNumbers DEF SentBy
<1> QED
  BY <1>3, <1>6 DEF Account

(* A run that the verifier accepts is the whole of one launch               *)
(* (phase0b/run.py, pipeline.py).                                           *)
THEOREM DiagnosticVerifiesOne ==
  ASSUME DiagnosticValid
  PROVE  DiagnosticSpec => []VerifiedRunIsWhole
<1>1. DiagnosticInit => DiagnosticInv
  BY DiagnosticBegins
<1>2. DiagnosticInv /\ [DiagnosticNext]_diagnosticVars => DiagnosticInv'
  BY DiagnosticGoesOn
<1>3. DiagnosticInv => VerifiedRunIsWhole
  BY VerifiedIsWhole
<1> QED
  BY <1>1, <1>2, <1>3, PTL DEF DiagnosticSpec

-----------------------------------------------------------------------------
(* Sums over finite sets                                                     *)

(* How many pairs <<x, k>> there are with k among the first f[x].            *)
Tally(f, S, most) == {pair \in S \X (1 .. most) : pair[2] <= f[pair[1]]}

LEMMA TallyIs ==
  ASSUME NEW S, IsFiniteSet(S), NEW f, \A x \in S : f[x] \in Nat, NEW most \in Nat, \A x \in S : f[x] <= most
  PROVE  /\ Cardinality(Tally(f, S, most)) \in Nat
         /\ S = {} => Cardinality(Tally(f, S, most)) = 0
         /\ \A x \in S : Cardinality(Tally(f, S, most)) = f[x] + Cardinality(Tally(f, S \ {x}, most))
<1> DEFINE C(s) == Tally(f, s, most)
<1>1. ASSUME NEW s \in SUBSET S PROVE IsFiniteSet(C(s)) /\ Cardinality(C(s)) \in Nat
  <2>1. IsFiniteSet(s) /\ IsFiniteSet(1 .. most)
    BY FS_Subset, FS_Interval
  <2>2. IsFiniteSet(s \X (1 .. most))
    BY <2>1, FS_Product
  <2>3. C(s) \subseteq s \X (1 .. most)
    BY DEF Tally
  <2> QED
    BY <2>2, <2>3, FS_Subset, FS_CardinalityType
<1>2. S = {} => C(S) = {}
  BY DEF Tally
<1>3. ASSUME NEW x \in S PROVE Cardinality(C(S)) = f[x] + Cardinality(C(S \ {x}))
  <2> DEFINE A == {x} \X (1 .. f[x])
  <2>1. C(S) = A \union C(S \ {x})
    BY DEF Tally
  <2>2. A \cap C(S \ {x}) = {}
    BY DEF Tally
  <2>3. IsFiniteSet(A) /\ Cardinality(A) = f[x]
    <3>1. IsFiniteSet({x}) /\ Cardinality({x}) = 1
      BY FS_Singleton
    <3>2. IsFiniteSet(1 .. f[x]) /\ Cardinality(1 .. f[x]) = IF 1 > f[x] THEN 0 ELSE f[x] - 1 + 1
      BY FS_Interval
    <3>3. Cardinality(1 .. f[x]) = f[x]
      BY <3>2
    <3>4. IsFiniteSet(A) /\ Cardinality(A) = 1 * Cardinality(1 .. f[x])
      BY <3>1, <3>2, FS_Product
    <3> QED
      BY <3>3, <3>4
  <2>4. IsFiniteSet(C(S \ {x})) /\ Cardinality(C(S \ {x})) \in Nat
    BY <1>1
  <2> HIDE DEF A, C
  <2>5. Cardinality(A \union C(S \ {x})) = Cardinality(A) + Cardinality(C(S \ {x})) - Cardinality(A \cap C(S \ {x}))
    BY <2>3, <2>4, FS_Union
  <2>6. Cardinality(A \cap C(S \ {x})) = 0
    BY <2>2, FS_EmptySet
  <2> QED
    BY <2>1, <2>3, <2>4, <2>5, <2>6
<1> QED
  BY <1>1, <1>2, <1>3, FS_EmptySet

(* The fold takes the elements in some order, and any order will do.         *)
LEMMA SumIsTally ==
  ASSUME NEW S, IsFiniteSet(S), NEW f, \A x \in S : f[x] \in Nat, NEW most \in Nat, \A x \in S : f[x] <= most
  PROVE  SumOf(f, S) = Cardinality(Tally(f, S, most))
<1> DEFINE any(s) == CHOOSE x \in s : TRUE
           Rec(g) == g = [s \in SUBSET S |-> IF s = {} THEN 0 ELSE g[s \ {any(s)}] + f[any(s)]]
           t == [s \in SUBSET S |-> Cardinality(Tally(f, s, most))]
           h == CHOOSE g : Rec(g)
<1>1. ASSUME NEW s, s # {} PROVE any(s) \in s
  BY <1>1
<1>2. ASSUME NEW s \in SUBSET S
      PROVE  /\ IsFiniteSet(s) /\ t[s] \in Nat
             /\ s = {} => t[s] = 0
             /\ \A x \in s : t[s] = f[x] + t[s \ {x}]
  <2>1. IsFiniteSet(s) /\ (\A x \in s : f[x] \in Nat) /\ \A x \in s : f[x] <= most
    BY FS_Subset
  <2>2. t[s] = Cardinality(Tally(f, s, most)) /\ \A x \in s : t[s \ {x}] = Cardinality(Tally(f, s \ {x}, most))
    OBVIOUS
  <2> HIDE DEF t
  <2>3. /\ Cardinality(Tally(f, s, most)) \in Nat
        /\ s = {} => Cardinality(Tally(f, s, most)) = 0
        /\ \A x \in s : Cardinality(Tally(f, s, most)) = f[x] + Cardinality(Tally(f, s \ {x}, most))
    BY <2>1, TallyIs
  <2> QED
    BY <2>1, <2>2, <2>3
<1> HIDE DEF any
<1>3. Rec(t)
  <2>1. ASSUME NEW s \in SUBSET S PROVE t[s] = IF s = {} THEN 0 ELSE t[s \ {any(s)}] + f[any(s)]
    <3>1. s # {} => any(s) \in s /\ f[any(s)] \in Nat /\ t[s \ {any(s)}] \in Nat
      <4>1. s # {} => any(s) \in S /\ s \ {any(s)} \in SUBSET S
        BY <1>1
      <4> HIDE DEF t
      <4> QED
        BY <4>1, <1>1, <1>2
    <3> HIDE DEF t
    <3> QED
      BY <3>1, <1>2
  <2>2. t = [s \in SUBSET S |-> t[s]]
    OBVIOUS
  <2> QED
    BY <2>1, <2>2
<1>4. Rec(h)
  <2> HIDE DEF Rec
  <2> QED
    BY <1>3
<1>5. SumOf(f, S) = h[S]
  BY DEF SumOf, FoldSet, MapThenFoldSet, any
<1>6. ASSUME NEW s \in SUBSET S PROVE h[s] = IF s = {} THEN 0 ELSE h[s \ {any(s)}] + f[any(s)]
  BY <1>4
<1> HIDE DEF h, t, Rec
<1> DEFINE T == {n \in Nat : \A s \in SUBSET S : Cardinality(s) = n => h[s] = t[s]}
<1>7. 0 \in T
  <2>1. ASSUME NEW s \in SUBSET S, Cardinality(s) = 0 PROVE h[s] = t[s]
    <3>1. s = {}
      BY <2>1, <1>2, FS_EmptySet
    <3> QED
      BY <3>1, <1>2, <1>6
  <2> QED
    BY <2>1
<1>8. ASSUME NEW n \in Nat, n \in T PROVE n + 1 \in T
  <2>1. ASSUME NEW s \in SUBSET S, Cardinality(s) = n + 1 PROVE h[s] = t[s]
    <3>1. s # {} /\ any(s) \in s /\ any(s) \in S
      BY <2>1, <1>1, <1>2, FS_EmptySet
    <3>2. s \ {any(s)} \in SUBSET S /\ Cardinality(s \ {any(s)}) = n
      <4>1. IsFiniteSet(s)
        BY <1>2
      <4>2. Cardinality(s \ {any(s)}) = IF any(s) \in s THEN Cardinality(s) - 1 ELSE Cardinality(s)
        BY <4>1, FS_RemoveElement
      <4> QED
        BY <4>2, <2>1, <3>1
    <3>3. h[s \ {any(s)}] = t[s \ {any(s)}]
      BY <3>2, <1>8
    <3>4. t[s] = f[any(s)] + t[s \ {any(s)}] /\ t[s \ {any(s)}] \in Nat /\ f[any(s)] \in Nat
      BY <3>1, <3>2, <1>2
    <3> QED
      BY <3>1, <3>3, <3>4, <1>6
  <2> QED
    BY <2>1
<1>9. Nat \subseteq T
  BY <1>7, <1>8, SetInduction
<1>10. Cardinality(S) \in Nat
  BY FS_CardinalityType
<1> QED
  BY <1>5, <1>9, <1>10 DEF t

(* The largest of finitely many numbers.                                     *)
LEMMA NumbersAreBounded ==
  ASSUME NEW S, IsFiniteSet(S), NEW f, \A x \in S : f[x] \in Nat
  PROVE  \E most \in Nat : \A x \in S : f[x] <= most
<1> DEFINE T == {n \in Nat : \A s \in SUBSET S : Cardinality(s) = n => \E most \in Nat : \A x \in s : f[x] <= most}
<1>1. \A s \in SUBSET S : IsFiniteSet(s)
  BY FS_Subset
<1>2. 0 \in T
  BY <1>1, FS_EmptySet
<1>3. ASSUME NEW n \in Nat, n \in T PROVE n + 1 \in T
  <2>1. ASSUME NEW s \in SUBSET S, Cardinality(s) = n + 1 PROVE \E most \in Nat : \A x \in s : f[x] <= most
    <3>1. PICK y \in s : TRUE
      BY <2>1, FS_EmptySet
    <3>2. s \ {y} \in SUBSET S /\ Cardinality(s \ {y}) = n
      <4>1. IsFiniteSet(s)
        BY <1>1
      <4>2. Cardinality(s \ {y}) = IF y \in s THEN Cardinality(s) - 1 ELSE Cardinality(s)
        BY <4>1, FS_RemoveElement
      <4> QED
        BY <4>2, <2>1, <3>1
    <3>3. PICK m \in Nat : \A x \in s \ {y} : f[x] <= m
      BY <3>2, <1>3
    <3>4. PICK k \in Nat : k >= m /\ k >= f[y]
      <4>1. m + f[y] \in Nat /\ m + f[y] >= m /\ m + f[y] >= f[y]
        BY <3>3
      <4> QED
        BY <4>1
    <3>5. \A x \in s : f[x] <= k
      BY <3>3, <3>4
    <3> QED
      BY <3>5
  <2> QED
    BY <2>1
<1>4. Nat \subseteq T
  BY <1>2, <1>3, SetInduction
<1>5. Cardinality(S) \in Nat
  BY FS_CardinalityType
<1> QED
  BY <1>4, <1>5

LEMMA SumIs ==
  ASSUME NEW S, IsFiniteSet(S), NEW f, \A x \in S : f[x] \in Nat
  PROVE  /\ SumOf(f, S) \in Nat
         /\ S = {} => SumOf(f, S) = 0
         /\ \A x \in S : SumOf(f, S) = f[x] + SumOf(f, S \ {x})
<1>1. PICK most \in Nat : \A x \in S : f[x] <= most
  BY NumbersAreBounded
<1>2. SumOf(f, S) = Cardinality(Tally(f, S, most))
  BY <1>1, SumIsTally
<1>3. ASSUME NEW x \in S PROVE SumOf(f, S \ {x}) = Cardinality(Tally(f, S \ {x}, most))
  <2>1. IsFiniteSet(S \ {x})
    BY FS_RemoveElement
  <2> QED
    BY <1>1, <2>1, SumIsTally
<1> QED
  BY <1>1, <1>2, <1>3, TallyIs

LEMMA SumOfInterval ==
  ASSUME NEW f, NEW i \in Nat \ {0}, \A x \in 1 .. i : f[x] \in Nat
  PROVE  /\ SumOf(f, 1 .. i) \in Nat /\ SumOf(f, 1 .. i - 1) \in Nat
         /\ SumOf(f, 1 .. i) = f[i] + SumOf(f, 1 .. i - 1)
<1> DEFINE S == 1 .. i
           R == 1 .. i - 1
<1>1. i \in S /\ S \ {i} = R /\ (\A x \in S : f[x] \in Nat) /\ \A x \in R : f[x] \in Nat
  OBVIOUS
<1>2. IsFiniteSet(S) /\ IsFiniteSet(R)
  BY FS_Interval
<1> HIDE DEF S, R
<1>3. SumOf(f, S) \in Nat /\ SumOf(f, S) = f[i] + SumOf(f, R)
  BY <1>1, <1>2, SumIs
<1>4. SumOf(f, R) \in Nat
  BY <1>1, <1>2, SumIs
<1> QED
  BY <1>3, <1>4 DEF S, R

LEMMA Division ==
  ASSUME NEW o \in Nat, NEW n \in Nat \ {0}
  PROVE  o \div n \in Nat /\ o % n \in 0 .. n - 1 /\ o = n * (o \div n) + (o % n)
OBVIOUS

LEMMA QuotientIs ==
  ASSUME NEW o \in Nat, NEW n \in Nat \ {0}, NEW k \in Nat
  PROVE  (o \div n) >= k <=> o >= n * k
<1> DEFINE q == o \div n
           r == o % n
<1>1. q \in Nat /\ r \in 0 .. n - 1 /\ o = n * q + r
  BY Division
<1> HIDE DEF q, r
<1>2. CASE q >= k
  <2>1. n * k <= n * q /\ n * k \in Nat /\ n * q \in Nat
    <3>1. k * n <= q * n /\ k * n \in Nat /\ q * n \in Nat
      BY <1>1, <1>2, ProductIsMonotonic
    <3> QED
      BY <3>1, <1>1
  <2> QED
    BY <1>1, <1>2, <2>1 DEF q
<1>3. CASE q < k
  <2>1. n * (q + 1) <= n * k
    <3>1. (q + 1) * n <= k * n
      BY <1>1, <1>3, ProductIsMonotonic
    <3> QED
      BY <3>1, <1>1
  <2>2. n * (q + 1) = n * q + n
    BY <1>1
  <2> QED
    BY <1>1, <1>3, <2>1, <2>2 DEF q
<1> QED
  BY <1>1, <1>2, <1>3

-----------------------------------------------------------------------------
(* The shares of the weights                                                 *)

WeightsFit == weights \in Seq(Nat \ {0}) /\ Len(weights) = plan.n /\ plan.n \in Nat \ {0} /\ Grain \in Nat \ {0}

LEMMA CumulatedIs ==
  ASSUME WeightsFit
  PROVE  /\ \A i \in 0 .. plan.n : Cumulated(i) \in Nat
         /\ Cumulated(0) = 0
         /\ \A i \in 1 .. plan.n : Cumulated(i) = Cumulated(i - 1) + weights[i] /\ weights[i] \in Nat \ {0}
<1>1. ASSUME NEW i \in 0 .. plan.n
      PROVE  /\ Cumulated(i) \in Nat
             /\ i = 0 => Cumulated(i) = 0
             /\ i # 0 => Cumulated(i) = weights[i] + Cumulated(i - 1)
  <2>1. IsFiniteSet(1 .. i) /\ \A x \in 1 .. i : weights[x] \in Nat
    <3>1. \A x \in 1 .. plan.n : weights[x] \in Nat
      BY DEF WeightsFit
    <3>2. \A x \in 1 .. i : x \in 1 .. plan.n
      BY DEF WeightsFit
    <3> QED
      BY <3>1, <3>2, FS_Interval
  <2>2. \A j : Cumulated(j) = SumOf(weights, 1 .. j)
    BY DEF Cumulated, SumOf
  <2>3. CASE i # 0
    <3>1. i \in Nat \ {0}
      BY <2>3 DEF WeightsFit
    <3>2. SumOf(weights, 1 .. i) \in Nat /\ SumOf(weights, 1 .. i) = weights[i] + SumOf(weights, 1 .. i - 1)
      BY <2>1, <3>1, SumOfInterval
    <3> QED
      BY <2>2, <2>3, <3>2
  <2>4. CASE i = 0
    <3>1. 1 .. i = {}
      BY <2>4
    <3>2. SumOf(weights, 1 .. i) = 0
      <4> DEFINE S == 1 .. i
      <4>1. S = {} /\ (\A x \in S : weights[x] \in Nat) /\ IsFiniteSet(S)
        BY <2>1, <3>1
      <4> HIDE DEF S
      <4>2. SumOf(weights, S) = 0
        BY <4>1, SumIs
      <4> QED
        BY <4>2 DEF S
    <3> QED
      BY <2>2, <2>4, <3>2
  <2> QED
    BY <2>3, <2>4
<1>2. 0 \in 0 .. plan.n /\ \A i \in 1 .. plan.n : i \in 0 .. plan.n /\ i # 0 /\ i - 1 \in 0 .. plan.n /\ weights[i] \in Nat \ {0}
  BY DEF WeightsFit
<1>3. ASSUME NEW i \in 1 .. plan.n PROVE Cumulated(i) = Cumulated(i - 1) + weights[i]
  <2>1. Cumulated(i) = weights[i] + Cumulated(i - 1) /\ Cumulated(i - 1) \in Nat /\ weights[i] \in Nat
    BY <1>1, <1>2
  <2> QED
    BY <2>1
<1> QED
  BY <1>1, <1>2, <1>3

LEMMA CumulatedGrows ==
  ASSUME WeightsFit, NEW i \in 0 .. plan.n, NEW j \in 0 .. plan.n, i <= j
  PROVE  Cumulated(i) <= Cumulated(j) /\ (i < j => Cumulated(i) < Cumulated(j))
<1> DEFINE T == {d \in Nat : i + d <= plan.n => Cumulated(i) <= Cumulated(i + d) /\ (0 < d => Cumulated(i) < Cumulated(i + d))}
<1>1. plan.n \in Nat
  BY DEF WeightsFit
<1>2. 0 \in T
  <2>1. i + 0 = i
    OBVIOUS
  <2> QED
    BY <2>1, CumulatedIs
<1>3. ASSUME NEW d \in Nat, d \in T PROVE d + 1 \in T
  <2>1. ASSUME i + (d + 1) <= plan.n PROVE Cumulated(i) < Cumulated(i + (d + 1))
    <3>1. i + d \in 0 .. plan.n /\ i + (d + 1) \in 1 .. plan.n /\ i + (d + 1) - 1 = i + d
      BY <2>1, <1>1
    <3>2. Cumulated(i) <= Cumulated(i + d)
      BY <3>1, <1>3
    <3> QED
      BY <3>1, <3>2, CumulatedIs
  <2>2. i + (d + 1) <= plan.n => i + (d + 1) \in 0 .. plan.n
    BY <1>1
  <2> QED
    BY <2>1, <2>2, CumulatedIs
<1>4. Nat \subseteq T
  BY <1>2, <1>3, SetInduction
<1>5. j - i \in Nat /\ i + (j - i) = j
  BY <1>1
<1> QED
  BY <1>4, <1>5, <1>1

(* A draw falls to the agent whose share ends at it or above, and begins    *)
(* below it.                                                                 *)
LEMMA PickedIs ==
  ASSUME WeightsFit, NEW draw \in Draws
  PROVE  /\ Picked(draw) \in 1 .. plan.n
         /\ \A a \in 1 .. plan.n :
              Picked(draw) = a <=>
                /\ Cumulated(a) * Grain >= draw * Cumulated(plan.n)
                /\ a # 1 => Cumulated(a - 1) * Grain < draw * Cumulated(plan.n)
<1> DEFINE n == plan.n
           total == Cumulated(n)
           C(i) == Cumulated(i) * Grain
           reaching == {i \in 1 .. n : C(i) >= draw * total}
           least == CHOOSE i \in reaching : \A j \in reaching : i <= j
<1>1. n \in Nat \ {0} /\ Grain \in Nat \ {0} /\ draw \in Nat /\ draw < Grain /\ total \in Nat
  BY CumulatedIs DEF WeightsFit, Draws
<1>2. \A i \in 0 .. n : C(i) \in Nat
  BY <1>1, CumulatedIs
<1>3. \A i, j \in 0 .. n : i <= j => C(i) <= C(j)
  <2>1. ASSUME NEW i \in 0 .. n, NEW j \in 0 .. n, i <= j PROVE C(i) <= C(j)
    <3>1. Cumulated(i) \in Nat /\ Cumulated(j) \in Nat /\ Cumulated(i) <= Cumulated(j)
      BY <2>1, CumulatedIs, CumulatedGrows
    <3> QED
      BY <3>1, <1>1, ProductIsMonotonic
  <2> QED
    BY <2>1
<1>4. n \in reaching
  <2>1. draw * total <= Grain * total
    BY <1>1, ProductIsMonotonic
  <2>2. Grain * total = C(n)
    BY <1>1
  <2> QED
    BY <1>1, <2>1, <2>2
<1>5. draw * total \in Nat
  BY <1>1
<1>6. \E i \in reaching : \A j \in reaching : i <= j
  <2> DEFINE L == {k \in Nat : \A i \in reaching : i >= k}
  <2>1. SUFFICES ASSUME ~ \E i \in reaching : \A j \in reaching : i <= j PROVE FALSE
    OBVIOUS
  <2>2. 0 \in L
    OBVIOUS
  <2>3. ASSUME NEW k \in Nat, k \in L PROVE k + 1 \in L
    <3>1. k \notin reaching
      BY <2>1, <2>3
    <3>2. \A i \in reaching : i >= k /\ i # k /\ i \in Nat
      BY <3>1, <2>3
    <3> QED
      BY <3>2
  <2>4. Nat \subseteq L
    BY <2>2, <2>3, SetInduction
  <2>5. n + 1 \in L
    BY <2>4, <1>1
  <2> QED
    BY <2>5, <1>4, <1>1
<1>7. least \in reaching /\ \A j \in reaching : least <= j
  BY <1>6
<1>8. Picked(draw) = least
  BY <1>4 DEF Picked
<1> HIDE DEF C, total, least
<1>9. ASSUME NEW a \in 1 .. n
      PROVE  least = a <=> C(a) >= draw * total /\ (a # 1 => C(a - 1) < draw * total)
  <2>1. ASSUME least = a PROVE C(a) >= draw * total /\ (a # 1 => C(a - 1) < draw * total)
    <3>1. a # 1 => a - 1 \in 1 .. n /\ a - 1 \in 0 .. n /\ a - 1 < a
      BY <1>1
    <3> QED
      BY <2>1, <3>1, <1>2, <1>5, <1>7
  <2>2. ASSUME C(a) >= draw * total, a # 1 => C(a - 1) < draw * total PROVE least = a
    <3>1. a \in reaching /\ least <= a /\ least \in 1 .. n
      BY <2>2, <1>7
    <3>2. CASE least < a
      <4>1. a # 1 /\ least <= a - 1 /\ a - 1 \in 0 .. n /\ least \in 0 .. n
        BY <3>1, <3>2, <1>1
      <4>2. C(least) <= C(a - 1) /\ C(least) >= draw * total /\ C(a - 1) < draw * total
        BY <4>1, <2>2, <1>3, <1>7
      <4> QED
        BY <4>1, <4>2, <1>2, <1>5
    <3> QED
      BY <3>1, <3>2, <1>1
  <2> QED
    BY <2>1, <2>2
<1> QED
  BY <1>7, <1>8, <1>9 DEF C, total

(* Where the share of an agent ends: at the last draw that falls to it or to *)
(* an agent before it, within one draw of what the weights say.              *)
Below(i, draw) == i # 0 /\ Cumulated(i) * Grain >= draw * Cumulated(plan.n)
EndsAt(i, u) ==
  /\ u \in -1 .. Grain - 1 /\ \A draw \in Draws : Below(i, draw) <=> draw <= u
  /\ Cumulated(i) * Grain - u * Cumulated(plan.n) \in 0 .. Cumulated(plan.n)

LEMMA ShareEnds ==
  ASSUME WeightsFit, NEW i \in 0 .. plan.n
  PROVE  \E u \in Int : EndsAt(i, u)
<1> DEFINE n == plan.n
           total == Cumulated(n)
           c == Cumulated(i)
<1>1. n \in Nat \ {0} /\ Grain \in Nat \ {0} /\ c \in Nat /\ total \in Nat \ {0} /\ c <= total
  <2>1. n \in Nat \ {0} /\ Grain \in Nat \ {0} /\ n \in 0 .. n /\ 0 \in 0 .. n /\ i <= n /\ 0 < n
    BY DEF WeightsFit
  <2>2. Cumulated(0) = 0 /\ c \in Nat /\ total \in Nat
    BY <2>1, CumulatedIs
  <2>3. 0 < total /\ c <= total
    BY <2>1, <2>2, CumulatedGrows
  <2> QED
    BY <2>1, <2>2, <2>3
<1>2. i = 0 => c = 0
  BY CumulatedIs
<1>3. i # 0 /\ i # n => c < total
  <2>1. ASSUME i # n PROVE c < total
    <3>1. n \in 0 .. n /\ i < n
      BY <1>1, <2>1
    <3> QED
      BY <3>1, CumulatedGrows
  <2> QED
    BY <2>1
<1>4. \A draw \in Draws : draw \in Nat /\ draw <= Grain - 1
  BY <1>1 DEF Draws
<1> HIDE DEF c, total
<1>5. \A draw \in Draws : Below(i, draw) <=> i # 0 /\ c * Grain >= draw * total
  BY DEF Below, c, total
<1>6. \A u : EndsAt(i, u) <=> /\ u \in -1 .. Grain - 1 /\ \A draw \in Draws : Below(i, draw) <=> draw <= u
                              /\ c * Grain - u * total \in 0 .. total
  BY DEF EndsAt, c, total
<1>7. CASE i = 0
  <2>1. \A draw \in Draws : ~Below(i, draw) /\ ~(draw <= -1)
    BY <1>4, <1>5, <1>7
  <2>2. c * Grain - (-1) * total = total
    BY <1>1, <1>2, <1>7
  <2>3. EndsAt(i, -1)
    BY <1>1, <1>6, <2>1, <2>2
  <2> QED
    BY <2>3
<1>8. CASE i = n
  <2>1. c = total
    BY <1>8 DEF c, total
  <2>2. ASSUME NEW draw \in Draws PROVE Below(i, draw) /\ draw <= Grain - 1
    <3>1. draw * total <= Grain * total
      <4>1. draw \in Nat /\ draw <= Grain
        BY <1>1, <1>4
      <4> QED
        BY <4>1, <1>1, ProductIsMonotonic
    <3>2. Grain * total = c * Grain
      BY <1>1, <2>1
    <3>3. c * Grain >= draw * total
      BY <3>1, <3>2, <1>1, <1>4
    <3> QED
      BY <3>3, <1>1, <1>4, <1>5, <1>8
  <2>3. c * Grain - (Grain - 1) * total = total
    BY <1>1, <2>1
  <2>4. EndsAt(i, Grain - 1)
    BY <1>1, <1>6, <2>2, <2>3
  <2> QED
    BY <2>4, <1>1
<1>9. CASE i # 0 /\ i # n
  <2> DEFINE x == c * Grain
             u == x \div total
  <2>1. x \in Nat
    BY <1>1
  <2> HIDE DEF x
  <2>2. u \in Nat /\ (x % total) \in 0 .. total - 1 /\ x = total * u + (x % total)
    BY <1>1, <2>1, Division
  <2>3. \A k \in Nat : u >= k <=> x >= total * k
    BY <1>1, <2>1, QuotientIs
  <2> HIDE DEF u
  <2>4. ~(u >= Grain)
    <3>1. (c + 1) * Grain <= total * Grain
      <4>1. c + 1 <= total /\ c + 1 \in Nat
        BY <1>1, <1>3, <1>9
      <4> QED
        BY <4>1, <1>1, ProductIsMonotonic
    <3>2. (c + 1) * Grain = x + Grain
      BY <1>1 DEF x
    <3>3. total * Grain \in Nat
      BY <1>1
    <3>4. ~(x >= total * Grain)
      BY <3>1, <3>2, <3>3, <1>1, <2>1
    <3> QED
      BY <3>4, <2>3, <1>1
  <2>5. ASSUME NEW draw \in Draws PROVE Below(i, draw) <=> draw <= u
    <3>1. draw * total = total * draw
      BY <1>1, <1>4
    <3>2. u >= draw <=> x >= total * draw
      BY <2>3, <1>4
    <3>3. Below(i, draw) <=> x >= draw * total
      BY <1>5, <1>9 DEF x
    <3>4. u >= draw <=> draw <= u
      BY <1>4, <2>2
    <3> QED
      BY <3>1, <3>2, <3>3, <3>4
  <2>6. x - u * total = (x % total)
    <3>1. u * total = total * u /\ total * u \in Nat
      BY <1>1, <2>2
    <3> QED
      BY <3>1, <2>1, <2>2
  <2>7. c * Grain - u * total \in 0 .. total
    BY <2>2, <2>6, <1>1 DEF x
  <2>8. u \in -1 .. Grain - 1
    BY <2>2, <2>4, <1>1
  <2>9. EndsAt(i, u)
    BY <1>6, <2>5, <2>7, <2>8
  <2> QED
    BY <2>9, <2>2
<1> QED
  BY <1>7, <1>8, <1>9

LEMMA Shares == ASSUME WeightsFit PROVE Proportional
<1> DEFINE n == plan.n
           total == Cumulated(n)
<1>1. n \in Nat \ {0} /\ Grain \in Nat \ {0} /\ total \in Nat
  BY CumulatedIs DEF WeightsFit
<1>2. SUFFICES ASSUME NEW a \in 1 .. n
      PROVE  Gap(Cardinality({draw \in Draws : Picked(draw) = a}) * total, Grain * weights[a]) <= total
  BY DEF Proportional
<1>3. a \in 0 .. n /\ a - 1 \in 0 .. n /\ a # 0
  BY <1>1
<1>4. PICK u \in Int : EndsAt(a, u)
  BY <1>3, ShareEnds
<1>5. PICK v \in Int : EndsAt(a - 1, v)
  BY <1>3, ShareEnds
<1>6. \A draw \in Draws : Picked(draw) = a <=> Below(a, draw) /\ ~Below(a - 1, draw)
  <2>1. ASSUME NEW draw \in Draws PROVE Picked(draw) = a <=> Below(a, draw) /\ ~Below(a - 1, draw)
    <3>1. draw \in Nat /\ Cumulated(a - 1) \in Nat
      BY <1>1, <1>3, CumulatedIs DEF Draws
    <3>2. (a # 1 => Cumulated(a - 1) * Grain < draw * total) <=> ~Below(a - 1, draw)
      <4>1. Cumulated(a - 1) * Grain \in Nat /\ draw * total \in Nat /\ (a # 1 <=> a - 1 # 0)
        BY <1>1, <3>1
      <4> HIDE DEF total
      <4> QED
        BY <4>1 DEF Below, total
    <3>3. Below(a, draw) <=> Cumulated(a) * Grain >= draw * total
      BY <1>3 DEF Below
    <3> HIDE DEF total
    <3>4. Picked(draw) = a <=> /\ Cumulated(a) * Grain >= draw * total
                               /\ a # 1 => Cumulated(a - 1) * Grain < draw * total
      BY PickedIs DEF total
    <3> QED
      BY <3>2, <3>3, <3>4
  <2> QED
    BY <2>1
<1>7. {draw \in Draws : Picked(draw) = a} = v + 1 .. u
  <2>1. \A draw \in Draws : Picked(draw) = a <=> draw <= u /\ ~(draw <= v)
    BY <1>4, <1>5, <1>6 DEF EndsAt
  <2>2. u \in -1 .. Grain - 1 /\ v \in -1 .. Grain - 1
    BY <1>4, <1>5 DEF EndsAt
  <2>3. \A draw \in v + 1 .. u : draw \in Draws /\ draw <= u /\ ~(draw <= v)
    BY <2>2, <1>1 DEF Draws
  <2>4. \A draw \in Draws : draw \in Int /\ (draw <= u /\ ~(draw <= v) => draw \in v + 1 .. u)
    BY <2>2, <1>1 DEF Draws
  <2> HIDE DEF Draws
  <2> QED
    BY <2>1, <2>3, <2>4
<1>8. v <= u
  <2>1. u \in -1 .. Grain - 1 /\ v \in -1 .. Grain - 1
    BY <1>4, <1>5 DEF EndsAt
  <2>2. CASE v # -1
    <3>1. v \in Draws /\ Below(a - 1, v)
      BY <2>1, <2>2, <1>1, <1>5 DEF EndsAt, Draws
    <3>2. Below(a, v)
      <4>1. v \in Nat /\ Cumulated(a - 1) \in Nat /\ Cumulated(a) \in Nat /\ Cumulated(a - 1) <= Cumulated(a)
        BY <3>1, <1>1, <1>3, CumulatedIs, CumulatedGrows DEF Draws
      <4>2. Cumulated(a - 1) * Grain <= Cumulated(a) * Grain
        BY <4>1, <1>1, ProductIsMonotonic
      <4>3. Cumulated(a - 1) * Grain \in Nat /\ Cumulated(a) * Grain \in Nat /\ v * total \in Nat
        BY <4>1, <1>1
      <4> HIDE DEF total
      <4>4. Cumulated(a - 1) * Grain >= v * total
        BY <3>1 DEF Below, total
      <4>5. Cumulated(a) * Grain >= v * total
        BY <4>2, <4>3, <4>4
      <4> QED
        BY <4>5, <1>3 DEF Below, total
    <3> QED
      BY <3>1, <3>2, <1>4 DEF EndsAt
  <2> QED
    BY <2>1, <2>2, <1>1
<1>9. Cardinality({draw \in Draws : Picked(draw) = a}) = u - v
  <2>1. Cardinality(v + 1 .. u) = IF v + 1 > u THEN 0 ELSE u - (v + 1) + 1
    BY FS_Interval
  <2>2. Cardinality(v + 1 .. u) = u - v
    BY <2>1, <1>8
  <2> QED
    BY <2>2, <1>7
<1>10. weights[a] \in Nat /\ Cumulated(a - 1) \in Nat /\ Cumulated(a) = Cumulated(a - 1) + weights[a]
  BY <1>3, CumulatedIs
<1> DEFINE ea == Cumulated(a) * Grain - u * total
           eb == Cumulated(a - 1) * Grain - v * total
<1>11. ea \in 0 .. total /\ eb \in 0 .. total
  BY <1>4, <1>5 DEF EndsAt
<1>12. (u - v) * total - Grain * weights[a] = eb - ea
  <2> DEFINE b == Cumulated(a - 1)
             w == weights[a]
  <2>1. b \in Nat /\ w \in Nat
    BY <1>10
  <2>2. ea = (b + w) * Grain - u * total /\ eb = b * Grain - v * total
    BY <1>10
  <2> HIDE DEF b, w, ea, eb, total
  <2>3. (b + w) * Grain = b * Grain + Grain * w /\ (u - v) * total = u * total - v * total
    BY <2>1, <1>1
  <2>4. b * Grain \in Nat /\ Grain * w \in Nat /\ u * total \in Int /\ v * total \in Int
    BY <2>1, <1>1
  <2>5. (u - v) * total - Grain * w = eb - ea
    BY <2>2, <2>3, <2>4
  <2> QED
    BY <2>5 DEF w
<1>13. (u - v) * total \in Int /\ Grain * weights[a] \in Int
  BY <1>1, <1>10
<1> HIDE DEF ea, eb, total
<1>14. Gap((u - v) * total, Grain * weights[a]) <= total
  BY <1>1, <1>11, <1>12, <1>13 DEF Gap
<1> QED
  BY <1>9, <1>14

-----------------------------------------------------------------------------
(* The invariant of the schedule                                             *)

scheduleVars == <<plan, phase, tries, weights, chances, slots, flags>>
ScheduleSpec == ScheduleInit /\ [][ScheduleNext]_scheduleVars

Entries == {entry \in [lurker : BOOLEAN, chance : Nat] : entry.lurker => entry.chance = 0}
Drawn == [ordinal : Nat, sweep : Nat, draw : Nat, agent : 1 .. plan.n]

ScheduleTypeOK ==
  /\ plan \in Plans
  /\ phase \in {"asked", "refused", "attention", "expression", "activation", "publish", "frozen"}
  /\ weights \in Seq(Nat \ {0}) /\ chances \in Seq(Entries) /\ slots \in Seq(Drawn) /\ flags \in Seq(BOOLEAN)

(* Each artifact is whole before the next is begun.                          *)
InTurn ==
  /\ phase \in {"asked", "attention"} => Len(weights) < plan.n
  /\ phase \in {"expression", "activation", "publish", "frozen"} => Len(weights) = plan.n
  /\ phase \in {"asked", "attention"} => chances = <<>>
  /\ phase = "expression" => Len(chances) < plan.n
  /\ phase \in {"activation", "publish", "frozen"} => Len(chances) = plan.n
  /\ phase \in {"asked", "attention", "expression"} => slots = <<>>
  /\ phase = "activation" => Len(slots) < EventCount
  /\ phase \in {"publish", "frozen"} => Len(slots) = EventCount /\ Len(flags) <= EventCount
  /\ phase \notin {"publish", "frozen"} => flags = <<>>

InPlace == \A i \in 1 .. Len(slots) : slots[i] = ActivationSlot(i - 1, slots[i].agent)
Spoken == \A i \in 1 .. Len(flags) : flags[i] => ~chances[slots[i].agent].lurker

ScheduleInv == ScheduleTypeOK /\ InTurn /\ InPlace /\ Spoken

LEMMA Planned ==
  ASSUME ScheduleValid, ScheduleTypeOK
  PROVE  /\ plan.n \in Nat \ {0} /\ plan.sweeps \in Nat \ {0} /\ Grain \in Nat \ {0} /\ Weights \subseteq Nat \ {0}
         /\ EventCount \in Nat \ {0}
<1>1. plan.n \in Nat \ {0} /\ plan.sweeps \in Nat \ {0} /\ Grain \in Nat \ {0} /\ Weights \subseteq Nat \ {0}
  BY DEF ScheduleValid, ScheduleTypeOK, PlanValid
<1>2. 1 * plan.sweeps <= plan.n * plan.sweeps
  BY <1>1, ProductIsMonotonic
<1>3. plan.n * plan.sweeps \in Nat
  BY <1>1
<1> QED
  BY <1>1, <1>2, <1>3 DEF EventCount

LEMMA SlotsAreWhole ==
  ASSUME ScheduleValid, ScheduleInv, phase \in {"publish", "frozen"}
  PROVE  /\ SlotsMatch
         /\ \A s \in 1 .. plan.sweeps : Cardinality({i \in DOMAIN slots : slots[i].sweep = s}) = plan.n
<1> DEFINE n == plan.n
           sweeps == plan.sweeps
<1>1. n \in Nat \ {0} /\ sweeps \in Nat \ {0} /\ Len(slots) = n * sweeps /\ n * sweeps \in Nat /\ DOMAIN slots = 1 .. n * sweeps
  <2>1. n \in Nat \ {0} /\ sweeps \in Nat \ {0} /\ EventCount \in Nat
    BY Planned DEF ScheduleInv
  <2>2. slots \in Seq(Drawn) /\ Len(slots) = EventCount
    BY DEF ScheduleInv, ScheduleTypeOK, InTurn
  <2> QED
    BY <2>1, <2>2 DEF EventCount
<1>2. \A i \in 1 .. n * sweeps :
        /\ slots[i].ordinal = i - 1 /\ slots[i].sweep = (i - 1) \div n + 1 /\ slots[i].draw = ((i - 1) % n)
        /\ i - 1 \in Nat
  <2>1. \A i \in 1 .. n * sweeps : slots[i] = ActivationSlot(i - 1, slots[i].agent) /\ i - 1 \in Nat
    BY <1>1 DEF ScheduleInv, InPlace
  <2>2. \A o, a : LET slot == ActivationSlot(o, a)
                 IN slot.ordinal = o /\ slot.sweep = o \div n + 1 /\ slot.draw = (o % n)
    BY DEF ActivationSlot
  <2> HIDE DEF n
  <2> QED
    BY <2>1, <2>2
<1> HIDE DEF n, sweeps
<1>3. ASSUME NEW i \in 1 .. n * sweeps
      PROVE  slots[i].sweep \in 1 .. sweeps /\ slots[i].draw \in 0 .. n - 1
  <2>1. i - 1 \in Nat /\ ~(i - 1 >= n * sweeps)
    BY <1>1
  <2>2. (i - 1) \div n \in Nat /\ ((i - 1) % n) \in 0 .. n - 1
    BY <1>1, <2>1, Division
  <2>3. ~((i - 1) \div n >= sweeps)
    BY <1>1, <2>1, QuotientIs
  <2> QED
    BY <1>1, <1>2, <2>2, <2>3
<1>4. SlotsMatch
  BY <1>1, <1>2, <1>3 DEF SlotsMatch, EventCount, n, sweeps
<1>5. ASSUME NEW s \in 1 .. sweeps
      PROVE  Cardinality({i \in DOMAIN slots : slots[i].sweep = s}) = n
  <2> DEFINE first == n * (s - 1) + 1
             last == n * s
  <2>1. n * s = n * (s - 1) + n /\ n * (s - 1) \in Nat /\ n * s \in Nat /\ n * s <= n * sweeps
    <3>1. s * n <= sweeps * n
      BY <1>1, ProductIsMonotonic
    <3>2. s * n = n * s /\ sweeps * n = n * sweeps
      BY <1>1
    <3>3. s \in Nat /\ s - 1 \in Nat
      BY <1>1
    <3>4. n * s = n * (s - 1) + n
      BY <1>1, <3>3
    <3>5. n * (s - 1) \in Nat /\ n * s \in Nat
      BY <1>1, <3>3
    <3> QED
      BY <3>1, <3>2, <3>4, <3>5
  <2>2. ASSUME NEW i \in 1 .. n * sweeps PROVE slots[i].sweep = s <=> i \in first .. last
    <3>1. i - 1 \in Nat /\ s - 1 \in Nat /\ s \in Nat /\ (i - 1) \div n \in Nat
      <4>1. i - 1 \in Nat /\ s - 1 \in Nat /\ s \in Nat
        BY <1>1
      <4> QED
        BY <4>1, <1>1, Division
    <3>2. (i - 1) \div n >= s - 1 <=> i - 1 >= n * (s - 1)
      BY <3>1, <1>1, QuotientIs
    <3>3. (i - 1) \div n >= s <=> i - 1 >= n * s
      BY <3>1, <1>1, QuotientIs
    <3>4. slots[i].sweep = (i - 1) \div n + 1
      BY <1>2
    <3>5. slots[i].sweep = s <=> i - 1 >= n * (s - 1) /\ ~(i - 1 >= n * s)
      BY <3>1, <3>2, <3>3, <3>4
    <3> QED
      BY <3>1, <3>5, <2>1
  <2>3. first .. last \subseteq 1 .. n * sweeps
    BY <2>1, <1>1
  <2>4. {i \in DOMAIN slots : slots[i].sweep = s} = first .. last
    BY <1>1, <2>2, <2>3
  <2>5. Cardinality(first .. last) = IF first > last THEN 0 ELSE last - first + 1
    <3>1. first \in Int /\ last \in Int
      BY <2>1
    <3> QED
      BY <3>1, FS_Interval
  <2>6. Cardinality(first .. last) = n
    BY <2>1, <2>5, <1>1
  <2> QED
    BY <2>4, <2>6
<1> QED
  BY <1>4, <1>5 DEF n, sweeps

LEMMA ScheduleInvInit == ScheduleValid /\ ScheduleInit => ScheduleInv
<1> SUFFICES ASSUME ScheduleValid, ScheduleInit PROVE ScheduleInv
  OBVIOUS
<1>1. ScheduleTypeOK
  BY DEF ScheduleInit, ScheduleTypeOK
<1> QED
  BY <1>1, Planned DEF ScheduleInit, ScheduleInv, InTurn, InPlace, Spoken

LEMMA ScheduleInvNext == ScheduleValid /\ ScheduleInv /\ [ScheduleNext]_scheduleVars => ScheduleInv'
<1> SUFFICES ASSUME ScheduleValid, ScheduleInv, [ScheduleNext]_scheduleVars PROVE ScheduleInv'
  OBVIOUS
<1> USE DEF ScheduleInv
<1>1. /\ plan.n \in Nat \ {0} /\ plan.sweeps \in Nat \ {0} /\ Grain \in Nat \ {0} /\ Weights \subseteq Nat \ {0}
      /\ EventCount \in Nat \ {0}
  BY Planned
<1>2. plan' = plan
  BY DEF ScheduleNext, scheduleVars, Ask, EqualWeights, AcceptWeight, RejectWeight, DrawLurker, DrawChance,
         WithChance, RejectChance, RefuseEvents, DrawActivation, DrawFlag, Freeze
<1>3. Entries' = Entries /\ Drawn' = Drawn /\ EventCount' = EventCount /\ \A o, a : ActivationSlot(o, a)' = ActivationSlot(o, a)
  BY <1>2 DEF Entries, Drawn, EventCount, ActivationSlot
<1>4. ASSUME NEW most, Reject(most), phase \in {"attention", "expression"} PROVE ScheduleInv'
  BY <1>1, <1>2, <1>3, <1>4 DEF Reject, RefusePlan, ScheduleTypeOK, InTurn, InPlace, Spoken
<1>5. ASSUME NEW entry \in Entries, WithChance(entry), phase = "expression" PROVE ScheduleInv'
  <2>1. chances' = Append(chances, entry) /\ UNCHANGED <<plan, weights, slots, flags>>
        /\ phase' = IF Len(chances') = plan.n THEN "activation" ELSE "expression"
    BY <1>5 DEF WithChance
  <2>2. chances' \in Seq(Entries) /\ Len(chances') = Len(chances) + 1 /\ Len(chances) \in Nat /\ Len(chances) < plan.n
        /\ Len(weights) = plan.n /\ slots = <<>> /\ flags = <<>>
    BY <2>1, <1>5 DEF ScheduleTypeOK, InTurn
  <2>3. ScheduleTypeOK'
    BY <2>1, <2>2, <1>3 DEF ScheduleTypeOK
  <2>4. InTurn'
    BY <2>1, <2>2, <1>1, <1>3 DEF InTurn
  <2>5. InPlace' /\ Spoken'
    BY <2>1, <2>2, <1>3 DEF InPlace, Spoken
  <2> QED
    BY <2>3, <2>4, <2>5
<1>6. CASE Ask
  BY <1>1, <1>2, <1>3, <1>6 DEF Ask, RefusePlan, ScheduleTypeOK, InTurn, InPlace, Spoken
<1>7. CASE EqualWeights
  <2>1. weights' \in Seq(Nat \ {0}) /\ Len(weights') = plan.n
    <3>1. weights' = [a \in 1 .. plan.n |-> 1] /\ plan.n \in Nat
      BY <1>7, <1>1 DEF EqualWeights
    <3> QED
      BY <3>1
  <2> QED
    BY <2>1, <1>1, <1>2, <1>3, <1>7 DEF EqualWeights, ScheduleTypeOK, InTurn, InPlace, Spoken
<1>8. CASE AcceptWeight
  <2>1. PICK w \in Weights : weights' = Append(weights, w)
    BY <1>8 DEF AcceptWeight
  <2>2. weights' \in Seq(Nat \ {0}) /\ Len(weights') = Len(weights) + 1 /\ Len(weights) \in Nat
    BY <2>1, <1>1 DEF ScheduleTypeOK
  <2>3. phase' = (IF Len(weights') = plan.n THEN "expression" ELSE "attention") /\ phase = "attention"
        /\ UNCHANGED <<plan, chances, slots, flags>>
    BY <1>8 DEF AcceptWeight
  <2> QED
    BY <2>2, <2>3, <1>1, <1>2, <1>3 DEF ScheduleTypeOK, InTurn, InPlace, Spoken
<1>9. CASE RejectWeight
  BY <1>4, <1>9 DEF RejectWeight
<1>10. CASE DrawLurker
  <2>1. [lurker |-> TRUE, chance |-> 0] \in Entries
    BY DEF Entries
  <2> QED
    BY <2>1, <1>5, <1>10 DEF DrawLurker
<1>11. CASE DrawChance
  <2>1. PICK chance \in 1 .. Grain - 1 : WithChance([lurker |-> FALSE, chance |-> chance])
    BY <1>11 DEF DrawChance
  <2>2. [lurker |-> FALSE, chance |-> chance] \in Entries
    BY <1>1 DEF Entries
  <2> QED
    BY <2>1, <2>2, <1>5, <1>11 DEF DrawChance
<1>12. CASE RejectChance
  BY <1>4, <1>12 DEF RejectChance
<1>13. CASE RefuseEvents
  BY <1>1, <1>2, <1>3, <1>13 DEF RefuseEvents, RefusePlan, ScheduleTypeOK, InTurn, InPlace, Spoken
<1>14. CASE DrawActivation
  <2>1. PICK draw \in Draws : slots' = Append(slots, ActivationSlot(Len(slots), Picked(draw)))
    BY <1>14 DEF DrawActivation
  <2> DEFINE slot == ActivationSlot(Len(slots), Picked(draw))
  <2>2. phase = "activation" /\ phase' = (IF Len(slots') = EventCount THEN "publish" ELSE "activation")
        /\ UNCHANGED <<plan, weights, chances, flags>>
    BY <1>14 DEF DrawActivation
  <2>3. slots \in Seq(Drawn) /\ Len(slots) \in Nat /\ Len(slots) < EventCount
    BY <2>2 DEF ScheduleTypeOK, InTurn
  <2>4. slot \in Drawn /\ slot = ActivationSlot(Len(slots), slot.agent)
    <3>1. WeightsFit
      BY <2>2, <1>1 DEF WeightsFit, ScheduleTypeOK, InTurn
    <3>2. Picked(draw) \in 1 .. plan.n
      BY <3>1, PickedIs
    <3>3. Len(slots) \div plan.n \in Nat /\ (Len(slots) % plan.n) \in 0 .. plan.n - 1
      BY <2>3, <1>1, Division
    <3>4. Len(slots) \div plan.n + 1 \in Nat /\ (Len(slots) % plan.n) \in Nat
      BY <3>3, <1>1
    <3> HIDE DEF Picked
    <3> QED
      BY <2>3, <3>2, <3>4 DEF Drawn, ActivationSlot
  <2> HIDE DEF slot
  <2>5. slots' = Append(slots, slot)
    BY <2>1 DEF slot
  <2>6. slots' \in Seq(Drawn) /\ Len(slots') = Len(slots) + 1
        /\ (\A i \in 1 .. Len(slots) : slots'[i] = slots[i]) /\ slots'[Len(slots) + 1] = slot
    BY <2>3, <2>4, <2>5
  <2>7. ScheduleTypeOK'
    BY <2>2, <2>6, <1>3 DEF ScheduleTypeOK
  <2>8. InTurn'
    BY <2>2, <2>3, <2>6, <1>1, <1>3 DEF InTurn
  <2>9. InPlace'
    <3>1. ASSUME NEW i \in 1 .. Len(slots') PROVE slots'[i] = ActivationSlot(i - 1, slots'[i].agent)
      <4>1. CASE i = Len(slots) + 1
        <5>1. i - 1 = Len(slots)
          BY <2>3, <4>1
        <5> QED
          BY <5>1, <4>1, <2>4, <2>6
      <4>2. CASE i # Len(slots) + 1
        <5>1. i \in 1 .. Len(slots)
          BY <4>2, <2>3, <2>6
        <5> QED
          BY <5>1, <2>6 DEF InPlace
      <4> QED
        BY <4>1, <4>2
    <3> QED
      BY <3>1, <1>3 DEF InPlace
  <2>10. Spoken'
    <3>1. flags' = <<>>
      BY <2>2 DEF InTurn
    <3> QED
      BY <3>1 DEF Spoken
  <2> QED
    BY <2>7, <2>8, <2>9, <2>10
<1>15. CASE DrawFlag
  <2> DEFINE k == Len(flags) + 1
             chance == chances[slots[k].agent].chance
  <2>1. PICK draw \in Draws : flags' = Append(flags, draw < chance)
    BY <1>15 DEF DrawFlag
  <2>2. phase = "publish" /\ Len(flags) < EventCount /\ UNCHANGED <<plan, phase, weights, chances, slots>>
    BY <1>15 DEF DrawFlag
  <2>3. flags \in Seq(BOOLEAN) /\ Len(flags) \in Nat /\ Len(slots) = EventCount
    BY <2>2 DEF ScheduleTypeOK, InTurn
  <2>4. chances[slots[k].agent] \in Entries
    <3>1. k \in 1 .. Len(slots)
      BY <2>2, <2>3, <1>1
    <3>2. slots[k] \in Drawn
      BY <3>1 DEF ScheduleTypeOK
    <3>3. slots[k].agent \in 1 .. Len(chances)
      BY <3>2, <2>2 DEF Drawn, InTurn
    <3> QED
      BY <3>3 DEF ScheduleTypeOK
  <2>5. draw < chance => ~chances[slots[k].agent].lurker
    <3>1. draw \in Nat
      BY <1>1 DEF Draws
    <3> QED
      BY <2>4, <3>1 DEF Entries
  <2>6. (draw < chance) \in BOOLEAN
    OBVIOUS
  <2> DEFINE flag == draw < chance
  <2> HIDE DEF flag
  <2>7. flags' = Append(flags, flag) /\ flag \in BOOLEAN
    BY <2>1, <2>6 DEF flag
  <2>8. flags' \in Seq(BOOLEAN) /\ Len(flags') = k
        /\ (\A i \in 1 .. Len(flags) : flags'[i] = flags[i]) /\ flags'[k] = flag
    BY <2>3, <2>7
  <2>9. ScheduleTypeOK'
    BY <2>2, <2>8, <1>3 DEF ScheduleTypeOK
  <2>10. InTurn'
    BY <2>2, <2>3, <2>8, <1>1, <1>3 DEF InTurn
  <2>11. InPlace'
    BY <2>2, <1>3 DEF InPlace
  <2>12. Spoken'
    <3>1. ASSUME NEW i \in 1 .. Len(flags'), flags'[i] PROVE ~chances[slots[i].agent].lurker
      <4>1. CASE i = k
        BY <3>1, <4>1, <2>5, <2>8 DEF flag
      <4>2. CASE i # k
        <5>1. i \in 1 .. Len(flags)
          BY <4>2, <2>3, <2>8
        <5> QED
          BY <5>1, <3>1, <2>8 DEF Spoken
      <4> QED
        BY <4>1, <4>2
    <3> QED
      BY <3>1, <2>2 DEF Spoken
  <2> QED
    BY <2>9, <2>10, <2>11, <2>12
<1>16. CASE Freeze
  <2>1. phase = "publish" /\ phase' = "frozen" /\ UNCHANGED <<plan, tries, weights, chances, slots, flags>>
    BY <1>16, SlotsAreWhole DEF Freeze
  <2> QED
    BY <2>1, <1>1, <1>3 DEF ScheduleTypeOK, InTurn, InPlace, Spoken
<1>17. CASE UNCHANGED scheduleVars
  BY <1>3, <1>17 DEF scheduleVars, ScheduleTypeOK, InTurn, InPlace, Spoken
<1> QED
  BY <1>6, <1>7, <1>8, <1>9, <1>10, <1>11, <1>12, <1>13, <1>14, <1>15, <1>16, <1>17 DEF ScheduleNext

(* A frozen schedule does what was sampled: the draws that pick an agent are *)
(* its share of the weights to within one, a lurker has no event that        *)
(* publishes, every sweep is whole, and no schedule is rejected by the       *)
(* record it is frozen into - for every plan, every weights and every grain. *)
THEOREM ScheduleStaysSound ==
  ASSUME ScheduleValid
  PROVE  ScheduleSpec => []ScheduleIsSound
<1>1. ScheduleInit => ScheduleInv
  BY ScheduleInvInit
<1>2. ScheduleInv /\ [ScheduleNext]_scheduleVars => ScheduleInv'
  BY ScheduleInvNext
<1>3. ScheduleInv => ScheduleIsSound
  <2> SUFFICES ASSUME ScheduleInv PROVE ScheduleIsSound
    OBVIOUS
  <2>1. phase # "rejected"
    BY DEF ScheduleInv, ScheduleTypeOK
  <2>2. phase \in {"publish", "frozen"} => Proportional
    <3>1. ASSUME phase \in {"publish", "frozen"} PROVE WeightsFit
      BY <3>1, Planned DEF WeightsFit, ScheduleInv, ScheduleTypeOK, InTurn
    <3> QED
      BY <3>1, Shares
  <2>3. \A i \in DOMAIN flags : flags[i] => ~chances[slots[i].agent].lurker
    BY SMTT(30) DEF ScheduleInv, ScheduleTypeOK, Spoken
  <2>4. phase = "frozen" =>
          \A s \in 1 .. plan.sweeps : Cardinality({i \in DOMAIN slots : slots[i].sweep = s}) = plan.n
    BY SlotsAreWhole
  <2> QED
    BY <2>1, <2>2, <2>3, <2>4 DEF ScheduleIsSound
<1> QED
  BY <1>1, <1>2, <1>3, PTL DEF ScheduleSpec

-----------------------------------------------------------------------------
(* The cells of a matched seed                                               *)

matrixVars == <<submitted, drift, verdict>>
MatrixSpec == MatrixInit /\ [][MatrixNext]_matrixVars

MatrixInv ==
  /\ submitted \in [foreign : Foreign, taken : SUBSET Names, edited : SUBSET Names]
  /\ drift.fields \subseteq CellFields
  /\ verdict = "submitted" => drift.fields \intersect RecordedFields = {}
  /\ verdict = "built" => BundleMatches(Bundle) /\ CellsMatch /\ drift.fields \intersect RecordedFields = {}
  /\ verdict = "valid" => \A c \in CellIds : RecordMatches(DriftOf(c), DriftOf(FirstCell))

(* An artifact of a bundle is one that a family makes, edited or not.        *)
Version(artifact, made) == artifact \in {made, Edited(made)}
LEMMA BundleIsMade ==
  ASSUME MatrixValid, MatrixInv, NEW name \in Names
  PROVE  \E f \in Foreign \union {Family} : Version(Bundle[name], MadeOf(f)[name])
<1>1. submitted.foreign \in Foreign
  BY DEF MatrixInv
<1>2. Bundle[name] \in {MadeOf(f)[name] : f \in {submitted.foreign, Family}} \union {Edited(MadeOf(f)[name]) : f \in {submitted.foreign, Family}}
  <2> HIDE DEF Names
  <2> QED
    BY DEF Bundle
<1> HIDE DEF Bundle
<1> QED
  BY <1>1, <1>2 DEF Version

LEMMA VersionsAre ==
  ASSUME NEW a, NEW kind, NEW seed, NEW roster, NEW about, NEW from, Version(a, Artifact(kind, seed, roster, about, from))
  PROVE  a.kind = kind /\ a.roster = roster /\ a.from = from
BY DEF Version, Artifact, Edited

Roots == {"topic", "persona", "population", "ws", "attention", "expression"}
LEMMA MadeIs ==
  ASSUME NEW f
  PROVE  /\ MadeOf(f)["topic"] = TopicPackage(f) /\ MadeOf(f)["persona"] = PersonaTemplate(f)
         /\ MadeOf(f)["population"] = People(f) /\ MadeOf(f)["stance"] = Stance(f) /\ MadeOf(f)["reason"] = Reason(f)
         /\ MadeOf(f)["ws"] = Ws(f) /\ MadeOf(f)["attention"] = Attention(f) /\ MadeOf(f)["expression"] = Expression(f)
BY DEF MadeOf

LEMMA BundleIs ==
  ASSUME MatrixValid, MatrixInv
  PROVE  /\ \A name \in Roots : Bundle[name].from = <<>>
         /\ \A name \in {"population", "stance", "reason", "ws", "attention", "expression"} : Bundle[name].kind = name
         /\ \A name \in {"population", "stance", "ws"} : \E n \in Nat : Bundle[name].roster = Numbered(n)
         /\ \E f : Bundle["reason"].from = <<Stance(f)>> /\ Bundle["reason"].roster = Stance(f).roster
<1> DEFINE b == Bundle
<1>1. \A f \in Foreign \union {Family} : f.n \in Nat
  BY DEF MatrixValid
<1>2. b["topic"].from = <<>>
  <2>1. PICK f \in Foreign \union {Family} : Version(b["topic"], MadeOf(f)["topic"])
    BY BundleIsMade DEF Names
  <2> QED
    BY <2>1, MadeIs, VersionsAre DEF TopicPackage
<1>3. b["persona"].from = <<>>
  <2>1. PICK f \in Foreign \union {Family} : Version(b["persona"], MadeOf(f)["persona"])
    BY BundleIsMade DEF Names
  <2> QED
    BY <2>1, MadeIs, VersionsAre DEF PersonaTemplate
<1>4. b["population"].from = <<>> /\ b["population"].kind = "population" /\ \E n \in Nat : b["population"].roster = Numbered(n)
  <2>1. PICK f \in Foreign \union {Family} : Version(b["population"], MadeOf(f)["population"])
    BY BundleIsMade DEF Names
  <2>2. b["population"].from = <<>> /\ b["population"].kind = "population" /\ b["population"].roster = Numbered(f.n)
    BY <2>1, MadeIs, VersionsAre DEF People
  <2> QED
    BY <2>2, <1>1
<1>5. b["ws"].from = <<>> /\ b["ws"].kind = "ws" /\ \E n \in Nat : b["ws"].roster = Numbered(n)
  <2>1. PICK f \in Foreign \union {Family} : Version(b["ws"], MadeOf(f)["ws"])
    BY BundleIsMade DEF Names
  <2>2. b["ws"].from = <<>> /\ b["ws"].kind = "ws" /\ b["ws"].roster = Numbered(f.n)
    BY <2>1, MadeIs, VersionsAre DEF Ws
  <2> QED
    BY <2>2, <1>1
<1>6. b["attention"].from = <<>> /\ b["attention"].kind = "attention"
  <2>1. PICK f \in Foreign \union {Family} : Version(b["attention"], MadeOf(f)["attention"])
    BY BundleIsMade DEF Names
  <2> QED
    BY <2>1, MadeIs, VersionsAre DEF Attention
<1>7. b["expression"].from = <<>> /\ b["expression"].kind = "expression"
  <2>1. PICK f \in Foreign \union {Family} : Version(b["expression"], MadeOf(f)["expression"])
    BY BundleIsMade DEF Names
  <2> QED
    BY <2>1, MadeIs, VersionsAre DEF Expression
<1>8. b["stance"].kind = "stance" /\ \E n \in Nat : b["stance"].roster = Numbered(n)
  <2>1. PICK f \in Foreign \union {Family} : Version(b["stance"], MadeOf(f)["stance"])
    BY BundleIsMade DEF Names
  <2> DEFINE from == <<People(f)>>
  <2>2. MadeOf(f)["stance"] = Artifact("stance", f.seed, Numbered(f.n), f.option, from)
    BY MadeIs DEF Stance
  <2> HIDE DEF from
  <2>3. b["stance"].kind = "stance" /\ b["stance"].roster = Numbered(f.n) /\ b["stance"].from = from
    BY <2>1, <2>2, VersionsAre
  <2>4. b["stance"].kind = "stance" /\ b["stance"].roster = Numbered(f.n)
    BY <2>3 DEF from
  <2> QED
    BY <2>4, <1>1
<1>9. b["reason"].kind = "reason" /\ \E f : b["reason"].from = <<Stance(f)>> /\ b["reason"].roster = Stance(f).roster
  <2>1. PICK f \in Foreign \union {Family} : Version(b["reason"], MadeOf(f)["reason"])
    BY BundleIsMade DEF Names
  <2> DEFINE from == <<Stance(f)>>
  <2>2. MadeOf(f)["reason"] = Artifact("reason", f.seed, Numbered(f.n), f.library, from)
    BY MadeIs DEF Reason
  <2> HIDE DEF from
  <2>3. b["reason"].kind = "reason" /\ b["reason"].roster = Numbered(f.n) /\ b["reason"].from = from
    BY <2>1, <2>2, VersionsAre
  <2>4. b["reason"].kind = "reason" /\ b["reason"].from = <<Stance(f)>> /\ b["reason"].roster = Numbered(f.n)
    BY <2>3 DEF from
  <2>5. Stance(f).roster = Numbered(f.n)
    BY DEF Stance, Artifact
  <2> QED
    BY <2>4, <2>5
<1> HIDE DEF b
<1> QED
  BY <1>2, <1>3, <1>4, <1>5, <1>6, <1>7, <1>8, <1>9 DEF b, Roots

LEMMA NumberedByLength ==
  ASSUME NEW m \in Nat, NEW n \in Nat, Len(Numbered(m)) = Len(Numbered(n))
  PROVE  Numbered(m) = Numbered(n)
<1>1. Len(Numbered(m)) = m /\ Len(Numbered(n)) = n
  BY DEF Numbered
<1> QED
  BY <1>1

LEMMA BuiltIsOfItself ==
  ASSUME MatrixValid, MatrixInv, verdict = "built"
  PROVE  LET b == Bundle
         IN /\ \A name \in Names : \A i \in DOMAIN b[name].from : b[name].from[i] = b[b[name].from[i].kind]
            /\ \A name \in {"stance", "reason", "ws", "mapping", "attention", "expression", "activation", "publish"} :
                 b[name].roster = b["population"].roster
            /\ \A name \in Seeded : b[name].seed = Family.seed
            /\ \A name \in {"ws", "shadow", "gate", "mapping", "attention", "expression", "activation", "publish"} :
                 ~b[name].edited
<1> DEFINE b == Bundle
<1>1. BundleMatches(b)
  BY DEF MatrixInv
<1>2. /\ \A name \in Roots : b[name].from = <<>>
      /\ \A name \in {"population", "stance", "reason", "ws", "attention", "expression"} : b[name].kind = name
      /\ \A name \in {"population", "stance", "ws"} : \E n \in Nat : b[name].roster = Numbered(n)
      /\ \E f : b["reason"].from = <<Stance(f)>> /\ b["reason"].roster = Stance(f).roster
  BY BundleIs
<1> HIDE DEF b
<1>3. SeedsMatch(b) /\ ScaleMatches(b) /\ LineageMatches(b) /\ GraphsReplay(b) /\ RostersMatch(b) /\ ScheduleReplays(b)
  BY <1>1 DEF BundleMatches
<1>4. b["stance"].roster = b["population"].roster
  <2>1. Len(b["stance"].roster) = Len(b["population"].roster)
    BY <1>3 DEF ScaleMatches
  <2> QED
    BY <1>2, <2>1, NumberedByLength
<1>5. b["stance"].from = <<b["population"]>>
  BY <1>3 DEF LineageMatches
<1>6. b["reason"].from = <<b["stance"]>> /\ b["reason"].roster = b["population"].roster
  <2>1. PICK f : b["reason"].from = <<Stance(f)>> /\ b["reason"].roster = Stance(f).roster
    BY <1>2
  <2>2. b["reason"].from = <<b["stance"]>>
    BY <1>3 DEF LineageMatches
  <2>3. Stance(f) = b["stance"]
    BY <2>1, <2>2
  <2> QED
    BY <2>1, <2>2, <2>3, <1>4
<1>7. /\ b["mapping"] = Artifact("mapping", b["ws"].seed, b["ws"].roster, 0, <<b["ws"], b["population"], b["reason"]>>)
      /\ Len(b["ws"].roster) = Len(b["population"].roster)
  <2>1. b["mapping"] = MappingOf(b["population"], b["reason"], b["ws"]) /\ b["mapping"].from # <<>>
    BY <1>3 DEF LineageMatches
  <2>2. Unbuilt.from = <<>>
    BY DEF Unbuilt, Artifact
  <2> QED
    BY <2>1, <2>2 DEF MappingOf
<1>8. b["ws"].roster = b["population"].roster
  BY <1>2, <1>7, NumberedByLength
<1>9. ~b["ws"].edited /\ b["shadow"] = ShadowOf(b["ws"], b["shadow"].about) /\ b["gate"] = GateOf(b["ws"], b["gate"].about)
  BY <1>3 DEF GraphsReplay, WsReplays, ShadowReplays, GateReplays
<1>10. ~b["attention"].edited /\ ~b["expression"].edited
  BY <1>3 DEF ScheduleReplays, AttentionReplays, ExpressionReplays
<1>11. b["attention"].roster = b["population"].roster /\ b["expression"].roster = b["population"].roster
  BY <1>3 DEF RostersMatch
<1>12. b["activation"] = Artifact("activation", b["attention"].seed, b["attention"].roster, b["activation"].about, <<b["attention"]>>)
  BY <1>3 DEF ScheduleReplays, ActivationReplays, ActivationOf
<1>13. b["publish"] = Artifact("publish", b["attention"].seed, b["attention"].roster, b["activation"].about,
                              <<b["attention"], b["activation"], b["expression"]>>)
  <2>1. b["attention"].seed = b["expression"].seed
    BY <1>3 DEF SeedsMatch, Seeded, Names
  <2>2. ActivationReplays(b["activation"], b["attention"]) /\ ExpressionReplays(b["expression"])
        /\ b["publish"] = PublishOf(b["attention"], b["activation"], b["expression"])
    BY <1>3 DEF ScheduleReplays
  <2> QED
    BY <2>1, <2>2, <1>11 DEF PublishOf
<1>14. \A kind, seed, roster, about, from :
         LET a == Artifact(kind, seed, roster, about, from)
         IN a.kind = kind /\ a.roster = roster /\ a.from = from /\ ~a.edited
  BY DEF Artifact
<1>15. /\ b["mapping"].roster = b["ws"].roster /\ ~b["mapping"].edited
       /\ b["mapping"].from = <<b["ws"], b["population"], b["reason"]>>
  BY <1>7, <1>14
<1>16. b["activation"].kind = "activation" /\ b["activation"].roster = b["attention"].roster /\ ~b["activation"].edited
       /\ b["activation"].from = <<b["attention"]>>
  BY <1>12, <1>14
<1>17. b["publish"].roster = b["attention"].roster /\ ~b["publish"].edited
       /\ b["publish"].from = <<b["attention"], b["activation"], b["expression"]>>
  BY <1>13, <1>14
<1>18. ~b["shadow"].edited /\ b["shadow"].from = <<b["ws"]>> /\ ~b["gate"].edited /\ b["gate"].from = <<b["ws"]>>
  BY <1>9, <1>14 DEF ShadowOf, GateOf
<1>19. \A name \in {"stance", "reason", "ws", "mapping", "attention", "expression", "activation", "publish"} :
         b[name].roster = b["population"].roster
  BY <1>4, <1>6, <1>8, <1>11, <1>15, <1>16, <1>17
<1>20. \A name \in {"ws", "shadow", "gate", "mapping", "attention", "expression", "activation", "publish"} : ~b[name].edited
  BY <1>9, <1>10, <1>15, <1>16, <1>17, <1>18
<1>21. \A name \in Seeded : b[name].seed = Family.seed
  BY <1>3 DEF SeedsMatch
<1>22. ASSUME NEW name \in Names, NEW i \in DOMAIN b[name].from
       PROVE  b[name].from[i] = b[b[name].from[i].kind]
  <2>1. CASE name \in Roots
    BY <2>1, <1>2, <1>22
  <2>2. CASE name = "stance"
    BY <2>2, <1>2, <1>5, <1>22
  <2>3. CASE name = "reason"
    BY <2>3, <1>2, <1>6, <1>22
  <2>4. CASE name \in {"shadow", "gate"}
    BY <2>4, <1>2, <1>18, <1>22
  <2>5. CASE name = "mapping"
    BY <2>5, <1>2, <1>15, <1>22
  <2>6. CASE name = "activation"
    BY <2>6, <1>2, <1>16, <1>22
  <2>7. CASE name = "publish"
    BY <2>7, <1>2, <1>16, <1>17, <1>22
  <2> QED
    BY <2>1, <2>2, <2>3, <2>4, <2>5, <2>6, <2>7 DEF Names, Roots
<1> QED
  BY <1>19, <1>20, <1>21, <1>22 DEF b

(* What the comparisons leave: fields of the first cell that no factor has.  *)
LEMMA DriftIsShared ==
  ASSUME MatrixInv, NEW c \in CellIds,
         \/ CellMatches(DriftOf(c)) /\ CellMatches(DriftOf(FirstCell)) /\ drift.fields \intersect RecordedFields = {}
            /\ SameAsFirst(DriftOf(c), DriftOf(FirstCell))
         \/ RecordMatches(DriftOf(c), DriftOf(FirstCell)) /\ RecordMatches(DriftOf(FirstCell), DriftOf(FirstCell))
  PROVE  DriftOf(c) = DriftOf(FirstCell) /\ DriftOf(c) \intersect {"seed", "named", "graph", "graphs", "factors", "clock"} = {}
<1> DEFINE d == DriftOf(c)
           e == DriftOf(FirstCell)
<1>1. d \subseteq CellFields /\ e \subseteq CellFields
  BY DEF MatrixInv, DriftOf
<1>2. drift.fields \intersect RecordedFields = {} => d \intersect RecordedFields = {} /\ e \intersect RecordedFields = {}
  BY DEF DriftOf
<1> HIDE DEF d, e
<1>3. CASE CellMatches(d) /\ CellMatches(e) /\ drift.fields \intersect RecordedFields = {} /\ SameAsFirst(d, e)
  <2>1. \A x \in CellFields : x \in d <=> x \in e
    BY <1>2, <1>3 DEF CellMatches, SameAsFirst, Bound, Shared, RecordedFields, CellFields
  <2> QED
    BY <1>1, <1>2, <1>3, <2>1 DEF CellMatches, Bound, RecordedFields, d, e
<1>4. CASE RecordMatches(d, e) /\ RecordMatches(e, e)
  <2>1. \A x \in CellFields : x \in d <=> x \in e
    BY <1>4 DEF RecordMatches, SameAsFirst, Bound, Shared, RecordedFields, CellFields
  <2> QED
    BY <1>1, <1>4, <2>1 DEF RecordMatches, Bound, d, e
<1> QED
  BY <1>3, <1>4 DEF d, e

LEMMA MatrixBegins == ASSUME MatrixValid, MatrixInit PROVE MatrixInv
<1>1. \E f \in Foreign : \E taken, edited \in SUBSET Names : submitted = [foreign |-> f, taken |-> taken, edited |-> edited]
  BY DEF MatrixInit, Differing
<1> QED
  BY <1>1 DEF MatrixInit, MatrixInv, NoDrift

LEMMA MatrixGoesOn == ASSUME MatrixValid, MatrixInv, [MatrixNext]_matrixVars PROVE MatrixInv'
<1> USE DEF MatrixInv
<1>1. UNCHANGED drift => \A c : DriftOf(c)' = DriftOf(c)
  BY DEF DriftOf
<1>2. CASE SubmitCells
  BY <1>2 DEF SubmitCells, MatrixValid
<1>3. CASE BuildMatrix
  <2>1. UNCHANGED <<submitted, drift>> /\ verdict = "submitted"
    BY <1>3 DEF BuildMatrix
  <2>2. verdict' = "built" => BundleMatches(Bundle) /\ CellsMatch
    BY <1>3 DEF BuildMatrix
  <2>3. verdict' \in {"built", "refused"}
    BY <1>3 DEF BuildMatrix
  <2>4. Bundle' = Bundle /\ CellsMatch' = CellsMatch
    BY <2>1, <1>1 DEF Bundle, CellsMatch
  <2>5. BundleMatches(Bundle)' = BundleMatches(Bundle)
    BY <2>4
  <2> QED
    BY <2>1, <2>2, <2>3, <2>4, <2>5
<1>4. CASE ChangeCells
  BY <1>4 DEF ChangeCells, MatrixValid
<1>5. CASE ValidateMatrix
  <2>1. UNCHANGED <<submitted, drift>> /\ verdict' \in {"valid", "invalid"}
        /\ (verdict' = "valid" => \A c \in CellIds : RecordMatches(DriftOf(c), DriftOf(FirstCell)))
    BY <1>5 DEF ValidateMatrix
  <2> QED
    BY <2>1, <1>1
<1>6. CASE UNCHANGED matrixVars
  <2>1. UNCHANGED <<submitted, drift, verdict>>
    BY <1>6 DEF matrixVars
  <2>2. Bundle' = Bundle /\ CellsMatch' = CellsMatch
    BY <2>1, <1>1 DEF Bundle, CellsMatch
  <2>3. BundleMatches(Bundle)' = BundleMatches(Bundle)
    BY <2>2
  <2> QED
    BY <2>1, <2>2, <2>3, <1>1
<1> QED
  BY <1>2, <1>3, <1>4, <1>5, <1>6 DEF MatrixNext

(* A matrix that is built is of artifacts of itself, and two cells of one    *)
(* that is built or valid differ in their factors alone: whatever families   *)
(* the artifacts come from and whatever drifts.                              *)
THEOREM MatrixIsMatched ==
  ASSUME MatrixValid
  PROVE  MatrixSpec => []CellsAreMatched
<1>1. MatrixInit => MatrixInv
  BY MatrixBegins
<1>2. MatrixInv /\ [MatrixNext]_matrixVars => MatrixInv'
  BY MatrixGoesOn
<1>3. MatrixInv => CellsAreMatched
  <2> SUFFICES ASSUME MatrixInv PROVE CellsAreMatched
    OBVIOUS
  <2>1. FirstCell \in CellIds
    BY DEF FirstCell, CellIds
  <2>2. ASSUME verdict \in {"built", "valid"}, NEW c \in CellIds
        PROVE  DriftOf(c) = DriftOf(FirstCell) /\ ~(DriftOf(c) \intersect {"seed", "named", "graph", "graphs", "factors", "clock"} # {})
    <3>1. CASE verdict = "built"
      <4>1. CellsMatch /\ drift.fields \intersect RecordedFields = {}
        BY <3>1 DEF MatrixInv
      <4>2. CellMatches(DriftOf(c)) /\ CellMatches(DriftOf(FirstCell)) /\ SameAsFirst(DriftOf(c), DriftOf(FirstCell))
        BY <4>1, <2>1, <2>2 DEF CellsMatch
      <4> QED
        BY <4>1, <4>2, <2>2, DriftIsShared
    <3>2. CASE verdict = "valid"
      <4>1. RecordMatches(DriftOf(c), DriftOf(FirstCell)) /\ RecordMatches(DriftOf(FirstCell), DriftOf(FirstCell))
        BY <3>2, <2>1, <2>2 DEF MatrixInv
      <4> QED
        BY <4>1, <2>2, DriftIsShared
    <3> QED
      BY <3>1, <3>2, <2>2
  <2> QED
    BY <2>2, BuiltIsOfItself DEF CellsAreMatched
<1> QED
  BY <1>1, <1>2, <1>3, PTL DEF MatrixSpec

-----------------------------------------------------------------------------
(* Sums                                                                      *)

(* What holds of nothing, and of one more, holds of every part of a set.     *)
LEMMA SubsetInduction ==
  ASSUME NEW S, IsFiniteSet(S), NEW T, {} \in T, \A s \in SUBSET S : s \in T => \A x \in S \ s : s \union {x} \in T
  PROVE  \A s \in SUBSET S : s \in T
<1> DEFINE N == {n \in Nat : \A s \in SUBSET S : Cardinality(s) = n => s \in T}
<1>1. \A s \in SUBSET S : IsFiniteSet(s) /\ Cardinality(s) \in Nat
  BY FS_Subset, FS_CardinalityType
<1>2. 0 \in N
  BY <1>1, FS_EmptySet
<1>3. ASSUME NEW n \in Nat, n \in N PROVE n + 1 \in N
  <2>1. ASSUME NEW s \in SUBSET S, Cardinality(s) = n + 1 PROVE s \in T
    <3>1. PICK x \in s : TRUE
      BY <1>1, <2>1, FS_EmptySet
    <3>2. s \ {x} \in SUBSET S /\ Cardinality(s \ {x}) = n
      <4>1. IsFiniteSet(s)
        BY <1>1
      <4>2. Cardinality(s \ {x}) = IF x \in s THEN Cardinality(s) - 1 ELSE Cardinality(s)
        BY <4>1, FS_RemoveElement
      <4> QED
        BY <4>2, <2>1, <3>1
    <3>3. s \ {x} \in T /\ x \in S \ (s \ {x}) /\ s = (s \ {x}) \union {x}
      BY <1>3, <3>1, <3>2
    <3> QED
      BY <3>2, <3>3
  <2> QED
    BY <2>1
<1>4. Nat \subseteq N
  BY <1>2, <1>3, SetInduction
<1> QED
  BY <1>1, <1>4

LEMMA SumGrows ==
  ASSUME NEW S, IsFiniteSet(S), NEW f, \A y \in S : f[y] \in Nat, NEW s \in SUBSET S, NEW x \in S \ s
  PROVE  SumOf(f, s) \in Nat /\ SumOf(f, s \union {x}) = SumOf(f, s) + f[x] /\ f[x] \in Nat
<1>1. IsFiniteSet(s) /\ IsFiniteSet(s \union {x}) /\ (s \union {x}) \ {x} = s
  BY FS_Subset
<1>2. SumOf(f, s) \in Nat
  BY <1>1, SumIs
<1>3. SumOf(f, s \union {x}) = f[x] + SumOf(f, s)
  <2>1. (\A y \in s \union {x} : f[y] \in Nat) /\ x \in s \union {x}
    OBVIOUS
  <2>2. SumOf(f, s \union {x}) = f[x] + SumOf(f, (s \union {x}) \ {x})
    BY <1>1, <2>1, SumIs
  <2> QED
    BY <2>2, <1>1
<1> QED
  BY <1>2, <1>3

LEMMA SumOfNone == ASSUME NEW f PROVE SumOf(f, {}) = 0
BY SumIs, FS_EmptySet

(* h is so many times f, and g besides.                                      *)
Combined(h, c, f, g, S) == \A x \in S : f[x] \in Nat /\ g[x] \in Nat /\ h[x] = c * f[x] + g[x]
LEMMA SumIsLinear ==
  ASSUME NEW S, IsFiniteSet(S), NEW f, NEW g, NEW h, NEW c \in Nat, Combined(h, c, f, g, S)
  PROVE  SumOf(h, S) = c * SumOf(f, S) + SumOf(g, S) /\ SumOf(f, S) \in Nat /\ SumOf(g, S) \in Nat
<1>0. \A x \in S : f[x] \in Nat /\ g[x] \in Nat /\ h[x] = c * f[x] + g[x]
  BY DEF Combined
<1>1. \A x \in S : h[x] \in Nat
  BY <1>0
<1> DEFINE T == {s \in SUBSET S : SumOf(h, s) = c * SumOf(f, s) + SumOf(g, s)}
<1>2. {} \in T
  BY SumOfNone
<1>3. ASSUME NEW s \in SUBSET S, s \in T, NEW x \in S \ s PROVE s \union {x} \in T
  <2>1. SumOf(f, s) \in Nat /\ SumOf(f, s \union {x}) = SumOf(f, s) + f[x] /\ f[x] \in Nat
    BY <1>0, SumGrows
  <2>2. SumOf(g, s) \in Nat /\ SumOf(g, s \union {x}) = SumOf(g, s) + g[x] /\ g[x] \in Nat
    BY <1>0, SumGrows
  <2>3. SumOf(h, s \union {x}) = SumOf(h, s) + h[x]
    BY <1>1, SumGrows
  <2>4. c * (SumOf(f, s) + f[x]) = c * SumOf(f, s) + c * f[x] /\ c * SumOf(f, s) \in Nat /\ c * f[x] \in Nat
    BY <2>1
  <2>5. SumOf(h, s) = c * SumOf(f, s) + SumOf(g, s) /\ h[x] = c * f[x] + g[x]
    BY <1>0, <1>3
  <2>6. SumOf(h, s \union {x}) = c * SumOf(f, s \union {x}) + SumOf(g, s \union {x})
    BY <2>1, <2>2, <2>3, <2>4, <2>5
  <2> QED
    BY <2>6
<1>4. S \in T
  BY <1>2, <1>3, SubsetInduction
<1> QED
  BY <1>0, <1>4, SumIs

Added(h, f, g, S) == \A x \in S : f[x] \in Nat /\ g[x] \in Nat /\ h[x] = f[x] + g[x]
LEMMA SumOfBoth ==
  ASSUME NEW S, IsFiniteSet(S), NEW f, NEW g, NEW h, Added(h, f, g, S)
  PROVE  SumOf(h, S) = SumOf(f, S) + SumOf(g, S) /\ SumOf(f, S) \in Nat /\ SumOf(g, S) \in Nat
<1>1. PICK c \in Nat : c = 1
  OBVIOUS
<1>2. Combined(h, c, f, g, S)
  BY <1>1 DEF Added, Combined
<1>3. SumOf(h, S) = c * SumOf(f, S) + SumOf(g, S) /\ SumOf(f, S) \in Nat /\ SumOf(g, S) \in Nat
  BY <1>2, SumIsLinear
<1> QED
  BY <1>1, <1>3

LEMMA SumsAgree ==
  ASSUME NEW S, IsFiniteSet(S), NEW f, NEW g, \A x \in S : f[x] \in Nat /\ g[x] = f[x]
  PROVE  SumOf(g, S) = SumOf(f, S)
<1> DEFINE none == [x \in S |-> 0]
           T == {s \in SUBSET S : SumOf(g, s) = SumOf(f, s)}
<1>1. {} \in T
  BY SumOfNone
<1>2. ASSUME NEW s \in SUBSET S, s \in T, NEW x \in S \ s PROVE s \union {x} \in T
  <2>1. SumOf(f, s \union {x}) = SumOf(f, s) + f[x] /\ SumOf(g, s \union {x}) = SumOf(g, s) + g[x]
    BY SumGrows
  <2> QED
    BY <2>1, <1>2
<1>3. S \in T
  BY <1>1, <1>2, SubsetInduction
<1> QED
  BY <1>3

LEMMA SumIsMonotonic ==
  ASSUME NEW S, IsFiniteSet(S), NEW f, NEW g, \A x \in S : f[x] \in Nat /\ g[x] \in Nat /\ f[x] <= g[x]
  PROVE  /\ SumOf(f, S) \in Nat /\ SumOf(g, S) \in Nat /\ SumOf(f, S) <= SumOf(g, S)
         /\ (\E x \in S : f[x] < g[x]) => SumOf(f, S) < SumOf(g, S)
<1> DEFINE h == [x \in S |-> g[x] - f[x]]
<1>1. \A x \in S : h[x] \in Nat /\ f[x] \in Nat /\ g[x] = h[x] + f[x]
  OBVIOUS
<1> HIDE DEF h
<1>2. SumOf(g, S) = SumOf(h, S) + SumOf(f, S) /\ SumOf(h, S) \in Nat /\ SumOf(f, S) \in Nat
  <2>1. Added(g, h, f, S)
    BY <1>1 DEF Added
  <2> QED
    BY <2>1, SumOfBoth
<1>3. ASSUME NEW x \in S, f[x] < g[x] PROVE SumOf(h, S) > 0
  <2>1. SumOf(h, S) = h[x] + SumOf(h, S \ {x}) /\ h[x] > 0 /\ h[x] \in Nat
    BY <1>1, <1>3, SumIs
  <2>2. SumOf(h, S \ {x}) \in Nat
    <3>1. IsFiniteSet(S \ {x})
      BY FS_Subset
    <3> QED
      BY <3>1, <1>1, SumIs
  <2> QED
    BY <2>1, <2>2
<1> QED
  BY <1>2, <1>3

LEMMA SumOfParts ==
  ASSUME NEW S, IsFiniteSet(S), NEW f, \A x \in S : f[x] \in Nat, NEW A \in SUBSET S
  PROVE  SumOf(f, S) = SumOf(f, A) + SumOf(f, S \ A) /\ SumOf(f, A) \in Nat /\ SumOf(f, S \ A) \in Nat
<1> DEFINE R == S \ A
           T == {s \in SUBSET R : SumOf(f, A \union s) = SumOf(f, A) + SumOf(f, s)}
<1>1. IsFiniteSet(A) /\ IsFiniteSet(R) /\ R \subseteq S
  BY FS_Subset
<1>2. SumOf(f, A) \in Nat /\ SumOf(f, R) \in Nat
  BY <1>1, SumIs
<1>3. {} \in T
  <2>1. A \union {} = A /\ SumOf(f, {}) = 0
    BY SumOfNone
  <2> QED
    BY <2>1, <1>2
<1>4. ASSUME NEW s \in SUBSET R, s \in T, NEW x \in R \ s PROVE s \union {x} \in T
  <2>1. SumOf(f, s) \in Nat /\ SumOf(f, s \union {x}) = SumOf(f, s) + f[x] /\ f[x] \in Nat
    BY <1>1, SumGrows
  <2> DEFINE u == A \union s
             w == s \union {x}
  <2>2. u \in SUBSET S /\ x \in S \ u /\ u \union {x} = A \union w
    OBVIOUS
  <2> HIDE DEF u
  <2>3. SumOf(f, u \union {x}) = SumOf(f, u) + f[x]
    BY <2>2, SumGrows
  <2>4. SumOf(f, u) = SumOf(f, A) + SumOf(f, s)
    BY <1>4 DEF u
  <2> HIDE DEF w
  <2>5. SumOf(f, w) = SumOf(f, s) + f[x]
    BY <2>1 DEF w
  <2>6. SumOf(f, A \union w) = SumOf(f, u) + f[x]
    BY <2>2, <2>3, Zenon
  <2>7. SumOf(f, A \union w) = SumOf(f, A) + SumOf(f, w)
    BY <2>1, <2>4, <2>5, <2>6, <1>2
  <2> QED
    BY <2>7 DEF w
<1> HIDE DEF R, T
<1>5. R \in T
  BY <1>1, <1>3, <1>4, SubsetInduction
<1> USE DEF R, T
<1>6. A \union R = S
  OBVIOUS
<1> QED
  BY <1>2, <1>5, <1>6

LEMMA SumOfSame ==
  ASSUME NEW S, IsFiniteSet(S), NEW f, NEW c \in Nat, \A x \in S : f[x] = c
  PROVE  SumOf(f, S) = c * Cardinality(S) /\ Cardinality(S) \in Nat
<1> DEFINE T == {s \in SUBSET S : SumOf(f, s) = c * Cardinality(s)}
<1>1. {} \in T
  BY SumOfNone, FS_EmptySet
<1>2. ASSUME NEW s \in SUBSET S, s \in T, NEW x \in S \ s PROVE s \union {x} \in T
  <2>1. SumOf(f, s \union {x}) = SumOf(f, s) + c
    BY SumGrows
  <2>2. IsFiniteSet(s)
    BY FS_Subset
  <2>3. Cardinality(s) \in Nat /\ Cardinality(s \union {x}) = IF x \in s THEN Cardinality(s) ELSE Cardinality(s) + 1
    BY <2>2, FS_CardinalityType, FS_AddElement
  <2>4. SumOf(f, s) = c * Cardinality(s) /\ c * (Cardinality(s) + 1) = c * Cardinality(s) + c
    BY <1>2, <2>3
  <2>5. SumOf(f, s \union {x}) = c * Cardinality(s \union {x})
    BY <2>1, <2>3, <2>4
  <2> QED
    BY <2>5
<1>3. S \in T
  BY <1>1, <1>2, SubsetInduction
<1> QED
  BY <1>3, FS_CardinalityType

(* A cardinality is a sum of ones.                                           *)
LEMMA SumOfOnes ==
  ASSUME NEW S, IsFiniteSet(S), NEW A \in SUBSET S, NEW f, \A x \in S : f[x] = IF x \in A THEN 1 ELSE 0
  PROVE  SumOf(f, S) = Cardinality(A) /\ Cardinality(A) \in Nat
<1>1. SumOf(f, S) = SumOf(f, A) + SumOf(f, S \ A)
  BY SumOfParts
<1>2. IsFiniteSet(A) /\ IsFiniteSet(S \ A) /\ (\A x \in A : f[x] = 1) /\ \A x \in S \ A : f[x] = 0
  BY FS_Subset
<1>3. SumOf(f, A) = 1 * Cardinality(A) /\ Cardinality(A) \in Nat
  BY <1>2, SumOfSame
<1>4. SumOf(f, S \ A) = 0 * Cardinality(S \ A) /\ Cardinality(S \ A) \in Nat
  BY <1>2, SumOfSame
<1> QED
  BY <1>1, <1>3, <1>4

(* By rows and by columns.                                                   *)
Crossed(A, B, h, k, across, columns) ==
  /\ \A x \in A, y \in B : h[x][y] \in Nat /\ k[y][x] = h[x][y]
  /\ \A x \in A : across[x] = SumOf(h[x], B)
  /\ \A y \in B : columns[y] = SumOf(k[y], A)
LEMMA SumIsDouble ==
  ASSUME NEW A, IsFiniteSet(A), NEW B, IsFiniteSet(B), NEW h, NEW k, NEW across, NEW columns,
         Crossed(A, B, h, k, across, columns)
  PROVE  SumOf(across, A) = SumOf(columns, B)
<1>0. /\ \A x \in A : \A y \in B : h[x][y] \in Nat
      /\ \A x \in A, y \in B : k[y][x] = h[x][y]
      /\ \A x \in A : across[x] = SumOf(h[x], B)
      /\ \A y \in B : columns[y] = SumOf(k[y], A)
  BY DEF Crossed
<1> DEFINE column(y) == k[y]
           part(s) == [y \in B |-> SumOf(column(y), s)]
           T == {s \in SUBSET A : SumOf(across, s) = SumOf(part(s), B)}
<1>1. \A x \in A : across[x] \in Nat
  BY <1>0, SumIs
<1>2. ASSUME NEW y \in B PROVE \A x \in A : column(y)[x] \in Nat
  BY <1>0
<1>3. ASSUME NEW s \in SUBSET A, NEW y \in B PROVE SumOf(column(y), s) \in Nat
  <2>1. IsFiniteSet(s)
    BY FS_Subset
  <2> HIDE DEF column
  <2> QED
    BY <2>1, <1>2, SumIs
<1>4. {} \in T
  <2>1. \A y \in B : part({})[y] = 0
    BY SumOfNone
  <2>2. SumOf(part({}), B) = 0 * Cardinality(B) /\ Cardinality(B) \in Nat
    <3> HIDE DEF part
    <3> QED
      BY <2>1, SumOfSame
  <2>3. SumOf(across, {}) = 0
    BY SumOfNone
  <2> HIDE DEF part
  <2> QED
    BY <2>2, <2>3
<1>5. ASSUME NEW s \in SUBSET A, s \in T, NEW x \in A \ s PROVE s \union {x} \in T
  <2> DEFINE p == part(s)
             q == part(s \union {x})
             r == h[x]
  <2>1. \A y \in B : p[y] \in Nat /\ r[y] \in Nat /\ q[y] = p[y] + r[y]
    <3>1. ASSUME NEW y \in B PROVE p[y] \in Nat /\ r[y] \in Nat /\ q[y] = p[y] + r[y]
      <4>1. SumOf(column(y), s) \in Nat
        BY <1>3
      <4>2. SumOf(column(y), s \union {x}) = SumOf(column(y), s) + column(y)[x]
        <5> HIDE DEF column
        <5> QED
          BY <1>2, SumGrows
      <4>3. column(y)[x] = h[x][y] /\ h[x][y] \in Nat
        BY <1>0
      <4> HIDE DEF column
      <4> QED
        BY <4>1, <4>2, <4>3
    <3> HIDE DEF p, q, r
    <3> QED
      BY <3>1
  <2>2. SumOf(across, s) = SumOf(p, B)
    BY <1>5
  <2>3. SumOf(across, s \union {x}) = SumOf(across, s) + across[x] /\ across[x] = SumOf(r, B)
    BY <1>0, <1>1, SumGrows
  <2> HIDE DEF p, q, r
  <2>4. SumOf(q, B) = SumOf(p, B) + SumOf(r, B) /\ SumOf(p, B) \in Nat
    <3>1. Added(q, p, r, B)
      BY <2>1 DEF Added
    <3> QED
      BY <3>1, SumOfBoth
  <2>5. SumOf(across, s \union {x}) = SumOf(q, B)
    BY <2>2, <2>3, <2>4
  <2> QED
    BY <2>5 DEF q
<1>6. A \in T
  <2> HIDE DEF T
  <2> QED
    BY <1>4, <1>5, SubsetInduction
<1>7. \A y \in B : columns[y] \in Nat /\ part(A)[y] = columns[y]
  BY <1>0, <1>3
<1>8. SumOf(part(A), B) = SumOf(columns, B)
  <2> HIDE DEF part
  <2> QED
    BY <1>7, SumsAgree
<1> QED
  BY <1>6, <1>8

(* The parts of a set by a field, and their sizes.                           *)
Parted(S, g, B, sizes) ==
  (\A a \in S : g[a] \in B) /\ \A y \in B : sizes[y] = Cardinality({a \in S : g[a] = y})

(* A set is as large as its parts by a field.                                *)
LEMMA SumOfFibers ==
  ASSUME NEW S, IsFiniteSet(S), NEW B, IsFiniteSet(B), NEW g, NEW sizes, Parted(S, g, B, sizes)
  PROVE  SumOf(sizes, B) = Cardinality(S)
<1>0. (\A a \in S : g[a] \in B) /\ \A y \in B : sizes[y] = Cardinality({a \in S : g[a] = y})
  BY DEF Parted
<1> DEFINE h == [a \in S |-> [y \in B |-> IF g[a] = y THEN 1 ELSE 0]]
           k == [y \in B |-> [a \in S |-> IF g[a] = y THEN 1 ELSE 0]]
           across == [a \in S |-> 1]
<1>1. \A a \in S : \A y \in B : h[a][y] \in Nat
  OBVIOUS
<1>2. ASSUME NEW a \in S PROVE SumOf(h[a], B) = 1
  <2>1. {g[a]} \in SUBSET B /\ \A y \in B : h[a][y] = IF y \in {g[a]} THEN 1 ELSE 0
    BY <1>0
  <2> HIDE DEF h
  <2>2. SumOf(h[a], B) = Cardinality({g[a]})
    <3> DEFINE f == h[a]
               A == {g[a]}
    <3>1. A \in SUBSET B /\ \A y \in B : f[y] = IF y \in A THEN 1 ELSE 0
      BY <2>1
    <3> HIDE DEF f, A
    <3>2. SumOf(f, B) = Cardinality(A)
      BY <3>1, SumOfOnes
    <3> QED
      BY <3>2 DEF f, A
  <2> QED
    BY <2>2, FS_Singleton
<1>3. ASSUME NEW y \in B PROVE SumOf(k[y], S) = sizes[y]
  <2> DEFINE f == k[y]
             A == {a \in S : g[a] = y}
  <2>1. A \in SUBSET S /\ \A a \in S : f[a] = IF a \in A THEN 1 ELSE 0
    OBVIOUS
  <2> HIDE DEF f
  <2>2. SumOf(f, S) = Cardinality(A)
    BY <2>1, SumOfOnes
  <2> QED
    BY <1>0, <2>2 DEF f
<1>4. \A a \in S, y \in B : k[y][a] = h[a][y]
  OBVIOUS
<1> HIDE DEF h, k
<1>5. SumOf(across, S) = SumOf(sizes, B)
  <2>1. \A a \in S : across[a] = SumOf(h[a], B)
    BY <1>2
  <2>2. \A y \in B : sizes[y] = SumOf(k[y], S)
    BY <1>3
  <2> HIDE DEF across
  <2>3. Crossed(S, B, h, k, across, sizes)
    BY <1>1, <1>4, <2>1, <2>2 DEF Crossed
  <2> QED
    BY <2>3, SumIsDouble
<1>6. SumOf(across, S) = 1 * Cardinality(S) /\ Cardinality(S) \in Nat
  <2>1. \A a \in S : across[a] = 1
    OBVIOUS
  <2> HIDE DEF across
  <2> QED
    BY <2>1, SumOfSame
<1> QED
  BY <1>5, <1>6

-----------------------------------------------------------------------------
(* Counting by a bijection                                                   *)

(* From the bijection theorems to what is counted below.                    *)
LEMMA SameSize ==
  ASSUME NEW S, NEW T, IsFiniteSet(S), NEW f \in [S -> T],
         \A x, y \in S : f[x] = f[y] => x = y, \A t \in T : \E x \in S : f[x] = t
  PROVE  IsFiniteSet(T) /\ Cardinality(T) = Cardinality(S)
<1>1. f \in Bijection(S, T)
  BY DEF Bijection, Injection, Surjection, IsInjective
<1>2. ExistsBijection(S, T)
  BY <1>1 DEF ExistsBijection
<1> QED
  BY <1>2, FS_Bijection

(* As many of a pool are among the first n of a ranking as there are to be. *)
LEMMA FirstOfRanking ==
  ASSUME NEW pool, IsFiniteSet(pool), NEW rank, \A c, e \in pool : rank[c] \in Int /\ (rank[c] = rank[e] => c = e),
         NEW n \in Nat, n <= Cardinality(pool)
  PROVE  Cardinality({c \in pool : Cardinality({e \in pool : rank[e] < rank[c]}) < n}) = n
<1> DEFINE before(c) == {e \in pool : rank[e] < rank[c]}
           size == Cardinality(pool)
           f == [c \in pool |-> Cardinality(before(c))]
           chosen == {c \in pool : f[c] < n}
<1>1. size \in Nat
  BY FS_CardinalityType
<1>2. ASSUME NEW c \in pool PROVE IsFiniteSet(before(c)) /\ Cardinality(before(c)) \in 0 .. size - 1
  <2>1. before(c) \subseteq pool \ {c} /\ before(c) \subseteq pool
    OBVIOUS
  <2>2. IsFiniteSet(pool \ {c}) /\ Cardinality(pool \ {c}) = size - 1
    BY FS_RemoveElement
  <2> HIDE DEF before
  <2>3. IsFiniteSet(before(c)) /\ Cardinality(before(c)) <= size - 1
    BY <2>1, <2>2, FS_Subset
  <2> QED
    BY <2>3, <1>1, FS_CardinalityType
<1>3. ASSUME NEW c \in pool, NEW e \in pool, rank[c] < rank[e] PROVE f[c] < f[e]
  <2>1. before(c) \union {c} \subseteq before(e) /\ c \notin before(c)
    BY <1>3
  <2> HIDE DEF before
  <2>2. IsFiniteSet(before(c) \union {c}) /\ Cardinality(before(c) \union {c}) = Cardinality(before(c)) + 1
    BY <2>1, <1>2, FS_AddElement
  <2>3. Cardinality(before(c) \union {c}) <= Cardinality(before(e))
    BY <2>1, <1>2, FS_Subset
  <2>4. Cardinality(before(c)) \in 0 .. size - 1 /\ Cardinality(before(e)) \in 0 .. size - 1
    BY <1>2
  <2> QED
    BY <2>2, <2>3, <2>4, <1>1
<1>4. f \in [pool -> 0 .. size - 1]
  BY <1>2
<1>5. ASSUME NEW c \in pool, NEW e \in pool, f[c] = f[e] PROVE c = e
  <2>1. f[c] \in Int /\ f[e] \in Int
    BY <1>4, <1>1
  <2>2. rank[c] \in Int /\ rank[e] \in Int
    OBVIOUS
  <2>3. ~(rank[c] < rank[e]) /\ ~(rank[e] < rank[c])
    BY <1>3, <1>5, <2>1
  <2> QED
    BY <2>2, <2>3
<1> HIDE DEF f, before
<1>6. f \in Surjection(pool, 0 .. size - 1)
  <2>1. f \in Injection(pool, 0 .. size - 1)
    BY <1>4, <1>5 DEF Injection, IsInjective
  <2>2. IsFiniteSet(0 .. size - 1) /\ Cardinality(0 .. size - 1) = size
    <3> HIDE DEF size
    <3>1. 0 \in Int /\ size - 1 \in Int
      BY <1>1
    <3>2. IsFiniteSet(0 .. size - 1) /\ Cardinality(0 .. size - 1) = IF 0 > size - 1 THEN 0 ELSE (size - 1) - 0 + 1
      BY <3>1, FS_Interval
    <3> QED
      BY <3>2, <1>1
  <2> QED
    BY <2>1, <2>2, FS_Injection
<1>7. Cardinality(0 .. n - 1) = n /\ IsFiniteSet(0 .. n - 1)
  BY FS_Interval
<1>8. Cardinality(0 .. n - 1) = Cardinality(chosen)
  <2> DEFINE g == [c \in chosen |-> f[c]]
  <2>1. g \in [chosen -> 0 .. n - 1]
    BY <1>4, <1>1
  <2>2. \A x, y \in chosen : g[x] = g[y] => x = y
    BY <1>5
  <2>3. \A t \in 0 .. n - 1 : \E x \in chosen : g[x] = t
    <3> SUFFICES ASSUME NEW t \in 0 .. n - 1 PROVE \E x \in chosen : g[x] = t
      OBVIOUS
    <3>1. t \in 0 .. size - 1
      BY <1>1
    <3>2. PICK x \in pool : f[x] = t
      BY <3>1, <1>6 DEF Surjection
    <3> QED
      BY <3>2
  <2>4. IsFiniteSet(chosen)
    BY FS_Subset
  <2> HIDE DEF g, chosen
  <2> QED
    BY <2>1, <2>2, <2>3, <2>4, SameSize
<1>9. chosen = {c \in pool : Cardinality({e \in pool : rank[e] < rank[c]}) < n}
  BY DEF f, before
<1> QED
  BY <1>7, <1>8, <1>9

-----------------------------------------------------------------------------
(* The approved counts                                                       *)

LEMMA ApprovedIs ==
  /\ \A k \in AllStances : Approved[k] \in Nat
  /\ SumOf(Approved, AllStances) = 1000
  /\ IsFiniteSet(AllStances) /\ Cardinality(AllStances) = 7
<1>1. \A k \in AllStances : Approved[k] \in Nat
  BY DEF AllStances, Approved
<1>2. IsFiniteSet(AllStances) /\ Cardinality(AllStances) = 7
  <2>1. PICK m \in Nat : m = 7
    OBVIOUS
  <2>2. IsFiniteSet(1 .. m) /\ Cardinality(1 .. m) = IF 1 > m THEN 0 ELSE m - 1 + 1
    BY FS_Interval
  <2>3. IsFiniteSet(1 .. m) /\ Cardinality(1 .. m) = 7
    BY <2>1, <2>2
  <2> QED
    BY <2>1, <2>3 DEF AllStances
<1> DEFINE A(k) == SumOf(Approved, 1 .. k)
<1>3. A(0) = 0
  <2>1. 1 .. 0 = {}
    OBVIOUS
  <2> QED
    BY <2>1, SumOfNone
<1>4. ASSUME NEW k \in 1 .. 7 PROVE A(k) = A(k - 1) + Approved[k] /\ A(k - 1) \in Nat
  <2>1. k \in 1 .. k
    OBVIOUS
  <2>2. (1 .. k) \in SUBSET AllStances
    BY DEF AllStances
  <2>4. \A x \in 1 .. k : Approved[x] \in Nat
    BY <1>1, <2>2
  <2>5. SumOf(Approved, 1 .. k) = Approved[k] + SumOf(Approved, 1 .. k - 1) /\ SumOf(Approved, 1 .. k - 1) \in Nat
    BY <2>4, SumOfInterval
  <2>6. Approved[k] \in Nat
    BY <2>1, <2>4
  <2> HIDE DEF A
  <2>7. A(k) = Approved[k] + A(k - 1) /\ A(k - 1) \in Nat
    BY <2>5 DEF A
  <2> QED
    BY <2>6, <2>7
<1>5. A(1) = 50 /\ A(2) = 150 /\ A(3) = 350
  <2>1. Approved[1] = 50 /\ Approved[2] = 100 /\ Approved[3] = 200
    BY DEF Approved
  <2>2. A(1) = A(1 - 1) + Approved[1] /\ A(2) = A(2 - 1) + Approved[2] /\ A(3) = A(3 - 1) + Approved[3]
    <3>1. 1 \in 1 .. 7 /\ 2 \in 1 .. 7 /\ 3 \in 1 .. 7
      OBVIOUS
    <3> HIDE DEF A
    <3> QED
      BY <1>4, <3>1
  <2> HIDE DEF A
  <2> QED
    BY <1>3, <2>1, <2>2
<1>6. A(4) = 650 /\ A(5) = 850 /\ A(6) = 950
  <2>1. Approved[4] = 300 /\ Approved[5] = 200 /\ Approved[6] = 100
    BY DEF Approved
  <2>2. A(4) = A(4 - 1) + Approved[4] /\ A(5) = A(5 - 1) + Approved[5] /\ A(6) = A(6 - 1) + Approved[6]
    <3>1. 4 \in 1 .. 7 /\ 5 \in 1 .. 7 /\ 6 \in 1 .. 7
      OBVIOUS
    <3> HIDE DEF A
    <3> QED
      BY <1>4, <3>1
  <2> HIDE DEF A
  <2> QED
    BY <1>5, <2>1, <2>2
<1>7. A(7) = 1000
  <2>1. Approved[7] = 50
    BY DEF Approved
  <2>2. A(7) = A(7 - 1) + Approved[7]
    <3>1. 7 \in 1 .. 7
      OBVIOUS
    <3> HIDE DEF A
    <3> QED
      BY <1>4, <3>1
  <2> HIDE DEF A
  <2> QED
    BY <1>6, <2>1, <2>2
<1> QED
  BY <1>1, <1>2, <1>7 DEF AllStances

(* Whole parts and remainders: what the remainders add up to is whole.       *)
Split(weight, unit, whole, rest, S) ==
  \A x \in S : weight[x] \in Nat /\ whole[x] = weight[x] \div unit /\ rest[x] = (weight[x] % unit)
LEMMA SumOfWholes ==
  ASSUME NEW S, IsFiniteSet(S), NEW unit \in Nat \ {0}, NEW weight, NEW whole, NEW rest, Split(weight, unit, whole, rest, S)
  PROVE  /\ \A x \in S : whole[x] \in Nat /\ rest[x] \in 0 .. unit - 1
         /\ SumOf(whole, S) \in Nat /\ SumOf(rest, S) \in Nat
         /\ SumOf(weight, S) = unit * SumOf(whole, S) + SumOf(rest, S)
<1>1. ASSUME NEW x \in S PROVE whole[x] \in Nat /\ rest[x] \in 0 .. unit - 1 /\ weight[x] = unit * whole[x] + rest[x]
  <2>1. weight[x] \in Nat /\ whole[x] = weight[x] \div unit /\ rest[x] = (weight[x] % unit)
    BY DEF Split
  <2> QED
    BY <2>1, Division
<1>2. Combined(weight, unit, whole, rest, S)
  <2>1. \A x \in S : rest[x] \in Nat
    BY <1>1
  <2> QED
    BY <1>1, <2>1 DEF Combined
<1>3. SumOf(weight, S) = unit * SumOf(whole, S) + SumOf(rest, S) /\ SumOf(whole, S) \in Nat /\ SumOf(rest, S) \in Nat
  BY <1>2, SumIsLinear
<1> QED
  BY <1>1, <1>3

LEMMA StanceCountsAre ==
  ASSUME NEW n \in Nat
  PROVE  /\ \A k \in AllStances : StanceCounts(n)[k] \in Nat
         /\ SumOf(StanceCounts(n), AllStances) = n
<1> DEFINE part == [k \in AllStances |-> n * Approved[k]]
           floor == [k \in AllStances |-> (n * Approved[k]) \div 1000]
           rest == [k \in AllStances |-> ((n * Approved[k]) % 1000)]
           left == n - SumOf(floor, AllStances)
           ahead(k) == {j \in AllStances : rest[j] > rest[k] \/ (rest[j] = rest[k] /\ j < k)}
           more == {k \in AllStances : Cardinality(ahead(k)) < left}
           one == [k \in AllStances |-> IF k \in more THEN 1 ELSE 0]
<1>1. \A k \in AllStances : StanceCounts(n)[k] = floor[k] + one[k]
  <2>1. ASSUME NEW k \in AllStances PROVE StanceCounts(n)[k] = floor[k] + one[k]
    <3>1. StanceCounts(n)[k] =
            ((n * Approved[k]) \div 1000)
              + IF Cardinality({j \in AllStances :
                                  \/ ((n * Approved[j]) % 1000) > ((n * Approved[k]) % 1000)
                                  \/ (((n * Approved[j]) % 1000) = ((n * Approved[k]) % 1000) /\ j < k)})
                     < n - SumOf([i \in AllStances |-> (n * Approved[i]) \div 1000], AllStances)
                THEN 1 ELSE 0
      BY DEF StanceCounts
    <3>2. ahead(k) = {j \in AllStances : \/ ((n * Approved[j]) % 1000) > ((n * Approved[k]) % 1000)
                                         \/ (((n * Approved[j]) % 1000) = ((n * Approved[k]) % 1000) /\ j < k)}
      OBVIOUS
    <3>3. one[k] = IF Cardinality(ahead(k)) < left THEN 1 ELSE 0
      OBVIOUS
    <3>4. floor[k] = (n * Approved[k]) \div 1000
      OBVIOUS
    <3>5. left = n - SumOf([i \in AllStances |-> (n * Approved[i]) \div 1000], AllStances)
      OBVIOUS
    <3> HIDE DEF one, floor, left, ahead
    <3> QED
      BY <3>1, <3>2, <3>3, <3>4, <3>5
  <2> QED
    BY <2>1
<1>2. \A k \in AllStances : part[k] \in Nat
  BY ApprovedIs
<1>3. Split(part, 1000, floor, rest, AllStances)
  BY <1>2 DEF Split
<1>4. SumOf(part, AllStances) = n * 1000
  <2> DEFINE none == [k \in AllStances |-> 0]
  <2>1. Combined(part, n, Approved, none, AllStances)
    <3>1. \A k \in AllStances : Approved[k] \in Nat /\ n * Approved[k] \in Nat /\ n * Approved[k] = n * Approved[k] + 0
      BY ApprovedIs
    <3> QED
      BY <3>1 DEF Combined
  <2>2. \A k \in AllStances : none[k] = 0
    OBVIOUS
  <2> HIDE DEF none, part
  <2>3. SumOf(part, AllStances) = n * SumOf(Approved, AllStances) + SumOf(none, AllStances)
    BY <2>1, ApprovedIs, SumIsLinear
  <2>4. SumOf(none, AllStances) = 0 * Cardinality(AllStances)
    BY <2>2, ApprovedIs, SumOfSame
  <2> QED
    BY <2>3, <2>4, ApprovedIs
<1> HIDE DEF part, floor, rest, one
<1>4a. \A k \in AllStances : floor[k] \in Nat /\ rest[k] \in Nat /\ rest[k] <= 999
  <2>1. \A k \in AllStances : part[k] \in Nat /\ floor[k] = part[k] \div 1000 /\ rest[k] = (part[k] % 1000)
    BY <1>3 DEF Split
  <2> QED
    BY <2>1
<1>5. /\ SumOf(floor, AllStances) \in Nat /\ SumOf(rest, AllStances) \in Nat
      /\ n * 1000 = 1000 * SumOf(floor, AllStances) + SumOf(rest, AllStances)
  <2>1. PICK unit \in Nat \ {0} : unit = 1000
    OBVIOUS
  <2>2. /\ \A k \in AllStances : floor[k] \in Nat /\ rest[k] \in 0 .. unit - 1
        /\ SumOf(floor, AllStances) \in Nat /\ SumOf(rest, AllStances) \in Nat
        /\ SumOf(part, AllStances) = unit * SumOf(floor, AllStances) + SumOf(rest, AllStances)
    <3>1. Split(part, unit, floor, rest, AllStances)
      BY <1>3, <2>1
    <3> QED
      BY <3>1, ApprovedIs, SumOfWholes
  <2> QED
    BY <1>4, <2>1, <2>2
<1>6. left \in 0 .. 7
  <2> DEFINE most == [k \in AllStances |-> 999]
  <2>1. \A k \in AllStances : rest[k] \in Nat /\ most[k] \in Nat /\ rest[k] <= most[k] /\ most[k] = 999
    <3>1. \A k \in AllStances : rest[k] \in Nat /\ rest[k] <= 999
      BY <1>4a
    <3>2. \A k \in AllStances : most[k] = 999
      OBVIOUS
    <3> HIDE DEF most
    <3> QED
      BY <3>1, <3>2
  <2> HIDE DEF most
  <2>2. SumOf(rest, AllStances) <= SumOf(most, AllStances)
    BY <2>1, ApprovedIs, SumIsMonotonic
  <2>3. SumOf(most, AllStances) = 999 * 7
    BY <2>1, ApprovedIs, SumOfSame
  <2> DEFINE x == SumOf(floor, AllStances)
             y == SumOf(rest, AllStances)
  <2>4. x \in Nat /\ y \in Nat /\ y <= 6993 /\ n * 1000 = 1000 * x + y
    BY <1>5, <2>2, <2>3
  <2> HIDE DEF x, y
  <2>5. n - x \in 0 .. 7
    BY <2>4
  <2> QED
    BY <2>5 DEF x
<1>7. Cardinality(more) = left /\ more \in SUBSET AllStances
  <2> DEFINE rank == [k \in AllStances |-> k - 8 * rest[k]]
             before(k) == {j \in AllStances : rank[j] < rank[k]}
  <2>1. \A k \in AllStances : k \in 1 .. 7 /\ rank[k] = k - 8 * rest[k]
    BY DEF AllStances
  <2>2. \A c, e \in AllStances : rank[c] \in Int /\ (rank[c] = rank[e] => c = e)
    <3> HIDE DEF rank
    <3>1. ASSUME NEW c \in AllStances, NEW e \in AllStances PROVE rank[c] \in Int /\ (rank[c] = rank[e] => c = e)
      <4>1. c \in 1 .. 7 /\ e \in 1 .. 7 /\ rest[c] \in Nat /\ rest[e] \in Nat /\ rest[c] <= 999 /\ rest[e] <= 999
        BY <1>4a, <2>1
      <4>2. rank[c] = c - 8 * rest[c] /\ rank[e] = e - 8 * rest[e]
        BY <2>1
      <4> QED
        BY <4>1, <4>2
    <3> QED
      BY <3>1
  <2>3. \A k \in AllStances : ahead(k) = before(k)
    <3>1. \A j, k \in AllStances : rank[j] < rank[k] <=> rest[j] > rest[k] \/ (rest[j] = rest[k] /\ j < k)
      <4> HIDE DEF rank
      <4>1. ASSUME NEW j \in AllStances, NEW k \in AllStances
            PROVE  rank[j] < rank[k] <=> rest[j] > rest[k] \/ (rest[j] = rest[k] /\ j < k)
        <5>1. j \in 1 .. 7 /\ k \in 1 .. 7 /\ rest[j] \in Nat /\ rest[k] \in Nat /\ rest[j] <= 999 /\ rest[k] <= 999
          BY <1>4a, <2>1
        <5>2. rank[j] = j - 8 * rest[j] /\ rank[k] = k - 8 * rest[k]
          BY <2>1
        <5> QED
          BY <5>1, <5>2
      <4> QED
        BY <4>1
    <3> HIDE DEF rank
    <3> QED
      BY <3>1
  <2> HIDE DEF rank
  <2>4. left \in Nat /\ left <= Cardinality(AllStances)
    BY <1>6, ApprovedIs
  <2> HIDE DEF left
  <2>5. Cardinality({k \in AllStances : Cardinality(before(k)) < left}) = left
    <3> DEFINE pool == AllStances
    <3>1. IsFiniteSet(pool) /\ left <= Cardinality(pool)
          /\ \A c, e \in pool : rank[c] \in Int /\ (rank[c] = rank[e] => c = e)
      BY <2>2, <2>4, ApprovedIs
    <3> HIDE DEF pool
    <3>2. Cardinality({c \in pool : Cardinality({e \in pool : rank[e] < rank[c]}) < left}) = left
      BY <2>4, <3>1, FirstOfRanking
    <3> QED
      BY <3>2 DEF pool
  <2>6. more = {k \in AllStances : Cardinality(before(k)) < left}
    BY <2>3
  <2> QED
    BY <2>5, <2>6
<1> HIDE DEF left
<1>8. SumOf(one, AllStances) = left
  <2>1. \A k \in AllStances : one[k] = IF k \in more THEN 1 ELSE 0
    BY DEF one
  <2> HIDE DEF more
  <2> QED
    BY <1>7, <2>1, ApprovedIs, SumOfOnes
<1>9. Added(StanceCounts(n), floor, one, AllStances)
  <2>1. \A k \in AllStances : one[k] \in Nat
    BY DEF one
  <2> QED
    BY <1>1, <1>4a, <2>1 DEF Added
<1>10. SumOf(StanceCounts(n), AllStances) = SumOf(floor, AllStances) + SumOf(one, AllStances)
  BY <1>9, ApprovedIs, SumOfBoth
<1> QED
  BY <1>5, <1>8, <1>9, <1>10 DEF Added, left

-----------------------------------------------------------------------------
(* The clones                                                                *)

Places(q, x) == {a \in 1 .. Len(q) : q[a] = x}

LEMMA PlacesAreFinite ==
  ASSUME NEW D, NEW q \in Seq(D), NEW x
  PROVE  IsFiniteSet(Places(q, x)) /\ Cardinality(Places(q, x)) \in Nat
<1>1. IsFiniteSet(1 .. Len(q)) /\ Places(q, x) \in SUBSET (1 .. Len(q))
  BY FS_Interval DEF Places
<1> QED
  BY <1>1, FS_Subset, FS_CardinalityType

(* What joining two sequences does to the places of an element.              *)
LEMMA PlacesOfJoined ==
  ASSUME NEW D, NEW s \in Seq(D), NEW t \in Seq(D), NEW x
  PROVE  /\ s \o t \in Seq(D) /\ Len(s \o t) = Len(s) + Len(t)
         /\ Cardinality(Places(s \o t, x)) = Cardinality(Places(s, x)) + Cardinality(Places(t, x))
<1>1. s \o t \in Seq(D) /\ Len(s \o t) = Len(s) + Len(t) /\ Len(s) \in Nat /\ Len(t) \in Nat
      /\ \A a \in 1 .. Len(s) + Len(t) : (s \o t)[a] = IF a <= Len(s) THEN s[a] ELSE t[a - Len(s)]
  OBVIOUS
<1> DEFINE n == Len(s)
           S == Places(s, x)
           T == Places(t, x)
           U == {a \in n + 1 .. n + Len(t) : t[a - n] = x}
<1>2. Places(s \o t, x) = S \union U
  <2>1. ASSUME NEW a \in Places(s \o t, x) PROVE a \in S \union U
    BY <1>1, <2>1 DEF Places
  <2>2. ASSUME NEW a \in S \union U PROVE a \in Places(s \o t, x)
    BY <1>1, <2>2 DEF Places
  <2> QED
    BY <2>1, <2>2
<1>3. S \intersect U = {}
  BY <1>1 DEF Places
<1>4. IsFiniteSet(S) /\ IsFiniteSet(T) /\ Cardinality(S) \in Nat /\ Cardinality(T) \in Nat
  BY PlacesAreFinite
<1>5. IsFiniteSet(U) /\ Cardinality(U) = Cardinality(T)
  <2> DEFINE f == [a \in T |-> a + n]
  <2>1. \A a \in T : f[a] \in U
    BY <1>1 DEF Places
  <2>2. f \in [T -> U]
    BY <2>1
  <2>3. \A a, b \in T : f[a] = f[b] => a = b
    BY <1>1 DEF Places
  <2>4. ASSUME NEW u \in U PROVE \E a \in T : f[a] = u
    <3>1. u - n \in T /\ (u - n) + n = u
      BY <1>1 DEF Places
    <3> QED
      BY <3>1
  <2> HIDE DEF f, T, U
  <2> QED
    BY <1>4, <2>2, <2>3, <2>4, SameSize
<1> HIDE DEF S, T, U
<1>6. Cardinality(S \union U) = Cardinality(S) + Cardinality(U) - Cardinality(S \intersect U)
  BY <1>4, <1>5, FS_Union
<1>7. Cardinality(S \intersect U) = 0
  BY <1>3, FS_EmptySet
<1>8. Cardinality(Places(s \o t, x)) = Cardinality(S) + Cardinality(T)
  BY <1>2, <1>4, <1>5, <1>6, <1>7
<1> QED
  BY <1>1, <1>8 DEF S, T

LEMMA PlacesOfRun ==
  ASSUME NEW D, NEW i \in D, NEW w \in Nat, NEW x
  PROVE  LET run == [k \in 1 .. w |-> i]
         IN run \in Seq(D) /\ Len(run) = w /\ Cardinality(Places(run, x)) = IF x = i THEN w ELSE 0
<1> DEFINE run == [k \in 1 .. w |-> i]
<1>1. run \in Seq(D) /\ Len(run) = w /\ \A a \in 1 .. w : run[a] = i
  OBVIOUS
<1>2. Places(run, x) = IF x = i THEN 1 .. w ELSE {}
  BY <1>1 DEF Places
<1>3. Cardinality(1 .. w) = w
  <2>1. Cardinality(1 .. w) = IF 1 > w THEN 0 ELSE w - 1 + 1
    BY FS_Interval
  <2> QED
    BY <2>1
<1> HIDE DEF run
<1>4. Cardinality(Places(run, x)) = IF x = i THEN w ELSE 0
  BY <1>2, <1>3, FS_EmptySet
<1> QED
  BY <1>1, <1>4 DEF run

(* An element of a sequence without repetition is in one place.              *)
LEMMA PlacesOfInjective ==
  ASSUME NEW D, NEW q \in Seq(D), IsInjective(q), NEW x
  PROVE  Cardinality(Places(q, x)) = IF x \in ToSet(q) THEN 1 ELSE 0
<1>1. DOMAIN q = 1 .. Len(q)
  OBVIOUS
<1>2. CASE x \in ToSet(q)
  <2>1. PICK a \in 1 .. Len(q) : q[a] = x
    BY <1>1, <1>2 DEF ToSet
  <2>2. Places(q, x) = {a}
    BY <1>1, <2>1 DEF Places, IsInjective
  <2> QED
    BY <1>2, <2>2, FS_Singleton
<1>3. CASE x \notin ToSet(q)
  <2>1. Places(q, x) = {}
    BY <1>1, <1>3 DEF Places, ToSet
  <2> QED
    BY <1>3, <2>1, FS_EmptySet
<1> QED
  BY <1>2, <1>3

(* f is the function flatten of FlattenSeq.                                  *)
Flattens(f, blocks, n) == f = [i \in 1 .. n |-> IF i = 1 THEN blocks[i] ELSE f[i - 1] \o blocks[i]]
LEMMA FlatteningExists == ASSUME NEW blocks PROVE \A n \in Nat : \E f : Flattens(f, blocks, n)
<1> DEFINE T == {n \in Nat : \E f : Flattens(f, blocks, n)}
<1>1. 0 \in T
  <2> DEFINE f == [i \in 1 .. 0 |-> <<>>]
  <2>1. f = [i \in 1 .. 0 |-> IF i = 1 THEN blocks[i] ELSE f[i - 1] \o blocks[i]]
    OBVIOUS
  <2>2. Flattens(f, blocks, 0)
    BY <2>1 DEF Flattens
  <2> QED
    BY <2>2
<1>2. ASSUME NEW n \in Nat, n \in T PROVE n + 1 \in T
  <2>1. PICK f : Flattens(f, blocks, n)
    BY <1>2
  <2> DEFINE next == IF n + 1 = 1 THEN blocks[n + 1] ELSE f[n] \o blocks[n + 1]
             g == [i \in 1 .. n + 1 |-> IF i = n + 1 THEN next ELSE f[i]]
             h == [i \in 1 .. n + 1 |-> IF i = 1 THEN blocks[i] ELSE g[i - 1] \o blocks[i]]
  <2>2. ASSUME NEW i \in 1 .. n + 1 PROVE g[i] = h[i]
    <3>1. CASE i = n + 1
      <4>1. i # 1 => g[i - 1] = f[n]
        BY <3>1
      <4> HIDE DEF g
      <4>2. h[i] = next
        BY <3>1, <4>1
      <4> QED
        BY <3>1, <4>2 DEF g
    <3>2. CASE i # n + 1
      <4>1. i \in 1 .. n /\ (i # 1 => i - 1 \in 1 .. n + 1 /\ i - 1 # n + 1)
        BY <3>2
      <4>2. f[i] = IF i = 1 THEN blocks[i] ELSE f[i - 1] \o blocks[i]
        BY <2>1, <4>1 DEF Flattens
      <4>3. i # 1 => g[i - 1] = f[i - 1]
        BY <4>1
      <4>4. g[i] = f[i]
        BY <4>1, <3>2
      <4>5. h[i] = IF i = 1 THEN blocks[i] ELSE g[i - 1] \o blocks[i]
        OBVIOUS
      <4> HIDE DEF g, h
      <4> QED
        BY <4>2, <4>3, <4>4, <4>5
    <3> QED
      BY <3>1, <3>2
  <2>3. g = h
    <3>1. g = [i \in 1 .. n + 1 |-> g[i]] /\ h = [i \in 1 .. n + 1 |-> h[i]]
      OBVIOUS
    <3> HIDE DEF g, h
    <3> QED
      BY <2>2, <3>1
  <2>4. Flattens(g, blocks, n + 1)
    <3> HIDE DEF g
    <3> QED
      BY <2>3 DEF Flattens
  <2> QED
    BY <2>4
<1> HIDE DEF T
<1>3. Nat \subseteq T
  BY <1>1, <1>2, SetInduction
<1> QED
  BY <1>3 DEF T

LEMMA FlattenIs ==
  ASSUME NEW D, NEW blocks \in Seq(Seq(D)), Len(blocks) # 0
  PROVE  \E f : /\ FlattenSeq(blocks) = f[Len(blocks)]
                /\ \A i \in 1 .. Len(blocks) : f[i] = IF i = 1 THEN blocks[i] ELSE f[i - 1] \o blocks[i]
<1> DEFINE n == Len(blocks)
           f == CHOOSE g : Flattens(g, blocks, n)
<1>1. n \in Nat
  OBVIOUS
<1>2. Flattens(f, blocks, n)
  <2> HIDE DEF f
  <2>1. \E g : Flattens(g, blocks, n)
    BY <1>1, FlatteningExists
  <2> QED
    BY <2>1 DEF f
<1>3. FlattenSeq(blocks) = f[n]
  BY DEF FlattenSeq, Flattens
<1> HIDE DEF f
<1>4. \A i \in 1 .. n : f[i] = IF i = 1 THEN blocks[i] ELSE f[i - 1] \o blocks[i]
  BY <1>2 DEF Flattens
<1> QED
  BY <1>3, <1>4

LEMMA RunsAre ==
  ASSUME NEW m \in Nat \ {0}, NEW w, \A i \in 1 .. m : w[i] \in Nat
  PROVE  LET q == FlattenSeq([i \in 1 .. m |-> [k \in 1 .. w[i] |-> i]])
         IN /\ q \in Seq(1 .. m) /\ Len(q) = SumOf(w, 1 .. m)
            /\ \A x \in 1 .. m : Cardinality(Places(q, x)) = w[x]
<1> DEFINE D == 1 .. m
           blocks == [i \in D |-> [k \in 1 .. w[i] |-> i]]
<1>1. \A i \in D : blocks[i] \in Seq(D) /\ Len(blocks[i]) = w[i]
        /\ \A x : Cardinality(Places(blocks[i], x)) = IF x = i THEN w[i] ELSE 0
  <2>1. ASSUME NEW i \in D
        PROVE  blocks[i] \in Seq(D) /\ Len(blocks[i]) = w[i]
               /\ \A x : Cardinality(Places(blocks[i], x)) = IF x = i THEN w[i] ELSE 0
    <3>1. w[i] \in Nat
      OBVIOUS
    <3> HIDE DEF D
    <3>2. LET run == [k \in 1 .. w[i] |-> i]
          IN \A x : run \in Seq(D) /\ Len(run) = w[i] /\ Cardinality(Places(run, x)) = IF x = i THEN w[i] ELSE 0
      BY <3>1, PlacesOfRun
    <3>3. blocks[i] = [k \in 1 .. w[i] |-> i]
      OBVIOUS
    <3> HIDE DEF blocks
    <3> QED
      BY <3>2, <3>3
  <2> HIDE DEF blocks
  <2> QED
    BY <2>1
<1>2. blocks \in Seq(Seq(D)) /\ Len(blocks) = m
  <2>1. blocks \in [1 .. m -> Seq(D)]
    <3>1. blocks = [i \in 1 .. m |-> blocks[i]]
      OBVIOUS
    <3> HIDE DEF blocks
    <3> QED
      BY <1>1, <3>1
  <2> HIDE DEF blocks
  <2> QED
    BY <2>1
<1> HIDE DEF blocks
<1>3. PICK f : /\ FlattenSeq(blocks) = f[m]
               /\ \A i \in 1 .. m : f[i] = IF i = 1 THEN blocks[i] ELSE f[i - 1] \o blocks[i]
  <2> HIDE DEF D
  <2>1. \E f : /\ FlattenSeq(blocks) = f[Len(blocks)]
               /\ \A i \in 1 .. Len(blocks) : f[i] = IF i = 1 THEN blocks[i] ELSE f[i - 1] \o blocks[i]
    <3>1. Len(blocks) # 0
      BY <1>2
    <3> QED
      BY <1>2, <3>1, FlattenIs
  <2> QED
    BY <1>2, <2>1
<1> DEFINE P(i) == /\ f[i] \in Seq(D) /\ Len(f[i]) = SumOf(w, 1 .. i)
                   /\ \A x \in D : Cardinality(Places(f[i], x)) = IF x <= i THEN w[x] ELSE 0
           T == {i \in Nat : i + 1 <= m => P(i + 1)}
<1>4. ASSUME NEW i \in 1 .. m PROVE SumOf(w, 1 .. i) = w[i] + SumOf(w, 1 .. i - 1) /\ SumOf(w, 1 .. i - 1) \in Nat
  <2>1. \A x \in 1 .. i : w[x] \in Nat
    OBVIOUS
  <2> QED
    BY <2>1, SumOfInterval
<1>5. 0 \in T
  <2>1. 1 \in D /\ f[1] = blocks[1]
    BY <1>3
  <2>2. SumOf(w, 1 .. 1) = w[1]
    <3>1. 1 .. 1 - 1 = {}
      OBVIOUS
    <3>2. SumOf(w, 1 .. 1) = w[1] + SumOf(w, 1 .. 1 - 1)
      BY <1>4, <2>1
    <3>3. SumOf(w, 1 .. 1 - 1) = 0
      BY <3>1, SumOfNone
    <3>4. w[1] \in Nat
      BY <2>1
    <3> HIDE DEF P, T
    <3> QED
      BY <3>2, <3>3, <3>4
  <2>3. f[1] \in Seq(D) /\ Len(f[1]) = w[1] /\ \A x \in D : Cardinality(Places(f[1], x)) = IF x = 1 THEN w[1] ELSE 0
    <3> HIDE DEF D, P, T
    <3>1. blocks[1] \in Seq(D) /\ Len(blocks[1]) = w[1]
          /\ \A x : Cardinality(Places(blocks[1], x)) = IF x = 1 THEN w[1] ELSE 0
      BY <1>1, <2>1
    <3> QED
      BY <2>1, <3>1
  <2>4. \A x \in D : Cardinality(Places(f[1], x)) = IF x <= 1 THEN w[x] ELSE 0
    <3> HIDE DEF P, T
    <3>1. \A x \in D : (x = 1 <=> x <= 1) /\ (x = 1 => w[x] = w[1])
      OBVIOUS
    <3> QED
      BY <2>3, <3>1
  <2>5. P(1)
    <3>1. Len(f[1]) = SumOf(w, 1 .. 1)
      <4> HIDE DEF P, T
      <4> QED
        BY <2>2, <2>3
    <3> QED
      BY <2>3, <2>4, <3>1
  <2> HIDE DEF P
  <2> QED
    BY <2>5
<1>6. ASSUME NEW i \in Nat, i \in T PROVE i + 1 \in T
  <2>1. SUFFICES ASSUME i + 2 <= m PROVE P(i + 2)
    <3> HIDE DEF P
    <3>1. (i + 1) + 1 = i + 2
      OBVIOUS
    <3> QED
      BY <3>1
  <2> DEFINE j == i + 2
             s == f[i + 1]
             t == blocks[j]
  <2>2. P(i + 1) /\ j \in D /\ j # 1 /\ j - 1 = i + 1
    <3> HIDE DEF P
    <3> QED
      BY <1>6, <2>1
  <2>3. f[j] = s \o t
    BY <1>3, <2>2
  <2>4. s \in Seq(D) /\ t \in Seq(D) /\ Len(s) = SumOf(w, 1 .. j - 1) /\ Len(t) = w[j]
    BY <1>1, <2>2
  <2> HIDE DEF j
  <2>5. f[j] \in Seq(D) /\ Len(f[j]) = Len(s) + Len(t)
        /\ \A x : Cardinality(Places(f[j], x)) = Cardinality(Places(s, x)) + Cardinality(Places(t, x))
    <3> HIDE DEF D, s, t
    <3> QED
      BY <2>3, <2>4, PlacesOfJoined
  <2>6. Len(f[j]) = SumOf(w, 1 .. j)
    <3>1. SumOf(w, 1 .. j) = w[j] + SumOf(w, 1 .. j - 1) /\ SumOf(w, 1 .. j - 1) \in Nat /\ w[j] \in Nat
      BY <1>4, <2>2
    <3> HIDE DEF s, t
    <3> QED
      BY <2>4, <2>5, <3>1
  <2>7. ASSUME NEW x \in D PROVE Cardinality(Places(f[j], x)) = IF x <= j THEN w[x] ELSE 0
    <3>1. Cardinality(Places(s, x)) = IF x <= j - 1 THEN w[x] ELSE 0
      BY <2>2
    <3>2. Cardinality(Places(t, x)) = IF x = j THEN w[j] ELSE 0
      BY <1>1, <2>2
    <3>3. w[x] \in Nat /\ w[j] \in Nat /\ x \in Int /\ j \in Int
      BY <2>2
    <3> HIDE DEF s, t
    <3> QED
      BY <2>5, <3>1, <3>2, <3>3
  <2>8. P(j)
    BY <2>5, <2>6, <2>7
  <2> QED
    BY <2>8 DEF j
<1> HIDE DEF P
<1>7. Nat \subseteq T
  BY <1>5, <1>6, SetInduction
<1>8. P(m)
  <2>1. m - 1 \in Nat /\ (m - 1) + 1 = m
    OBVIOUS
  <2> QED
    BY <1>7, <2>1
<1>9. \A x \in D : x <= m
  OBVIOUS
<1> QED
  BY <1>3, <1>8, <1>9 DEF P, blocks

-----------------------------------------------------------------------------
(* The residual                                                              *)

PopulationValid == \A s \in Surveys : SurveyValid(s)
populationVars == <<survey, step, drawn, members, allocation, stance, reason>>
PopulationSpec == PopulationInit /\ [][PopulationNext]_populationVars

Wholes == [i \in Donors |-> Whole(i)]
Fractions == [i \in Donors |-> Fraction(i)]
DrawnOnce == drawn \in Seq(Donors) /\ IsInjective(drawn) /\ \A i \in ToSet(drawn) : Fraction(i) > 0

LEMMA SurveyIs ==
  ASSUME PopulationValid, survey \in Surveys
  PROVE  /\ survey.n \in Nat \ {0} /\ survey.unit \in Nat \ {0} /\ Len(survey.donors) \in Nat \ {0}
         /\ Donors = 1 .. Len(survey.donors) /\ IsFiniteSet(Donors)
         /\ \A i \in Donors : Wholes[i] \in Nat /\ Wholes[i] = Whole(i)
         /\ \A i \in Donors : Fractions[i] \in 0 .. survey.unit - 1 /\ Fractions[i] = Fraction(i)
         /\ Residual \in Nat /\ SumOf(Wholes, Donors) = survey.n - Residual
         /\ SumOf(Fractions, Donors) = survey.unit * Residual
<1> DEFINE weight == [i \in Donors |-> survey.donors[i].weight]
           n == survey.n
           unit == survey.unit
<1>1. SurveyValid(survey)
  BY DEF PopulationValid
<1>2. n \in Nat \ {0} /\ unit \in Nat \ {0} /\ Len(survey.donors) \in Nat \ {0} /\ Donors = 1 .. Len(survey.donors)
  BY <1>1 DEF SurveyValid, Donors
<1>3. (\A i \in Donors : weight[i] \in Nat) /\ SumOf(weight, Donors) = n * unit
  BY <1>1 DEF SurveyValid, Donors
<1>4. IsFiniteSet(Donors)
  <2>1. IsFiniteSet(1 .. Len(survey.donors))
    BY <1>2, FS_Interval
  <2> QED
    BY <1>2, <2>1
<1>5. \A i \in Donors : Wholes[i] = Whole(i) /\ Fractions[i] = Fraction(i)
  BY DEF Wholes, Fractions
<1>6. Split(weight, unit, Wholes, Fractions, Donors)
  <2>1. \A i \in Donors : weight[i] \in Nat /\ Wholes[i] = weight[i] \div unit /\ Fractions[i] = (weight[i] % unit)
    BY <1>3, <1>5 DEF Whole, Fraction
  <2> HIDE DEF weight, unit
  <2> QED
    BY <2>1 DEF Split
<1> HIDE DEF weight, n, unit
<1>7. /\ \A i \in Donors : Wholes[i] \in Nat /\ Fractions[i] \in 0 .. unit - 1
      /\ SumOf(Wholes, Donors) \in Nat /\ SumOf(Fractions, Donors) \in Nat
      /\ SumOf(weight, Donors) = unit * SumOf(Wholes, Donors) + SumOf(Fractions, Donors)
  BY <1>2, <1>4, <1>6, SumOfWholes
<1>8. Residual = n - SumOf(Wholes, Donors)
  BY DEF Residual, Wholes, n
<1> DEFINE w == SumOf(Wholes, Donors)
           f == SumOf(Fractions, Donors)
<1>9. w \in Nat /\ f \in Nat /\ n * unit = unit * w + f
  BY <1>3, <1>7
<1> HIDE DEF w, f
<1>10. f = unit * (n - w)
  <2>1. unit * (n - w) = n * unit - unit * w
    BY <1>2, <1>9
  <2>2. n * unit \in Nat /\ unit * w \in Nat
    BY <1>2, <1>9
  <2> QED
    BY <1>9, <2>1, <2>2
<1>11. n - w \in Nat
  <2>1. CASE n < w
    <3>1. w - n \in Nat \ {0} /\ unit * (w - n) = -(unit * (n - w))
      BY <1>2, <1>9, <2>1
    <3>2. 1 * (w - n) <= unit * (w - n)
      BY <1>2, <3>1, ProductIsMonotonic
    <3>3. unit * (w - n) \in Nat
      BY <1>2, <3>1
    <3> QED
      BY <1>9, <1>10, <3>1, <3>2, <3>3
  <2> QED
    BY <1>2, <1>9, <2>1
<1>12. Residual \in Nat /\ w = n - Residual /\ f = unit * Residual
  <2>1. Residual = n - w
    BY <1>8 DEF w
  <2> QED
    BY <1>2, <1>9, <1>10, <1>11, <2>1
<1> QED
  BY <1>2, <1>4, <1>5, <1>7, <1>12 DEF n, unit, w, f

LEMMA DrawnIs ==
  ASSUME DrawnOnce
  PROVE  /\ IsFiniteSet(ToSet(drawn)) /\ Cardinality(ToSet(drawn)) = Len(drawn) /\ ToSet(drawn) \subseteq Donors
         /\ Len(drawn) \in Nat
<1>1. drawn \in Seq(Donors) /\ Len(drawn) \in Nat /\ DOMAIN drawn = 1 .. Len(drawn) /\ \A a \in 1 .. Len(drawn) : drawn[a] \in Donors
  BY DEF DrawnOnce
<1> DEFINE S == 1 .. Len(drawn)
           T == ToSet(drawn)
<1>2. drawn \in [S -> T]
  <2>1. \A a \in S : drawn[a] \in T
    BY <1>1 DEF ToSet
  <2>2. drawn = [a \in S |-> drawn[a]]
    BY <1>1
  <2> HIDE DEF T
  <2> QED
    BY <2>1, <2>2
<1>3. \A x, y \in S : drawn[x] = drawn[y] => x = y
  BY <1>1 DEF DrawnOnce, IsInjective
<1>4. \A t \in T : \E x \in S : drawn[x] = t
  BY <1>1 DEF ToSet
<1>5. IsFiniteSet(S) /\ Cardinality(S) = Len(drawn)
  <2>1. IsFiniteSet(S) /\ Cardinality(S) = IF 1 > Len(drawn) THEN 0 ELSE Len(drawn) - 1 + 1
    BY <1>1, FS_Interval, SMTT(30)
  <2> QED
    BY <1>1, <2>1
<1>6. T \subseteq Donors
  BY <1>1 DEF ToSet
<1> HIDE DEF S, T
<1>7. IsFiniteSet(T) /\ Cardinality(T) = Cardinality(S)
  BY <1>2, <1>3, <1>4, <1>5, SameSize
<1> QED
  BY <1>1, <1>5, <1>6, <1>7 DEF T

(* While fewer are drawn than the residual there is a donor to draw.         *)
LEMMA ResidualIsAvailable ==
  ASSUME PopulationValid, survey \in Surveys, DrawnOnce, Len(drawn) < Residual
  PROVE  Available # {}
<1> DEFINE T == ToSet(drawn)
           unit == survey.unit
<1>1. SUFFICES ASSUME Available = {} PROVE FALSE
  OBVIOUS
<1>2. T \subseteq Donors /\ IsFiniteSet(T) /\ Cardinality(T) = Len(drawn) /\ Len(drawn) \in Nat
  BY DrawnIs
<1>3. /\ unit \in Nat \ {0} /\ IsFiniteSet(Donors) /\ Residual \in Nat
      /\ (\A i \in Donors : Fractions[i] \in Nat /\ Fractions[i] <= unit /\ Fractions[i] = Fraction(i))
      /\ SumOf(Fractions, Donors) = unit * Residual
  BY SurveyIs
<1>4. \A i \in Donors \ T : Fractions[i] = 0
  BY <1>1, <1>3 DEF Available
<1> HIDE DEF T, unit
<1>5. SumOf(Fractions, Donors) = SumOf(Fractions, T) + SumOf(Fractions, Donors \ T)
  BY <1>2, <1>3, SumOfParts
<1>6. SumOf(Fractions, Donors \ T) = 0
  <2>1. IsFiniteSet(Donors \ T)
    BY <1>3, FS_Subset
  <2>2. SumOf(Fractions, Donors \ T) = 0 * Cardinality(Donors \ T) /\ Cardinality(Donors \ T) \in Nat
    BY <1>4, <2>1, SumOfSame
  <2> QED
    BY <2>2
<1>7. SumOf(Fractions, T) \in Nat /\ SumOf(Fractions, T) <= unit * Len(drawn)
  <2> DEFINE most == [i \in T |-> unit]
  <2>1. \A i \in T : most[i] = unit
    OBVIOUS
  <2> HIDE DEF most
  <2>2. \A i \in T : Fractions[i] \in Nat /\ most[i] \in Nat /\ Fractions[i] <= most[i]
    BY <1>2, <1>3, <2>1
  <2>3. SumOf(Fractions, T) \in Nat /\ SumOf(Fractions, T) <= SumOf(most, T)
    BY <1>2, <2>2, SumIsMonotonic
  <2>4. SumOf(most, T) = unit * Cardinality(T)
    BY <1>2, <1>3, <2>1, SumOfSame
  <2> QED
    BY <1>2, <2>3, <2>4
<1>8. unit * Len(drawn) + unit <= unit * Residual
  <2>1. (Len(drawn) + 1) * unit <= Residual * unit
    BY <1>2, <1>3, ProductIsMonotonic
  <2>2. (Len(drawn) + 1) * unit = unit * Len(drawn) + unit /\ Residual * unit = unit * Residual
    BY <1>2, <1>3
  <2> QED
    BY <2>1, <2>2
<1>9. unit * Len(drawn) \in Nat /\ unit * Residual \in Nat
  BY <1>2, <1>3
<1> QED
  BY <1>3, <1>5, <1>6, <1>7, <1>8, <1>9

(* Every draw falls to a donor that is available.                            *)
LEMMA ChosenIsAvailable ==
  ASSUME PopulationValid, survey \in Surveys, NEW draw \in 0 .. SumOf(Fractions, Available) - 1
  PROVE  Chosen(draw) \in Available
<1> DEFINE m == Len(survey.donors)
           upTo(k) == {j \in Available : j <= k}
           below(i) == {j \in Available : j < i}
           falls(i) == draw \in SumOf(Fractions, below(i)) .. SumOf(Fractions, below(i)) + Fraction(i) - 1
           T == {k \in Nat : draw < SumOf(Fractions, upTo(k)) => \E i \in Available : falls(i)}
<1>1. /\ m \in Nat \ {0} /\ Donors = 1 .. m /\ IsFiniteSet(Donors)
      /\ \A i \in Donors : Fractions[i] \in Nat /\ Fractions[i] = Fraction(i)
  BY SurveyIs
<1>2. Available \subseteq Donors
  BY DEF Available
<1>2a. \A j \in Available : j \in Nat /\ 1 <= j /\ j <= m
  BY <1>1, <1>2
<1>3. \A k : upTo(k) \in SUBSET Donors /\ below(k) \in SUBSET Donors
  BY <1>2
<1>4. \A s \in SUBSET Donors : IsFiniteSet(s) /\ SumOf(Fractions, s) \in Nat
  <2>1. ASSUME NEW s \in SUBSET Donors PROVE IsFiniteSet(s) /\ SumOf(Fractions, s) \in Nat
    <3>1. IsFiniteSet(s) /\ \A i \in s : Fractions[i] \in Nat
      BY <1>1, FS_Subset
    <3> QED
      BY <3>1, SumIs
  <2> QED
    BY <2>1
<1>5. draw \in Nat /\ draw < SumOf(Fractions, Available)
  BY <1>2, <1>4
<1>6. 0 \in T
  <2>1. upTo(0) = {}
    <3>1. \A j \in Available : ~(j <= 0)
      BY <1>2a
    <3> QED
      BY <3>1
  <2>2. SumOf(Fractions, upTo(0)) = 0
    BY <2>1, SumOfNone
  <2> QED
    BY <1>5, <2>2
<1>7. ASSUME NEW k \in Nat, k \in T PROVE k + 1 \in T
  <2>1. SUFFICES ASSUME draw < SumOf(Fractions, upTo(k + 1)) PROVE \E i \in Available : falls(i)
    OBVIOUS
  <2>2. CASE k + 1 \notin Available
    <3>1. upTo(k + 1) = upTo(k)
      <4>1. \A j \in Available : j <= k + 1 <=> j <= k
        BY <1>2a, <2>2
      <4> QED
        BY <4>1
    <3>2. draw < SumOf(Fractions, upTo(k))
      BY <2>1, <3>1
    <3> QED
      BY <1>7, <3>2
  <2>3. CASE draw < SumOf(Fractions, upTo(k))
    BY <1>7, <2>3
  <2>4. CASE k + 1 \in Available /\ ~(draw < SumOf(Fractions, upTo(k)))
    <3> DEFINE i == k + 1
               s == upTo(i)
    <3>1. below(i) = upTo(k) /\ s \ {i} = upTo(k) /\ i \in s /\ i \in Donors
      <4>1. i \in Available /\ i \in Donors /\ i <= i
        BY <1>2, <2>4
      <4>2. \A j \in Available : (j < i <=> j <= k) /\ (j <= i /\ j # i <=> j <= k)
        BY <1>2a
      <4> HIDE DEF i
      <4> QED
        BY <4>1, <4>2
    <3>2. SumOf(Fractions, s) = Fractions[i] + SumOf(Fractions, s \ {i})
      <4>1. s \in SUBSET Donors /\ i \in s
        BY <1>3, <3>1
      <4> HIDE DEF s, i
      <4>2. IsFiniteSet(s) /\ \A x \in s : Fractions[x] \in Nat
        BY <1>1, <1>4, <4>1
      <4> QED
        BY <4>1, <4>2, SumIs
    <3> DEFINE b == SumOf(Fractions, upTo(k))
    <3>3. b \in Nat /\ Fraction(i) \in Nat /\ Fractions[i] = Fraction(i)
      BY <1>1, <1>3, <1>4, <3>1
    <3>4. draw < Fraction(i) + b
      BY <2>1, <3>1, <3>2, <3>3
    <3>5. draw \in b .. b + Fraction(i) - 1
      <4> HIDE DEF b, i
      <4>1. b <= draw
        BY <1>5, <2>4, <3>3 DEF b
      <4> QED
        BY <1>5, <3>3, <3>4, <4>1
    <3>6. falls(i)
      BY <3>1, <3>5
    <3> QED
      BY <2>4, <3>6
  <2> QED
    BY <2>2, <2>3, <2>4
<1> HIDE DEF T
<1>8. Nat \subseteq T
  BY <1>6, <1>7, SetInduction
<1>9. upTo(m) = Available
  BY <1>2a
<1>10. \E i \in Available : falls(i)
  BY <1>1, <1>5, <1>8, <1>9 DEF T
<1>11. Chosen(draw) = CHOOSE i \in Available : falls(i)
  BY DEF Chosen, Fractions
<1> HIDE DEF falls
<1> QED
  BY <1>10, <1>11

(* The clones of the donors are exactly n, and every donor has its weight    *)
(* rounded down or up.                                                       *)
Cloned ==
  /\ members \in Seq(Donors) /\ Len(members) = survey.n
  /\ \A i \in Donors : Cardinality(Places(members, i)) - Whole(i) \in {0, IF Fraction(i) > 0 THEN 1 ELSE 0}

LEMMA ClonesAre ==
  ASSUME PopulationValid, survey \in Surveys, DrawnOnce, Len(drawn) = Residual
  PROVE  /\ Clones \in Seq(Donors) /\ Len(Clones) = survey.n
         /\ \A i \in Donors : Cardinality(Places(Clones, i)) - Whole(i) \in {0, IF Fraction(i) > 0 THEN 1 ELSE 0}
<1> DEFINE m == Len(survey.donors)
           q == FlattenSeq([i \in 1 .. m |-> [k \in 1 .. Wholes[i] |-> i]])
<1>1. /\ m \in Nat \ {0} /\ Donors = 1 .. m /\ survey.n \in Nat /\ Residual \in Nat
      /\ \A i \in Donors : Wholes[i] \in Nat /\ Wholes[i] = Whole(i)
      /\ SumOf(Wholes, Donors) = survey.n - Residual
  BY SurveyIs
<1>2. /\ q \in Seq(1 .. m) /\ Len(q) = SumOf(Wholes, 1 .. m)
      /\ \A x \in 1 .. m : Cardinality(Places(q, x)) = Wholes[x]
  <2> HIDE DEF m
  <2> QED
    BY <1>1, RunsAre
<1>3. Clones = q \o drawn
  <2>1. [i \in Donors |-> [k \in 1 .. Whole(i) |-> i]] = [i \in 1 .. m |-> [k \in 1 .. Wholes[i] |-> i]]
    BY <1>1
  <2> QED
    BY <2>1 DEF Clones
<1> HIDE DEF m, q
<1>4. q \in Seq(Donors) /\ drawn \in Seq(Donors) /\ IsInjective(drawn) /\ \A i \in ToSet(drawn) : Fraction(i) > 0
  BY <1>1, <1>2 DEF DrawnOnce
<1>5. Clones \in Seq(Donors) /\ Len(Clones) = Len(q) + Len(drawn)
  BY <1>3, <1>4, PlacesOfJoined
<1>6. Len(Clones) = survey.n
  BY <1>1, <1>2, <1>5
<1>7. ASSUME NEW i \in Donors
      PROVE  Cardinality(Places(Clones, i)) - Whole(i) \in {0, IF Fraction(i) > 0 THEN 1 ELSE 0}
  <2>1. Cardinality(Places(q \o drawn, i)) = Cardinality(Places(q, i)) + Cardinality(Places(drawn, i))
    BY <1>4, PlacesOfJoined
  <2>2. Cardinality(Places(q, i)) = Whole(i) /\ Whole(i) \in Nat
    BY <1>1, <1>2, <1>7
  <2>3. Cardinality(Places(drawn, i)) = IF i \in ToSet(drawn) THEN 1 ELSE 0
    BY <1>4, PlacesOfInjective
  <2>4. Cardinality(Places(Clones, i)) - Whole(i) = IF i \in ToSet(drawn) THEN 1 ELSE 0
    BY <1>3, <2>1, <2>2, <2>3
  <2> QED
    BY <1>4, <2>4
<1> QED
  BY <1>5, <1>6, <1>7

-----------------------------------------------------------------------------
(* The stances                                                               *)

(* The shares of c in proportion to f, rounded down.                         *)
Floors(floors, c, f, n, S) == \A x \in S : f[x] \in Nat /\ floors[x] = (c * f[x]) \div n

(* They are at most c.                                                       *)
LEMMA FloorsFit ==
  ASSUME NEW S, IsFiniteSet(S), NEW n \in Nat \ {0}, NEW c \in Nat, NEW f, SumOf(f, S) = n,
         NEW floors, Floors(floors, c, f, n, S)
  PROVE  (\A x \in S : floors[x] \in Nat) /\ SumOf(floors, S) \in Nat /\ c - SumOf(floors, S) \in Nat
<1>0. \A x \in S : f[x] \in Nat /\ floors[x] = (c * f[x]) \div n
  BY DEF Floors
<1> DEFINE part == [x \in S |-> c * f[x]]
           rest == [x \in S |-> ((c * f[x]) % n)]
           none == [x \in S |-> 0]
<1>1. \A x \in S : c * f[x] \in Nat
  BY <1>0
<1>2. Split(part, n, floors, rest, S)
  BY <1>0, <1>1 DEF Split
<1>3. Combined(part, c, f, none, S)
  BY <1>0 DEF Combined
<1>4. SumOf(none, S) = 0
  <2>1. \A x \in S : none[x] = 0
    OBVIOUS
  <2> HIDE DEF none
  <2>2. SumOf(none, S) = 0 * Cardinality(S) /\ Cardinality(S) \in Nat
    BY <2>1, SumOfSame
  <2> QED
    BY <2>2
<1> HIDE DEF part, rest, none
<1>5. SumOf(part, S) = c * SumOf(f, S) + SumOf(none, S)
  BY <1>3, SumIsLinear
<1>6. /\ \A x \in S : floors[x] \in Nat
      /\ SumOf(floors, S) \in Nat /\ SumOf(rest, S) \in Nat
      /\ SumOf(part, S) = n * SumOf(floors, S) + SumOf(rest, S)
  BY <1>2, SumOfWholes
<1> DEFINE w == SumOf(floors, S)
           r == SumOf(rest, S)
<1>7. w \in Nat /\ r \in Nat /\ c * n = n * w + r
  <2>1. c * n \in Nat
    OBVIOUS
  <2> QED
    BY <1>4, <1>5, <1>6, <2>1
<1> HIDE DEF w, r
<1>8. c - w \in Nat
  <2>1. CASE c < w
    <3>1. c + 1 \in Nat /\ (c + 1) * n <= w * n
      BY <1>7, <2>1, ProductIsMonotonic
    <3>2. (c + 1) * n = c * n + n /\ w * n = n * w /\ c * n \in Nat /\ n * w \in Nat
      BY <1>7
    <3> QED
      BY <1>7, <3>1, <3>2
  <2> QED
    BY <1>7, <2>1
<1> QED
  BY <1>6, <1>8 DEF w

Counts == StanceCounts(survey.n)
Sizes == [f \in Strata |-> Cardinality(Stratum(f))]
Fields == [a \in Persons |-> FieldOf(a)]

(* The strata divide the agents, the counts of the stances too.              *)
LEMMA StrataAre ==
  ASSUME PopulationValid, survey \in Surveys, Cloned
  PROVE  /\ survey.n \in Nat \ {0} /\ Persons = 1 .. survey.n
         /\ IsFiniteSet(Persons) /\ Cardinality(Persons) = survey.n /\ IsFiniteSet(Strata) /\ IsFiniteSet(AllStances)
         /\ \A f \in Strata : Sizes[f] \in Nat /\ Sizes[f] = Cardinality(Stratum(f))
         /\ SumOf(Sizes, Strata) = survey.n
         /\ \A k \in AllStances : Counts[k] \in Nat /\ Counts[k] = StanceCounts(survey.n)[k]
         /\ SumOf(Counts, AllStances) = survey.n
<1>1. survey.n \in Nat \ {0}
  BY SurveyIs
<1>2. Persons = 1 .. survey.n
  <2>1. members \in Seq(Donors) /\ Len(members) = survey.n
    BY DEF Cloned
  <2> QED
    BY <2>1 DEF Persons
<1>3. IsFiniteSet(Persons) /\ Cardinality(Persons) = survey.n
  <2> DEFINE n == survey.n
  <2>1. n \in Nat \ {0}
    BY <1>1
  <2> HIDE DEF n
  <2>2. IsFiniteSet(1 .. n) /\ Cardinality(1 .. n) = IF 1 > n THEN 0 ELSE n - 1 + 1
    BY <2>1, FS_Interval
  <2>3. IsFiniteSet(1 .. n) /\ Cardinality(1 .. n) = n
    BY <2>1, <2>2
  <2> QED
    BY <1>2, <2>3 DEF n
<1>4. Strata = {Fields[a] : a \in Persons} /\ \A a \in Persons : Fields[a] = FieldOf(a)
  BY DEF Strata, Fields
<1>5. IsFiniteSet(Strata) /\ \A a \in Persons : Fields[a] \in Strata
  <2> DEFINE image == {Fields[a] : a \in Persons}
  <2>0. Fields \in [Persons -> image] /\ \A y \in image : \E a \in Persons : Fields[a] = y
    BY DEF Fields
  <2> HIDE DEF image
  <2>1. IsFiniteSet(image)
    BY <1>3, <2>0, FS_Surjection DEF Surjection
  <2> QED
    BY <1>4, <2>1 DEF image
<1>6. \A f \in Strata : Sizes[f] = Cardinality(Stratum(f)) /\ Stratum(f) = {a \in Persons : Fields[a] = f}
  BY <1>4 DEF Sizes, Stratum
<1>7. \A f \in Strata : Cardinality(Stratum(f)) \in Nat
  <2>1. \A f \in Strata : Stratum(f) \subseteq Persons
    BY DEF Stratum
  <2>2. \A f \in Strata : IsFiniteSet(Stratum(f))
    BY <1>3, <2>1, FS_Subset
  <2> QED
    BY <2>2, FS_CardinalityType
<1>8. SumOf(Sizes, Strata) = Cardinality(Persons)
  <2>1. \A f \in Strata : Sizes[f] = Cardinality({a \in Persons : Fields[a] = f})
    BY <1>6
  <2>2. Parted(Persons, Fields, Strata, Sizes)
    BY <1>5, <2>1 DEF Parted
  <2> QED
    BY <1>3, <1>5, <2>2, SumOfFibers
<1>9. (\A k \in AllStances : Counts[k] \in Nat) /\ SumOf(Counts, AllStances) = survey.n
  BY <1>1, StanceCountsAre DEF Counts
<1>10. IsFiniteSet(AllStances)
  BY ApprovedIs
<1> QED
  BY <1>1, <1>2, <1>3, <1>5, <1>6, <1>7, <1>8, <1>9, <1>10 DEF Counts

(* No stratum and no stance is allocated more agents than it has.            *)
Allotted ==
  /\ allocation \in [Strata -> [AllStances -> Nat]]
  /\ \A f \in Strata : RowLeft(f) \in Nat
  /\ \A k \in AllStances : ColumnLeft(k) \in Nat

RowSums == [f \in Strata |-> SumOf(allocation[f], AllStances)]
Columns == [k \in AllStances |-> [f \in Strata |-> allocation[f][k]]]
ColumnSums == [k \in AllStances |-> SumOf(Columns[k], Strata)]

LEMMA SumsOfAllocation ==
  ASSUME PopulationValid, survey \in Surveys, Cloned, allocation \in [Strata -> [AllStances -> Nat]]
  PROVE  /\ \A f \in Strata : RowSums[f] \in Nat /\ RowLeft(f) = Sizes[f] - RowSums[f]
         /\ \A k \in AllStances : ColumnSums[k] \in Nat /\ ColumnLeft(k) = Counts[k] - ColumnSums[k]
         /\ SumOf(RowSums, Strata) = SumOf(ColumnSums, AllStances)
<1>1. IsFiniteSet(Strata) /\ IsFiniteSet(AllStances)
  BY StrataAre
<1>2. \A f \in Strata, k \in AllStances : allocation[f][k] \in Nat /\ Columns[k][f] = allocation[f][k]
  BY DEF Columns
<1>3. \A f \in Strata : RowSums[f] = SumOf(allocation[f], AllStances) /\ RowSums[f] \in Nat
  BY <1>1, <1>2, SumIs DEF RowSums
<1>4. \A k \in AllStances : ColumnSums[k] = SumOf(Columns[k], Strata) /\ ColumnSums[k] \in Nat
  BY <1>1, <1>2, SumIs DEF ColumnSums
<1>5. SumOf(RowSums, Strata) = SumOf(ColumnSums, AllStances)
  <2>1. Crossed(Strata, AllStances, allocation, Columns, RowSums, ColumnSums)
    BY <1>2, <1>3, <1>4 DEF Crossed
  <2> QED
    BY <1>1, <2>1, SumIsDouble
<1>6. \A f \in Strata : RowLeft(f) = Sizes[f] - RowSums[f]
  BY <1>3 DEF RowLeft, Sizes
<1>7. \A k \in AllStances : ColumnLeft(k) = Counts[k] - ColumnSums[k]
  BY <1>4 DEF ColumnLeft, Counts, Columns
<1> QED
  BY <1>3, <1>4, <1>5, <1>6, <1>7

(* A sum below another that is equal to it is so at every index.             *)
LEMMA EqualSums ==
  ASSUME NEW S, IsFiniteSet(S), NEW f, NEW g, \A x \in S : f[x] \in Nat /\ g[x] \in Nat /\ f[x] <= g[x]
  PROVE  (\E x \in S : f[x] < g[x]) <=> SumOf(f, S) < SumOf(g, S)
<1>1. /\ SumOf(f, S) \in Nat /\ SumOf(g, S) \in Nat
      /\ (\E x \in S : f[x] < g[x]) => SumOf(f, S) < SumOf(g, S)
  BY SumIsMonotonic
<1>2. CASE ~ \E x \in S : f[x] < g[x]
  <2>1. \A x \in S : f[x] \in Nat /\ g[x] = f[x]
    BY <1>2
  <2>2. SumOf(g, S) = SumOf(f, S)
    BY <2>1, SumsAgree
  <2> QED
    BY <1>1, <1>2, <2>2
<1> QED
  BY <1>1, <1>2

(* A stratum lacks an agent exactly while a stance does.                     *)
LEMMA RowsAndColumns ==
  ASSUME PopulationValid, survey \in Surveys, Cloned, Allotted
  PROVE  (\E f \in Strata : RowLeft(f) > 0) <=> (\E k \in AllStances : ColumnLeft(k) > 0)
<1>1. /\ \A f \in Strata : RowSums[f] \in Nat /\ RowLeft(f) = Sizes[f] - RowSums[f]
      /\ \A k \in AllStances : ColumnSums[k] \in Nat /\ ColumnLeft(k) = Counts[k] - ColumnSums[k]
      /\ SumOf(RowSums, Strata) = SumOf(ColumnSums, AllStances)
  BY SumsOfAllocation DEF Allotted
<1>2. /\ IsFiniteSet(Strata) /\ IsFiniteSet(AllStances)
      /\ (\A f \in Strata : Sizes[f] \in Nat) /\ SumOf(Sizes, Strata) = survey.n
      /\ (\A k \in AllStances : Counts[k] \in Nat) /\ SumOf(Counts, AllStances) = survey.n
  BY StrataAre
<1>3. \A f \in Strata : RowSums[f] <= Sizes[f] /\ (RowSums[f] < Sizes[f] <=> RowLeft(f) > 0)
  BY <1>1, <1>2 DEF Allotted
<1>4. \A k \in AllStances : ColumnSums[k] <= Counts[k] /\ (ColumnSums[k] < Counts[k] <=> ColumnLeft(k) > 0)
  BY <1>1, <1>2 DEF Allotted
<1>5. (\E f \in Strata : RowSums[f] < Sizes[f]) <=> SumOf(RowSums, Strata) < survey.n
  BY <1>1, <1>2, <1>3, EqualSums
<1>6. (\E k \in AllStances : ColumnSums[k] < Counts[k]) <=> SumOf(ColumnSums, AllStances) < survey.n
  BY <1>1, <1>2, <1>4, EqualSums
<1> QED
  BY <1>1, <1>3, <1>4, <1>5, <1>6

(* The whole parts of the shares fit the strata and the stances.             *)
Floored == allocation = [f \in Strata |-> [k \in AllStances |-> Share(f, k) \div survey.n]]

LEMMA FloorsAreAllotted == PopulationValid /\ survey \in Surveys /\ Cloned /\ Floored => Allotted
<1>0. SUFFICES ASSUME PopulationValid, survey \in Surveys, Cloned, Floored PROVE Allotted
  OBVIOUS
<1> DEFINE n == survey.n
<1>1. /\ n \in Nat \ {0} /\ IsFiniteSet(Strata) /\ IsFiniteSet(AllStances)
      /\ (\A f \in Strata : Sizes[f] \in Nat /\ Sizes[f] = Cardinality(Stratum(f))) /\ SumOf(Sizes, Strata) = n
      /\ (\A k \in AllStances : Counts[k] \in Nat /\ Counts[k] = StanceCounts(n)[k]) /\ SumOf(Counts, AllStances) = n
  BY <1>0, StrataAre
<1>2. \A f \in Strata, k \in AllStances : Share(f, k) = Sizes[f] * Counts[k] /\ Share(f, k) = Counts[k] * Sizes[f]
  BY <1>1 DEF Share
<1>3. \A f \in Strata, k \in AllStances : allocation[f][k] = Share(f, k) \div n /\ Columns[k][f] = Share(f, k) \div n
  BY <1>0 DEF Columns, Floored
<1> HIDE DEF n
<1>4. ASSUME NEW f \in Strata
      PROVE  (\A k \in AllStances : allocation[f][k] \in Nat) /\ Sizes[f] - SumOf(allocation[f], AllStances) \in Nat
  <2> DEFINE c == Sizes[f]
             floors == allocation[f]
  <2>1. c \in Nat /\ \A k \in AllStances : Counts[k] \in Nat /\ floors[k] = (c * Counts[k]) \div n
    BY <1>1, <1>2, <1>3
  <2> HIDE DEF c, floors
  <2>2. Floors(floors, c, Counts, n, AllStances)
    BY <2>1 DEF Floors
  <2>3. (\A k \in AllStances : floors[k] \in Nat) /\ c - SumOf(floors, AllStances) \in Nat
    BY <1>1, <2>1, <2>2, FloorsFit
  <2> QED
    BY <2>3 DEF c, floors
<1>5. ASSUME NEW k \in AllStances PROVE Counts[k] - SumOf(Columns[k], Strata) \in Nat
  <2> DEFINE c == Counts[k]
             floors == Columns[k]
  <2>1. c \in Nat /\ \A f \in Strata : Sizes[f] \in Nat /\ floors[f] = (c * Sizes[f]) \div n
    BY <1>1, <1>2, <1>3
  <2> HIDE DEF c, floors
  <2>2. Floors(floors, c, Sizes, n, Strata)
    BY <2>1 DEF Floors
  <2>3. c - SumOf(floors, Strata) \in Nat
    BY <1>1, <2>1, <2>2, FloorsFit
  <2> QED
    BY <2>3 DEF c, floors
<1>6. allocation \in [Strata -> [AllStances -> Nat]]
  <2>1. \A f \in Strata : allocation[f] \in [AllStances -> Nat]
    <3>1. \A f \in Strata : allocation[f] = [k \in AllStances |-> Share(f, k) \div survey.n]
      BY <1>0 DEF Floored
    <3>2. \A f \in Strata : DOMAIN allocation[f] = AllStances /\ allocation[f] = [k \in AllStances |-> allocation[f][k]]
      BY <3>1
    <3> QED
      BY <1>4, <3>2
  <2>2. allocation = [f \in Strata |-> allocation[f]]
    BY <1>0 DEF Floored
  <2> QED
    BY <2>1, <2>2
<1>7. \A f \in Strata : RowLeft(f) \in Nat
  BY <1>1, <1>4 DEF RowLeft
<1>8. \A k \in AllStances : ColumnLeft(k) \in Nat
  BY <1>5 DEF ColumnLeft, Counts, Columns
<1> QED
  BY <1>6, <1>7, <1>8 DEF Allotted

(* One more at an index adds one to the sum.                                 *)
LEMMA SumOfOneMore ==
  ASSUME NEW S, IsFiniteSet(S), NEW f, NEW g, \A x \in S : f[x] \in Nat /\ g[x] \in Nat,
         NEW y \in S, g[y] = f[y] + 1, \A x \in S \ {y} : g[x] = f[x]
  PROVE  SumOf(g, S) = SumOf(f, S) + 1
<1> DEFINE R == S \ {y}
<1>1. IsFiniteSet(R) /\ \A x \in R : f[x] \in Nat /\ g[x] = f[x]
  BY FS_Subset
<1>2. SumOf(f, S) = f[y] + SumOf(f, R) /\ SumOf(g, S) = g[y] + SumOf(g, R)
  BY SumIs
<1> HIDE DEF R
<1>3. SumOf(g, R) = SumOf(f, R) /\ SumOf(f, R) \in Nat
  <2>1. SumOf(g, R) = SumOf(f, R)
    BY <1>1, SumsAgree
  <2>2. SumOf(f, R) \in Nat
    BY <1>1, SumIs
  <2> QED
    BY <2>1, <2>2
<1>4. f[y] \in Nat /\ g[y] = f[y] + 1
  OBVIOUS
<1> QED
  BY <1>2, <1>3, <1>4

(* An agent allocated to a cell whose stratum and stance both lack one.      *)
LEMMA OneMoreIsAllotted ==
  ASSUME PopulationValid, survey \in Surveys, Cloned, Allotted, NEW c \in OpenCells,
         allocation' = [allocation EXCEPT ![c[1]][c[2]] = @ + 1], UNCHANGED <<survey, members>>
  PROVE  Allotted'
<1> DEFINE F == Strata
           f0 == c[1]
           k0 == c[2]
<1>1. f0 \in F /\ k0 \in AllStances /\ RowLeft(f0) > 0 /\ ColumnLeft(k0) > 0
  BY DEF OpenCells
<1>2. IsFiniteSet(F) /\ IsFiniteSet(AllStances)
  BY StrataAre
<1>3. Strata' = F
  BY DEF Strata, Persons, FieldOf
<1>4. allocation \in [F -> [AllStances -> Nat]]
  BY DEF Allotted
<1> HIDE DEF F, f0, k0
<1>5. /\ allocation' \in [F -> [AllStances -> Nat]]
      /\ \A f \in F : \A k \in AllStances : allocation'[f][k] = IF f = f0 /\ k = k0 THEN allocation[f][k] + 1 ELSE allocation[f][k]
  <2>1. allocation' = [allocation EXCEPT ![f0] = [allocation[f0] EXCEPT ![k0] = allocation[f0][k0] + 1]]
    BY DEF f0, k0
  <2>2. allocation[f0] \in [AllStances -> Nat] /\ allocation[f0][k0] + 1 \in Nat
    BY <1>1, <1>4
  <2> DEFINE given == [allocation[f0] EXCEPT ![k0] = allocation[f0][k0] + 1]
  <2>3. given \in [AllStances -> Nat] /\ \A k \in AllStances : given[k] = IF k = k0 THEN allocation[f0][k] + 1 ELSE allocation[f0][k]
    BY <1>1, <2>2
  <2> HIDE DEF given
  <2>4. allocation' = [allocation EXCEPT ![f0] = given]
    BY <2>1 DEF given
  <2>5. allocation' \in [F -> [AllStances -> Nat]] /\ \A f \in F : allocation'[f] = IF f = f0 THEN given ELSE allocation[f]
    BY <1>1, <1>4, <2>3, <2>4
  <2> QED
    BY <2>3, <2>5
<1>6. \A f \in F : \A k \in AllStances : allocation[f][k] \in Nat /\ allocation'[f][k] \in Nat
  BY <1>4, <1>5
<1>7. ASSUME NEW f \in F PROVE RowLeft(f)' \in Nat
  <2> DEFINE was == allocation[f]
             now == allocation'[f]
  <2>1. \A k \in AllStances : was[k] \in Nat /\ now[k] \in Nat /\ now[k] = IF f = f0 /\ k = k0 THEN was[k] + 1 ELSE was[k]
    BY <1>5, <1>6
  <2>2. RowLeft(f) = Cardinality(Stratum(f)) - SumOf(was, AllStances) /\ RowLeft(f) \in Nat
    BY DEF RowLeft, Allotted, F
  <2>3. RowLeft(f)' = Cardinality(Stratum(f)) - SumOf(now, AllStances)
    BY DEF RowLeft, Stratum, Persons, FieldOf
  <2> HIDE DEF was, now
  <2>4. SumOf(was, AllStances) \in Nat
    BY <1>2, <2>1, SumIs
  <2>5. CASE f = f0
    <3>1. now[k0] = was[k0] + 1 /\ \A k \in AllStances \ {k0} : now[k] = was[k]
      BY <1>1, <2>1, <2>5
    <3>2. SumOf(now, AllStances) = SumOf(was, AllStances) + 1
      BY <1>1, <1>2, <2>1, <3>1, SumOfOneMore
    <3>3. Cardinality(Stratum(f)) \in Nat /\ RowLeft(f) > 0
      BY <1>1, <2>5, StrataAre DEF F
    <3> QED
      BY <2>2, <2>3, <2>4, <3>2, <3>3
  <2>6. CASE f # f0
    <3>1. \A k \in AllStances : was[k] \in Nat /\ now[k] = was[k]
      BY <2>1, <2>6
    <3>2. SumOf(now, AllStances) = SumOf(was, AllStances)
      BY <1>2, <3>1, SumsAgree
    <3> QED
      BY <2>2, <2>3, <3>2
  <2> QED
    BY <2>5, <2>6
<1>8. ASSUME NEW k \in AllStances PROVE ColumnLeft(k)' \in Nat
  <2> DEFINE was == [f \in F |-> allocation[f][k]]
             now == [f \in F |-> allocation'[f][k]]
  <2>1. \A f \in F : was[f] \in Nat /\ now[f] \in Nat /\ now[f] = IF f = f0 /\ k = k0 THEN was[f] + 1 ELSE was[f]
    BY <1>5, <1>6
  <2>2. ColumnLeft(k) = Counts[k] - SumOf(was, F) /\ ColumnLeft(k) \in Nat /\ Counts[k] \in Nat
    <3>1. Counts[k] \in Nat
      BY StrataAre
    <3> QED
      BY <3>1 DEF ColumnLeft, Allotted, F, Counts
  <2>3. ColumnLeft(k)' = Counts[k] - SumOf(now, F)
    BY <1>3 DEF ColumnLeft, Counts
  <2> HIDE DEF was, now
  <2>4. SumOf(was, F) \in Nat
    BY <1>2, <2>1, SumIs
  <2>5. CASE k = k0
    <3>1. now[f0] = was[f0] + 1 /\ \A f \in F \ {f0} : now[f] = was[f]
      BY <1>1, <2>1, <2>5
    <3>2. SumOf(now, F) = SumOf(was, F) + 1
      BY <1>1, <1>2, <2>1, <3>1, SumOfOneMore
    <3> QED
      BY <1>1, <2>2, <2>3, <2>4, <2>5, <3>2
  <2>6. CASE k # k0
    <3>1. \A f \in F : was[f] \in Nat /\ now[f] = was[f]
      BY <2>1, <2>6
    <3>2. SumOf(now, F) = SumOf(was, F)
      BY <1>2, <3>1, SumsAgree
    <3> QED
      BY <2>2, <2>3, <3>2
  <2> QED
    BY <2>5, <2>6
<1> QED
  BY <1>3, <1>5, <1>7, <1>8 DEF Allotted

(* Every agent holds a stance, and each stance has its count of agents.      *)
Dealt ==
  /\ stance \in [Persons -> Held]
  /\ \A k \in AllStances : Cardinality({a \in Persons : stance[a] = k}) = Counts[k]

(* Agents counted stratum by stratum.                                        *)
LEMMA CountByStratum ==
  ASSUME PopulationValid, survey \in Surveys, Cloned, NEW S \in SUBSET Persons,
         NEW sizes, \A f \in Strata : sizes[f] = Cardinality({a \in S : Fields[a] = f})
  PROVE  SumOf(sizes, Strata) = Cardinality(S)
<1>1. IsFiniteSet(Strata) /\ IsFiniteSet(Persons)
  BY StrataAre
<1>2. IsFiniteSet(S)
  BY <1>1, FS_Subset
<1>3. \A a \in S : Fields[a] \in Strata
  BY DEF Fields, Strata
<1>4. Parted(S, Fields, Strata, sizes)
  BY <1>3 DEF Parted
<1> QED
  BY <1>1, <1>2, <1>4, SumOfFibers

(* Dealt stratum by stratum, the stances have their counts.                  *)
LEMMA DealingsAreDealt ==
  ASSUME PopulationValid, survey \in Surveys, Cloned, Allotted, \A k \in AllStances : ColumnLeft(k) = 0,
         NEW s \in Dealings
  PROVE  s \in [Persons -> Held] /\ \A k \in AllStances : Cardinality({a \in Persons : s[a] = k}) = Counts[k]
<1>1. s \in [Persons -> Held]
  BY DEF Dealings
<1>2. \A f \in Strata, k \in AllStances : Cardinality({a \in Stratum(f) : s[a] = k}) = allocation[f][k]
  BY DEF Dealings
<1>3. IsFiniteSet(Strata) /\ IsFiniteSet(Persons)
  BY StrataAre
<1>4. ASSUME NEW k \in AllStances PROVE Cardinality({a \in Persons : s[a] = k}) = Counts[k]
  <2> DEFINE S == {a \in Persons : s[a] = k}
             sizes == Columns[k]
  <2>1. IsFiniteSet(S)
    BY <1>3, FS_Subset
  <2>2. \A a \in S : Fields[a] \in Strata /\ Fields[a] = FieldOf(a)
    BY DEF Fields, Strata
  <2>3. \A f \in Strata : {a \in S : Fields[a] = f} = {a \in Stratum(f) : s[a] = k}
    BY DEF Fields, Stratum
  <2>4. \A f \in Strata : sizes[f] = allocation[f][k]
    BY DEF Columns
  <2> HIDE DEF S, sizes
  <2>5. \A f \in Strata : sizes[f] = Cardinality({a \in S : Fields[a] = f})
    BY <1>2, <2>3, <2>4
  <2>6. SumOf(sizes, Strata) = Cardinality(S)
    <3>1. S \in SUBSET Persons
      BY DEF S
    <3> QED
      BY <2>5, <3>1, CountByStratum
  <2>7. ColumnSums[k] = SumOf(sizes, Strata)
    BY DEF ColumnSums, sizes
  <2>8. ColumnSums[k] \in Nat /\ Counts[k] - ColumnSums[k] = 0
    BY SumsOfAllocation DEF Allotted
  <2>9. Counts[k] \in Nat
    BY StrataAre
  <2> QED
    BY <2>6, <2>7, <2>8, <2>9 DEF S
<1> QED
  BY <1>1, <1>4

-----------------------------------------------------------------------------
(* The reasons                                                               *)

(* An agent's position in the pool of its stance is one of the pool's, and   *)
(* no two agents of a stance have the same.                                  *)
Position(a) == Cardinality(Earlier(a)) + 1

LEMMA PositionsAre ==
  ASSUME PopulationValid, survey \in Surveys, Cloned, Dealt
  PROVE  /\ \A a \in Persons : Position(a) \in 1 .. Counts[stance[a]]
         /\ \A a, b \in Persons : a < b /\ stance[a] = stance[b] => Position(a) < Position(b)
<1>1. IsFiniteSet(Persons) /\ Persons = 1 .. survey.n /\ survey.n \in Nat /\ \A k \in AllStances : Counts[k] \in Nat
  BY StrataAre
<1>2. \A a \in Persons : stance[a] \in AllStances /\ a \in Nat
  BY <1>1 DEF Dealt, Held
<1>3. \A a \in Persons : IsFiniteSet(Earlier(a)) /\ Cardinality(Earlier(a)) \in Nat /\ a \notin Earlier(a)
  <2>1. \A a \in Persons : Earlier(a) \subseteq Persons /\ a \notin Earlier(a)
    BY <1>2 DEF Earlier
  <2>2. \A a \in Persons : IsFiniteSet(Earlier(a))
    BY <1>1, <2>1, FS_Subset
  <2> QED
    BY <2>1, <2>2, FS_CardinalityType
<1>4. \A a \in Persons : IsFiniteSet(Earlier(a) \union {a}) /\ Cardinality(Earlier(a) \union {a}) = Position(a)
  BY <1>3, FS_AddElement DEF Position
<1>5. ASSUME NEW a \in Persons PROVE Position(a) \in 1 .. Counts[stance[a]]
  <2> DEFINE T == {b \in Persons : stance[b] = stance[a]}
  <2>1. Earlier(a) \union {a} \subseteq T /\ IsFiniteSet(T)
    BY <1>1, FS_Subset DEF Earlier
  <2>2. Cardinality(T) = Counts[stance[a]]
    BY <1>2 DEF Dealt
  <2> HIDE DEF T
  <2>3. Cardinality(Earlier(a) \union {a}) <= Cardinality(T)
    BY <2>1, FS_Subset
  <2>4. Position(a) \in Nat /\ 1 <= Position(a) /\ Counts[stance[a]] \in Nat
    BY <1>1, <1>2, <1>3 DEF Position
  <2> QED
    BY <1>4, <2>2, <2>3, <2>4
<1>6. ASSUME NEW a \in Persons, NEW b \in Persons, a < b, stance[a] = stance[b] PROVE Position(a) < Position(b)
  <2>1. Earlier(a) \union {a} \subseteq Earlier(b)
    BY <1>2, <1>6 DEF Earlier
  <2>2. Cardinality(Earlier(a) \union {a}) <= Cardinality(Earlier(b))
    BY <1>3, <2>1, FS_Subset
  <2> QED
    BY <1>3, <1>4, <2>2 DEF Position
<1> QED
  BY <1>5, <1>6

(* The reasons are of the agents' stances and all different.                 *)
Worded ==
  /\ \A a \in Persons : reason[a] \in survey.library[stance[a]]
  /\ IsInjective(reason)

LEMMA ReasonsAreWorded ==
  ASSUME PopulationValid, survey \in Surveys, Cloned, Dealt,
         \A k \in AllStances : ~(Cardinality(survey.library[k]) < StanceCounts(survey.n)[k]), NEW pools \in Pools
  PROVE  /\ \A a \in Persons : Deal(pools, a) \in survey.library[stance[a]]
         /\ IsInjective([a \in Persons |-> Deal(pools, a)])
<1> DEFINE library == survey.library
<1>1. SurveyValid(survey)
  BY DEF PopulationValid
<1>2. /\ \A k \in AllStances : IsFiniteSet(library[k])
      /\ \A j, k \in AllStances : j # k => library[j] \intersect library[k] = {}
  BY <1>1 DEF SurveyValid
<1>3. \A k \in AllStances : Cardinality(library[k]) \in Nat /\ Counts[k] \in Nat /\ Counts[k] <= Cardinality(library[k])
  <2>1. \A k \in AllStances : Cardinality(library[k]) \in Nat
    BY <1>2, FS_CardinalityType
  <2>2. \A k \in AllStances : Counts[k] \in Nat /\ Counts[k] = StanceCounts(survey.n)[k]
    BY StrataAre
  <2> QED
    BY <2>1, <2>2
<1>4. \A a \in Persons : stance[a] \in Held /\ stance[a] \in AllStances /\ a \in Nat
  <2>1. Persons = 1 .. survey.n /\ survey.n \in Nat
    BY StrataAre
  <2> QED
    BY <2>1 DEF Dealt, Held
<1>5. \A k \in Held : pools[k] \in [1 .. Cardinality(library[k]) -> library[k]] /\ IsInjective(pools[k])
  BY DEF Pools, Shuffles
<1>6. /\ \A a \in Persons : Position(a) \in 1 .. Counts[stance[a]]
      /\ \A a, b \in Persons : a < b /\ stance[a] = stance[b] => Position(a) < Position(b)
  BY PositionsAre
<1>7. \A a \in Persons : Deal(pools, a) = pools[stance[a]][Position(a)]
  BY DEF Deal, Position
<1> HIDE DEF library
<1>8. \A a \in Persons : Position(a) \in 1 .. Cardinality(library[stance[a]])
  BY <1>3, <1>4, <1>6
<1>9. ASSUME NEW a \in Persons PROVE Deal(pools, a) \in library[stance[a]]
  <2> DEFINE q == pools[stance[a]]
             L == library[stance[a]]
  <2>1. q \in [1 .. Cardinality(L) -> L] /\ Position(a) \in 1 .. Cardinality(L)
    BY <1>4, <1>5, <1>8
  <2>2. Deal(pools, a) = q[Position(a)]
    BY <1>7
  <2> HIDE DEF q, L
  <2>3. q[Position(a)] \in L
    BY <2>1
  <2> QED
    BY <2>2, <2>3 DEF L
<1>10. ASSUME NEW a \in Persons, NEW b \in Persons, Deal(pools, a) = Deal(pools, b) PROVE a = b
  <2>1. stance[a] = stance[b]
    BY <1>2, <1>4, <1>9, <1>10
  <2> DEFINE q == pools[stance[a]]
  <2>2. q[Position(a)] = q[Position(b)]
    BY <1>7, <1>10, <2>1
  <2>3. \A i, j \in 1 .. Cardinality(library[stance[a]]) : q[i] = q[j] => i = j
    BY <1>4, <1>5 DEF IsInjective
  <2> HIDE DEF q
  <2>4. Position(a) = Position(b)
    BY <1>8, <2>1, <2>2, <2>3
  <2>5. ~(Position(a) < Position(b)) /\ ~(Position(b) < Position(a))
    BY <1>3, <1>4, <1>6, <2>4
  <2> QED
    BY <1>4, <1>6, <2>1, <2>5
<1>11. IsInjective([a \in Persons |-> Deal(pools, a)])
  BY <1>10 DEF IsInjective
<1> QED
  BY <1>9, <1>11 DEF library

-----------------------------------------------------------------------------
(* What each step of the construction leaves to the next.                    *)
PopulationInv ==
  /\ survey \in Surveys
  /\ step \in {"residual", "population", "refused", "stances", "reasons", "built"}
  /\ DrawnOnce /\ Len(drawn) <= Residual
  /\ step # "residual" => Cloned
  /\ step = "stances" => Allotted
  /\ step \in {"reasons", "built"} => Dealt
  /\ step = "built" => Worded

LEMMA BeginsExact == PopulationValid /\ PopulationInit => PopulationInv
<1>1. SUFFICES ASSUME PopulationValid, PopulationInit PROVE PopulationInv
  OBVIOUS
<1>2. survey \in Surveys /\ step = "residual" /\ drawn = <<>>
  BY <1>1 DEF PopulationInit
<1>3. DrawnOnce /\ Len(drawn) = 0
  BY <1>2 DEF DrawnOnce, IsInjective, ToSet
<1>4. Residual \in Nat
  BY <1>1, <1>2, SurveyIs
<1> QED
  BY <1>2, <1>3, <1>4 DEF PopulationInv

(* What was built stays while what it was built from does.                   *)
LEMMA ClonesStay ==
  ASSUME UNCHANGED <<survey, drawn, members>>, DrawnOnce, Len(drawn) <= Residual
  PROVE  DrawnOnce' /\ Len(drawn)' <= Residual' /\ (Cloned => Cloned')
<1>1. DrawnOnce'
  BY DEF DrawnOnce, Donors, Fraction
<1>2. Residual' = Residual
  BY DEF Residual, Donors, Whole
<1>3. Cloned => Cloned'
  BY DEF Cloned, Donors, Whole, Fraction
<1> QED
  BY <1>1, <1>2, <1>3

LEMMA DrawKeepsExact == PopulationValid /\ PopulationInv /\ DrawResidual => PopulationInv'
<1>1. SUFFICES ASSUME PopulationValid, PopulationInv, DrawResidual PROVE PopulationInv'
  OBVIOUS
<1>2. survey \in Surveys /\ step = "residual" /\ DrawnOnce /\ Len(drawn) < Residual /\ survey' = survey
  BY <1>1 DEF PopulationInv, DrawResidual
<1>3. Available # {}
  BY <1>1, <1>2, ResidualIsAvailable
<1>4. PICK draw \in 0 .. SumOf(Fractions, Available) - 1 : drawn' = Append(drawn, Chosen(draw)) /\ step' = step
  BY <1>1, <1>3 DEF DrawResidual, Fractions
<1> DEFINE i == Chosen(draw)
<1>5. i \in Available
  BY <1>1, <1>2, ChosenIsAvailable
<1>6. i \in Donors /\ Fraction(i) > 0 /\ i \notin ToSet(drawn)
  BY <1>5 DEF Available
<1>7. drawn \in Seq(Donors) /\ IsInjective(drawn) /\ \A j \in ToSet(drawn) : Fraction(j) > 0
  BY <1>2 DEF DrawnOnce
<1>8. drawn' = Append(drawn, i)
  BY <1>4
<1> HIDE DEF i
<1>9. Donors' = Donors /\ Residual' = Residual /\ \A j : Fraction(j)' = Fraction(j)
  BY <1>2 DEF Donors, Residual, Fraction, Whole
<1>10. /\ drawn' \in Seq(Donors) /\ Len(drawn') = Len(drawn) + 1 /\ Len(drawn) \in Nat
       /\ \A a \in 1 .. Len(drawn) : drawn'[a] = drawn[a]
       /\ drawn'[Len(drawn) + 1] = i
       /\ DOMAIN drawn' = 1 .. Len(drawn) + 1 /\ DOMAIN drawn = 1 .. Len(drawn)
  BY <1>6, <1>7, <1>8
<1>11. \A a \in 1 .. Len(drawn) : drawn[a] \in ToSet(drawn) /\ drawn[a] # i
  BY <1>6, <1>10 DEF ToSet
<1>12. IsInjective(drawn')
  <2>1. ASSUME NEW a \in 1 .. Len(drawn) + 1, NEW b \in 1 .. Len(drawn) + 1, drawn'[a] = drawn'[b] PROVE a = b
    <3>1. \A x, y \in 1 .. Len(drawn) : drawn[x] = drawn[y] => x = y
      BY <1>7, <1>10 DEF IsInjective
    <3>2. CASE a \in 1 .. Len(drawn) /\ b \in 1 .. Len(drawn)
      BY <1>10, <2>1, <3>1, <3>2
    <3>3. CASE a = Len(drawn) + 1 /\ b = Len(drawn) + 1
      BY <3>3
    <3>4. CASE a = Len(drawn) + 1 /\ b \in 1 .. Len(drawn)
      BY <1>10, <1>11, <2>1, <3>4
    <3>5. CASE b = Len(drawn) + 1 /\ a \in 1 .. Len(drawn)
      BY <1>10, <1>11, <2>1, <3>5
    <3> QED
      BY <1>10, <2>1, <3>2, <3>3, <3>4, <3>5
  <2> QED
    BY <1>10, <2>1 DEF IsInjective
<1>13. \A j \in ToSet(drawn') : Fraction(j) > 0
  <2>1. ASSUME NEW j \in ToSet(drawn') PROVE Fraction(j) > 0
    <3>1. PICK a \in 1 .. Len(drawn) + 1 : drawn'[a] = j
      BY <1>10, <2>1 DEF ToSet
    <3>2. CASE a = Len(drawn) + 1
      BY <1>6, <1>10, <3>1, <3>2
    <3>3. CASE a \in 1 .. Len(drawn)
      BY <1>7, <1>10, <1>11, <3>1, <3>3
    <3> QED
      BY <1>10, <3>2, <3>3
  <2> QED
    BY <2>1
<1>14. DrawnOnce'
  BY <1>9, <1>10, <1>12, <1>13 DEF DrawnOnce
<1>15. Residual \in Nat
  BY <1>1, <1>2, SurveyIs
<1>16. Len(drawn') <= Residual'
  BY <1>2, <1>9, <1>10, <1>15
<1> QED
  BY <1>2, <1>4, <1>14, <1>16 DEF PopulationInv

LEMMA BuildKeepsExact == PopulationValid /\ PopulationInv /\ BuildPopulation => PopulationInv'
<1>1. SUFFICES ASSUME PopulationValid, PopulationInv, BuildPopulation PROVE PopulationInv'
  OBVIOUS
<1>2. survey \in Surveys /\ DrawnOnce /\ Len(drawn) = Residual /\ UNCHANGED <<survey, drawn>> /\ members' = Clones
      /\ step' \in {"population", "refused"}
  BY <1>1 DEF PopulationInv, BuildPopulation
<1>3. /\ Clones \in Seq(Donors) /\ Len(Clones) = survey.n
      /\ \A i \in Donors : Cardinality(Places(Clones, i)) - Whole(i) \in {0, IF Fraction(i) > 0 THEN 1 ELSE 0}
  BY <1>1, <1>2, ClonesAre
<1>4. Cloned'
  <2>1. Donors' = Donors /\ \A i : Whole(i)' = Whole(i) /\ Fraction(i)' = Fraction(i)
    BY <1>2 DEF Donors, Whole, Fraction
  <2> QED
    BY <1>2, <1>3, <2>1 DEF Cloned
<1>5. DrawnOnce' /\ Residual' = Residual
  BY <1>2 DEF DrawnOnce, Donors, Fraction, Residual, Whole
<1>6. Residual \in Nat
  BY <1>1, <1>2, SurveyIs
<1> QED
  BY <1>2, <1>4, <1>5, <1>6 DEF PopulationInv

LEMMA BeginKeepsExact == PopulationValid /\ PopulationInv /\ BeginStances => PopulationInv'
<1>1. SUFFICES ASSUME PopulationValid, PopulationInv, BeginStances PROVE PopulationInv'
  OBVIOUS
<1>2. /\ survey \in Surveys /\ DrawnOnce /\ Len(drawn) <= Residual /\ Cloned
      /\ UNCHANGED <<survey, drawn, members>> /\ step' = "stances"
      /\ allocation' = [f \in Strata |-> [k \in AllStances |-> Share(f, k) \div survey.n]]
  BY <1>1 DEF PopulationInv, BeginStances
<1>3. DrawnOnce' /\ Len(drawn)' <= Residual' /\ Cloned'
  BY <1>2, ClonesStay
<1>4. Allotted'
  <2>1. Strata' = Strata /\ \A f, k : Share(f, k)' = Share(f, k)
    BY <1>2 DEF Strata, Share, Stratum, Persons, FieldOf
  <2>2. PopulationValid' /\ (survey \in Surveys)' /\ Cloned' /\ Floored'
    BY <1>1, <1>2, <1>3, <2>1 DEF PopulationValid, Floored
  <2>3. (PopulationValid /\ survey \in Surveys /\ Cloned /\ Floored => Allotted)'
    BY FloorsAreAllotted, PTL
  <2> QED
    BY <2>2, <2>3
<1> QED
  BY <1>2, <1>3, <1>4 DEF PopulationInv

(* An open cell there is while a stratum lacks an agent.                     *)
LEMMA AllocateKeepsExact == PopulationValid /\ PopulationInv /\ AllocateOne => PopulationInv'
<1>1. SUFFICES ASSUME PopulationValid, PopulationInv, AllocateOne PROVE PopulationInv'
  OBVIOUS
<1>2. /\ survey \in Surveys /\ DrawnOnce /\ Len(drawn) <= Residual /\ Cloned /\ Allotted /\ step = "stances"
      /\ UNCHANGED <<survey, drawn, members>> /\ \E f \in Strata : RowLeft(f) > 0
  BY <1>1 DEF PopulationInv, AllocateOne
<1>3. DrawnOnce' /\ Len(drawn)' <= Residual' /\ Cloned'
  BY <1>2, ClonesStay
<1>4. OpenCells # {}
  <2>1. PICK f \in Strata : RowLeft(f) > 0
    BY <1>2
  <2>2. PICK k \in AllStances : ColumnLeft(k) > 0
    BY <1>1, <1>2, RowsAndColumns
  <2>3. <<f, k>> \in OpenCells
    BY <2>1, <2>2 DEF OpenCells
  <2> QED
    BY <2>3
<1>5. PICK c \in OpenCells : allocation' = [allocation EXCEPT ![c[1]][c[2]] = @ + 1]
  BY <1>1, <1>4 DEF AllocateOne
<1>6. step' = "stances"
  BY <1>1, <1>2, <1>4 DEF AllocateOne
<1>7. Allotted'
  BY <1>1, <1>2, <1>5, OneMoreIsAllotted
<1> QED
  BY <1>2, <1>3, <1>6, <1>7 DEF PopulationInv

(* Once no stratum lacks an agent no stance does.                            *)
LEMMA AssignKeepsExact == PopulationValid /\ PopulationInv /\ AssignStances => PopulationInv'
<1>1. SUFFICES ASSUME PopulationValid, PopulationInv, AssignStances PROVE PopulationInv'
  OBVIOUS
<1>2. /\ survey \in Surveys /\ DrawnOnce /\ Len(drawn) <= Residual /\ Cloned /\ Allotted
      /\ UNCHANGED <<survey, drawn, members>> /\ \A f \in Strata : RowLeft(f) = 0
  BY <1>1 DEF PopulationInv, AssignStances
<1>3. DrawnOnce' /\ Len(drawn)' <= Residual' /\ Cloned'
  BY <1>2, ClonesStay
<1>4. \A k \in AllStances : ColumnLeft(k) = 0
  <2>1. ~ \E f \in Strata : RowLeft(f) > 0
    BY <1>2
  <2>2. ~ \E k \in AllStances : ColumnLeft(k) > 0
    BY <1>1, <1>2, <2>1, RowsAndColumns
  <2>3. \A k \in AllStances : ColumnLeft(k) \in Nat
    BY <1>2 DEF Allotted
  <2> QED
    BY <2>2, <2>3
<1>5. CASE Balanced
  <2>1. stance' \in Dealings /\ step' = "reasons"
    BY <1>1, <1>4, <1>5 DEF AssignStances
  <2>2. /\ stance' \in [Persons -> Held]
        /\ \A k \in AllStances : Cardinality({a \in Persons : stance'[a] = k}) = Counts[k]
    BY <1>1, <1>2, <1>4, <2>1, DealingsAreDealt
  <2>3. Persons' = Persons /\ Held' = Held /\ Counts' = Counts
    BY <1>2 DEF Persons, Held, Counts
  <2>4. Dealt'
    BY <2>2, <2>3 DEF Dealt
  <2> QED
    BY <1>2, <1>3, <2>1, <2>4 DEF PopulationInv
<1>6. CASE ~Balanced
  <2>1. step' = "refused"
    BY <1>1, <1>4, <1>6 DEF AssignStances
  <2> QED
    BY <1>2, <1>3, <2>1 DEF PopulationInv
<1> QED
  BY <1>5, <1>6

LEMMA ReasonsKeepExact == PopulationValid /\ PopulationInv /\ AssignReasons => PopulationInv'
<1>1. SUFFICES ASSUME PopulationValid, PopulationInv, AssignReasons PROVE PopulationInv'
  OBVIOUS
<1>2. /\ survey \in Surveys /\ DrawnOnce /\ Len(drawn) <= Residual /\ Cloned /\ Dealt
      /\ UNCHANGED <<survey, drawn, members, stance>>
  BY <1>1 DEF PopulationInv, AssignReasons
<1>3. DrawnOnce' /\ Len(drawn)' <= Residual' /\ Cloned'
  BY <1>2, ClonesStay
<1>4. Persons' = Persons /\ Dealt'
  <2>1. Persons' = Persons /\ Held' = Held /\ Counts' = Counts
    BY <1>2 DEF Persons, Held, Counts
  <2> QED
    BY <1>2, <2>1 DEF Dealt
<1>5. CASE \E k \in AllStances : Cardinality(survey.library[k]) < StanceCounts(survey.n)[k]
  <2>1. step' = "refused"
    BY <1>1, <1>5 DEF AssignReasons
  <2> QED
    BY <1>2, <1>3, <2>1 DEF PopulationInv
<1>6. CASE \A k \in AllStances : ~(Cardinality(survey.library[k]) < StanceCounts(survey.n)[k])
  <2>1. PICK pools \in Pools : reason' = [a \in Persons |-> Deal(pools, a)]
    BY <1>1, <1>6 DEF AssignReasons
  <2>2. /\ \A a \in Persons : Deal(pools, a) \in survey.library[stance[a]]
        /\ IsInjective([a \in Persons |-> Deal(pools, a)])
    BY <1>1, <1>2, <1>6, ReasonsAreWorded
  <2>3. \A a \in Persons : reason'[a] = Deal(pools, a)
    BY <2>1
  <2>4. IsInjective(reason')
    BY <2>1, <2>2
  <2>5. Worded'
    <3>1. \A a \in Persons : reason'[a] \in survey'.library[stance'[a]]
      BY <1>2, <2>2, <2>3
    <3> QED
      BY <1>4, <2>4, <3>1 DEF Worded
  <2>6. step' = "built"
    BY <1>1, <1>6 DEF AssignReasons
  <2> QED
    BY <1>2, <1>3, <1>4, <2>5, <2>6 DEF PopulationInv
<1> QED
  BY <1>5, <1>6

LEMMA StillIsExact == PopulationInv /\ UNCHANGED populationVars => PopulationInv'
<1>1. SUFFICES ASSUME PopulationInv, UNCHANGED populationVars PROVE PopulationInv'
  OBVIOUS
<1>2. UNCHANGED <<survey, step, drawn, members, allocation, stance, reason>>
  BY <1>1 DEF populationVars
<1>3. DrawnOnce /\ Len(drawn) <= Residual
  BY <1>1 DEF PopulationInv
<1>4. DrawnOnce' /\ Len(drawn)' <= Residual' /\ (Cloned => Cloned')
  BY <1>2, <1>3, ClonesStay
<1>5. Allotted => Allotted'
  BY <1>2 DEF Allotted, RowLeft, ColumnLeft, Strata, Stratum, Persons, FieldOf
<1>6. Dealt => Dealt'
  BY <1>2 DEF Dealt, Persons, Held, Counts
<1>7. Worded => Worded'
  BY <1>2 DEF Worded, Persons
<1> QED
  BY <1>1, <1>2, <1>4, <1>5, <1>6, <1>7 DEF PopulationInv

LEMMA InvIsExact == PopulationValid /\ PopulationInv => PopulationIsExact
<1>1. SUFFICES ASSUME PopulationValid, PopulationInv PROVE PopulationIsExact
  OBVIOUS
<1>2. survey \in Surveys /\ step # "unrealizable"
  BY <1>1 DEF PopulationInv
<1>3. ASSUME step # "residual"
      PROVE  /\ Len(members) = survey.n
             /\ \A i \in Donors : Cardinality({a \in Persons : members[a] = i}) - Whole(i) \in {0, IF Fraction(i) > 0 THEN 1 ELSE 0}
  <2>1. Cloned
    BY <1>1, <1>3 DEF PopulationInv
  <2>2. \A i \in Donors : {a \in Persons : members[a] = i} = Places(members, i)
    <3>1. Persons = 1 .. Len(members)
      BY <2>1 DEF Cloned, Persons
    <3> QED
      BY <3>1 DEF Places
  <2> QED
    BY <2>1, <2>2 DEF Cloned
<1>4. ASSUME step \in {"reasons", "built"}
      PROVE  LET counts == StanceCounts(survey.n)
             IN \A k \in AllStances : Cardinality({a \in Persons : stance[a] = k}) = counts[k]
  BY <1>1, <1>4 DEF PopulationInv, Dealt, Counts
<1>5. ASSUME step = "built"
      PROVE  (\A a \in Persons : reason[a] \in survey.library[stance[a]]) /\ IsInjective(reason)
  BY <1>1, <1>5 DEF PopulationInv, Worded
<1> QED
  BY <1>2, <1>3, <1>4, <1>5 DEF PopulationIsExact

(* No rounding of a population loses an agent (population.py,                *)
(* initialization.py): for every survey whose weights are shares of n agents *)
(* no draw and no allocation is unrealizable, every donor has its weight     *)
(* rounded down or up, the stances have the approved counts, and no two      *)
(* agents are given the same words, nor words of another stance.             *)
THEOREM PopulationStaysExact == ASSUME PopulationValid PROVE PopulationSpec => []PopulationIsExact
<1>1. PopulationInit => PopulationInv
  BY BeginsExact
<1>2. PopulationInv /\ [PopulationNext]_populationVars => PopulationInv'
  BY DrawKeepsExact, BuildKeepsExact, BeginKeepsExact, AllocateKeepsExact, AssignKeepsExact, ReasonsKeepExact, StillIsExact
     DEF PopulationNext
<1>3. PopulationInv => PopulationIsExact
  BY InvIsExact
<1> QED
  BY <1>1, <1>2, <1>3, PTL DEF PopulationSpec

-----------------------------------------------------------------------------
(* The handles on the run store                                              *)

USE HandleAssumption

Versions == Nat \union {None}

TypeOK ==
  /\ row \in Nat /\ written \in Nat /\ started \in Nat
  /\ lease \in Handles \union {None}
  /\ tx \in [Handles -> {"none", "read", "write"}]
  /\ dirty \in [Handles -> Versions]
  /\ version \in [Handles -> Nat]
  /\ changes \in [Handles -> Nat]
  /\ verified \in [Handles -> (Nat \X Nat) \union {Unverified}]
  /\ cache \in [Handles -> Versions]
  /\ pending \in [Handles -> Versions]
  /\ trusted \in [Handles -> BOOLEAN]

(* A write transaction is the lease holder's. Its handle trusts its memory; *)
(* the cache is still the committed row, so that a ROLLBACK leaves nothing  *)
(* to undo, and the row of the transaction is the pending one, if any.      *)
WriterInv(h) ==
  tx[h] = "write" =>
    /\ lease = h
    /\ trusted[h]
    /\ cache[h] = row
    /\ dirty[h] = IF pending[h] = None THEN row ELSE pending[h]

(* A signature was one of this connection, and data_version only grows; a   *)
(* handle whose signature is still the verified one has the committed row.  *)
SignatureInv(h) ==
  /\ verified[h] # Unverified => verified[h][1] <= version[h]
  /\ IsVerified(h) => cache[h] = row

HandleInv == TypeOK /\ \A h \in Handles : WriterInv(h) /\ SignatureInv(h)

-----------------------------------------------------------------------------
LEMMA InitInv == Init => HandleInv
BY DEF Init, HandleInv, TypeOK, Versions, WriterInv, SignatureInv, IsVerified, Signature,
       Unverified

LEMMA TypeIsKept == HandleInv /\ [Next]_vars => TypeOK'
<1> SUFFICES ASSUME HandleInv, [Next]_vars PROVE TypeOK'
  OBVIOUS
<1> USE DEF HandleInv, TypeOK, Versions, Set
<1>1. ASSUME NEW h \in Handles, Acquire(h) \/ Release(h) PROVE TypeOK'
  BY <1>1 DEF Acquire, Release, sqlite, memory
<1>2. ASSUME NEW h \in Handles, Verify(h) PROVE TypeOK'
  <2>1. Stored(h) \in Versions /\ Signature(h) \in Nat \X Nat
    BY DEF Stored, Signature
  <2> QED
    BY <1>2, <2>1 DEF Verify, database, sqlite
<1>3. ASSUME NEW h \in Handles, BeginRead(h) \/ EndRead(h) PROVE TypeOK'
  BY <1>3 DEF BeginRead, EndRead, database, memory
<1>4. ASSUME NEW h \in Handles, BeginWrite(h) PROVE TypeOK'
  <2>1. Signature(h) \in Nat \X Nat
    BY DEF Signature
  <2> QED
    BY <1>4, <2>1 DEF BeginWrite
<1>5. ASSUME NEW h \in Handles, Insert(h) \/ Replace(h) PROVE TypeOK'
  BY <1>5 DEF Insert, Replace, database, memory
<1>6. ASSUME NEW h \in Handles, Commit(h) PROVE TypeOK'
  <2>1. Signature(h) \in Nat \X Nat
    BY DEF Signature
  <2>2. dirty[h] \in Nat
    BY <1>6 DEF Commit, WriterInv
  <2> QED
    BY <1>6, <2>1, <2>2 DEF Commit
<1>7. ASSUME NEW h \in Handles, Rollback(h) PROVE TypeOK'
  BY <1>7 DEF Rollback, database, memory
<1>8. CASE UNCHANGED vars
  BY <1>8 DEF vars, database, sqlite, memory
<1> QED
  BY <1>1, <1>2, <1>3, <1>4, <1>5, <1>6, <1>7, <1>8 DEF Next

(* While h writes nobody else does, so the row h began with stays.          *)
LEMMA OneWriter ==
  ASSUME HandleInv, NEW g \in Handles, NEW h \in Handles, tx[g] = "write", tx[h] = "write"
  PROVE  g = h
BY DEF HandleInv, WriterInv

(* A step that leaves the row alone and all that handle g has keeps g's     *)
(* part of the invariant.                                                   *)
LEMMA OthersAreKept ==
  ASSUME HandleInv, NEW g \in Handles, UNCHANGED row,
         tx[g] = "write" => lease' = lease,
         UNCHANGED <<tx[g], dirty[g], version[g], changes[g],
                     verified[g], cache[g], pending[g], trusted[g]>>
  PROVE  WriterInv(g)' /\ SignatureInv(g)'
BY DEF HandleInv, WriterInv, SignatureInv, IsVerified, Signature, Unverified

LEMMA StepInv == HandleInv /\ [Next]_vars => HandleInv'
<1> SUFFICES ASSUME HandleInv, [Next]_vars, NEW g \in Handles
             PROVE  WriterInv(g)' /\ SignatureInv(g)'
  BY TypeIsKept DEF HandleInv
<1>0. TypeOK /\ WriterInv(g) /\ SignatureInv(g)
  BY DEF HandleInv
<1> USE DEF TypeOK, Set
<1>1. ASSUME NEW h \in Handles, Acquire(h) \/ Release(h)
      PROVE  WriterInv(g)' /\ SignatureInv(g)'
  <2>1. tx[g] = "write" => lease' = lease
    BY <1>0, <1>1 DEF Acquire, Release, WriterInv
  <2> QED
    BY <1>0, <1>1, <2>1, OthersAreKept DEF Acquire, Release, sqlite, memory
<1>2. ASSUME NEW h \in Handles, Verify(h) PROVE WriterInv(g)' /\ SignatureInv(g)'
  <2>1. CASE g = h
    <3>1. Stored(h) = row
      BY <1>2 DEF Verify, Stored
    <3>2. tx'[h] # "write" /\ row' = row /\ version'[h] = version[h]
      BY <1>2 DEF Verify, database, sqlite
    <3>3. verified'[h] = Signature(h) /\ cache'[h] = row
      BY <1>0, <1>2, <3>1 DEF Verify
    <3> QED
      BY <1>0, <2>1, <3>2, <3>3 DEF WriterInv, SignatureInv, Signature, IsVerified
  <2>2. CASE g # h
    BY <1>0, <1>2, <2>2, OthersAreKept DEF Verify, database, sqlite
  <2> QED
    BY <2>1, <2>2
<1>3. ASSUME NEW h \in Handles, BeginRead(h) \/ EndRead(h)
      PROVE  WriterInv(g)' /\ SignatureInv(g)'
  <2>1. CASE g = h
    BY <1>0, <1>3, <2>1 DEF BeginRead, EndRead, database, memory,
       WriterInv, SignatureInv, Signature, IsVerified
  <2>2. CASE g # h
    BY <1>0, <1>3, <2>2, OthersAreKept DEF BeginRead, EndRead, database, memory
  <2> QED
    BY <2>1, <2>2
<1>4. ASSUME NEW h \in Handles, BeginWrite(h) PROVE WriterInv(g)' /\ SignatureInv(g)'
  <2>1. CASE g = h
    <3>1. cache'[h] = row
      BY <1>0, <1>4, <2>1 DEF BeginWrite, SignatureInv
    <3>2. /\ lease' = h /\ row' = row /\ version' = version /\ changes' = changes
          /\ trusted'[h] /\ pending'[h] = None /\ dirty'[h] = row
          /\ verified'[h] = Signature(h)
      BY <1>0, <1>4 DEF BeginWrite
    <3> QED
      BY <1>0, <2>1, <3>1, <3>2 DEF WriterInv, SignatureInv, Signature
  <2>2. CASE g # h
    BY <1>0, <1>4, <2>2, OthersAreKept DEF BeginWrite
  <2> QED
    BY <2>1, <2>2
<1>5. ASSUME NEW h \in Handles, Insert(h) \/ Replace(h)
      PROVE  WriterInv(g)' /\ SignatureInv(g)'
  <2>1. CASE g = h
    <3>1. /\ lease = h /\ trusted[h] /\ cache[h] = row
          /\ dirty[h] = IF pending[h] = None THEN row ELSE pending[h]
      BY <1>0, <1>5, <2>1 DEF Insert, Replace, WriterInv
    <3>2. /\ lease' = lease /\ row' = row /\ trusted' = trusted /\ cache' = cache
          /\ version' = version /\ verified' = verified
      BY <1>5 DEF Insert, Replace, database, memory
    <3>3. SignatureInv(h)'
      BY <1>0, <2>1, <3>1, <3>2 DEF SignatureInv
    <3>4. dirty'[h] = IF pending'[h] = None THEN row ELSE pending'[h]
      <4>1. CASE Insert(h)
        BY <3>1, <4>1 DEF Insert, memory
      <4>2. CASE Replace(h)
        BY <1>0, <4>2 DEF Replace
      <4> QED
        BY <1>5, <4>1, <4>2
    <3> QED
      BY <2>1, <3>1, <3>2, <3>3, <3>4 DEF WriterInv
  <2>2. CASE g # h
    BY <1>0, <1>5, <2>2, OthersAreKept DEF Insert, Replace, database, memory
  <2> QED
    BY <2>1, <2>2
<1>6. ASSUME NEW h \in Handles, Commit(h) PROVE WriterInv(g)' /\ SignatureInv(g)'
  <2>1. /\ cache[h] = row
        /\ dirty[h] = IF pending[h] = None THEN row ELSE pending[h]
    BY <1>6 DEF Commit, HandleInv, WriterInv
  <2>2. CASE g = h
    <3>1. cache'[h] = row'
      BY <1>0, <1>6, <2>1 DEF Commit
    <3>2. tx'[h] # "write" /\ verified'[h] = Signature(h) /\ version'[h] = version[h]
      BY <1>0, <1>6 DEF Commit
    <3> QED
      BY <1>0, <2>2, <3>1, <3>2 DEF WriterInv, SignatureInv, Signature
  <2>3. CASE g # h
    <3>1. tx[g] # "write"
      BY <1>6, <2>3, OneWriter DEF Commit
    <3>2. tx'[g] = tx[g] /\ verified'[g] = verified[g] /\ version'[g] = version[g] + 1
      BY <1>0, <1>6, <2>3 DEF Commit
    <3>3. WriterInv(g)'
      BY <3>1, <3>2 DEF WriterInv
    <3>4. verified[g] # Unverified => verified[g][1] # version[g] + 1
      BY <1>0 DEF SignatureInv
    <3>5. Signature(g)' # Unverified /\ Signature(g)'[1] = version[g] + 1
      BY <3>2 DEF Signature, Unverified
    <3>6. ~IsVerified(g)'
      BY <3>2, <3>4, <3>5 DEF IsVerified
    <3> QED
      BY <1>0, <3>2, <3>3, <3>6 DEF SignatureInv
  <2> QED
    BY <2>2, <2>3
<1>7. ASSUME NEW h \in Handles, Rollback(h) PROVE WriterInv(g)' /\ SignatureInv(g)'
  <2>1. CASE g = h
    BY <1>0, <1>7, <2>1 DEF Rollback, database, memory,
       WriterInv, SignatureInv, Signature, IsVerified
  <2>2. CASE g # h
    BY <1>0, <1>7, <2>2, OthersAreKept DEF Rollback, database, memory
  <2> QED
    BY <2>1, <2>2
<1>8. CASE UNCHANGED vars
  BY <1>0, <1>8, OthersAreKept DEF vars, database, sqlite, memory
<1> QED
  BY <1>1, <1>2, <1>3, <1>4, <1>5, <1>6, <1>7, <1>8 DEF Next

LEMMA HandleCorrect == Spec => []HandleInv
BY InitInv, StepInv, PTL DEF Spec

-----------------------------------------------------------------------------
(* Whatever other handles committed, and whatever this one rolled back, a   *)
(* write derives the next state from the row of its own transaction.        *)
THEOREM WritersSeeTheirRow == Spec => []WritesBuildOnTheRow
<1>1. HandleInv => WritesBuildOnTheRow
  BY DEF HandleInv, TypeOK, Versions, WriterInv, WritesBuildOnTheRow, Answer
<1> QED
  BY <1>1, HandleCorrect, PTL

(* Between transactions execution_state() is the committed row, from memory *)
(* or from the file.                                                        *)
THEOREM ReadersSeeTheRow == Spec => []UnpinnedReadsAreCommitted
<1>1. HandleInv => UnpinnedReadsAreCommitted
  BY DEF HandleInv, SignatureInv, UnpinnedReadsAreCommitted, Answer, Stored
<1> QED
  BY <1>1, HandleCorrect, PTL

=============================================================================
