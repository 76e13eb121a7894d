------------------------------ MODULE Schedule ------------------------------
(***************************************************************************)
(* The schedule of a matched seed (schedule.py): weights of attention and  *)
(* chances to publish are sampled under finite budgets of draws, a weighted*)
(* draw per event says who acts, another per event says whether the agent  *)
(* publishes, and the whole is frozen before any run.                      *)
(*                                                                         *)
(* Weights are whole numbers (only their shares count), chances and uniform*)
(* draws multiples of 1/Grain.  What a seeded stream draws is a choice.    *)
(***************************************************************************)
EXTENDS Integers, Sequences, FiniteSets, SequencesExt

CONSTANTS
  Plans,          \* [n, sweeps, family, lurkers, attempts]
  Weights,        \* the weights sampling may accept
  Grain,          \* of the uniform draws
  MaxDraws,       \* _MAX_DRAWS_PER_AGENT
  MaxPopulation, MaxSweeps, MaxEvents   \* the capacities of the platform

VARIABLES
  plan,           \* what is asked for
  phase,          \* the artifact being built
  tries,          \* candidates rejected for the agent at hand
  weights,        \* the attention of each agent
  chances,        \* [lurker, chance] of each agent
  slots,          \* [ordinal, sweep, draw, agent] of each event
  flags           \* which events publish

PlanValid(p) ==
  /\ p.n \in Nat \ {0} /\ p.sweeps \in Nat \ {0} /\ p.attempts \in Nat \ {0}
  /\ p.family \in {"equal_weight", "truncated"}
  /\ p.lurkers \in {"never", "maybe", "always"}      \* structural_lurker_probability: 0, between, 1

ScheduleValid ==
  /\ Weights \subseteq Nat \ {0} /\ Grain \in Nat \ {0}
  /\ \A p \in Plans : PlanValid(p)

ScheduleInit ==
  /\ plan \in Plans /\ phase = "asked" /\ tries = 0
  /\ weights = <<>> /\ chances = <<>> /\ slots = <<>> /\ flags = <<>>

RefusePlan == phase' = "refused" /\ UNCHANGED <<tries, weights, chances, slots, flags>>

(* _agent_ids: no more agents than the platform takes.                      *)
Ask ==
  /\ phase = "asked"
  /\ IF plan.n > MaxPopulation THEN RefusePlan
     ELSE phase' = "attention" /\ UNCHANGED <<tries, weights, chances, slots, flags>>
  /\ UNCHANGED plan

(* build_attention_artifact: equal weights draw nothing.                    *)
EqualWeights ==
  /\ phase = "attention" /\ plan.family = "equal_weight"
  /\ weights' = [a \in 1 .. plan.n |-> 1] /\ phase' = "expression"
  /\ UNCHANGED <<plan, tries, chances, slots, flags>>

(* _sample_true_truncated: a candidate outside the bounds is rejected, up   *)
(* to a number of times; it is never clipped to the bound.                  *)
AcceptWeight ==
  /\ phase = "attention" /\ plan.family = "truncated"
  /\ \E w \in Weights : weights' = Append(weights, w)
  /\ tries' = 0 /\ phase' = IF Len(weights') = plan.n THEN "expression" ELSE phase
  /\ UNCHANGED <<plan, chances, slots, flags>>

Reject(most) ==
  IF tries + 1 >= most THEN RefusePlan
  ELSE tries' = tries + 1 /\ UNCHANGED <<phase, weights, chances, slots, flags>>

RejectWeight ==
  /\ phase = "attention" /\ plan.family = "truncated" /\ Reject(MaxDraws) /\ UNCHANGED plan

-----------------------------------------------------------------------------
(* build_expression_artifact: a lurker never publishes ...                  *)
WithChance(entry) ==
  /\ chances' = Append(chances, entry)
  /\ tries' = 0 /\ phase' = IF Len(chances') = plan.n THEN "activation" ELSE phase
  /\ UNCHANGED <<plan, weights, slots, flags>>

DrawLurker ==
  /\ phase = "expression" /\ tries = 0 /\ plan.lurkers # "never"
  /\ WithChance([lurker |-> TRUE, chance |-> 0])

(* ... and every other agent has a chance strictly inside 0 and 1, sampled  *)
(* within a budget of attempts.                                             *)
DrawChance ==
  /\ phase = "expression" /\ plan.lurkers # "always"
  /\ \E chance \in 1 .. Grain - 1 : WithChance([lurker |-> FALSE, chance |-> chance])

RejectChance ==
  /\ phase = "expression" /\ plan.lurkers # "always" /\ Reject(plan.attempts) /\ UNCHANGED plan

-----------------------------------------------------------------------------
(* build_activation_schedule: with replacement; the agent in whose share of *)
(* the cumulative weights the event's own draw falls.                       *)
EventCount == plan.n * plan.sweeps
(* _build_event_rng_ledger: every event has a stream, and draws once.       *)
Draws == 0 .. Grain - 1
Cumulated(i) == FoldSet(LAMBDA a, sum : sum + weights[a], 0, 1 .. i)

(* Mutant: the first weight at least the draw, not the first sum.           *)
PickedByWeight(draw) ==
  LET reaching == {i \in 1 .. plan.n : weights[i] * Grain >= draw * Cumulated(plan.n)}
  IN IF reaching = {} THEN plan.n ELSE CHOOSE i \in reaching : \A j \in reaching : i <= j
(* bisect_left, and no further than the last agent.                         *)
Picked(draw) ==
  LET reaching == {i \in 1 .. plan.n : Cumulated(i) * Grain >= draw * Cumulated(plan.n)}
  IN IF reaching = {} THEN plan.n ELSE CHOOSE i \in reaching : \A j \in reaching : i <= j

ActivationSlot(ordinal, agent) ==
  [ordinal |-> ordinal, sweep |-> ordinal \div plan.n + 1, draw |-> ordinal % plan.n, agent |-> agent]

RefuseEvents ==
  /\ phase = "activation" /\ (plan.sweeps > MaxSweeps \/ EventCount > MaxEvents)
  /\ RefusePlan /\ UNCHANGED plan

DrawActivation ==
  /\ phase = "activation" /\ plan.sweeps <= MaxSweeps /\ EventCount <= MaxEvents
  /\ \E draw \in Draws : slots' = Append(slots, ActivationSlot(Len(slots), Picked(draw)))
  /\ phase' = IF Len(slots') = EventCount THEN "publish" ELSE phase
  /\ UNCHANGED <<plan, tries, weights, chances, flags>>

-----------------------------------------------------------------------------
(* build_publish_schedule: an event publishes when its second draw is below *)
(* the chance of the agent of its slot.                                     *)
DrawFlag ==
  /\ phase = "publish" /\ Len(flags) < EventCount
  /\ \E draw \in Draws :
       flags' = Append(flags, draw < chances[slots[Len(flags) + 1].agent].chance)
  /\ UNCHANGED <<plan, phase, tries, weights, chances, slots>>

(* FrozenSchedule: n draws in every sweep, in order and without a gap.      *)
SlotsMatch ==
  /\ Len(slots) = EventCount
  /\ \A i \in DOMAIN slots :
       /\ slots[i].ordinal = i - 1
       /\ slots[i].sweep \in 1 .. plan.sweeps /\ slots[i].draw \in 0 .. plan.n - 1
       /\ slots[i].sweep = slots[i].ordinal \div plan.n + 1 /\ slots[i].draw = slots[i].ordinal % plan.n

Freeze ==
  /\ phase = "publish" /\ Len(flags) = EventCount
  /\ phase' = IF SlotsMatch THEN "frozen" ELSE "rejected"
  /\ UNCHANGED <<plan, tries, weights, chances, slots, flags>>

ScheduleNext ==
  \/ Ask \/ EqualWeights \/ AcceptWeight \/ RejectWeight \/ DrawLurker \/ DrawChance \/ RejectChance
  \/ RefuseEvents \/ DrawActivation \/ DrawFlag \/ Freeze

-----------------------------------------------------------------------------
(* The draws that pick an agent are its share of the weights, to within one *)
(* draw.                                                                    *)
Gap(x, y) == IF x < y THEN y - x ELSE x - y
Proportional ==
  \A a \in 1 .. plan.n :
    Gap(Cardinality({draw \in Draws : Picked(draw) = a}) * Cumulated(plan.n), Grain * weights[a]) <= Cumulated(plan.n)

(* What was sampled is what the frozen schedule does: an agent acts in      *)
(* proportion to its attention, an agent that never publishes has no event  *)
(* that does (whatever the agents drawn before it), each sweep is whole,    *)
(* and the schedule is never rejected by the record it is frozen into.      *)
ScheduleIsSound ==
  /\ phase # "rejected"
  /\ phase \in {"publish", "frozen"} => Proportional
  /\ \A i \in DOMAIN flags : flags[i] => ~chances[slots[i].agent].lurker
  /\ phase = "frozen" =>
       \A s \in 1 .. plan.sweeps : Cardinality({i \in DOMAIN slots : slots[i].sweep = s}) = plan.n
=============================================================================
