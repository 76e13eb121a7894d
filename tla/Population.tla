----------------------------- MODULE Population -----------------------------
(***************************************************************************)
(* The population of a matched seed (population.py, initialization.py):    *)
(* weighted survey donors are cloned to exactly n agents, the approved     *)
(* proportions of stances are spread over the strata of the population,    *)
(* and every agent gets a reason of its own stance.  Each step rounds, and *)
(* each rounds what the one before it left.                                *)
(*                                                                         *)
(* Weights are whole numbers of 1/unit; a draw of the seeded stream is a   *)
(* choice.  Donors have one field: it is what targets and strata are of.   *)
(***************************************************************************)
EXTENDS Integers, Sequences, FiniteSets, SequencesExt

CONSTANT
  Surveys      \* [n, unit, donors, targets, tolerance, imbalance, library]

VARIABLES
  survey,      \* what is asked for
  step,        \* the step of the construction
  drawn,       \* donors drawn for the residual, in order
  members,     \* the agents: each is the position of its donor
  allocation,  \* agents of a stratum that get a stance
  stance,      \* the stance of each agent
  reason       \* the reason of each agent

AllStances == 1 .. 7
Donors == DOMAIN survey.donors
SumOf(f, S) == FoldSet(LAMBDA i, sum : sum + f[i], 0, S)
FieldOf(agent) == survey.donors[members[agent]].field

(* _validate_donors and the checks on weights, targets and library entries. *)
(* A target for a field no donor has is a structural zero.                  *)
SurveyValid(s) ==
  /\ s.n \in Nat \ {0} /\ s.unit \in Nat \ {0}
  /\ Len(s.donors) \in Nat \ {0} /\ DOMAIN s.donors = 1 .. Len(s.donors)
  /\ \A i \in DOMAIN s.donors : s.donors[i].weight \in Nat
  /\ SumOf([i \in DOMAIN s.donors |-> s.donors[i].weight], DOMAIN s.donors) = s.n * s.unit
  /\ SumOf(s.targets, DOMAIN s.targets) = s.n
  /\ \A f \in DOMAIN s.targets : s.targets[f] > 0 => \E i \in DOMAIN s.donors : s.donors[i].field = f
  /\ s.tolerance >= 0 /\ s.imbalance >= 0
  /\ \A k \in AllStances : s.library[k] # {} /\ IsFiniteSet(s.library[k])
  /\ \A j, k \in AllStances : j # k => s.library[j] \intersect s.library[k] = {}

PopulationInit ==
  /\ survey \in Surveys /\ step = "residual"
  /\ drawn = <<>> /\ members = <<>> /\ allocation = <<>> /\ stance = <<>> /\ reason = <<>>

-----------------------------------------------------------------------------
(* trs_integerize: whole parts are kept, the rest is drawn without          *)
(* replacement among the donors with a fraction, in proportion to it.       *)
Whole(i) == survey.donors[i].weight \div survey.unit
Fraction(i) == survey.donors[i].weight % survey.unit
Residual == survey.n - SumOf([i \in Donors |-> Whole(i)], Donors)
Available == {i \in Donors : Fraction(i) > 0} \ ToSet(drawn)

(* The donor in whose share of the available fractions a draw falls.        *)
Chosen(draw) ==
  CHOOSE i \in Available :
    LET before == SumOf([j \in Donors |-> Fraction(j)], {j \in Available : j < i})
    IN draw \in before .. before + Fraction(i) - 1

DrawResidual ==
  /\ step = "residual" /\ Len(drawn) < Residual
  /\ IF Available = {} THEN step' = "unrealizable" /\ UNCHANGED drawn
     ELSE /\ \E draw \in 0 .. SumOf([j \in Donors |-> Fraction(j)], Available) - 1 :
               drawn' = Append(drawn, Chosen(draw))
          /\ UNCHANGED step
  /\ UNCHANGED <<survey, members, allocation, stance, reason>>

(* build_population_artifact: the clones in the order of the donors, then   *)
(* the drawn ones; refused when a marginal misses its target by too much.   *)
Clones == FlattenSeq([i \in Donors |-> [k \in 1 .. Whole(i) |-> i]]) \o drawn
Distance(x, y) == IF x < y THEN y - x ELSE x - y
OnTarget(clones) ==
  \A f \in DOMAIN survey.targets :
    Distance(Cardinality({a \in DOMAIN clones : survey.donors[clones[a]].field = f}), survey.targets[f]) <= survey.tolerance

BuildPopulation ==
  /\ step = "residual" /\ Len(drawn) = Residual
  /\ members' = Clones
  /\ step' = IF Len(Clones) = survey.n /\ OnTarget(Clones) THEN "population" ELSE "refused"
  /\ UNCHANGED <<survey, drawn, allocation, stance, reason>>

-----------------------------------------------------------------------------
(* _scaled_stance_counts: the approved proportions by largest remainder.    *)
Approved == <<50, 100, 200, 300, 200, 100, 50>>
StanceCounts(n) ==
  LET floor(k) == (n * Approved[k]) \div 1000
      remainder(k) == (n * Approved[k]) % 1000
      left == n - SumOf([k \in AllStances |-> floor(k)], AllStances)
      ahead(k) == {j \in AllStances : remainder(j) > remainder(k) \/ (remainder(j) = remainder(k) /\ j < k)}
  IN [k \in AllStances |-> floor(k) + IF Cardinality(ahead(k)) < left THEN 1 ELSE 0]

(* Stances somebody holds.                                                  *)
Held == {k \in AllStances : StanceCounts(survey.n)[k] > 0}

(* The joint strata of the population.                                      *)
Persons == DOMAIN members
Strata == {FieldOf(a) : a \in Persons}
Stratum(f) == {a \in Persons : FieldOf(a) = f}
Share(f, k) == Cardinality(Stratum(f)) * StanceCounts(survey.n)[k]     \* in 1/n agents

(* _rounded_stratum_allocations: whole parts first ...                      *)
BeginStances ==
  /\ step = "population"
  /\ allocation' = [f \in Strata |-> [k \in AllStances |-> Share(f, k) \div survey.n]]
  /\ step' = "stances"
  /\ UNCHANGED <<survey, drawn, members, stance, reason>>

RowLeft(f) == Cardinality(Stratum(f)) - SumOf(allocation[f], AllStances)
ColumnLeft(k) == StanceCounts(survey.n)[k] - SumOf([f \in Strata |-> allocation[f][k]], Strata)
OpenCells == {c \in Strata \X AllStances : RowLeft(c[1]) > 0 /\ ColumnLeft(c[2]) > 0}
Lack(c) == Share(c[1], c[2]) - allocation[c[1]][c[2]] * survey.n

(* ... then one agent at a time where most is missing; ties are broken at   *)
(* random.                                                                  *)
AllocateOne ==
  /\ step = "stances" /\ \E f \in Strata : RowLeft(f) > 0
  /\ IF OpenCells = {} THEN step' = "unrealizable" /\ UNCHANGED allocation
     ELSE /\ LET lack == [c \in OpenCells |-> Lack(c)]
             IN \E c \in DOMAIN lack :
               /\ \A d \in DOMAIN lack : lack[d] <= lack[c]
               /\ allocation' = [allocation EXCEPT ![c[1]][c[2]] = @ + 1]
          /\ UNCHANGED step
  /\ UNCHANGED <<survey, drawn, members, stance, reason>>

(* assign_initial_stances: each stratum is shuffled and dealt its stances;  *)
(* refused when a stance is too far from its share of a stratum.            *)
Balanced ==
  \A f \in Strata, k \in AllStances :
    Distance(allocation[f][k] * survey.n, Share(f, k)) <= survey.imbalance * survey.n
Dealings ==
  LET stratum == [f \in Strata |-> Stratum(f)]
  IN {s \in [Persons -> Held] :
       \A f \in Strata, k \in AllStances : Cardinality({a \in stratum[f] : s[a] = k}) = allocation[f][k]}

AssignStances ==
  /\ step = "stances" /\ \A f \in Strata : RowLeft(f) = 0
  /\ IF \E k \in AllStances : ColumnLeft(k) # 0 THEN step' = "unrealizable" /\ UNCHANGED stance
     ELSE IF ~Balanced THEN step' = "refused" /\ UNCHANGED stance
     ELSE stance' \in Dealings /\ step' = "reasons"
  /\ UNCHANGED <<survey, drawn, members, allocation, reason>>

-----------------------------------------------------------------------------
(* assign_initial_reasons: the pool of each stance is shuffled and dealt in *)
(* the order of the agents.                                                 *)
Shuffles(S) == {q \in [1 .. Cardinality(S) -> S] : IsInjective(q)}
Pools ==
  LET held == Held
      shuffles == [k \in held |-> Shuffles(survey.library[k])]
  IN {p \in [held -> UNION {shuffles[k] : k \in held}] : \A k \in held : p[k] \in shuffles[k]}
Earlier(a) == {b \in Persons : b < a /\ stance[b] = stance[a]}

(* Mutant: the position in the pool is not advanced.                        *)
DealFirst(pools, a) == pools[stance[a]][1]
(* The next entry of the pool of the agent's stance.                        *)
Deal(pools, a) == pools[stance[a]][Cardinality(Earlier(a)) + 1]

AssignReasons ==
  /\ step = "reasons"
  /\ IF \E k \in AllStances : Cardinality(survey.library[k]) < StanceCounts(survey.n)[k]
     THEN step' = "refused" /\ UNCHANGED reason
     ELSE /\ \E pools \in Pools :
               reason' = [a \in Persons |-> Deal(pools, a)]
          /\ step' = "built"
  /\ UNCHANGED <<survey, drawn, members, allocation, stance>>

PopulationNext ==
  \/ DrawResidual \/ BuildPopulation \/ BeginStances \/ AllocateOne \/ AssignStances \/ AssignReasons

-----------------------------------------------------------------------------
(* Three roundings, each of what the one before left, and nothing is lost:  *)
(* no draw or allocation is ever unrealizable, every donor has its weight   *)
(* rounded down or up, the stances are the approved counts, and no two      *)
(* agents are given the same words, nor words of another stance.            *)
PopulationIsExact ==
  /\ step # "unrealizable"
  /\ step # "residual" =>
       /\ Len(members) = survey.n
       /\ \A i \in Donors : Cardinality({a \in Persons : members[a] = i}) - Whole(i) \in {0, IF Fraction(i) > 0 THEN 1 ELSE 0}
  /\ step \in {"reasons", "built"} =>
       LET counts == StanceCounts(survey.n)
       IN \A k \in AllStances : Cardinality({a \in Persons : stance[a] = k}) = counts[k]
  /\ step = "built" =>
       /\ \A a \in Persons : reason[a] \in survey.library[stance[a]]
       /\ IsInjective(reason)
=============================================================================
