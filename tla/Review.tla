------------------------------- MODULE Review -------------------------------
(***************************************************************************)
(* From the parsed answers of a probe run to the proposal of a topic: the  *)
(* blind review (calibration/review.py) and the quality gates              *)
(* (calibration/gates.py).  An export fixes the items and which of them    *)
(* the humans audit; the codes of all coders are imported at once; what    *)
(* they dispute is adjudicated item by item; the labels become evidence;   *)
(* every topic is scored on it, and the first of the order that passes is  *)
(* proposed.  A bundle is immutable, and each step makes another one, whose*)
(* constructor derives again what the step had derived.                    *)
(*                                                                         *)
(* A hash that binds a record to others stands for those others.           *)
(***************************************************************************)
EXTENDS Integers, Sequences, FiniteSets, FiniteSetsExt

CONSTANTS
  Order,         \* the topics, by priority (TOPIC_ORDER)
  Cases,         \* the cases of the specification, each [topic, pair, side]
  Trials,        \* how runs of the probe may end
  Judges, Humans,
  Policy,        \* SemanticReviewPolicy
  Gates,         \* GateAlgorithm
  Dimensions,    \* what coders judge, "stance" and "refusal" among it
  Opinion,       \* the labels, one for each dimension, that coders and adjudicators give
  MaxDeviations, \* bounds the codes that differ from the plain one
  Nil            \* None of the source

VARIABLES
  trial,      \* [complete, final]: the status of the run, the last parse of each case
  bundle,     \* Nil, or the current SemanticReviewBundle
  selection   \* Nil, or what select_topic gave

Case == DOMAIN Cases

(* SemanticReviewPolicy.__post_init__, GateAlgorithm.__post_init__          *)
PolicyValid ==
  /\ IsFiniteSet(Case) /\ IsFiniteSet(Dimensions) /\ {"stance", "refusal"} \subseteq Dimensions
  /\ IsFiniteSet(Judges) /\ IsFiniteSet(Humans)
  /\ Judges # {} /\ Humans # {} /\ Judges \cap Humans = {}
  /\ \A o \in Opinion : o = [d \in Dimensions |-> o[d]] /\ \A d \in Dimensions : o[d] \in Policy.labels[d]
  /\ Policy.plain \in Opinion
  /\ DOMAIN Policy.count # {} /\ \A s \in DOMAIN Policy.count : Policy.count[s] \in Nat \ {0}
  /\ \A c \in Case : Policy.rank[c] \in Int /\ \A e \in Case : Policy.rank[e] = Policy.rank[c] => e = c
  /\ DOMAIN Policy.labels = Dimensions /\ DOMAIN Policy.passing = Dimensions
  /\ \A d \in Dimensions : Policy.passing[d] # {} /\ Policy.passing[d] \subseteq Policy.labels[d]
  /\ Policy.refusing # {} /\ Policy.refusing \subseteq Policy.labels["refusal"]
  /\ DOMAIN Policy.contradiction = Policy.labels["stance"]
  /\ Policy.threshold[1] \in 0 .. Policy.threshold[2]
  /\ \A f \in {Gates.parse, Gates.refusal, Gates.endpoint, Gates.dz, Gates.contradiction, Gates.tv} : f[1] \in 0 .. f[2]

AtLeast(n, total, f) == total > 0 /\ n * f[2] >= f[1] * total
AtMost(n, total, f) == total > 0 /\ n * f[2] <= f[1] * total

ReviewInit == trial \in Trials /\ bundle = Nil /\ selection = Nil

-----------------------------------------------------------------------------
(* The export: _build_expected_review_export *)

Parsed(c) == trial.final[c] # Nil /\ trial.final[c].parsed
Eligible == {c \in Case : Parsed(c)}
Pool(stratum) == {c \in Eligible : Policy.stratum[c] = stratum}

(* The first of each stratum in the order of the sampling rank.             *)
Ahead(c) == {e \in Pool(Policy.stratum[c]) : Policy.rank[e] < Policy.rank[c]}
Sampled == {c \in Eligible : Cardinality(Ahead(c)) < Policy.count[Policy.stratum[c]]}

Export ==
  /\ bundle = Nil
  /\ \A s \in DOMAIN Policy.count : Cardinality(Pool(s)) >= Policy.count[s]
  /\ bundle' = [items |-> Eligible, audited |-> Sampled, codes |-> <<>>, adjudications |-> <<>>,
                 agreement |-> Nil, status |-> "awaiting_codes", final |-> <<>>]
  /\ UNCHANGED <<trial, selection>>

-----------------------------------------------------------------------------
(* The codes: import_review_codes.  A code that failed is Nil.              *)

(* assigned_coder_ids: judges code every item, humans the audited ones.     *)
Assigned(b) == (b.items \X Judges) \union (b.audited \X Humans)

(* Mutant: a code that is not there is no obstacle.                         *)
NoneFailed(b, codes) == \A pair \in DOMAIN codes : codes[pair] # Nil
Coded(b, codes) == DOMAIN codes = Assigned(b) /\ \A pair \in DOMAIN codes : codes[pair] # Nil

Coders(codes, c) == {k \in Judges \union Humans : <<c, k>> \in DOMAIN codes}
LabelsOn(codes, c, d) == {codes[<<c, k>>][d] : k \in Coders(codes, c)}

Differ(codes, c) == {d \in Dimensions : Cardinality(LabelsOn(codes, c, d)) > 1}

(* _disputed_items                                                          *)
Disputed(b, codes) ==
  {c \in b.items :
     /\ \A pair \in Assigned(b) : pair[1] = c => pair \in DOMAIN codes /\ codes[pair] # Nil
     /\ Differ(codes, c) # {}}

(* _final_labels: the adjudication, or what any coder of the item said.     *)
FinalLabels(b, codes, adjudications) ==
  [c \in b.items |->
     IF c \in DOMAIN adjudications THEN adjudications[c]
     ELSE codes[<<c, CHOOSE k \in Coders(codes, c) : TRUE>>]]

Agreement(b, codes) == Cardinality({x \in b.audited \X Dimensions : Cardinality(LabelsOn(codes, x[1], x[2])) = 1})
Compared(b) == Cardinality(b.audited) * Cardinality(Dimensions)

ImportedFrom(b, codes) ==
  LET coded == Coded(b, codes)
      agreed == IF coded THEN Agreement(b, codes) ELSE Nil
      status == IF ~coded \/ ~AtLeast(agreed, Compared(b), Policy.threshold) THEN "review_incomplete"
                ELSE IF Disputed(b, codes) # {} THEN "adjudication_required" ELSE "complete"
  IN  [b EXCEPT !.codes = codes, !.agreement = agreed, !.status = status,
                !.final = IF status = "complete" THEN FinalLabels(b, codes, <<>>) ELSE <<>>]

(* The codes that are handed in: all but few are the plain opinion; the     *)
(* others are another one, failed or missing.                               *)
Submissions(b) ==
  LET assigned == Assigned(b)
      others == (Opinion \ {Policy.plain}) \union {Nil}
      Handed(missing, odd) ==
        {[pair \in assigned \ missing |-> IF pair \in odd THEN code[pair] ELSE Policy.plain] : code \in [odd -> others]}
  IN  UNION {UNION {Handed(missing, deviant \ missing) : missing \in SUBSET deviant} :
             deviant \in UNION {kSubset(k, assigned) : k \in 0 .. MaxDeviations}}

Import ==
  /\ bundle # Nil /\ bundle.status = "awaiting_codes"
  /\ \E codes \in Submissions(bundle) : bundle' = ImportedFrom(bundle, codes)
  /\ UNCHANGED <<trial, selection>>

-----------------------------------------------------------------------------
(* append_adjudication *)

Adjudicate ==
  /\ bundle # Nil /\ bundle.status = "adjudication_required"
  /\ \E c \in Disputed(bundle, bundle.codes) \ DOMAIN bundle.adjudications, opinion \in Opinion :
     LET adjudications == [x \in DOMAIN bundle.adjudications \union {c} |-> IF x = c THEN opinion ELSE bundle.adjudications[x]]
         open == Disputed(bundle, bundle.codes) \ DOMAIN adjudications
     IN  bundle' = [bundle EXCEPT !.adjudications = adjudications, !.status = IF open # {} THEN @ ELSE "complete",
                                  !.final = IF open # {} THEN <<>> ELSE FinalLabels(bundle, bundle.codes, adjudications)]
  /\ UNCHANGED <<trial, selection>>

(* SemanticReviewBundle.__post_init__: agreement, disputes and final labels *)
(* are derived again from the codes, over all items and only if complete.   *)
Unanimous(b) == MapThenSumSet(LAMBDA c : Cardinality(Dimensions \ Differ(b.codes, c)), b.audited)
BundleValid(b) ==
  LET complete == Coded(b, b.codes)
      disputed == IF complete THEN {c \in b.items : Differ(b.codes, c) # {}} ELSE {}
      agreed == IF complete THEN Unanimous(b) ELSE Nil
      adjudicated == DOMAIN b.adjudications
      passes == complete /\ AtLeast(agreed, Compared(b), Policy.threshold)
  IN  /\ \A s \in DOMAIN Policy.count : Cardinality({c \in b.audited : Policy.stratum[c] = s}) = Policy.count[s]
      /\ DOMAIN b.codes \subseteq b.items \X (Judges \union Humans)
      /\ b.agreement = agreed
      /\ adjudicated \subseteq disputed
      /\ CASE b.status = "awaiting_codes" -> DOMAIN b.codes = {} /\ adjudicated = {} /\ DOMAIN b.final = {}
           [] b.status = "review_incomplete" -> adjudicated = {} /\ DOMAIN b.final = {}
           [] b.status = "adjudication_required" -> passes /\ disputed \ adjudicated # {} /\ DOMAIN b.final = {}
           [] b.status = "complete" ->
                /\ passes /\ disputed = adjudicated /\ DOMAIN b.final = b.items
                /\ \A c \in b.items :
                     IF c \in adjudicated THEN b.final[c] = b.adjudications[c]
                     ELSE \A d \in Dimensions : LabelsOn(b.codes, c, d) = {b.final[c][d]}

-----------------------------------------------------------------------------
(* The gates *)

(* to_semantic_gate_evidence: of the cases whose last parse succeeded.      *)
Evidence(c) ==
  IF bundle.status = "complete"
  THEN [complete |-> TRUE, failing |-> {d \in Dimensions : bundle.final[c][d] \notin Policy.passing[d]},
        refusal |-> bundle.final[c]["refusal"] \in Policy.refusing, contradiction |-> Policy.contradiction[bundle.final[c]["stance"]]]
  ELSE [complete |-> FALSE, failing |-> Dimensions, refusal |-> FALSE, contradiction |-> "indeterminate"]

(* A case with a last parse, of any topic, that is not reviewed.            *)
ReviewLacks(c) ==
  /\ trial.final[c] # Nil
  /\ ~Parsed(c) \/ ~Evidence(c).complete \/ (~Evidence(c).refusal /\ Evidence(c).contradiction = "indeterminate")

Status ==
  IF ~trial.complete THEN "runtime_incomplete"
  ELSE IF \E c \in Case : ReviewLacks(c) THEN "review_incomplete" ELSE "complete"

Of(topic) == {c \in Case : Cases[c].topic = topic}
Refused(c) ==
  \/ Parsed(c) /\ Evidence(c).refusal
  \/ trial.final[c] # Nil /\ ~Parsed(c) /\ trial.final[c].refusal
Universe(topic) == {c \in Of(topic) : Parsed(c) /\ ~Refused(c)}
With(cases, stances) == {c \in cases : trial.final[c].stance \in stances}

(* _score_family                                                            *)
FamilyPasses(topic) ==
  LET ids == Cardinality(Of(topic))
      used == Universe(topic)
      size == Cardinality(used)
      lowest == Min(Gates.scale)
      highest == Max(Gates.scale)
  IN  /\ size >= Gates.minimum
      /\ Cardinality({trial.final[c].stance : c \in used}) >= Gates.categories
      /\ AtLeast(Cardinality({c \in Of(topic) : Parsed(c)}), ids, Gates.parse)
      /\ AtMost(Cardinality({c \in Of(topic) : Refused(c)}), ids, Gates.refusal)
      /\ AtMost(Cardinality(With(used, {lowest})), size, Gates.endpoint)
      /\ AtMost(Cardinality(With(used, {highest})), size, Gates.endpoint)
      /\ AtMost(Cardinality({c \in used : Evidence(c).contradiction = "contradiction"}), size, Gates.contradiction)
      /\ \A c \in Of(topic) : Parsed(c) /\ Evidence(c).complete /\ Evidence(c).failing = {}

(* A challenge: every pair is valid; the mean difference is small beside its*)
(* deviation (_dz_passes, in integers) and so is the total variation.       *)
ChallengePasses(topic) ==
  LET Side(side) == {c \in Of(topic) : Cases[c].side = side}
      Other(c) == CHOOSE e \in Of(topic) : Cases[e].pair = Cases[c].pair /\ Cases[e].side = "right"
      Delta(c) == trial.final[c].stance - trial.final[Other(c)].stance
      n == Cardinality(Side("left"))
      total == MapThenSumSet(Delta, Side("left"))
      squares == MapThenSumSet(LAMBDA c : Delta(c) * Delta(c), Side("left"))
      Gap(s) == Cardinality(With(Side("left"), {s})) - Cardinality(With(Side("right"), {s}))
      apart == MapThenSumSet(LAMBDA s : IF Gap(s) < 0 THEN -Gap(s) ELSE Gap(s), Gates.scale)
  IN  /\ \A c \in Of(topic) : Parsed(c) /\ ~Evidence(c).refusal
      /\ n >= 2
      /\ total * total * (n - 1) * Gates.dz[2] * Gates.dz[2] <= Gates.dz[1] * Gates.dz[1] * n * (n * squares - total * total)
      /\ apart * Gates.tv[2] <= 2 * n * Gates.tv[1]

TopicPasses(topic) == FamilyPasses(topic) /\ ChallengePasses(topic)

(* select_topic, of reports whose status is that of the whole run.          *)
Passing == {i \in 1 .. Len(Order) : TopicPasses(Order[i])}
First(places) == IF places = {} THEN Nil ELSE Order[Min(places)]

Decide ==
  /\ bundle # Nil /\ selection = Nil
  /\ selection' =
       IF Status # "complete" THEN [status |-> "suppressed", primary |-> Nil, robustness |-> Nil]
       ELSE [status |-> IF Passing = {} THEN "no_candidate" ELSE "proposal_only",
             primary |-> First(Passing), robustness |-> First({i \in Passing : \E j \in Passing : j < i})]
  /\ UNCHANGED <<trial, bundle>>

ReviewNext == Export \/ Import \/ Adjudicate \/ Decide

-----------------------------------------------------------------------------
Said(c) == {bundle.codes[<<c, k>>] : k \in Coders(bundle.codes, c)}

(* Every bundle that a step makes is one that its constructor accepts, and a*)
(* topic is proposed on full evidence only: the run is complete and every   *)
(* answer of it, of any topic, was parsed and coded by every coder it was   *)
(* assigned to; enough of what the humans audited was agreed on; and of the *)
(* topic's cases each is passed by all its coders, or by the adjudication   *)
(* of what they disputed.                                                   *)
ProposalIsEarned ==
  /\ bundle # Nil => BundleValid(bundle)
  /\ selection # Nil /\ selection.primary # Nil =>
     LET sampled == Sampled
     IN  /\ trial.complete
         /\ \A c \in Case : trial.final[c] # Nil =>
              Parsed(c) /\ \A coder \in Judges \union Humans :
                (coder \in Judges \/ c \in sampled) => <<c, coder>> \in DOMAIN bundle.codes /\ bundle.codes[<<c, coder>>] \in Opinion
         /\ AtLeast(Cardinality({x \in sampled \X Dimensions : Cardinality({o[x[2]] : o \in Said(x[1])}) = 1}),
                    Cardinality(sampled) * Cardinality(Dimensions), Policy.threshold)
         /\ \A topic \in {selection.primary, selection.robustness} \ {Nil}, c \in Case :
              Cases[c].topic = topic =>
                \E o \in Opinion :
                  /\ IF Cardinality(Said(c)) = 1 THEN o \in Said(c) ELSE c \in DOMAIN bundle.adjudications /\ o = bundle.adjudications[c]
                  /\ \A d \in Dimensions : o[d] \in Policy.passing[d]
=============================================================================
