------------------------------- MODULE Matrix -------------------------------
(***************************************************************************)
(* The matrix of a matched seed (mock_matrix.py): twelve cells that are    *)
(* to differ in persona and exposure and in nothing else.  The builder is  *)
(* handed artifacts made elsewhere, at other times, perhaps of another     *)
(* seed, and a manifest and an adapter for each cell; it refuses what does *)
(* not belong together.  A matrix may be changed before it is validated.   *)
(*                                                                         *)
(* What a cell is handed is given by what differs in it from what belongs  *)
(* there: its drift, a set of fields.                                      *)
(***************************************************************************)
EXTENDS Families, FiniteSets

CONSTANTS
  Family,        \* the family the matrix is of
  Foreign,       \* families other artifacts come from
  Scale,         \* the scale case: [n, counts, sweeps]
  Drifts         \* [where, fields]: the cells that drift, and in what

VARIABLES
  submitted,     \* [foreign, taken, edited]: whose artifacts are handed in, which of them, which are edited
  drift,         \* of the cells
  verdict        \* "submitted", "built", "refused", "changed", "valid", "invalid"

(* MockScaleCase: seven counts, for as many agents as the case has.         *)
ScaleValid(scale) ==
  /\ scale.n \in Nat \ {0} /\ scale.sweeps # {} /\ scale.sweeps \subseteq Nat \ {0}
  /\ DOMAIN scale.counts = 1 .. 7
  /\ scale.counts[1] + scale.counts[2] + scale.counts[3] + scale.counts[4]
       + scale.counts[5] + scale.counts[6] + scale.counts[7] = scale.n

(* The twelve cells: two persona factors and what an agent sees.            *)
CellIds == {"I0", "I1"} \X {"C0", "C1"} \X {"E0", "E1", "E2"}
FirstCell == <<"I0", "C0", "E0">>
NoDrift == [where |-> {}, fields |-> {}]
DriftOf(cell) == IF cell \in drift.where THEN drift.fields ELSE {}

Bundle ==
  LET own == MadeOf(Family)
      other == MadeOf(submitted.foreign)
      handed(name) == IF name \in submitted.taken THEN other[name] ELSE own[name]
  IN [name \in Names |-> IF name \in submitted.edited THEN Edited(handed(name)) ELSE handed(name)]

(* Any of the artifacts that a foreign family makes differently, one of all *)
(* may be edited.                                                           *)
Differing(f) == {name \in Names : MadeOf(f)[name] # MadeOf(Family)[name]}
MatrixInit ==
  /\ \E f \in Foreign : \E taken \in SUBSET Differing(f) :
       \E edited \in {{}} \union (IF taken = {} THEN {{name} : name \in Names} ELSE {}) :
         submitted = [foreign |-> f, taken |-> taken, edited |-> edited]
  /\ drift = NoDrift /\ verdict = "submitted"

(* Bound: cells drift when all artifacts are the family's own.              *)
OwnFamily == submitted.taken = {} /\ submitted.edited = {}

(* What a cell of a matrix says itself, beside its manifest; "hashes" is of *)
(* an artifact that is neither a graph nor the schedule.                    *)
RecordedFields == {"factors", "graphs", "hashes", "clocks"}

(* Manifests and adapters are made for the cells.                           *)
SubmitCells ==
  /\ verdict = "submitted" /\ drift = NoDrift /\ OwnFamily
  /\ drift' \in {d \in Drifts : d.fields \intersect RecordedFields = {}}
  /\ UNCHANGED <<submitted, verdict>>

-----------------------------------------------------------------------------
(* _payload_seed: every artifact made of a seed is made of this one.        *)
Seeded == Names \ {"topic", "persona"}
SeedsMatch(b) == \A name \in Seeded : b[name].seed = Family.seed

(* The size of the scale case, and the counts of stances that go with it.   *)
ScaleMatches(b) == Len(b["population"].roster) = Scale.n /\ Len(b["stance"].roster) = Scale.n

(* What was made from what; the mapping is made again from what is here.    *)
LineageMatches(b) ==
  /\ b["stance"].from = <<b["population"]>>
  /\ b["reason"].from = <<b["stance"]>>
  /\ b["reason"].about = b["topic"].about
  /\ b["mapping"].from = <<b["ws"], b["population"], b["reason"]>>
  /\ b["mapping"] = MappingOf(b["population"], b["reason"], b["ws"])

(* The shadow and the gate are of this graph, and all three are made again. *)
GraphsReplay(b) == WsReplays(b["ws"]) /\ ShadowReplays(b["shadow"], b["ws"]) /\ GateReplays(b["gate"], b["ws"])

(* render_persona: a block is there or it is not; nothing else changes.     *)
Persona(template, identity, continuity) ==
  [skeleton |-> template.about,
   identity |-> IF identity THEN "block" ELSE "",
   continuity |-> IF continuity /\ ~template.edited THEN "block" ELSE ""]
(* validate_persona_factor_diff.                                            *)
PersonasDiffer(b) ==
  LET persona(i, c) == Persona(b["persona"], i, c)
  IN /\ \A i, c \in BOOLEAN : persona(i, c).skeleton = persona(FALSE, FALSE).skeleton
     /\ \A x \in BOOLEAN : persona(FALSE, x).identity = "" /\ persona(x, FALSE).continuity = ""
     /\ \A x \in BOOLEAN : persona(TRUE, x).identity = "block" /\ persona(x, TRUE).continuity = "block"

(* Mutant: as many agents will do.                                          *)
SizesMatch(b) == \A name \in {"attention", "expression"} : Len(b[name].roster) = Len(b["population"].roster)
(* The schedule is of the agents of the population, in their order: nothing *)
(* else binds these artifacts to those of the population.                   *)
RostersMatch(b) == \A name \in {"attention", "expression"} : b[name].roster = b["population"].roster

(* validate_matched_schedule_reuse: each of the four is made again.         *)
ScheduleReplays(b) ==
  /\ AttentionReplays(b["attention"]) /\ ExpressionReplays(b["expression"])
  /\ ActivationReplays(b["activation"], b["attention"])
  /\ b["publish"] = PublishOf(b["attention"], b["activation"], b["expression"])

(* The artifacts belong together.                                           *)
BundleMatches(b) ==
  /\ SeedsMatch(b) /\ ScaleMatches(b) /\ LineageMatches(b) /\ GraphsReplay(b)
  /\ PersonasDiffer(b) /\ RostersMatch(b) /\ ScheduleReplays(b)

-----------------------------------------------------------------------------
(* What is compared with the cell's own: its schedule, the seed, identity   *)
(* and plan of its manifest, the events of its script, and what             *)
(* _validate_manifest_contract expects the manifest to be bound to.         *)
Bound == {"schedule", "seed", "named", "plan", "events", "config", "graph", "artifacts", "clock", "semantics"}

(* The cell's own: and the model of its manifest is that of its adapter.    *)
CellMatches(d) == d \intersect Bound = {} /\ ("model" \in d <=> "runtime" \in d)

(* What is compared with the first cell: the adapter with its ordered       *)
(* script, and the parameters of the requests.                              *)
Shared == {"runtime", "script", "parameters"}
SameAsFirst(d, e) == d \intersect Shared = e \intersect Shared

CellsMatch == \A c \in CellIds : CellMatches(DriftOf(c)) /\ SameAsFirst(DriftOf(c), DriftOf(FirstCell))

(* build_mock_matched_seed_matrix, and the validator at its end.            *)
BuildMatrix ==
  /\ verdict = "submitted"
  /\ LET b == Bundle
     IN verdict' = IF BundleMatches(b) /\ CellsMatch /\ b["publish"].about \in Scale.sweeps /\ Len(b["publish"].roster) = Scale.n
                   THEN "built" ELSE "refused"
  /\ UNCHANGED <<submitted, drift>>

(* A matrix is put together from cells that are not those that were built.  *)
ChangeCells ==
  /\ verdict = "built" /\ drift = NoDrift /\ OwnFamily
  /\ drift' \in {d \in Drifts : "schedule" \notin d.fields} /\ verdict' = "changed"
  /\ UNCHANGED submitted

(* validate_mock_matched_seed_matrix: what a cell says of its factors, its  *)
(* graph, its artifacts and its clock is compared with what its manifest    *)
(* is bound to and with the first cell, not with artifacts.                 *)
RecordMatches(d, first) ==
  /\ d \intersect ((Bound \ {"artifacts"}) \union {"factors", "graphs", "clocks"}) = {}
  /\ ("hashes" \in d <=> "hashes" \in first) /\ ("hashes" \in d <=> "artifacts" \in d)
  /\ ("model" \in d <=> "runtime" \in d)
  /\ SameAsFirst(d, first)

ValidateMatrix ==
  /\ verdict = "changed"
  /\ verdict' = IF \A c \in CellIds : RecordMatches(DriftOf(c), DriftOf(FirstCell)) THEN "valid" ELSE "invalid"
  /\ UNCHANGED <<submitted, drift>>

(* What a cell, its manifest and its adapter consist of: what may drift.    *)
CellFields == Bound \union Shared \union RecordedFields \union {"model"}
MatrixValid ==
  /\ ScaleValid(Scale)
  /\ \A f \in Foreign \union {Family} : f.n \in Nat
  /\ \A d \in Drifts : d.where \subseteq CellIds /\ d.fields \subseteq CellFields

MatrixNext == SubmitCells \/ BuildMatrix \/ ChangeCells \/ ValidateMatrix

-----------------------------------------------------------------------------
(* In a matrix that is built every artifact was made, through however many  *)
(* steps, of artifacts of the matrix, and the schedule has the agents of    *)
(* the graphs; in one that is built or valid, two cells differ in nothing   *)
(* but their own factors.                                                   *)
CellsAreMatched ==
  /\ verdict = "built" =>
       LET b == Bundle
       IN /\ \A name \in Names : \A i \in DOMAIN b[name].from : b[name].from[i] = b[b[name].from[i].kind]
          /\ \A name \in {"stance", "reason", "ws", "mapping", "attention", "expression", "activation", "publish"} :
               b[name].roster = b["population"].roster
          /\ \A name \in Seeded : b[name].seed = Family.seed
          /\ \A name \in {"ws", "shadow", "gate", "mapping", "attention", "expression", "activation", "publish"} :
               ~b[name].edited
  /\ verdict \in {"built", "valid"} =>
       /\ \A c \in CellIds : DriftOf(c) = DriftOf(FirstCell)
       /\ \A c \in CellIds : ~(DriftOf(c) \intersect {"seed", "named", "graph", "graphs", "factors", "clock"} # {})
=============================================================================
