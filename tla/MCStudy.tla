------------------------------ MODULE MCStudy -------------------------------
(* Small instances of the programs for TLC. *)
EXTENDS Study, TLC
CONSTANTS a1, a2, a3, a4
S(x, f) == [agent |-> x, publish |-> f]
Triangle == [capacities |-> {1}, roster |-> <<a1, a2, a3>>, mode |-> "ws_neighbors", node |-> (a1 :> 2 @@ a2 :> 0 @@ a3 :> 1), edges |-> {{0, 1}, {0, 2}, {1, 2}},
  slots |-> <<S(a2, TRUE), S(a2, TRUE), S(a1, FALSE), S(a3, FALSE), S(a1, TRUE), S(a3, FALSE)>>,
  order |-> (a1 :> <<a3, a2>> @@ a2 :> <<a1, a3>> @@ a3 :> <<a2, a1>>), stance |-> (a1 :> "con" @@ a2 :> "pro" @@ a3 :> "pro"),
  script |-> << <<"pro">>, <<"con">>, <<"con">>, <<"pro">>, <<"con">>, <<"pro">> >>]
Square == [capacities |-> {1, 2}, roster |-> <<a1, a2, a3, a4>>, mode |-> "ws_neighbors",
  node |-> (a1 :> 3 @@ a2 :> 0 @@ a3 :> 1 @@ a4 :> 2), edges |-> {{0, 1}, {1, 2}, {2, 3}, {0, 3}},
  slots |-> <<S(a3, TRUE), S(a2, TRUE), S(a3, FALSE), S(a4, TRUE)>>,
  order |-> [x \in {a1, a2, a3, a4} |-> SelectSeq(<<a2, a1, a4, a3>>, LAMBDA y : y # x)], stance |-> (a1 :> "con" @@ a2 :> "pro" @@ a3 :> "pro" @@ a4 :> "con"),
  script |-> << <<"timeout", "pro">>, <<"con">>, <<"con">>, <<"pro">> >>]
History == [Triangle EXCEPT !.capacities = {1, 2},
  !.mode = "self_history_only", !.edges = {}, !.slots = <<S(a1, TRUE), S(a1, TRUE), S(a2, FALSE)>>,
  !.script = << <<"con">>, <<"con">>, <<"pro">> >>]
Oversized == [History EXCEPT !.script = << <<"oversized">>, <<"con">>, <<"pro">> >>]
Unscripted == [History EXCEPT !.script = << <<"garbled">>, <<"con">>, <<"pro">> >>]
MCCell == {Triangle, Square, History, Oversized, Unscripted}
MCMarks == {{}, {1}}
MCNever == -2
MCCells == <<"c1", "c2">>

Hexagon == {{0, 1}, {1, 2}, {2, 3}, {3, 4}, {4, 5}, {0, 5}}
Fork == (Hexagon \ {{0, 1}}) \union {{0, 2}}
Triangles == {{0, 1}, {1, 2}, {0, 2}, {3, 4}, {4, 5}, {3, 5}}
Fork7 == {{1, 2}, {2, 3}, {3, 4}, {4, 5}, {5, 6}, {0, 6}, {0, 2}}
Three == {{0, 1}, {1, 2}, {0, 2}}
Base == [n |-> 6, k |-> 2, generated |-> Hexagon, nulls |-> {Fork}, attempts |-> 1, budget |-> 2]
MCOrders ==
  {Base, [Base EXCEPT !.attempts = 2, !.budget = 1], [Base EXCEPT !.generated = Fork, !.nulls = {Triangles}], [Base EXCEPT !.generated = Triangles],
   [n |-> 3, k |-> 2, generated |-> Three, nulls |-> {Three}, attempts |-> 1, budget |-> 1],
   [n |-> 7, k |-> 2, generated |-> Fork7, nulls |-> {Fork7}, attempts |-> 1, budget |-> 1]}

Donor(w, f) == [weight |-> w, field |-> f]
Library == <<{"r1"}, {"r2"}, {"r3"}, {"r4", "s4"}, {"r5"}, {"r6"}, {"r7"}>>
Four == [n |-> 4, unit |-> 4, donors |-> <<Donor(6, "x"), Donor(5, "x"), Donor(5, "y")>>, targets |-> [x |-> 3, y |-> 1],
  tolerance |-> 0, imbalance |-> 1, library |-> Library]
Five == [Four EXCEPT !.n = 5, !.donors = <<Donor(10, "x"), Donor(7, "x"), Donor(3, "y")>>, !.targets = [x |-> 4, y |-> 1], !.tolerance = 1]
MCSurveys == {Four, Five, [Four EXCEPT !.imbalance = 0], [Five EXCEPT !.library[4] = {"r4"}]}

P(n, s, f, l, t) == [n |-> n, sweeps |-> s, family |-> f, lurkers |-> l, attempts |-> t]
MCPlans ==
  {P(2, 2, "truncated", "maybe", 1), P(3, 1, "truncated", "never", 2), P(2, 1, "equal_weight", "always", 1), P(2, 3, "equal_weight", "maybe", 2),
   P(3, 2, "equal_weight", "maybe", 1), P(4, 1, "equal_weight", "maybe", 1), P(1, 2, "truncated", "maybe", 1)}

MCFamily == [seed |-> 1, n |-> 2, agents |-> <<1, 2>>, sweeps |-> 1, option |-> 0, library |-> 0]
MCForeign ==
  {[MCFamily EXCEPT !.seed = 2], [MCFamily EXCEPT !.n = 3, !.agents = <<1, 2, 3>>], [MCFamily EXCEPT !.agents = <<2, 1>>],
   [MCFamily EXCEPT !.option = 1], [MCFamily EXCEPT !.library = 1], [MCFamily EXCEPT !.sweeps = 3]}
MCScale == [n |-> 2, counts |-> <<0, 0, 1, 1, 0, 0, 0>>, sweeps |-> {1, 2}]
MCDrifts == [where : {{<<"I0", "C0", "E0">>}, {<<"I1", "C1", "E2">>}, CellIds}, fields : {{f, g} : f, g \in CellFields}]

MCCases == << [topic |-> "T1", pair |-> 1, side |-> "left"], [topic |-> "T1", pair |-> 2, side |-> "left"],
  [topic |-> "T1", pair |-> 1, side |-> "right"], [topic |-> "T1", pair |-> 2, side |-> "right"],
  [topic |-> "T2", pair |-> 1, side |-> "left"], [topic |-> "T2", pair |-> 2, side |-> "left"],
  [topic |-> "T2", pair |-> 1, side |-> "right"], [topic |-> "T2", pair |-> 2, side |-> "right"] >>
Spoken(s) == [parsed |-> TRUE, stance |-> s, refusal |-> FALSE]
Unparsed(refusal) == [parsed |-> FALSE, stance |-> 0, refusal |-> refusal]
Answered(s) == [x \in 1 .. 8 |-> Spoken(s[x])]
Even == Answered(<<3, 5, 5, 3, 3, 5, 5, 3>>)
MCTrials ==
  {[complete |-> TRUE, final |-> f] :
     f \in {Even, Answered(<<3, 3, 5, 5, 3, 5, 5, 3>>), Answered(<<7, 7, 7, 7, 3, 5, 5, 3>>), [Even EXCEPT ![1] = Unparsed(FALSE), ![5] = Unparsed(TRUE)]}}
  \union {[complete |-> FALSE, final |-> [Even EXCEPT ![1] = Nil]]}
MCPolicy == [labels |-> [stance |-> {"fits", "opposes", "unclear"}, refusal |-> {"none", "refuses"}],
  passing |-> [stance |-> {"fits"}, refusal |-> {"none"}], refusing |-> {"refuses"},
  contradiction |-> [fits |-> "consistent", opposes |-> "contradiction", unclear |-> "indeterminate"],
  threshold |-> <<1, 2>>, plain |-> [stance |-> "fits", refusal |-> "none"],
  stratum |-> <<"T1", "T1", "T1", "T1", "T2", "T2", "T2", "T2">>, count |-> [T1 |-> 1, T2 |-> 1],
  rank |-> <<8, 7, 6, 5, 4, 3, 2, 1>>]
MCGates == [parse |-> <<1, 2>>, refusal |-> <<1, 4>>, endpoint |-> <<1, 4>>, dz |-> <<1, 2>>, contradiction |-> <<1, 4>>, tv |-> <<1, 2>>,
  minimum |-> 3, categories |-> 2, scale |-> 1 .. 7]
O(s, r) == [stance |-> s, refusal |-> r]
MCOpinion == {O("fits", "none"), O("opposes", "none"), O("unclear", "none"), O("fits", "refuses")}
MCOrder == <<"T1", "T2">>

StudySpec == StudyInit /\ [][StudyNext]_studyVars
Symmetric == Permutations(Process)
=============================================================================
