------------------------------ MODULE Families ------------------------------
(***************************************************************************)
(* Artifacts (artifacts.py): a payload enveloped with what it was made     *)
(* from, and an identity that is the hash of both: two artifacts are the   *)
(* same exactly when they have the same content.  A builder is             *)
(* deterministic: it can be replayed, and a replay shows an edited payload *)
(* even when the envelope was made anew.                                   *)
(***************************************************************************)
EXTENDS Naturals, Sequences

(* A family, [seed, n, agents, sweeps, option, library], is what builders   *)
(* are asked for; "agents" is the list given to those of the schedule.      *)
Numbered(n) == [i \in 1 .. n |-> i]

Names == {"topic", "population", "stance", "reason", "persona", "ws", "shadow", "mapping", "gate",
          "attention", "expression", "activation", "publish"}

(* ArtifactEnvelope.create: "about" holds the parameters of the builder.    *)
Artifact(kind, seed, roster, about, from) ==
  [kind |-> kind, seed |-> seed, roster |-> roster, about |-> about, from |-> from, edited |-> FALSE]
(* An artifact whose payload was changed and enveloped again.               *)
Edited(artifact) == [artifact EXCEPT !.edited = TRUE]

TopicPackage(f) == Artifact("topic", 0, <<>>, f.library, <<>>)
PersonaTemplate(f) == Artifact("persona", 0, <<>>, f.option, <<>>)

People(f) == Artifact("population", f.seed, Numbered(f.n), f.option, <<>>)
Stance(f) == Artifact("stance", f.seed, Numbered(f.n), f.option, <<People(f)>>)
Reason(f) == Artifact("reason", f.seed, Numbered(f.n), f.library, <<Stance(f)>>)
Ws(f) == Artifact("ws", f.seed, Numbered(f.n), f.option, <<>>)
ShadowOf(ws, option) == Artifact("shadow", ws.seed, ws.roster, option, <<ws>>)
GateOf(ws, option) == Artifact("gate", ws.seed, ws.roster, option, <<ws>>)
Attention(f) == Artifact("attention", f.seed, f.agents, f.option, <<>>)
Expression(f) == Artifact("expression", f.seed, f.agents, f.option, <<>>)

(* Nothing is built of sources that do not fit.                             *)
Unbuilt == Artifact("unbuilt", 0, <<>>, 0, <<>>)

(* The three validators of graphs make what they validate again.            *)
WsReplays(ws) == ~ws.edited
ShadowReplays(shadow, ws) == shadow = ShadowOf(ws, shadow.about)
GateReplays(gate, ws) == gate = GateOf(ws, gate.about)

(* _attention_records, _expression_records: made again, and compared.       *)
AttentionReplays(attention) == ~attention.edited
ExpressionReplays(expression) == ~expression.edited

(* build_agent_node_mapping: a bijection of the agents and the nodes of a   *)
(* graph of as many.                                                        *)
MappingOf(population, reason, ws) ==
  IF /\ population.seed = reason.seed /\ population.seed = ws.seed
     /\ reason.roster = population.roster /\ Len(ws.roster) = Len(population.roster) /\ WsReplays(ws)
  THEN Artifact("mapping", ws.seed, ws.roster, 0, <<ws, population, reason>>)
  ELSE Unbuilt

(* build_activation_schedule.                                               *)
ActivationOf(attention, sweeps) ==
  IF ~AttentionReplays(attention) THEN Unbuilt
  ELSE Artifact("activation", attention.seed, attention.roster, sweeps, <<attention>>)

(* _activation_details: of this attention, its draws made again.            *)
ActivationReplays(activation, attention) == activation = ActivationOf(attention, activation.about)

(* build_publish_schedule: sources of one seed and one roster.              *)
PublishOf(attention, activation, expression) ==
  IF /\ ActivationReplays(activation, attention) /\ ExpressionReplays(expression)
     /\ attention.seed = expression.seed /\ attention.roster = expression.roster
  THEN Artifact("publish", attention.seed, attention.roster, activation.about, <<attention, activation, expression>>)
  ELSE Unbuilt

(* The artifact of a family that goes by a name.                            *)
MadeOf(f) ==
  LET activation == ActivationOf(Attention(f), f.sweeps)
  IN [topic |-> TopicPackage(f), persona |-> PersonaTemplate(f),
      population |-> People(f), stance |-> Stance(f), reason |-> Reason(f),
      ws |-> Ws(f), shadow |-> ShadowOf(Ws(f), f.option), gate |-> GateOf(Ws(f), f.option),
      mapping |-> MappingOf(People(f), Reason(f), Ws(f)),
      attention |-> Attention(f), expression |-> Expression(f), activation |-> activation,
      publish |-> PublishOf(Attention(f), activation, Expression(f))]
=============================================================================
