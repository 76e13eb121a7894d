-------------------------- MODULE MCLifecycleEngine --------------------------
(* Two processes, one agent, two events of two attempts each.               *)
EXTENDS LifecycleEngine

CONSTANTS a1, p1, p2

MCAgents  == {a1}
MCProcs   == {p1, p2}
MCAgent   == [e \in 0 .. EventCount - 1 |-> a1]
MCPublish == [e \in 0 .. EventCount - 1 |-> TRUE]
=============================================================================
