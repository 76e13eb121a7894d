----------------------------- MODULE MCCheckpoint -----------------------------
(* One agent, two events, of which the second is not published.             *)
EXTENDS Checkpoint

CONSTANT a1

MCAgents  == {a1}
MCAgent   == [e \in 0 .. EventCount - 1 |-> a1]
MCPublish == [e \in 0 .. EventCount - 1 |-> e = 0]
=============================================================================
