----------------------------- MODULE MCRunStore -----------------------------
(***************************************************************************)
(* Small instances of RunStore for TLC: two agents, of which the first is  *)
(* activated twice with a post before and after an unpublished event.      *)
(***************************************************************************)
EXTENDS RunStoreIntegrity

CONSTANTS a1, a2

MCAgents == {a1, a2}
MCAgent  == [e \in 0 .. EventCount - 1 |-> IF e % 2 = 0 THEN a1 ELSE a2]
MCPublish == [e \in 0 .. EventCount - 1 |-> e # 1]
=============================================================================
