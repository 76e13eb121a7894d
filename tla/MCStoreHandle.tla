---------------------------- MODULE MCStoreHandle ----------------------------
(* Two handles on one database; None is a model value.                   *)
EXTENDS StoreHandle, TLC

CONSTANTS h1, h2

MCHandles == {h1, h2}
HandleSymmetry == Permutations(MCHandles)
=============================================================================
