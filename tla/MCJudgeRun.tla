----------------------------- MODULE MCJudgeRun -----------------------------
(* Processes are alike.                                                      *)
EXTENDS JudgeRun, TLC

Symmetry == Permutations(Process)
=============================================================================
