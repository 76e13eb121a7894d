---------------------------- MODULE JudgeLedger ----------------------------
(***************************************************************************)
(* What the archive of a judge run promises: one log, to which records are *)
(* added that its replay accepts, until it is closed over a result for     *)
(* every item.                                                             *)
(***************************************************************************)
EXTENDS JudgeRecords

VARIABLES log, closed

ledgerVars == <<log, closed>>

LedgerInit == log = <<>> /\ closed = FALSE

(* The log after the step says which record was added.                        *)
Extends(old, new) ==
  /\ Len(new) = Len(old) + 1
  /\ SubSeq(new, 1, Len(old)) = old
  /\ new[Len(new)] \in Record
  /\ Accepts(Replay(old), new[Len(new)])

Add ==
  /\ ~closed
  /\ Extends(log, log')
  /\ UNCHANGED closed

Close ==
  /\ ~closed
  /\ TerminalCover(Replay(log))
  /\ closed' = TRUE
  /\ UNCHANGED log

LedgerSpec == LedgerInit /\ [][Add \/ Close]_ledgerVars
=============================================================================
