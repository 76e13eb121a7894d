----------------------------- MODULE JudgeStore -----------------------------
(***************************************************************************)
(* The archive of a judge run (calibration/judge_store.py).                *)
(*                                                                         *)
(* An append is a transaction over five directories: the prepared          *)
(* transaction with everything in it, the record, the journal entry, the   *)
(* projection, and the commit mark, each file created in one step.  A file *)
(* lock keeps two appends apart; whoever takes it first finishes what was  *)
(* prepared before.  Readers take no lock.                                 *)
(*                                                                         *)
(* A transaction, and everything it writes, is named by its journal entry; *)
(* the projection of the empty log is there from the start.                *)
(***************************************************************************)
EXTENDS JudgeRecords

CONSTANTS Process, None

VARIABLES
  archive,      \* the directories
  terminal,     \* projection.json: the log it is the projection of
  writing,      \* the write under the lock, and its next step
  known,        \* _projection_identities of the handle of a process, by sequence
  litter,       \* temporary files in the directories a writer cleans
  rootLitter    \* a temporary file beside projection.json

storeVars == <<archive, terminal, writing, known, litter, rootLitter>>

Entry(log) == <<Len(log), log[Len(log)]>>

(* Mutant: prepared transactions are left as they are.                        *)
LeaveAsIs(a) == a

(* _recover_transactions; a death within it leaves what a death within the    *)
(* append would have left.                                                    *)
Recover(a) ==
  [prepared    |-> a.prepared,
   evidence    |-> a.evidence \union {e[2] : e \in a.prepared},
   journal     |-> a.journal \union a.prepared,
   projections |-> a.projections \union a.prepared,
   committed   |-> a.prepared]

(* A journal entry of that sequence is there, and is another.                 *)
Conflict(a) == \E e \in a.prepared \ a.journal, f \in a.journal : e[1] = f[1]

(* read_records                                                               *)
Readable(a) ==
  /\ {e[1] : e \in a.journal} = 1 .. Cardinality(a.journal)
  /\ {e[2] : e \in a.journal} = a.evidence

LogOf(a) ==
  [n \in 1 .. Cardinality(a.journal) |-> (CHOOSE e \in a.journal : e[1] = n)[2]]

(* _recover_transactions succeeds, and the records can be read after it.      *)
Recovers(a) == ~Conflict(a) /\ a.committed \subseteq a.prepared /\ Readable(Recover(a))

(* open, apart from the cleaning.                                             *)
Opens ==
  /\ ~rootLitter
  /\ Recovers(archive)
  /\ LET a == Recover(archive) IN
       /\ a.projections = a.journal
       /\ terminal # None => terminal = LogOf(a) /\ TerminalCover(Replay(terminal))

(* _read_current_projection: of the projections a handle does not know it     *)
(* trusts one, the last.                                                      *)
CurrentProjection(a, p) ==
  LET last == Cardinality(a.journal) IN
  /\ {e[1] : e \in a.projections} = 1 .. Cardinality(a.projections)
  /\ \A e \in a.journal : e[1] = last => e \in a.projections
  /\ Cardinality(a.projections) = last
  /\ (0 .. last) \ known[p] \subseteq {last}

StoreInit ==
  /\ archive = [prepared |-> {}, evidence |-> {}, journal |-> {}, projections |-> {}, committed |-> {}]
  /\ terminal = None
  /\ writing = None
  /\ litter = FALSE /\ rootLitter = FALSE

OpenStore(p) ==
  /\ writing = None
  /\ Opens
  /\ archive' = Recover(archive)
  /\ known' = [known EXCEPT ![p] = 0 .. Cardinality(archive'.journal)]
  /\ litter' = FALSE
  /\ UNCHANGED <<terminal, writing, rootLitter>>

-----------------------------------------------------------------------------
(* append *)

MayAppend(p, r) ==
  /\ terminal = None
  /\ Recovers(archive)
  /\ LET a == Recover(archive) IN
       /\ CurrentProjection(a, p)
       /\ r \notin a.evidence
       /\ Accepts(Replay(LogOf(a)), r)

(* Mutant: the append does not finish what was prepared before it.            *)
PrepareUnrecovered(p, r) ==
  /\ writing = None /\ terminal = None
  /\ Readable(archive) /\ Accepts(Replay(LogOf(archive)), r)
  /\ LET entry == <<Cardinality(archive.journal) + 1, r>> IN
       /\ archive' = [archive EXCEPT !.prepared = @ \union {entry}]
       /\ writing' = [process |-> p, entry |-> entry, step |-> "record"]
  /\ litter' = FALSE
  /\ UNCHANGED <<terminal, known, rootLitter>>

Prepare(p, r) ==
  /\ writing = None
  /\ MayAppend(p, r)
  /\ LET a == Recover(archive)
         entry == <<Cardinality(a.journal) + 1, r>>
     IN /\ archive' = [a EXCEPT !.prepared = @ \union {entry}]
        /\ writing' = [process |-> p, entry |-> entry, step |-> "record"]
  /\ litter' = FALSE
  /\ UNCHANGED <<terminal, known, rootLitter>>

(* The append raises before it has written anything of its own.               *)
RefuseAppend(p, r) ==
  /\ writing = None
  /\ ~MayAppend(p, r)
  /\ IF terminal = None
     THEN archive' = Recover(archive) /\ litter' = FALSE
     ELSE UNCHANGED <<archive, litter>>
  /\ UNCHANGED <<terminal, writing, rootLitter>>

At(step) == writing # None /\ writing.step = step
Goto(step) == writing' = [writing EXCEPT !.step = step]

PublishRecord ==
  /\ At("record")
  /\ archive' = [archive EXCEPT !.evidence = @ \union {writing.entry[2]}]
  /\ Goto("journal")
  /\ UNCHANGED <<terminal, known, litter, rootLitter>>

PublishJournal ==
  /\ At("journal")
  /\ archive' = [archive EXCEPT !.journal = @ \union {writing.entry}]
  /\ Goto("projection")
  /\ UNCHANGED <<terminal, known, litter, rootLitter>>

PublishProjection ==
  /\ At("projection")
  /\ archive' = [archive EXCEPT !.projections = @ \union {writing.entry}]
  /\ Goto("commit")
  /\ UNCHANGED <<terminal, known, litter, rootLitter>>

CommitAppend(p) ==
  /\ At("commit") /\ writing.process = p
  /\ archive' = [archive EXCEPT !.committed = @ \union {writing.entry}]
  /\ writing' = None
  /\ known' = [known EXCEPT ![p] = @ \union {writing.entry[1]}]
  /\ UNCHANGED <<terminal, litter, rootLitter>>

-----------------------------------------------------------------------------
(* verify_terminal_projection; it does not clean.                             *)

BeginTerminal(p) ==
  /\ writing = None
  /\ ~litter
  /\ Recovers(archive)
  /\ LET log == LogOf(Recover(archive)) IN
       /\ Recover(archive).projections = Recover(archive).journal
       /\ TerminalCover(Replay(log))
       /\ writing' = [process |-> p, entry |-> Entry(log), step |-> "terminal"]
  /\ terminal = None
  /\ archive' = Recover(archive)
  /\ UNCHANGED <<terminal, known, litter, rootLitter>>

PublishTerminal(p) ==
  /\ At("terminal") /\ writing.process = p
  /\ terminal' = LogOf(archive)
  /\ writing' = None
  /\ UNCHANGED <<archive, known, litter, rootLitter>>

-----------------------------------------------------------------------------
(* The lock is given up by a writer that dies, or whose write raises; what it *)
(* was writing may be left beside the file it was to become.                  *)
AbandonWrite(p) ==
  IF writing # None /\ writing.process = p
  THEN /\ writing' = None
       /\ IF writing.step = "terminal"
          THEN rootLitter' \in BOOLEAN /\ UNCHANGED litter
          ELSE litter' \in BOOLEAN /\ UNCHANGED rootLitter
  ELSE UNCHANGED <<writing, litter, rootLitter>>
=============================================================================
