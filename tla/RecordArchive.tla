--------------------------- MODULE RecordArchive ---------------------------
(***************************************************************************)
(* What a probe store promises: an archive of records that only grows, in  *)
(* series without gaps, until it is closed; and then never changes.        *)
(***************************************************************************)
EXTENDS Naturals

CONSTANTS
  Series,    \* the cases, and the series of smoke progress
  Length     \* bound: records in a series

VARIABLES records, closed

archiveVars == <<records, closed>>

Record == [series : Series, index : 1 .. Length]

ArchiveInit == records = {} /\ closed = FALSE

Add(r) ==
  /\ ~closed
  /\ r.index = 1 \/ [r EXCEPT !.index = r.index - 1] \in records
  /\ r \notin records
  /\ records' = records \union {r}
  /\ UNCHANGED closed

Close == ~closed /\ closed' = TRUE /\ UNCHANGED records

ArchiveNext == Close \/ \E r \in Record : Add(r)

ArchiveSpec == ArchiveInit /\ [][ArchiveNext]_archiveVars
=============================================================================
