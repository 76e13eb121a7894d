----------------------------- MODULE ProbeStore -----------------------------
(***************************************************************************)
(* The files of a probe store (calibration/store.py).                      *)
(*                                                                         *)
(* Records are files of a staging directory, each created in one step by a *)
(* link.  A projection file lists the attempts among them; it is replaced  *)
(* after every append.  seal() copies everything to sealed.partial,        *)
(* renames it to sealed, and removes the staging directory file by file.   *)
(* A process may die between any two of these steps, or a step may fail    *)
(* and the handle live on.                                                 *)
(*                                                                         *)
(* Several handles may be open, as in a smoke run; their operations follow *)
(* one another, since nothing but the operator keeps two processes apart.  *)
(***************************************************************************)
EXTENDS Naturals, Sequences, FiniteSets, SequencesExt

CONSTANTS
  Handle,      \* ProbeRunStore objects
  Series,      \* series of records: cases, and SmokeSeries
  SmokeSeries, \* the series of smoke progress, which is not projected
  Length,      \* bounds the records of a series
  MaxFaults,   \* bounds deaths and failures
  Absent       \* None of the source

ASSUME SeriesAssumption == SmokeSeries \in Series /\ Length \in Nat \ {0}

VARIABLES
  staging, partial, sealed,   \* the directories
  handle,                     \* the open handles
  op,                         \* the operation that is running, and its next step
  faults,
  torn                        \* history: the steps at which a process died

directories == <<staging, partial, sealed>>
probeVars == <<directories, handle, op, faults, torn>>

Record == [series : Series, index : 1 .. Length]
IsAttempt(r) == r.series # SmokeSeries
Attempts(records) == {r \in records : IsAttempt(r)}

(* A directory: its subdirectories (all of them, or not), its manifest, its   *)
(* projection and its record files.                                           *)
Directory ==
  [dirs : BOOLEAN, manifest : BOOLEAN, projection : {Absent} \union Seq(Record), records : SUBSET Record]

(* What a handle and a running operation remember.                            *)
HandleState == [listed : Seq(Record), sealed : BOOLEAN]

OpStep == {"manifest", "projection", "persist", "project", "partial", "copy", "publish", "remove"}
Operation == [handle : Handle, step : OpStep, record : Record \union {Absent}]

ASSUME AbsentAssumption ==
  Absent \notin Directory \union Seq(Record) \union HandleState \union Operation

Empty == [dirs |-> TRUE, manifest |-> FALSE, projection |-> Absent, records |-> {}]

(* _validate_attempt_sequence, load_smoke_progress                            *)
Contiguous(records) ==
  \A r \in records : r.index > 1 => [r EXCEPT !.index = r.index - 1] \in records

(* Mutant: one record too many may be missing.                                *)
Follows(r, records) == r \notin records

(* The checks of append_attempt and append_smoke_progress.                    *)
MayAppend(r, records) == r \notin records /\ Contiguous(records \union {r})

(* What open() returns of a staging directory: the projected attempts and the *)
(* others in the order of their hashes, which is any order.                   *)
Orderings(records) == {s \in [1 .. Cardinality(records) -> records] : IsInjective(s)}

Listings ==
  {staging.projection \o rest : rest \in Orderings(Attempts(staging.records) \ ToSet(staging.projection))}

StagingOpens ==
  /\ staging # Absent
  /\ staging.dirs /\ staging.manifest
  /\ staging.projection # Absent
  /\ ToSet(staging.projection) \subseteq staging.records
  /\ Contiguous(staging.records)

(* Of a sealed store; a staging directory beside it must be its double.       *)
SealedOpens ==
  /\ sealed.manifest
  /\ ToSet(sealed.projection) = Attempts(sealed.records)
  /\ Contiguous(sealed.records)
  /\ staging # Absent => staging = sealed

Opens == IF sealed # Absent THEN SealedOpens ELSE StagingOpens

Exists == staging # Absent \/ partial # Absent \/ sealed # Absent

(* Mutant: the handle remembers whether it sealed the store.                  *)
RequireUnsealedHandle(h) == ~handle[h].sealed /\ staging # Absent

(* _require_staging                                                           *)
RequireStaging(h) == ~handle[h].sealed /\ sealed = Absent /\ staging # Absent

ProbeInit ==
  /\ staging = Absent /\ partial = Absent /\ sealed = Absent
  /\ handle = [h \in Handle |-> Absent]
  /\ op = Absent
  /\ faults = 0 /\ torn = {}

OpBegins(h, next, r) == op' = [handle |-> h, step |-> next, record |-> r]
OpGoto(next) == op' = [op EXCEPT !.step = next]
OpAt(next) == op # Absent /\ op.step = next
OpDone == op' = Absent

-----------------------------------------------------------------------------
(* create *)

CreateStaging(h) ==
  /\ op = Absent /\ handle[h] = Absent
  /\ ~Exists
  /\ staging' = Empty
  /\ OpBegins(h, "manifest", Absent)
  /\ UNCHANGED <<partial, sealed, handle, faults, torn>>

CreateManifest ==
  /\ OpAt("manifest")
  /\ staging' = [staging EXCEPT !.manifest = TRUE]
  /\ OpGoto("projection")
  /\ UNCHANGED <<partial, sealed, handle, faults, torn>>

CreateProjection ==
  /\ OpAt("projection")
  /\ staging' = [staging EXCEPT !.projection = <<>>]
  /\ handle' = [handle EXCEPT ![op.handle] = [listed |-> <<>>, sealed |-> FALSE]]
  /\ OpDone
  /\ UNCHANGED <<partial, sealed, faults, torn>>

-----------------------------------------------------------------------------
(* open, and a handle that is dropped *)

Open(h) ==
  /\ op = Absent /\ handle[h] = Absent
  /\ Opens
  /\ \E listed \in IF sealed # Absent THEN {sealed.projection} ELSE Listings :
       handle' = [handle EXCEPT ![h] = [listed |-> listed, sealed |-> sealed # Absent]]
  /\ UNCHANGED <<directories, op, faults, torn>>

Drop(h) ==
  /\ op = Absent /\ handle[h] # Absent
  /\ handle' = [handle EXCEPT ![h] = Absent]
  /\ UNCHANGED <<directories, op, faults, torn>>

-----------------------------------------------------------------------------
(* append_attempt, append_smoke_progress *)

AppendRecord(h, r) ==
  /\ op = Absent /\ handle[h] # Absent
  /\ RequireStaging(h)
  /\ MayAppend(r, staging.records)
  /\ staging' = [staging EXCEPT !.records = @ \union {r}]
  /\ IF IsAttempt(r)
     THEN /\ handle' = [handle EXCEPT ![h].listed = Append(@, r)]
          /\ OpBegins(h, "persist", r)
     ELSE UNCHANGED <<handle, op>>
  /\ UNCHANGED <<partial, sealed, faults, torn>>

(* _persist_projection                                                        *)
PersistProjection ==
  /\ OpAt("persist")
  /\ staging' = [staging EXCEPT !.projection = handle[op.handle].listed]
  /\ OpDone
  /\ UNCHANGED <<partial, sealed, handle, faults, torn>>

-----------------------------------------------------------------------------
(* seal *)

(* Mutant: the handle's own list is sealed.                                   *)
BeginSealAsListed(h) ==
  /\ op = Absent /\ handle[h] # Absent
  /\ RequireStaging(h)
  /\ Opens
  /\ OpBegins(h, "project", Absent)
  /\ UNCHANGED <<directories, handle, faults, torn>>

BeginSeal(h) ==
  /\ op = Absent /\ handle[h] # Absent
  /\ RequireStaging(h)
  /\ Opens
  /\ \E listed \in Listings : handle' = [handle EXCEPT ![h].listed = listed]
  /\ OpBegins(h, "project", Absent)
  /\ UNCHANGED <<directories, faults, torn>>

(* The projection is replaced before sealed.partial is looked for.            *)
SealProject ==
  /\ OpAt("project")
  /\ staging' = [staging EXCEPT !.projection = handle[op.handle].listed]
  /\ IF partial = Absent THEN OpGoto("partial") ELSE OpDone
  /\ UNCHANGED <<partial, sealed, handle, faults, torn>>

SealMakePartial ==
  /\ OpAt("partial")
  /\ partial' = Empty
  /\ OpGoto("copy")
  /\ UNCHANGED <<staging, sealed, handle, faults, torn>>

(* Nobody reads sealed.partial, so its files are copied in one step.          *)
SealCopy ==
  /\ OpAt("copy")
  /\ partial' = staging
  /\ OpGoto("publish")
  /\ UNCHANGED <<staging, sealed, handle, faults, torn>>

SealPublish ==
  /\ OpAt("publish")
  /\ sealed' = partial /\ partial' = Absent
  /\ OpGoto("remove")
  /\ UNCHANGED <<staging, handle, faults, torn>>

(* shutil.rmtree(staging): the entries go in the order of the directory.      *)
SealRemove ==
  /\ OpAt("remove")
  /\ \/ staging.dirs /\ staging' = [staging EXCEPT !.dirs = FALSE]
     \/ staging.manifest /\ staging' = [staging EXCEPT !.manifest = FALSE]
     \/ staging.projection # Absent /\ staging' = [staging EXCEPT !.projection = Absent]
     \/ \E r \in staging.records : staging' = [staging EXCEPT !.records = @ \ {r}]
  /\ UNCHANGED <<partial, sealed, handle, op, faults, torn>>

SealFinish ==
  /\ OpAt("remove") /\ staging = [Empty EXCEPT !.dirs = FALSE]
  /\ staging' = Absent
  /\ handle' = [handle EXCEPT ![op.handle] = [listed |-> <<>>, sealed |-> TRUE]]
  /\ OpDone
  /\ UNCHANGED <<partial, sealed, faults, torn>>

-----------------------------------------------------------------------------
Fault == faults < MaxFaults /\ faults' = faults + 1

TornBy == IF OpAt("remove") /\ staging = sealed THEN torn ELSE torn \union {op.step}

(* A step raises: create() removes its root, seal() its sealed.partial; the   *)
(* handle lives on with what it has in memory.                                *)
Fail ==
  /\ op # Absent
  /\ Fault
  /\ staging' = IF op.step \in {"manifest", "projection"} THEN Absent ELSE staging
  /\ partial' = IF op.step \in {"copy", "publish"} THEN Absent ELSE partial
  /\ torn' = IF OpAt("remove") THEN TornBy ELSE torn
  /\ OpDone
  /\ UNCHANGED <<sealed, handle>>

(* Every handle is of the process that dies.                                  *)
ProcessDies ==
  /\ op # Absent
  /\ Fault
  /\ handle' = [h \in Handle |-> Absent]
  /\ torn' = TornBy
  /\ OpDone
  /\ UNCHANGED directories

ProbeNext ==
  \/ \E h \in Handle :
       \/ CreateStaging(h) \/ Open(h) \/ Drop(h) \/ BeginSeal(h)
       \/ \E r \in Record : AppendRecord(h, r)
  \/ CreateManifest \/ CreateProjection \/ PersistProjection
  \/ SealProject \/ SealMakePartial \/ SealCopy \/ SealPublish \/ SealRemove \/ SealFinish
  \/ Fail \/ ProcessDies

ProbeSpec == ProbeInit /\ [][ProbeNext]_probeVars

-----------------------------------------------------------------------------
(* Properties *)

(* Whatever is interrupted, a record whose append returned is never lost, no  *)
(* series has a gap, and what was sealed stays as it is, stale handles or     *)
(* not: the store is the archive it promises to be.                           *)
Promised == INSTANCE RecordArchive WITH
  records <- (IF staging = Absent THEN {} ELSE staging.records)
             \union (IF sealed = Absent THEN {} ELSE sealed.records),
  closed  <- sealed # Absent

ImplementsArchive == Promised!ArchiveSpec

(* A store can be opened again after every interruption but two: a death      *)
(* before create() has written its projection, and a death or failure after   *)
(* the removal of the staging directory has begun.                            *)
OpensUnlessTorn ==
  op = Absent /\ Exists /\ torn \cap {"manifest", "projection", "remove"} = {} => Opens

(* A sealed store's projection lists every attempt that was ever appended,    *)
(* which is what the reader of a sealed bundle counts on.                     *)
SealedIsComplete ==
  sealed # Absent => ToSet(sealed.projection) = Attempts(sealed.records)
=============================================================================
