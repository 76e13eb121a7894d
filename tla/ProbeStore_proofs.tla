-------------------------- MODULE ProbeStore_proofs --------------------------
(***************************************************************************)
(* Proofs, for any number of handles, any series and any faults, of what   *)
(* TLC checks of two handles: the store can be opened unless create() or   *)
(* the removal after a seal was interrupted, a sealed store lists every    *)
(* attempt, and the store is the archive it promises to be.                *)
(***************************************************************************)
EXTENDS ProbeStore, FiniteSetTheorems, TLAPS
-----------------------------------------------------------------------------
(* The invariant                                                             *)

Creating == {"manifest", "projection"}
Sealing == {"partial", "copy", "publish"}

TypeOK ==
  /\ staging \in {Absent} \union Directory
  /\ partial \in {Absent} \union Directory
  /\ sealed \in {Absent} \union Directory
  /\ handle \in [Handle -> {Absent} \union HandleState]
  /\ op \in {Absent} \union Operation
  /\ staging # Absent => IsFiniteSet(staging.records)

(* A list of all of some records, or of some of them.                        *)
Lists(s, records) == s \in Seq(Record) /\ ToSet(s) \subseteq Attempts(records)
ListsAll(s, records) == s \in Seq(Record) /\ ToSet(s) = Attempts(records)

(* A staging directory that create() has completed: what appends, and what   *)
(* seal() does before it removes, keep it that way.                          *)
Proper ==
  /\ staging # Absent
  /\ staging.dirs /\ staging.manifest
  /\ Lists(staging.projection, staging.records)
  /\ Contiguous(staging.records)

(* While the store is not sealed an open handle, stale or not, lists nothing *)
(* that is not stored.                                                       *)
HandleInv ==
  sealed = Absent =>
    \A h \in Handle : handle[h] # Absent => Proper /\ Lists(handle[h].listed, staging.records)

(* Where an operation is, and what it has done so far.                       *)
OpInv ==
  op # Absent =>
    /\ op.step \in Creating =>
         /\ sealed = Absent /\ partial = Absent
         /\ staging = [Empty EXCEPT !.manifest = (op.step = "projection")]
    /\ op.step \in Sealing \union {"persist", "project"} => sealed = Absent /\ handle[op.handle] # Absent
    /\ op.step = "project" => ListsAll(handle[op.handle].listed, staging.records)
    /\ op.step \in Sealing => ListsAll(staging.projection, staging.records)
    /\ op.step = "publish" => partial = staging
    /\ op.step = "remove" => sealed # Absent /\ staging # Absent

(* A staging directory with a projection is complete, and between operations *)
(* it has one, whatever was interrupted, unless create() was.                *)
StagingInv ==
  sealed = Absent =>
    /\ staging # Absent /\ staging.projection # Absent => Proper
    /\ op = Absent /\ Exists /\ torn \cap Creating = {} => staging # Absent /\ staging.projection # Absent

(* A sealed store has the whole list; what is left of its staging directory  *)
(* is of it, and all of it unless the removal was interrupted.               *)
SealedInv ==
  sealed # Absent =>
    /\ sealed.manifest
    /\ ListsAll(sealed.projection, sealed.records)
    /\ Contiguous(sealed.records)
    /\ op # Absent => op.step = "remove"
    /\ staging # Absent => staging.records \subseteq sealed.records
    /\ op = Absent /\ "remove" \notin torn => staging \in {Absent, sealed}

StoreInv == TypeOK /\ HandleInv /\ OpInv /\ StagingInv /\ SealedInv

-----------------------------------------------------------------------------
(* Records and lists of them                                                 *)

LEMMA NoneIs ==
  /\ Absent \notin Directory /\ Absent \notin Seq(Record)
  /\ Absent \notin HandleState /\ Absent \notin Operation
BY AbsentAssumption

LEMMA EmptyIs ==
  /\ Empty \in Directory /\ Empty.dirs = TRUE /\ Empty.manifest = FALSE
  /\ Empty.projection = Absent /\ Empty.records = {}
BY DEF Empty, Directory

LEMMA AttemptsGrow ==
  ASSUME NEW some, NEW others, some \subseteq others
  PROVE  Attempts(some) \subseteq Attempts(others)
BY DEF Attempts

LEMMA AppendLists ==
  ASSUME NEW s \in Seq(Record), NEW r \in Record
  PROVE  Append(s, r) \in Seq(Record) /\ ToSet(Append(s, r)) = ToSet(s) \union {r}
<1>1. Append(s, r) \in Seq(Record) /\ Len(s) \in Nat
  OBVIOUS
<1>2. /\ DOMAIN s = 1 .. Len(s) /\ DOMAIN Append(s, r) = 1 .. Len(s) + 1
      /\ Append(s, r)[Len(s) + 1] = r /\ \A i \in DOMAIN s : Append(s, r)[i] = s[i]
  OBVIOUS
<1>3. DOMAIN Append(s, r) = DOMAIN s \union {Len(s) + 1}
  BY <1>1, <1>2
<1> QED
  BY <1>1, <1>2, <1>3 DEF ToSet

LEMMA ConcatLists ==
  ASSUME NEW s \in Seq(Record), NEW t \in Seq(Record)
  PROVE  s \o t \in Seq(Record) /\ ToSet(s \o t) = ToSet(s) \union ToSet(t)
<1> DEFINE m == Len(s)
           n == Len(t)
<1>1. s \o t \in Seq(Record) /\ m \in Nat /\ n \in Nat
  OBVIOUS
<1>2. /\ DOMAIN s = 1 .. m /\ DOMAIN t = 1 .. n /\ DOMAIN (s \o t) = 1 .. m + n
      /\ \A i \in 1 .. m : (s \o t)[i] = s[i]
      /\ \A i \in 1 .. n : (s \o t)[m + i] = t[i]
  OBVIOUS
<1> HIDE DEF m, n
<1>3. ASSUME NEW i \in 1 .. m + n PROVE (s \o t)[i] \in ToSet(s) \union ToSet(t)
  <2>1. CASE i \in 1 .. m
    BY <1>2, <2>1 DEF ToSet
  <2>2. CASE i \notin 1 .. m
    <3>1. i - m \in 1 .. n /\ i = m + (i - m)
      BY <1>1, <2>2
    <3>2. (s \o t)[i] = t[i - m]
      BY <1>2, <3>1
    <3> QED
      BY <1>2, <3>1, <3>2 DEF ToSet
  <2> QED
    BY <2>1, <2>2
<1>4. ASSUME NEW i \in 1 .. m PROVE s[i] \in ToSet(s \o t)
  <2>1. i \in 1 .. m + n
    BY <1>1
  <2> QED
    BY <1>2, <2>1 DEF ToSet
<1>5. ASSUME NEW i \in 1 .. n PROVE t[i] \in ToSet(s \o t)
  <2>1. m + i \in 1 .. m + n
    BY <1>1
  <2> QED
    BY <1>2, <2>1 DEF ToSet
<1>6. /\ \A x \in ToSet(s \o t) : \E i \in 1 .. m + n : x = (s \o t)[i]
      /\ \A x \in ToSet(s) : \E i \in 1 .. m : x = s[i]
      /\ \A x \in ToSet(t) : \E i \in 1 .. n : x = t[i]
  BY <1>2 DEF ToSet
<1>7. ToSet(s \o t) \subseteq ToSet(s) \union ToSet(t)
  BY <1>3, <1>6
<1>8. ToSet(s) \subseteq ToSet(s \o t) /\ ToSet(t) \subseteq ToSet(s \o t)
  BY <1>4, <1>5, <1>6
<1> HIDE <1>3, <1>4, <1>5, <1>6
<1> QED
  BY <1>1, <1>7, <1>8

(* What open() projects are all attempts that are stored: those that were    *)
(* projected, and the others in some order.                                  *)
LEMMA ListingsListAll ==
  ASSUME TypeOK, staging # Absent, Lists(staging.projection, staging.records),
         NEW listed \in Listings
  PROVE  ListsAll(listed, staging.records)
<1> DEFINE listedBefore == staging.projection
           missing == Attempts(staging.records) \ ToSet(listedBefore)
<1>1. /\ listedBefore \in Seq(Record) /\ ToSet(listedBefore) \subseteq Attempts(staging.records)
      /\ staging.records \subseteq Record /\ IsFiniteSet(staging.records)
  BY DEF TypeOK, Directory, Lists
<1>2. missing \subseteq Record /\ IsFiniteSet(missing)
  BY <1>1, FS_Subset DEF Attempts
<1>3. PICK rest \in Orderings(missing) : listed = listedBefore \o rest
  BY DEF Listings
<1>4. /\ Cardinality(missing) \in Nat
      /\ rest \in [1 .. Cardinality(missing) -> missing] /\ IsInjective(rest)
  BY <1>2, FS_CardinalityType DEF Orderings
<1>5. IsFiniteSet(1 .. Cardinality(missing))
      /\ Cardinality(1 .. Cardinality(missing)) = Cardinality(missing)
  BY <1>4, FS_Interval
<1>6. rest \in Surjection(1 .. Cardinality(missing), missing)
  <2>1. rest \in Injection(1 .. Cardinality(missing), missing)
    BY <1>4 DEF Injection
  <2> QED
    BY <1>2, <1>5, <2>1, FS_Injection
<1> HIDE DEF missing, listedBefore
<1>7. rest \in Seq(Record) /\ ToSet(rest) = missing
  <2>1. rest \in Seq(missing)
    BY <1>4
  <2>2. DOMAIN rest = 1 .. Cardinality(missing)
    BY <1>4
  <2>3. ToSet(rest) = missing
    BY <1>4, <1>6, <2>2 DEF ToSet, Surjection
  <2>4. rest \in Seq(Record)
    BY <1>2, <2>1
  <2> QED
    BY <2>3, <2>4
<1>8. listed \in Seq(Record) /\ ToSet(listed) = ToSet(listedBefore) \union ToSet(rest)
  BY <1>1, <1>3, <1>7, ConcatLists
<1> QED
  BY <1>1, <1>7, <1>8 DEF ListsAll, missing, listedBefore

(* A record that may be appended leaves no gap.                              *)
LEMMA AppendFits ==
  ASSUME NEW records \in SUBSET Record, NEW r \in Record, MayAppend(r, records)
  PROVE  /\ r \notin records /\ Contiguous(records \union {r})
         /\ r.index = 1 \/ [r EXCEPT !.index = r.index - 1] \in records
<1>1. r.index \in 1 .. Length /\ Length \in Nat /\ r = [series |-> r.series, index |-> r.index]
  BY SeriesAssumption DEF Record
<1>2. r \notin records /\ Contiguous(records \union {r})
  BY DEF MayAppend
<1>3. CASE r.index > 1
  <2>1. [r EXCEPT !.index = r.index - 1] \in records \union {r}
    BY <1>2, <1>3 DEF Contiguous
  <2>2. [r EXCEPT !.index = r.index - 1].index = r.index - 1
    BY <1>1
  <2> QED
    BY <1>1, <1>2, <2>1, <2>2
<1> QED
  BY <1>1, <1>2, <1>3

-----------------------------------------------------------------------------
(* The invariant is inductive                                                *)

LEMMA InitInv == ProbeInit => StoreInv
<1> SUFFICES ASSUME ProbeInit PROVE StoreInv
  OBVIOUS
<1>1. /\ staging = Absent /\ partial = Absent /\ sealed = Absent /\ op = Absent
      /\ handle \in [Handle -> {Absent}]
  BY DEF ProbeInit
<1> QED
  BY <1>1 DEF StoreInv, TypeOK, HandleInv, OpInv, StagingInv, SealedInv, Exists

(* The operation that is at a step.                                          *)
LEMMA OpIs ==
  ASSUME TypeOK, op # Absent
  PROVE  /\ op \in Operation /\ op.handle \in Handle /\ op.step \in OpStep
         /\ \A step \in OpStep :
              /\ [op EXCEPT !.step = step] \in Operation
              /\ [op EXCEPT !.step = step] # Absent
              /\ [op EXCEPT !.step = step].step = step
              /\ [op EXCEPT !.step = step].handle = op.handle
<1>1. op \in Operation /\ op.step \in OpStep
  BY DEF TypeOK, Operation
<1>2. op = [handle |-> op.handle, step |-> op.step, record |-> op.record]
      /\ op.handle \in Handle /\ op.record \in Record \union {Absent}
  BY <1>1 DEF Operation
<1>3. ASSUME NEW step \in OpStep
      PROVE  /\ [op EXCEPT !.step = step] \in Operation
             /\ [op EXCEPT !.step = step].step = step
             /\ [op EXCEPT !.step = step].handle = op.handle
  BY <1>2 DEF Operation
<1> QED
  BY <1>1, <1>2, <1>3, NoneIs

LEMMA BeginIs ==
  ASSUME NEW h \in Handle, NEW step \in OpStep, NEW r \in Record \union {Absent}, OpBegins(h, step, r)
  PROVE  op' \in Operation /\ op' # Absent /\ op'.step = step /\ op'.handle = h
BY NoneIs DEF OpBegins, Operation

(* A directory with one thing changed is a directory.                        *)
LEMMA ChangedDirectory ==
  ASSUME NEW d \in Directory
  PROVE  /\ d # Absent
         /\ \A b \in BOOLEAN : [d EXCEPT !.dirs = b] \in Directory
         /\ \A b \in BOOLEAN : [d EXCEPT !.manifest = b] \in Directory
         /\ \A s \in {Absent} \union Seq(Record) : [d EXCEPT !.projection = s] \in Directory
         /\ \A records \in SUBSET Record : [d EXCEPT !.records = records] \in Directory
BY NoneIs DEF Directory

LEMMA TypeKept == StoreInv /\ [ProbeNext]_probeVars => TypeOK'
<1> SUFFICES ASSUME StoreInv, [ProbeNext]_probeVars PROVE TypeOK'
  OBVIOUS
<1>0. TypeOK
  BY DEF StoreInv
<1>a. OpStep = {"manifest", "projection", "persist", "project", "partial", "copy", "publish", "remove"}
  BY DEF OpStep
<1> USE DEF directories
<1>1. CASE UNCHANGED probeVars
  BY <1>0, <1>1 DEF probeVars, TypeOK
<1>2. ASSUME NEW h \in Handle, CreateStaging(h) PROVE TypeOK'
  <2>1. op' \in Operation /\ op'.step \in OpStep
    BY <1>a, <1>2, BeginIs DEF CreateStaging
  <2>2. staging' \in Directory /\ IsFiniteSet(staging'.records)
    BY <1>2, EmptyIs, FS_EmptySet DEF CreateStaging
  <2> QED
    BY <1>0, <1>2, <2>1, <2>2 DEF CreateStaging, TypeOK
<1>3. CASE CreateManifest
  <2>1. staging \in Directory
    BY <1>3, EmptyIs, ChangedDirectory DEF CreateManifest, OpAt, StoreInv, OpInv, Creating
  <2>2. staging' \in Directory /\ staging'.records = staging.records
    BY <1>3, <2>1, ChangedDirectory DEF CreateManifest, Directory
  <2>3. op' \in Operation /\ op'.step \in OpStep
    BY <1>0, <1>a, <1>3, OpIs DEF CreateManifest, OpAt, OpGoto
  <2> QED
    BY <1>0, <1>3, <2>1, <2>2, <2>3, NoneIs DEF CreateManifest, TypeOK
<1>4. CASE CreateProjection
  <2>1. staging \in Directory /\ op.handle \in Handle
    BY <1>0, <1>4, EmptyIs, ChangedDirectory, OpIs DEF CreateProjection, OpAt, StoreInv, OpInv, Creating
  <2>2. <<>> \in Seq(Record) /\ [listed |-> <<>>, sealed |-> FALSE] \in HandleState
    BY DEF HandleState
  <2>3. staging' \in Directory /\ staging'.records = staging.records
    BY <1>4, <2>1, <2>2, ChangedDirectory DEF CreateProjection, Directory
  <2>4. handle' \in [Handle -> {Absent} \union HandleState] /\ op' = Absent
    BY <1>0, <1>4, <2>2 DEF CreateProjection, TypeOK, OpDone
  <2> QED
    BY <1>0, <1>4, <2>1, <2>3, <2>4, NoneIs DEF CreateProjection, TypeOK
<1>5. ASSUME NEW h \in Handle, Open(h) PROVE TypeOK'
  <2>1. PICK listed \in IF sealed # Absent THEN {sealed.projection} ELSE Listings :
          handle' = [handle EXCEPT ![h] = [listed |-> listed, sealed |-> sealed # Absent]]
    BY <1>5 DEF Open
  <2>2. listed \in Seq(Record)
    <3>1. CASE sealed # Absent
      BY <2>1, <3>1 DEF StoreInv, SealedInv, ListsAll
    <3>2. CASE sealed = Absent
      <4>1. StagingOpens /\ listed \in Listings
        BY <1>5, <2>1, <3>2 DEF Open, Opens
      <4>2. staging # Absent /\ Lists(staging.projection, staging.records)
        BY <3>2, <4>1 DEF StagingOpens, StoreInv, StagingInv, Proper
      <4> QED
        BY <1>0, <4>1, <4>2, ListingsListAll DEF ListsAll
    <3> QED
      BY <3>1, <3>2
  <2>3. [listed |-> listed, sealed |-> sealed # Absent] \in HandleState
    BY <2>2 DEF HandleState
  <2>4. handle' \in [Handle -> {Absent} \union HandleState]
    BY <1>0, <2>1, <2>3 DEF TypeOK
  <2> QED
    BY <1>0, <1>5, <2>4 DEF Open, TypeOK
<1>6. ASSUME NEW h \in Handle, Drop(h) PROVE TypeOK'
  BY <1>0, <1>6 DEF Drop, TypeOK
<1>7. ASSUME NEW h \in Handle, NEW r \in Record, AppendRecord(h, r) PROVE TypeOK'
  <2>1. staging \in Directory /\ staging.records \subseteq Record /\ IsFiniteSet(staging.records)
    BY <1>0, <1>7 DEF AppendRecord, RequireStaging, TypeOK, Directory
  <2>2. staging' = [staging EXCEPT !.records = staging.records \union {r}]
    BY <1>7 DEF AppendRecord
  <2>3. /\ staging' \in Directory /\ staging'.records = staging.records \union {r}
        /\ IsFiniteSet(staging'.records)
    <3>1. staging.records \union {r} \in SUBSET Record
      BY <2>1
    <3>2. staging' \in Directory
      BY <2>1, <2>2, <3>1, ChangedDirectory
    <3>3. staging'.records = staging.records \union {r}
      BY <2>1, <2>2 DEF Directory
    <3> QED
      BY <2>1, <3>2, <3>3, FS_AddElement
  <2>4. CASE IsAttempt(r)
    <3>1. op' \in Operation /\ op'.step \in OpStep
      BY <1>a, <1>7, <2>4, BeginIs DEF AppendRecord
    <3>2. handle[h] \in HandleState
      BY <1>0, <1>7 DEF AppendRecord, TypeOK
    <3>3. [handle[h] EXCEPT !.listed = Append(@, r)] \in HandleState
      BY <3>2, AppendLists DEF HandleState
    <3>4. handle' = [handle EXCEPT ![h] = [handle[h] EXCEPT !.listed = Append(@, r)]]
      BY <1>7, <2>4 DEF AppendRecord
    <3>5. handle' \in [Handle -> {Absent} \union HandleState]
      BY <1>0, <3>3, <3>4 DEF TypeOK
    <3> QED
      BY <1>0, <1>7, <2>3, <3>1, <3>5 DEF AppendRecord, TypeOK
  <2>5. CASE ~IsAttempt(r)
    BY <1>0, <1>7, <2>3, <2>5 DEF AppendRecord, TypeOK
  <2> QED
    BY <2>4, <2>5
<1>8. ASSUME PersistProjection \/ SealProject PROVE TypeOK'
  <2>1. /\ op # Absent /\ op.step \in {"persist", "project"}
        /\ staging' = [staging EXCEPT !.projection = handle[op.handle].listed]
        /\ UNCHANGED <<partial, sealed, handle>>
    BY <1>8 DEF PersistProjection, SealProject, OpAt
  <2>2. sealed = Absent /\ handle[op.handle] # Absent /\ op.handle \in Handle
    BY <1>0, <2>1, OpIs DEF StoreInv, OpInv, Sealing
  <2>3. /\ staging \in Directory /\ handle[op.handle].listed \in Seq(Record)
        /\ IsFiniteSet(staging.records)
    BY <1>0, <2>2 DEF StoreInv, HandleInv, Proper, Lists, TypeOK
  <2>4. staging' \in Directory /\ staging'.records = staging.records
    BY <2>1, <2>3, ChangedDirectory DEF Directory
  <2>5. op' = Absent \/ (op' \in Operation /\ op'.step \in OpStep)
    BY <1>0, <1>a, <1>8, OpIs DEF PersistProjection, SealProject, OpAt, OpGoto, OpDone
  <2> QED
    BY <1>0, <2>1, <2>3, <2>4, <2>5 DEF TypeOK
<1>9. ASSUME NEW h \in Handle, BeginSeal(h) PROVE TypeOK'
  <2>1. PICK listed \in Listings : handle' = [handle EXCEPT ![h].listed = listed]
    BY <1>9 DEF BeginSeal
  <2>2. sealed = Absent /\ staging # Absent /\ handle[h] # Absent
    BY <1>9 DEF BeginSeal, RequireStaging
  <2>3. listed \in Seq(Record)
    BY <1>0, <2>2, ListingsListAll DEF StoreInv, HandleInv, Proper, ListsAll
  <2>4. handle[h] \in HandleState
    BY <1>0, <2>2 DEF TypeOK
  <2>5. [handle[h] EXCEPT !.listed = listed] \in HandleState
    BY <2>3, <2>4 DEF HandleState
  <2>6. handle' \in [Handle -> {Absent} \union HandleState]
    BY <1>0, <2>1, <2>5 DEF TypeOK
  <2>7. op' \in Operation /\ op'.step \in OpStep
    BY <1>a, <1>9, BeginIs DEF BeginSeal
  <2> QED
    BY <1>0, <1>9, <2>6, <2>7 DEF BeginSeal, TypeOK
<1>10. ASSUME SealMakePartial \/ SealCopy \/ SealPublish PROVE TypeOK'
  <2>1. op # Absent /\ op' \in Operation /\ op'.step \in OpStep
    BY <1>0, <1>a, <1>10, OpIs DEF SealMakePartial, SealCopy, SealPublish, OpAt, OpGoto
  <2>2. /\ partial' \in {Absent, Empty, staging} /\ sealed' \in {sealed, partial}
        /\ UNCHANGED <<staging, handle>>
    BY <1>10 DEF SealMakePartial, SealCopy, SealPublish
  <2> QED
    BY <1>0, <2>1, <2>2, EmptyIs DEF TypeOK
<1>11. CASE SealRemove
  <2>1. staging \in Directory /\ staging.records \subseteq Record /\ IsFiniteSet(staging.records)
    BY <1>0, <1>11 DEF SealRemove, OpAt, StoreInv, OpInv, TypeOK, Directory
  <2>2. staging' \in Directory /\ staging'.records \subseteq staging.records
    <3>1. CASE staging' = [staging EXCEPT !.dirs = FALSE]
      BY <2>1, <3>1, ChangedDirectory DEF Directory
    <3>2. CASE staging' = [staging EXCEPT !.manifest = FALSE]
      BY <2>1, <3>2, ChangedDirectory DEF Directory
    <3>3. CASE staging' = [staging EXCEPT !.projection = Absent]
      BY <2>1, <3>3, ChangedDirectory DEF Directory
    <3>4. ASSUME NEW r \in staging.records, staging' = [staging EXCEPT !.records = @ \ {r}]
          PROVE  staging' \in Directory /\ staging'.records \subseteq staging.records
      <4>1. staging' = [staging EXCEPT !.records = staging.records \ {r}]
        BY <3>4
      <4> QED
        BY <2>1, <4>1, ChangedDirectory DEF Directory
    <3> QED
      BY <1>11, <3>1, <3>2, <3>3, <3>4 DEF SealRemove
  <2>3. IsFiniteSet(staging'.records)
    BY <2>1, <2>2, FS_Subset
  <2> QED
    BY <1>0, <1>11, <2>2, <2>3 DEF SealRemove, TypeOK
<1>12. CASE SealFinish
  <2>1. op.handle \in Handle
    BY <1>0, <1>12, OpIs DEF SealFinish, OpAt
  <2>2. [listed |-> <<>>, sealed |-> TRUE] \in HandleState
    BY DEF HandleState
  <2>3. handle' \in [Handle -> {Absent} \union HandleState]
    BY <1>0, <1>12, <2>2 DEF SealFinish, TypeOK
  <2> QED
    BY <1>0, <1>12, <2>3 DEF SealFinish, OpDone, TypeOK
<1>13. ASSUME Fail \/ ProcessDies PROVE TypeOK'
  <2>1. /\ staging' \in {Absent, staging} /\ partial' \in {Absent, partial} /\ sealed' = sealed
        /\ op' = Absent
    BY <1>13 DEF Fail, ProcessDies, OpDone
  <2>2. handle' \in [Handle -> {Absent} \union HandleState]
    BY <1>0, <1>13 DEF Fail, ProcessDies, TypeOK
  <2> QED
    BY <1>0, <2>1, <2>2 DEF TypeOK
<1> QED
  BY <1>1, <1>2, <1>3, <1>4, <1>5, <1>6, <1>7, <1>8, <1>9, <1>10, <1>11, <1>12, <1>13 DEF ProbeNext

LEMMA ListsGrow ==
  ASSUME NEW s, NEW some, NEW others, Lists(s, some), some \subseteq others
  PROVE  Lists(s, others)
BY AttemptsGrow DEF Lists

(* While create() runs there is nothing else, and nobody has a handle.       *)
LEMMA CreatingAlone ==
  ASSUME StoreInv, op # Absent, op.step \in Creating
  PROVE  /\ sealed = Absent /\ partial = Absent
         /\ staging = [Empty EXCEPT !.manifest = (op.step = "projection")]
         /\ staging.projection = Absent /\ staging.records = {} /\ staging.dirs
         /\ \A g \in Handle : handle[g] = Absent
<1>1. /\ sealed = Absent /\ partial = Absent
      /\ staging = [Empty EXCEPT !.manifest = (op.step = "projection")]
  BY DEF StoreInv, OpInv
<1>2. staging.projection = Absent /\ staging.records = {} /\ staging.dirs
  BY <1>1 DEF Empty
<1>3. ~Proper
  BY <1>2, NoneIs DEF Proper, Lists
<1> QED
  BY <1>1, <1>2, <1>3 DEF StoreInv, HandleInv

(* An operation of a handle on a store that is not sealed.                   *)
LEMMA WorkingHandle ==
  ASSUME StoreInv, op # Absent, op.step \in Sealing \union {"persist", "project"}
  PROVE  /\ sealed = Absent /\ Proper /\ staging \in Directory
         /\ op.handle \in Handle /\ handle[op.handle] \in HandleState
         /\ Lists(handle[op.handle].listed, staging.records)
<1>1. sealed = Absent /\ handle[op.handle] # Absent
  BY DEF StoreInv, OpInv
<1>2. op.handle \in Handle
  BY OpIs DEF StoreInv
<1> QED
  BY <1>1, <1>2 DEF StoreInv, HandleInv, TypeOK, Proper

(* A new projection of a complete directory leaves it complete.              *)
LEMMA ProjectionReplaced ==
  ASSUME Proper, staging \in Directory, NEW s, Lists(s, staging.records),
         staging' = [staging EXCEPT !.projection = s]
  PROVE  Proper' /\ staging'.records = staging.records /\ staging'.projection = s
<1>1. /\ staging'.dirs = staging.dirs /\ staging'.manifest = staging.manifest
      /\ staging'.records = staging.records /\ staging'.projection = s
  BY DEF Directory
<1>2. s \in Seq(Record)
  BY DEF Lists
<1>3. staging' # Absent
  BY <1>2, ChangedDirectory
<1> QED
  BY <1>1, <1>3 DEF Proper

LEMMA StepInv == StoreInv /\ [ProbeNext]_probeVars => StoreInv'
<1> SUFFICES ASSUME StoreInv, [ProbeNext]_probeVars
             PROVE  HandleInv' /\ OpInv' /\ StagingInv' /\ SealedInv'
  BY TypeKept DEF StoreInv
<1>0. TypeOK /\ TypeOK' /\ HandleInv /\ OpInv /\ StagingInv /\ SealedInv
  BY TypeKept DEF StoreInv
<1> USE DEF directories
<1> DEFINE Goal == HandleInv' /\ OpInv' /\ StagingInv' /\ SealedInv'
<1>1. CASE UNCHANGED probeVars
  BY <1>0, <1>1 DEF probeVars, HandleInv, OpInv, StagingInv, SealedInv, Proper, Exists
<1>2. ASSUME NEW h \in Handle, CreateStaging(h) PROVE Goal
  <2>1. staging = Absent /\ partial = Absent /\ sealed = Absent
    BY <1>2 DEF CreateStaging, Exists
  <2>2. \A g \in Handle : handle[g] = Absent
    BY <1>0, <2>1 DEF HandleInv, Proper
  <2>3. /\ op' # Absent /\ op'.step = "manifest"
        /\ staging' = Empty /\ UNCHANGED <<partial, sealed, handle>>
    BY <1>2, BeginIs DEF CreateStaging, OpStep
  <2>4. Empty = [Empty EXCEPT !.manifest = FALSE] /\ Empty.projection = Absent
    <3>1. Empty = [Empty EXCEPT !.manifest = Empty.manifest]
      BY EmptyIs DEF Directory
    <3> QED
      BY <3>1, EmptyIs
  <2> QED
    BY <2>1, <2>2, <2>3, <2>4 DEF HandleInv, OpInv, StagingInv, SealedInv, Creating, Sealing
<1>3. CASE CreateManifest
  <2>1. /\ sealed = Absent /\ partial = Absent /\ \A g \in Handle : handle[g] = Absent
        /\ staging = [Empty EXCEPT !.manifest = FALSE]
    BY <1>3, CreatingAlone DEF CreateManifest, OpAt, Creating
  <2>2. /\ op' # Absent /\ op'.step = "projection" /\ UNCHANGED <<partial, sealed, handle>>
        /\ staging' = [staging EXCEPT !.manifest = TRUE]
    BY <1>0, <1>3, OpIs DEF CreateManifest, OpAt, OpGoto, OpStep
  <2>3. staging' = [Empty EXCEPT !.manifest = TRUE] /\ staging'.projection = Absent
    BY <2>1, <2>2 DEF Empty
  <2> QED
    BY <2>1, <2>2, <2>3 DEF HandleInv, OpInv, StagingInv, SealedInv, Creating, Sealing
<1>4. CASE CreateProjection
  <2>1. /\ sealed = Absent /\ \A g \in Handle : handle[g] = Absent
        /\ staging = [Empty EXCEPT !.manifest = TRUE]
    BY <1>4, CreatingAlone DEF CreateProjection, OpAt, Creating
  <2>2. /\ op' = Absent /\ sealed' = Absent /\ op.handle \in Handle
        /\ staging' = [staging EXCEPT !.projection = <<>>]
        /\ handle' = [handle EXCEPT ![op.handle] = [listed |-> <<>>, sealed |-> FALSE]]
    BY <1>0, <1>4, <2>1, OpIs DEF CreateProjection, OpAt, OpDone
  <2>3. /\ staging'.dirs /\ staging'.manifest /\ staging'.projection = <<>>
        /\ staging'.records = {}
    BY <2>1, <2>2 DEF Empty
  <2>4. Lists(<<>>, staging'.records)
    BY DEF Lists, ToSet
  <2>5. staging' # Absent
    <3>1. staging \in Directory
      BY <2>1, EmptyIs, ChangedDirectory
    <3>2. <<>> \in Seq(Record)
      OBVIOUS
    <3>3. staging' \in Directory
      BY <2>2, <3>1, <3>2, ChangedDirectory
    <3> QED
      BY <3>3, NoneIs
  <2>6. Proper'
    BY <2>3, <2>4, <2>5 DEF Proper, Contiguous
  <2>7. ASSUME NEW g \in Handle, handle'[g] # Absent
        PROVE  Lists(handle'[g].listed, staging'.records)
    BY <1>0, <2>1, <2>2, <2>4, <2>7 DEF TypeOK
  <2>8. HandleInv' /\ StagingInv'
    <3>1. staging'.projection # Absent
      BY <2>6, NoneIs DEF Proper, Lists
    <3>2. HandleInv'
      BY <2>6, <2>7 DEF HandleInv
    <3> QED
      BY <2>5, <2>6, <3>1, <3>2 DEF StagingInv
  <2> QED
    BY <2>2, <2>8 DEF OpInv, SealedInv
<1>5. ASSUME NEW h \in Handle, Open(h) PROVE Goal
  <2>1. op = Absent /\ op' = Absent /\ UNCHANGED <<staging, partial, sealed, torn>>
    BY <1>5 DEF Open
  <2>2. HandleInv'
    <3> SUFFICES ASSUME sealed = Absent, NEW g \in Handle, handle'[g] # Absent
                 PROVE  Proper /\ Lists(handle'[g].listed, staging.records)
      BY <2>1 DEF HandleInv, Proper
    <3>1. PICK listed \in Listings :
            handle' = [handle EXCEPT ![h] = [listed |-> listed, sealed |-> sealed # Absent]]
      BY <1>5 DEF Open
    <3>2. CASE g = h
      <4>1. StagingOpens
        BY <1>5 DEF Open, Opens
      <4>2. Proper
        BY <1>0, <4>1 DEF StagingOpens, StagingInv
      <4>3. ListsAll(listed, staging.records)
        BY <1>0, <4>2, ListingsListAll DEF Proper
      <4> QED
        BY <1>0, <3>1, <3>2, <4>2, <4>3 DEF TypeOK, ListsAll, Lists
    <3>3. CASE g # h
      BY <1>0, <3>1, <3>3 DEF TypeOK, HandleInv
    <3> QED
      BY <3>2, <3>3
  <2> QED
    BY <1>0, <2>1, <2>2 DEF OpInv, StagingInv, SealedInv, Proper, Exists
<1>6. ASSUME NEW h \in Handle, Drop(h) PROVE Goal
  <2>1. op = Absent /\ op' = Absent /\ UNCHANGED <<staging, partial, sealed, torn>>
    BY <1>6 DEF Drop
  <2>2. \A g \in Handle : handle'[g] # Absent => handle'[g] = handle[g] /\ handle[g] # Absent
    BY <1>0, <1>6 DEF Drop, TypeOK
  <2> QED
    BY <1>0, <2>1, <2>2 DEF HandleInv, OpInv, StagingInv, SealedInv, Proper, Exists
<1>7. ASSUME NEW h \in Handle, NEW r \in Record, AppendRecord(h, r) PROVE Goal
  <2>1. /\ handle[h] # Absent /\ sealed = Absent /\ sealed' = Absent /\ op = Absent
        /\ staging' = [staging EXCEPT !.records = staging.records \union {r}]
    BY <1>7 DEF AppendRecord, RequireStaging
  <2>2. Proper /\ staging \in Directory /\ handle[h] \in HandleState
    BY <1>0, <2>1 DEF HandleInv, TypeOK, Proper
  <2>3. staging.records \in SUBSET Record /\ staging.records \union {r} \in SUBSET Record
    BY <2>2 DEF Directory
  <2>4. Contiguous(staging.records \union {r})
    BY <1>7, <2>3, AppendFits DEF AppendRecord
  <2>5. /\ staging'.records = staging.records \union {r} /\ staging' # Absent
        /\ staging'.projection = staging.projection
        /\ staging'.dirs = staging.dirs /\ staging'.manifest = staging.manifest
    <3>1. staging' # Absent
      BY <2>1, <2>2, <2>3, ChangedDirectory
    <3> QED
      BY <2>1, <2>2, <3>1 DEF Directory
  <2>6. Proper'
    BY <2>2, <2>4, <2>5, ListsGrow DEF Proper
  <2>7. ASSUME NEW g \in Handle, handle[g] # Absent
        PROVE  Lists(handle[g].listed, staging'.records)
    BY <1>0, <2>1, <2>5, <2>7, ListsGrow DEF HandleInv
  <2>8. CASE IsAttempt(r)
    <3>1. op' # Absent /\ op'.step = "persist" /\ op'.handle = h
      BY <1>7, <2>8, BeginIs DEF AppendRecord, OpStep
    <3>2. handle' = [handle EXCEPT ![h] = [handle[h] EXCEPT !.listed = Append(handle[h].listed, r)]]
      BY <1>7, <2>8 DEF AppendRecord
    <3>3. /\ handle'[h].listed = Append(handle[h].listed, r) /\ handle'[h] # Absent
          /\ \A g \in Handle : g # h => handle'[g] = handle[g]
      <4>1. handle'[h] = [handle[h] EXCEPT !.listed = Append(handle[h].listed, r)]
        BY <1>0, <3>2 DEF TypeOK
      <4>2. handle'[h] \in HandleState
        BY <2>2, <4>1, AppendLists DEF HandleState
      <4> QED
        BY <1>0, <2>2, <3>2, <4>1, <4>2, NoneIs DEF TypeOK, HandleState
    <3>4. Lists(handle'[h].listed, staging'.records)
      <4>1. handle[h].listed \in Seq(Record) /\ ToSet(handle[h].listed) \subseteq Attempts(staging'.records)
        BY <2>1, <2>7 DEF Lists
      <4>2. r \in Attempts(staging'.records)
        BY <2>5, <2>8 DEF Attempts
      <4> QED
        BY <3>3, <4>1, <4>2, AppendLists DEF Lists
    <3>5. HandleInv'
      BY <2>6, <2>7, <3>3, <3>4 DEF HandleInv
    <3> QED
      BY <2>1, <2>6, <3>1, <3>3, <3>5 DEF OpInv, StagingInv, SealedInv, Creating, Sealing
  <2>9. CASE ~IsAttempt(r)
    <3>1. UNCHANGED <<handle, op, partial, torn>>
      BY <1>7, <2>9 DEF AppendRecord
    <3>2. HandleInv'
      BY <2>6, <2>7, <3>1 DEF HandleInv
    <3>3. staging'.projection # Absent
      BY <2>6, NoneIs DEF Proper, Lists
    <3> QED
      BY <2>1, <2>5, <2>6, <3>1, <3>2, <3>3 DEF OpInv, StagingInv, SealedInv
  <2> QED
    BY <2>8, <2>9
<1>8. ASSUME PersistProjection \/ SealProject PROVE Goal
  <2>1. /\ op # Absent /\ op.step \in {"persist", "project"}
        /\ staging' = [staging EXCEPT !.projection = handle[op.handle].listed]
        /\ UNCHANGED <<partial, sealed, handle>>
    BY <1>8 DEF PersistProjection, SealProject, OpAt
  <2>2. /\ sealed = Absent /\ Proper /\ staging \in Directory
        /\ op.handle \in Handle /\ handle[op.handle] \in HandleState
        /\ Lists(handle[op.handle].listed, staging.records)
    BY <2>1, WorkingHandle
  <2>3. /\ Proper' /\ staging'.records = staging.records
        /\ staging'.projection = handle[op.handle].listed
    BY <2>1, <2>2, ProjectionReplaced
  <2>4. HandleInv'
    BY <1>0, <2>1, <2>3 DEF HandleInv
  <2>5. StagingInv' /\ SealedInv'
    <3>1. staging'.projection # Absent
      BY <2>3, NoneIs DEF Proper, Lists
    <3> QED
      BY <2>1, <2>2, <2>3, <3>1 DEF StagingInv, SealedInv, Proper
  <2>6. CASE op' = Absent
    BY <2>4, <2>5, <2>6 DEF OpInv
  <2>7. CASE op' # Absent
    <3>1. op.step = "project" /\ op' = [op EXCEPT !.step = "partial"]
      BY <1>8, <2>7 DEF PersistProjection, SealProject, OpAt, OpGoto, OpDone
    <3>2. op'.step = "partial" /\ op'.handle = op.handle
      BY <1>0, <2>1, <3>1, OpIs DEF OpStep
    <3>3. ListsAll(staging'.projection, staging'.records)
      BY <1>0, <2>1, <2>3, <3>1 DEF OpInv
    <3>4. OpInv'
      BY <2>1, <2>2, <3>2, <3>3, NoneIs DEF OpInv, Creating, Sealing
    <3> QED
      BY <2>4, <2>5, <3>4
  <2> QED
    BY <2>6, <2>7
<1>9. ASSUME NEW h \in Handle, BeginSeal(h) PROVE Goal
  <2>1. PICK listed \in Listings : handle' = [handle EXCEPT ![h].listed = listed]
    BY <1>9 DEF BeginSeal
  <2>2. /\ sealed = Absent /\ staging # Absent /\ handle[h] # Absent
        /\ UNCHANGED <<staging, partial, sealed, torn>>
        /\ op' # Absent /\ op'.step = "project" /\ op'.handle = h
    BY <1>9, BeginIs DEF BeginSeal, RequireStaging, OpStep
  <2>3. Proper /\ handle[h] \in HandleState
    BY <1>0, <2>2 DEF HandleInv, TypeOK
  <2>4. ListsAll(listed, staging.records)
    BY <1>0, <2>3, ListingsListAll DEF Proper
  <2>5. /\ handle'[h].listed = listed /\ handle'[h] # Absent
        /\ \A g \in Handle : g # h => handle'[g] = handle[g]
    <3>1. handle'[h] = [handle[h] EXCEPT !.listed = listed]
      BY <1>0, <2>1 DEF TypeOK
    <3>2. handle'[h] \in HandleState
      BY <2>3, <2>4, <3>1 DEF HandleState, ListsAll
    <3> QED
      BY <1>0, <2>1, <2>3, <3>1, <3>2, NoneIs DEF TypeOK, HandleState
  <2>6. HandleInv'
    BY <1>0, <2>2, <2>3, <2>4, <2>5 DEF HandleInv, Proper, Lists, ListsAll
  <2> QED
    BY <1>0, <2>2, <2>3, <2>4, <2>5, <2>6 DEF OpInv, StagingInv, SealedInv, Proper, Creating, Sealing
<1>10. ASSUME SealMakePartial \/ SealCopy PROVE Goal
  <2>1. /\ op # Absent /\ op.step \in {"partial", "copy"}
        /\ op'.step = IF op.step = "partial" THEN "copy" ELSE "publish"
        /\ op' # Absent /\ op'.handle = op.handle
        /\ UNCHANGED <<staging, sealed, handle, torn>>
        /\ op.step = "copy" => partial' = staging
    BY <1>0, <1>10, OpIs DEF SealMakePartial, SealCopy, OpAt, OpGoto, OpStep
  <2>2. sealed = Absent /\ handle[op.handle] # Absent /\ ListsAll(staging.projection, staging.records)
    BY <1>0, <2>1 DEF OpInv, Sealing
  <2>3. HandleInv' /\ StagingInv' /\ SealedInv'
    BY <1>0, <2>1, <2>2 DEF HandleInv, StagingInv, SealedInv, Proper
  <2>4. OpInv'
    BY <2>1, <2>2 DEF OpInv, Creating, Sealing
  <2> QED
    BY <2>3, <2>4
<1>11. CASE SealPublish
  <2>1. /\ op # Absent /\ op.step = "publish"
        /\ op'.step = "remove" /\ op' # Absent
        /\ sealed' = partial /\ UNCHANGED <<staging, handle, torn>>
    BY <1>0, <1>11, OpIs DEF SealPublish, OpAt, OpGoto, OpStep
  <2>2. Proper /\ partial = staging /\ ListsAll(staging.projection, staging.records)
    BY <1>0, <2>1, WorkingHandle DEF OpInv, Sealing
  <2>3. sealed' # Absent /\ sealed' = staging /\ staging' = staging
    BY <2>1, <2>2 DEF Proper
  <2> QED
    BY <2>1, <2>2, <2>3 DEF HandleInv, OpInv, StagingInv, SealedInv, Proper, Creating, Sealing
<1>12. CASE SealRemove
  <2>1. /\ op # Absent /\ op.step = "remove" /\ sealed # Absent /\ staging # Absent
        /\ UNCHANGED <<partial, sealed, handle, op, torn>>
    BY <1>0, <1>12 DEF SealRemove, OpAt, OpInv
  <2>2. staging \in Directory
    BY <1>0, <2>1 DEF TypeOK
  <2>3. staging' # Absent /\ staging'.records \subseteq staging.records
    <3>1. CASE staging' = [staging EXCEPT !.dirs = FALSE]
      BY <2>2, <3>1, ChangedDirectory DEF Directory
    <3>2. CASE staging' = [staging EXCEPT !.manifest = FALSE]
      BY <2>2, <3>2, ChangedDirectory DEF Directory
    <3>3. CASE staging' = [staging EXCEPT !.projection = Absent]
      BY <2>2, <3>3, ChangedDirectory DEF Directory
    <3>4. ASSUME NEW r \in staging.records, staging' = [staging EXCEPT !.records = @ \ {r}]
          PROVE  staging' # Absent /\ staging'.records \subseteq staging.records
      <4>1. staging' = [staging EXCEPT !.records = staging.records \ {r}]
        BY <3>4
      <4>2. staging.records \ {r} \in SUBSET Record
        BY <2>2 DEF Directory
      <4> QED
        BY <2>2, <4>1, <4>2, ChangedDirectory DEF Directory
    <3> QED
      BY <1>12, <3>1, <3>2, <3>3, <3>4 DEF SealRemove
  <2> QED
    BY <1>0, <2>1, <2>3 DEF HandleInv, OpInv, StagingInv, SealedInv, Creating, Sealing
<1>13. CASE SealFinish
  <2>1. sealed # Absent /\ sealed' = sealed /\ op' = Absent /\ staging' = Absent
    BY <1>0, <1>13 DEF SealFinish, OpAt, OpInv, OpDone
  <2> QED
    BY <1>0, <2>1 DEF HandleInv, OpInv, StagingInv, SealedInv
<1>14. ASSUME Fail \/ ProcessDies PROVE Goal
  <2>1. /\ op # Absent /\ op' = Absent /\ sealed' = sealed
        /\ partial' \in {Absent, partial}
        /\ \A g \in Handle : handle'[g] \in {Absent, handle[g]}
    BY <1>14 DEF Fail, ProcessDies, OpDone
  <2>2. CASE op.step \in Creating
    <3>1. /\ sealed = Absent /\ partial = Absent /\ \A g \in Handle : handle[g] = Absent
          /\ staging.projection = Absent
      BY <2>1, <2>2, CreatingAlone
    <3>2. staging' = Absent \/ (staging' = staging /\ torn' \cap Creating # {})
      <4>1. CASE Fail
        BY <2>2, <4>1 DEF Fail, Creating
      <4>2. CASE ProcessDies
        BY <2>2, <4>2 DEF ProcessDies, TornBy, OpAt, Creating
      <4> QED
        BY <1>14, <4>1, <4>2
    <3> QED
      BY <2>1, <3>1, <3>2 DEF HandleInv, OpInv, StagingInv, SealedInv, Exists
  <2>3. CASE op.step \in Sealing \union {"persist", "project"}
    <3>1. sealed = Absent /\ Proper
      BY <2>1, <2>3, WorkingHandle
    <3>2. staging' = staging
      BY <1>14, <2>3 DEF Fail, ProcessDies, Sealing
    <3>3. staging.projection # Absent
      BY <3>1, NoneIs DEF Proper, Lists
    <3>4. HandleInv'
      BY <1>0, <2>1, <3>1, <3>2 DEF HandleInv, Proper
    <3> QED
      BY <2>1, <3>1, <3>2, <3>3, <3>4 DEF OpInv, StagingInv, SealedInv, Proper
  <2>4. CASE op.step = "remove"
    <3>1. sealed # Absent /\ staging # Absent
      BY <1>0, <2>1, <2>4 DEF OpInv
    <3>2. staging' = staging /\ torn' = TornBy
      BY <1>14, <2>1, <2>4 DEF Fail, ProcessDies, OpAt
    <3>3. "remove" \notin torn' => staging = sealed
      BY <2>1, <2>4, <3>2 DEF TornBy, OpAt
    <3> QED
      BY <1>0, <2>1, <3>1, <3>2, <3>3 DEF HandleInv, OpInv, StagingInv, SealedInv
  <2>5. op.step \in OpStep
    BY <1>0, <2>1, OpIs
  <2> QED
    BY <2>2, <2>3, <2>4, <2>5 DEF OpStep, Creating, Sealing
<1> QED
  BY <1>1, <1>2, <1>3, <1>4, <1>5, <1>6, <1>7, <1>8, <1>9, <1>10, <1>11, <1>12, <1>13, <1>14
     DEF ProbeNext

-----------------------------------------------------------------------------
(* The theorems                                                              *)

(* StoreInv holds in every state.                                            *)
THEOREM StoreInvCorrect == ProbeSpec => []StoreInv
<1> QED
  BY InitInv, StepInv, PTL DEF ProbeSpec

(* Between operations a store can be opened, unless create() or the removal  *)
(* of the staging directory was interrupted.                                 *)
THEOREM StoreOpens == ProbeSpec => []OpensUnlessTorn
<1>1. ASSUME StoreInv, op = Absent, Exists, torn \cap {"manifest", "projection", "remove"} = {}
      PROVE  Opens
  <2>1. CASE sealed = Absent
    <3>1. staging # Absent /\ staging.projection # Absent /\ Proper
      BY <1>1, <2>1 DEF StoreInv, StagingInv, Creating
    <3> QED
      BY <2>1, <3>1 DEF Opens, StagingOpens, Proper, Lists, Attempts
  <2>2. CASE sealed # Absent
    <3>1. staging \in {Absent, sealed}
      BY <1>1, <2>2 DEF StoreInv, SealedInv
    <3> QED
      BY <1>1, <2>2, <3>1 DEF StoreInv, SealedInv, ListsAll, Opens, SealedOpens
  <2> QED
    BY <2>1, <2>2
<1>2. StoreInv => OpensUnlessTorn
  BY <1>1 DEF OpensUnlessTorn
<1> QED
  BY <1>2, StoreInvCorrect, PTL

(* A sealed store lists every attempt it holds, whatever handles wrote it.   *)
THEOREM SealedLists == ProbeSpec => []SealedIsComplete
<1>1. StoreInv => SealedIsComplete
  BY DEF StoreInv, SealedInv, ListsAll, SealedIsComplete
<1> QED
  BY <1>1, StoreInvCorrect, PTL

-----------------------------------------------------------------------------
(* The archive                                                               *)

Held == (IF staging = Absent THEN {} ELSE staging.records)
        \union (IF sealed = Absent THEN {} ELSE sealed.records)

LEMMA ArchiveStart == ProbeInit => Promised!ArchiveInit
BY DEF ProbeInit, Promised!ArchiveInit

(* An append adds its record, the renaming of sealed.partial closes the      *)
(* archive, and nothing else changes what is held.                           *)
LEMMA ArchiveStep ==
  StoreInv /\ [ProbeNext]_probeVars => [Promised!ArchiveNext]_(Promised!archiveVars)
<1> SUFFICES ASSUME StoreInv, [ProbeNext]_probeVars
             PROVE  \/ Held' = Held /\ ((sealed # Absent)' <=> (sealed # Absent))
                    \/ Held' = Held /\ sealed = Absent /\ sealed' # Absent
                    \/ \E r \in Record :
                         /\ sealed = Absent /\ sealed' = Absent
                         /\ r.index = 1 \/ [r EXCEPT !.index = r.index - 1] \in Held
                         /\ r \notin Held /\ Held' = Held \union {r}
  BY DEF Promised!ArchiveNext, Promised!archiveVars, Promised!Add, Promised!Close, Promised!Record,
         Record, Held
<1>0. TypeOK /\ TypeOK' /\ HandleInv /\ OpInv /\ StagingInv /\ SealedInv /\ SealedInv'
  BY StepInv DEF StoreInv
<1> USE DEF directories
<1> DEFINE Same == Held' = Held /\ sealed' = sealed
<1>1. CASE UNCHANGED probeVars
  BY <1>1 DEF probeVars, Held
<1>2. ASSUME NEW h \in Handle, CreateStaging(h) PROVE Same
  BY <1>2, EmptyIs, NoneIs DEF CreateStaging, Exists, Held
<1>3. CASE CreateManifest \/ CreateProjection
  <2>1. staging.records = {} /\ sealed = Absent /\ staging = [Empty EXCEPT !.manifest = (op.step = "projection")]
    BY <1>3, CreatingAlone DEF CreateManifest, CreateProjection, OpAt, Creating
  <2>2. staging'.records = {} /\ sealed' = sealed
    BY <1>3, <2>1 DEF CreateManifest, CreateProjection, Empty
  <2> QED
    BY <2>1, <2>2 DEF Held
<1>4. ASSUME NEW h \in Handle, Open(h) \/ Drop(h) \/ BeginSeal(h) PROVE Same
  BY <1>4 DEF Open, Drop, BeginSeal, Held
<1>5. ASSUME NEW h \in Handle, NEW r \in Record, AppendRecord(h, r)
      PROVE  /\ sealed = Absent /\ sealed' = Absent
             /\ r.index = 1 \/ [r EXCEPT !.index = r.index - 1] \in Held
             /\ r \notin Held /\ Held' = Held \union {r}
  <2>1. /\ sealed = Absent /\ sealed' = Absent /\ staging # Absent /\ MayAppend(r, staging.records)
        /\ staging' = [staging EXCEPT !.records = staging.records \union {r}]
    BY <1>5 DEF AppendRecord, RequireStaging
  <2>2. staging \in Directory /\ staging.records \in SUBSET Record
        /\ staging.records \union {r} \in SUBSET Record
    BY <1>0, <2>1 DEF TypeOK, Directory
  <2>3. staging'.records = staging.records \union {r} /\ staging' # Absent
    <3>1. staging' # Absent
      BY <2>1, <2>2, ChangedDirectory
    <3> QED
      BY <2>1, <2>2, <3>1 DEF Directory
  <2>4. Held = staging.records /\ Held' = staging'.records
    BY <2>1, <2>3 DEF Held
  <2> QED
    BY <2>1, <2>2, <2>3, <2>4, AppendFits
<1>6. CASE PersistProjection \/ SealProject
  <2>1. /\ op # Absent /\ op.step \in {"persist", "project"} /\ sealed' = sealed
        /\ staging' = [staging EXCEPT !.projection = handle[op.handle].listed]
    BY <1>6 DEF PersistProjection, SealProject, OpAt
  <2>2. Proper /\ Proper' /\ staging'.records = staging.records
    BY <2>1, WorkingHandle, ProjectionReplaced
  <2> QED
    BY <2>1, <2>2 DEF Held, Proper
<1>7. CASE SealMakePartial \/ SealCopy
  BY <1>7 DEF SealMakePartial, SealCopy, Held
<1>8. CASE SealPublish
  <2>1. /\ op # Absent /\ op.step = "publish" /\ sealed' = partial /\ staging' = staging
    BY <1>8 DEF SealPublish, OpAt
  <2>2. sealed = Absent /\ Proper /\ partial = staging
    BY <1>0, <2>1, WorkingHandle DEF OpInv, Sealing
  <2> QED
    BY <2>1, <2>2 DEF Held, Proper
<1>9. CASE SealRemove \/ SealFinish
  <2>1. /\ sealed # Absent /\ sealed' = sealed
        /\ staging # Absent => staging.records \subseteq sealed.records
        /\ staging' # Absent => staging'.records \subseteq sealed.records
    BY <1>0, <1>9 DEF SealRemove, SealFinish, OpAt, OpInv, SealedInv
  <2> QED
    BY <2>1 DEF Held
<1>10. CASE Fail \/ ProcessDies
  <2>1. sealed' = sealed /\ op # Absent
    BY <1>10 DEF Fail, ProcessDies
  <2>2. CASE op.step \in Creating
    <3>1. staging.records = {} /\ staging' \in {Absent, staging}
      BY <1>10, <2>1, <2>2, CreatingAlone DEF Fail, ProcessDies
    <3> QED
      BY <2>1, <3>1 DEF Held
  <2>3. CASE op.step \notin Creating
    BY <1>10, <2>1, <2>3 DEF Fail, ProcessDies, Creating, Held
  <2> QED
    BY <2>2, <2>3
<1> QED
  BY <1>1, <1>2, <1>3, <1>4, <1>5, <1>6, <1>7, <1>8, <1>9, <1>10 DEF ProbeNext

(* Through every interruption the store is an archive that only grows, in    *)
(* series without gaps, until it is sealed.                                  *)
THEOREM StoreIsArchive == ProbeSpec => ImplementsArchive
<1> QED
  BY ArchiveStart, ArchiveStep, StoreInvCorrect, PTL
     DEF ProbeSpec, ImplementsArchive, Promised!ArchiveSpec
=============================================================================
