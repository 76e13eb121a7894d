----------------------------- MODULE StoreHandle -----------------------------
(***************************************************************************)
(* The in-memory side of RunStorage (platform/src/agent_ex/storage.py):    *)
(* several handles, each with its own SQLite connection, share one         *)
(* database file.  A handle skips the full integrity replay, and answers   *)
(* execution_state() from memory, as long as its connection signature -    *)
(* SQLite's data_version and total_changes - is the one it last verified.  *)
(* The question is whether what it answers is what the database holds.     *)
(*                                                                         *)
(* The execution-state row is modelled by a version number: every UPDATE   *)
(* of it writes a value that was never there before.                       *)
(***************************************************************************)
EXTENDS Integers, FiniteSets

CONSTANTS
  Handles,       \* open RunStorage handles
  None,          \* no handle; no value
  MaxWrites,     \* bound on the updates of the execution-state row
  MaxTransactions \* bound on the write transactions

ASSUME HandleAssumption ==
  /\ None \notin Handles \union Nat
  /\ MaxWrites \in Nat
  /\ MaxTransactions \in Nat

VARIABLES
  row,        \* the committed execution-state row
  written,    \* row versions handed out so far
  started,    \* write transactions so far
  lease,      \* the handle that owns the run lease
  tx,         \* what transaction each connection has open
  dirty,      \* the row inside a handle's open write transaction
  version,    \* PRAGMA data_version: commits of the other connections
  changes,    \* sqlite3 total_changes, which a ROLLBACK does not take back
  verified,   \* _verified_connection_signature
  cache,      \* _execution_state_cache
  pending,    \* _pending_execution_state
  trusted     \* _trusted_write_transaction

database == <<row, written, started, lease>>
sqlite   == <<tx, dirty, version, changes>>
memory   == <<verified, cache, pending, trusted>>
vars     == <<database, sqlite, memory>>

(* Mutant: commits of other connections go unnoticed.                       *)
OwnChangesOnly(h) == <<0, changes[h]>>

Signature(h) == <<version[h], changes[h]>>
Unverified   == <<>>

IsVerified(h) == verified[h] = Signature(h)

(* What an SQL SELECT on the handle's connection returns.                   *)
Stored(h) == IF tx[h] = "write" THEN dirty[h] ELSE row

(* execution_state()                                                        *)
Answer(h) ==
  IF tx[h] # "none" /\ trusted[h] /\ pending[h] # None THEN pending[h]
  ELSE IF tx[h] # "none" /\ trusted[h] /\ cache[h] # None THEN cache[h]
  ELSE IF cache[h] # None /\ IsVerified(h) THEN cache[h]
  ELSE Stored(h)

Readers == {h \in Handles : tx[h] = "read"}

Set(f, h, value) == f' = [f EXCEPT ![h] = value]

-----------------------------------------------------------------------------
Init ==
  /\ row = 0 /\ written = 0 /\ started = 0
  /\ lease = None
  /\ tx       = [h \in Handles |-> "none"]
  /\ dirty    = [h \in Handles |-> None]
  /\ version  = [h \in Handles |-> 0]
  /\ changes  = [h \in Handles |-> 0]
  /\ verified = [h \in Handles |-> Unverified]
  /\ cache    = [h \in Handles |-> None]
  /\ pending  = [h \in Handles |-> None]
  /\ trusted  = [h \in Handles |-> FALSE]

Acquire(h) ==
  /\ lease = None
  /\ lease' = h
  /\ UNCHANGED <<row, written, started, sqlite, memory>>

Release(h) ==
  /\ lease = h
  /\ tx[h] = "none"
  /\ lease' = None
  /\ UNCHANGED <<row, written, started, sqlite, memory>>

(* verify_integrity: skipped on a verified signature; otherwise it replays  *)
(* the rows and raises when execution_state() is not what they derive.      *)
Verify(h) ==
  /\ tx[h] \in {"none", "read"}
  /\ ~IsVerified(h)
  /\ Answer(h) = Stored(h)
  /\ Set(verified, h, Signature(h))
  /\ Set(cache, h, Answer(h))
  /\ UNCHANGED <<database, sqlite, pending, trusted>>

(* consistent_read                                                          *)
BeginRead(h) ==
  /\ tx[h] = "none"
  /\ Set(tx, h, "read")
  /\ UNCHANGED <<database, dirty, version, changes, memory>>

EndRead(h) ==
  /\ tx[h] = "read"
  /\ Set(tx, h, "none")
  /\ UNCHANGED <<database, dirty, version, changes, memory>>

(* Mutant: the value a rolled-back transaction left pending survives.       *)
BeginWriteKeepingPending(h) ==
  /\ lease = h
  /\ tx[h] = "none"
  /\ started < MaxTransactions
  /\ started' = started + 1
  /\ Set(tx, h, "write")
  /\ Set(dirty, h, row)
  /\ Set(verified, h, Signature(h))
  /\ Set(cache, h, IF IsVerified(h) THEN cache[h] ELSE row)
  /\ Set(trusted, h, TRUE)
  /\ UNCHANGED <<row, written, lease, version, changes, pending>>

(* _begin_write: reset, BEGIN IMMEDIATE, verify if the signature moved.     *)
BeginWrite(h) ==
  /\ lease = h
  /\ tx[h] = "none"
  /\ started < MaxTransactions
  /\ started' = started + 1
  /\ Set(tx, h, "write")
  /\ Set(dirty, h, row)
  /\ Set(verified, h, Signature(h))
  /\ Set(cache, h, IF IsVerified(h) THEN cache[h] ELSE row)
  /\ Set(pending, h, None)
  /\ Set(trusted, h, TRUE)
  /\ UNCHANGED <<row, written, lease, version, changes>>

(* A statement that does not touch the execution-state row.                 *)
Insert(h) ==
  /\ tx[h] = "write"
  /\ changes[h] < MaxWrites
  /\ Set(changes, h, changes[h] + 1)
  /\ UNCHANGED <<database, tx, dirty, version, memory>>

(* _replace_execution_state                                                 *)
Replace(h) ==
  /\ tx[h] = "write"
  /\ written < MaxWrites
  /\ written' = written + 1
  /\ Set(dirty, h, written + 1)
  /\ Set(changes, h, changes[h] + 1)
  /\ Set(pending, h, written + 1)
  /\ UNCHANGED <<row, started, lease, tx, version, verified, cache, trusted>>

(* _commit_write; SQLite waits until no other connection reads.             *)
Commit(h) ==
  /\ tx[h] = "write"
  /\ Readers = {}
  /\ row' = dirty[h]
  /\ Set(tx, h, "none")
  /\ Set(dirty, h, None)
  /\ version' = [g \in Handles |-> IF g = h THEN version[g] ELSE version[g] + 1]
  /\ Set(verified, h, Signature(h))
  /\ Set(cache, h, IF pending[h] = None THEN cache[h] ELSE pending[h])
  /\ Set(pending, h, None)
  /\ Set(trusted, h, FALSE)
  /\ UNCHANGED <<written, started, lease, changes>>

(* An exception in the body of the write, or a COMMIT that found the        *)
(* database busy: connection.rollback(), and nothing else.                  *)
Rollback(h) ==
  /\ tx[h] = "write"
  /\ Set(tx, h, "none")
  /\ Set(dirty, h, None)
  /\ UNCHANGED <<database, version, changes, memory>>

Next ==
  \E h \in Handles :
    \/ Acquire(h) \/ Release(h) \/ Verify(h)
    \/ BeginRead(h) \/ EndRead(h)
    \/ BeginWrite(h) \/ Insert(h) \/ Replace(h) \/ Commit(h) \/ Rollback(h)

Spec == Init /\ [][Next]_vars

-----------------------------------------------------------------------------
(* Every write derives the next execution state from execution_state(); in  *)
(* an open write transaction that is the row of the transaction itself,     *)
(* whatever earlier transactions of this or another handle did or undid.    *)
WritesBuildOnTheRow ==
  \A h \in Handles : tx[h] = "write" => Answer(h) = dirty[h]

(* Outside a transaction execution_state() is the committed row.            *)
UnpinnedReadsAreCommitted ==
  \A h \in Handles : tx[h] = "none" => Answer(h) = row

(* consistent_read() says "Pin all reads to one SQLite snapshot".           *)
PinnedReadsAreOfTheSnapshot ==
  \A h \in Handles : tx[h] = "read" => Answer(h) = row
=============================================================================
