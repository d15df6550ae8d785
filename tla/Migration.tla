----------------------------- MODULE Migration -----------------------------
(***************************************************************************)
(* Database.init_schema and schema::migrate_schema (store/schema.rs) run   *)
(* by several processes that open the same shard file, in WAL mode.        *)
(*                                                                         *)
(* A call reads schema_version once, outside any transaction, then for     *)
(* every later version opens SAVEPOINT bombe_migrate_step (a deferred      *)
(* transaction), runs the step's statements, set_schema_version,           *)
(* record_migration_step(success) and RELEASE.  Any error rolls the step   *)
(* back, releases the savepoint, writes a `failed` row in autocommit mode  *)
(* (its own error ignored) and returns the error.                          *)
(*                                                                         *)
(* SQLite is modelled by what decides the outcome of a statement: one      *)
(* write lock; a transaction's read snapshot, taken at its first           *)
(* statement; a write whose snapshot is older than the last commit fails   *)
(* at once with SQLITE_BUSY_SNAPSHOT; a write that finds the lock held     *)
(* waits (the busy handler) and may time out with SQLITE_BUSY.  A          *)
(* transaction's writes become visible together at its commit.  Steps are  *)
(* of three kinds: v1 runs no statement; v2 reads symbol_fts and, when it  *)
(* has rows, rewrites it; v3 and later start with a write (DDL).           *)
(***************************************************************************)
EXTENDS Naturals, Sequences

CONSTANTS
    MigProcs,       \* processes calling init_schema on the same file
    SchemaVersion,  \* SCHEMA_VERSION
    InitVersions,   \* schema_version of the file before the first call
    MaxMigCalls,    \* init_schema calls, over all processes
    MaxMigFaults,   \* statements failing with an I/O error
    MaxCrashes,     \* processes dying in the middle of a call
    MaxCommits,     \* bound on committed transactions
    NoProc

VARIABLES
    schemaVersion,  \* committed repo_meta.schema_version (0: absent)
    applied,        \* committed: versions whose objects were created
    history,        \* committed migration_history rows, in insertion order
    commits,        \* committed write transactions (the WAL's last frame)
    writer,         \* the process holding the write lock, or NoProc
    msnap,          \* per process: its transaction's snapshot, or NoProc
    pend,           \* per process: the writes of its open transaction
    mpc,            \* per process: the statement it is about to run
    current,        \* per process: current_version
    mcalls,         \* init_schema calls made
    outcome,        \* per process: result of its last call
    ftsHasRows,     \* symbol_fts has rows
    mfaults, crashes

migVars == <<schemaVersion, applied, history, commits, writer, msnap, pend,
             mpc, current, mcalls, outcome, ftsHasRows, mfaults, crashes>>

Row(from, to, status) == [from |-> from, to |-> to, status |-> status]

\* The statements the step to version v runs before set_schema_version.
StepKind(v) ==
    IF v = 2 THEN "reads_fts" ELSE IF v >= 3 /\ v <= SchemaVersion THEN "ddl"
    ELSE "none"  \* v1, and the `_ => {}` arm past SCHEMA_VERSION

MigInit ==
    /\ schemaVersion \in InitVersions
    /\ applied = 1..schemaVersion
    /\ history = [k \in 1..schemaVersion |-> Row(k - 1, k, "success")]
    /\ commits = 0
    /\ writer = NoProc
    /\ msnap = [p \in MigProcs |-> NoProc]
    /\ pend = [p \in MigProcs |-> {}]
    /\ mpc = [p \in MigProcs |-> "idle"]
    /\ current = [p \in MigProcs |-> 0]
    /\ mcalls = 0
    /\ outcome = [p \in MigProcs |-> "none"]
    /\ ftsHasRows \in BOOLEAN
    /\ mfaults = 0 /\ crashes = 0

\* The first statement of a transaction takes its snapshot.
Snapshot(p) == IF msnap[p] = NoProc THEN commits ELSE msnap[p]

\* A write may run: the process holds the lock, or takes it with a
\* snapshot no commit has overtaken.
CanWrite(p) ==
    \/ writer = p
    \/ writer = NoProc /\ Snapshot(p) = commits

StaleWrite(p) == writer = NoProc /\ Snapshot(p) # commits

WaitsForLock(p) == writer \notin {NoProc, p}

\* A statement that writes `w` and moves the process to `next`.
Write(p, w, next) ==
    /\ CanWrite(p)
    /\ writer' = p
    /\ msnap' = [msnap EXCEPT ![p] = Snapshot(p)]
    /\ pend' = [pend EXCEPT ![p] = @ \cup w]
    /\ mpc' = [mpc EXCEPT ![p] = next]
    /\ UNCHANGED <<schemaVersion, applied, history, commits, current, mcalls,
                   outcome, ftsHasRows, mfaults, crashes>>

\* get_schema_version, before the loop and outside any transaction.
Start(p) ==
    /\ mpc[p] = "idle" /\ mcalls < MaxMigCalls
    /\ current' = [current EXCEPT ![p] = schemaVersion]
    /\ mcalls' = mcalls + 1
    /\ outcome' = [outcome EXCEPT ![p] = "running"]
    /\ mpc' = [mpc EXCEPT ![p] = "loop"]
    /\ UNCHANGED <<schemaVersion, applied, history, commits, writer, msnap,
                   pend, ftsHasRows, mfaults, crashes>>

\* Mutant: the loop runs while current_version <= SCHEMA_VERSION.
MigrateLoopPastLatest(p) ==
    /\ mpc[p] = "loop"
    /\ IF current[p] <= SchemaVersion
         THEN /\ commits < MaxCommits
              /\ mpc' = [mpc EXCEPT ![p] = "step"]
              /\ UNCHANGED outcome
         ELSE /\ mpc' = [mpc EXCEPT ![p] = "idle"]
              /\ outcome' = [outcome EXCEPT ![p] = "ok"]
    /\ UNCHANGED <<schemaVersion, applied, history, commits, writer, msnap,
                   pend, current, mcalls, ftsHasRows, mfaults, crashes>>

\* `while current_version < SCHEMA_VERSION`: SAVEPOINT, or return Ok.
MigrateLoop(p) ==
    /\ mpc[p] = "loop"
    /\ IF current[p] < SchemaVersion
         THEN /\ commits < MaxCommits
              /\ mpc' = [mpc EXCEPT ![p] = "step"]
              /\ UNCHANGED outcome
         ELSE /\ mpc' = [mpc EXCEPT ![p] = "idle"]
              /\ outcome' = [outcome EXCEPT ![p] = "ok"]
    /\ UNCHANGED <<schemaVersion, applied, history, commits, writer, msnap,
                   pend, current, mcalls, ftsHasRows, mfaults, crashes>>

\* migrate_to_v1, and a version past SCHEMA_VERSION: no statement.
NoStatement(p) ==
    /\ pend' = [pend EXCEPT ![p] = @ \cup {"objects"}]
    /\ mpc' = [mpc EXCEPT ![p] = "setv"]
    /\ UNCHANGED <<schemaVersion, applied, history, commits, writer, msnap,
                   current, mcalls, outcome, ftsHasRows, mfaults, crashes>>

\* migrate_to_v2's probe `SELECT 1 FROM symbol_fts LIMIT 1`: a read, which
\* takes the snapshot; an empty table leaves nothing to rebuild.
ProbeFts(p) ==
    /\ msnap' = [msnap EXCEPT ![p] = Snapshot(p)]
    /\ IF ftsHasRows
         THEN mpc' = [mpc EXCEPT ![p] = "rebuild"] /\ UNCHANGED pend
         ELSE /\ mpc' = [mpc EXCEPT ![p] = "setv"]
              /\ pend' = [pend EXCEPT ![p] = @ \cup {"objects"}]
    /\ UNCHANGED <<schemaVersion, applied, history, commits, writer, current,
                   mcalls, outcome, ftsHasRows, mfaults, crashes>>

\* migrate_to_v3 .. migrate_to_v7: CREATE INDEX / CREATE TABLE IF NOT EXISTS,
\* a write from the first statement.
RunDdl(p) == Write(p, {"objects"}, "setv")

\* The body of the step to next_version (migrate_to_v1 .. migrate_to_v7).
StepBody(p) ==
    LET v == current[p] + 1 IN
    /\ mpc[p] = "step"
    /\ \/ StepKind(v) = "none" /\ NoStatement(p)
       \/ StepKind(v) = "reads_fts" /\ ProbeFts(p)
       \/ StepKind(v) = "ddl" /\ RunDdl(p)

\* DELETE FROM symbol_fts and the INSERTs from symbols.
RebuildFts(p) == mpc[p] = "rebuild" /\ Write(p, {"objects"}, "setv")

SetVersion(p) == mpc[p] = "setv" /\ Write(p, {"version"}, "record")

RecordSuccess(p) == mpc[p] = "record" /\ Write(p, {"row"}, "release")

\* What the commit of p's open transaction makes visible.
Commit(p) ==
    LET v == current[p] + 1 IN
    /\ schemaVersion' = IF "version" \in pend[p] THEN v ELSE schemaVersion
    /\ applied' = IF "objects" \in pend[p] THEN applied \cup {v} ELSE applied
    /\ history' = IF "row" \in pend[p] THEN Append(history, Row(v - 1, v, "success"))
                  ELSE history
    /\ commits' = IF pend[p] = {} THEN commits ELSE commits + 1

\* RELEASE SAVEPOINT commits the step; current_version = next_version.
Release(p) ==
    /\ mpc[p] = "release"
    /\ Commit(p)
    /\ writer' = NoProc
    /\ msnap' = [msnap EXCEPT ![p] = NoProc]
    /\ pend' = [pend EXCEPT ![p] = {}]
    /\ current' = [current EXCEPT ![p] = @ + 1]
    /\ mpc' = [mpc EXCEPT ![p] = "loop"]
    /\ UNCHANGED <<mcalls, outcome, ftsHasRows, mfaults, crashes>>

\* A statement of the step returns an error.
StepError(p, cause) ==
    /\ mpc[p] \in {"step", "rebuild", "setv", "record", "release"}
    /\ mpc' = [mpc EXCEPT ![p] = "rollback"]
    /\ UNCHANGED <<schemaVersion, applied, history, commits, writer, msnap,
                   pend, current, mcalls, outcome, ftsHasRows, crashes>>
    /\ IF cause = "io" THEN mfaults < MaxMigFaults /\ mfaults' = mfaults + 1
                       ELSE UNCHANGED mfaults

\* The statements of mpc[p] that write.
Writing(p) ==
    \/ mpc[p] \in {"rebuild", "setv", "record"}
    \/ mpc[p] = "step" /\ StepKind(current[p] + 1) = "ddl"

\* Mutant: a busy-retry loop around the statement retries a write that
\* failed with BUSY_SNAPSHOT, in the same transaction.
BusySnapshotRetried(p) ==
    Writing(p) /\ StaleWrite(p) /\ UNCHANGED migVars

BusySnapshot(p) == Writing(p) /\ StaleWrite(p) /\ StepError(p, "busy_snapshot")

BusyTimeout(p) == Writing(p) /\ WaitsForLock(p) /\ StepError(p, "busy")

IoError(p) == StepError(p, "io")

\* Mutant: the error path releases the savepoint without ROLLBACK TO, which
\* commits the statements of the step that did run.
RollbackReleaseOnly(p) ==
    /\ mpc[p] = "rollback"
    /\ Commit(p)
    /\ writer' = IF writer = p THEN NoProc ELSE writer
    /\ msnap' = [msnap EXCEPT ![p] = NoProc]
    /\ pend' = [pend EXCEPT ![p] = {}]
    /\ mpc' = [mpc EXCEPT ![p] = "record_failed"]
    /\ UNCHANGED <<current, mcalls, outcome, ftsHasRows, mfaults, crashes>>

\* ROLLBACK TO and RELEASE (errors ignored): the step's writes are dropped
\* and the transaction ends.
Rollback(p) ==
    /\ mpc[p] = "rollback"
    /\ writer' = IF writer = p THEN NoProc ELSE writer
    /\ msnap' = [msnap EXCEPT ![p] = NoProc]
    /\ pend' = [pend EXCEPT ![p] = {}]
    /\ mpc' = [mpc EXCEPT ![p] = "record_failed"]
    /\ UNCHANGED <<schemaVersion, applied, history, commits, current, mcalls,
                   outcome, ftsHasRows, mfaults, crashes>>

\* record_migration_step(failed) in autocommit mode, then return Err.  With
\* the lock taken by another process the busy handler may give up, and
\* `let _` drops the error: the row is lost.
RecordFailed(p) ==
    /\ mpc[p] = "record_failed"
    /\ \/ /\ writer = NoProc /\ commits < MaxCommits
          /\ history' = Append(history, Row(current[p], current[p] + 1, "failed"))
          /\ commits' = commits + 1
       \/ WaitsForLock(p) /\ UNCHANGED <<history, commits>>
    /\ mpc' = [mpc EXCEPT ![p] = "idle"]
    /\ outcome' = [outcome EXCEPT ![p] = "err"]
    /\ UNCHANGED <<schemaVersion, applied, writer, msnap, pend, current, mcalls,
                   ftsHasRows, mfaults, crashes>>

\* The process dies in a call: SQLite drops its open transaction.
Crash(p) ==
    /\ mpc[p] # "idle" /\ crashes < MaxCrashes
    /\ crashes' = crashes + 1
    /\ writer' = IF writer = p THEN NoProc ELSE writer
    /\ msnap' = [msnap EXCEPT ![p] = NoProc]
    /\ pend' = [pend EXCEPT ![p] = {}]
    /\ mpc' = [mpc EXCEPT ![p] = "idle"]
    /\ outcome' = [outcome EXCEPT ![p] = "crashed"]
    /\ UNCHANGED <<schemaVersion, applied, history, commits, current, mcalls,
                   ftsHasRows, mfaults>>

\* The steps SQLite and the code take on their own once a call is under
\* way: every statement but a failing one, and BUSY_SNAPSHOT, which SQLite
\* returns at once.
Progress(p) ==
    \/ MigrateLoop(p) \/ StepBody(p) \/ RebuildFts(p) \/ SetVersion(p)
    \/ RecordSuccess(p) \/ Release(p) \/ BusySnapshot(p) \/ Rollback(p)
    \/ RecordFailed(p)

MigNext ==
    \E p \in MigProcs :
        \/ Start(p) \/ Progress(p)
        \/ BusyTimeout(p) \/ IoError(p) \/ Crash(p)

\* Each process is scheduled by the OS: a call under way is never stopped
\* for good.  Calls, failures and crashes are not forced.
MigFairness == \A p \in MigProcs : WF_migVars(Progress(p))

MigSpec == MigInit /\ [][MigNext]_migVars /\ MigFairness

-----------------------------------------------------------------------------
(* A committed schema_version is backed: every version up to it has its   *)
(* objects and a `success` history row.  The SAVEPOINT around each step of *)
(* migrate_schema, its ROLLBACK TO on error, and SQLite dropping the open  *)
(* transaction of a crashed process are what keep a half-run step from    *)
(* being seen (spec.md 4.3: failure rolls back only that step).            *)
SchemaVersionBacked ==
    \A k \in 1..schemaVersion :
        /\ k \in applied
        /\ \E i \in 1..Len(history) : history[i] = Row(k - 1, k, "success")

(* When every process that called init_schema has returned Ok, the file is *)
(* at SCHEMA_VERSION with every step applied (spec.md property 6), however *)
(* the calls interleaved: a call that read a stale schema_version re-runs  *)
(* steps and writes an older version, but its own last step writes         *)
(* SCHEMA_VERSION again before it returns.                                 *)
OkCallsLeaveLatest ==
    (/\ \A p \in MigProcs : mpc[p] = "idle" /\ outcome[p] \in {"ok", "none"}
     /\ \E p \in MigProcs : outcome[p] = "ok")
    => /\ schemaVersion = SchemaVersion
       /\ applied = 1..SchemaVersion

(* Every init_schema call returns: no process waits forever for the write *)
(* lock, and the loop of migrate_schema ends, whatever the failures and   *)
(* crashes.                                                                *)
MigrationCallsReturn == \A p \in MigProcs : mpc[p] # "idle" ~> mpc[p] = "idle"
====
