------------------------------ MODULE Migrate ------------------------------
(***************************************************************************)
(* The migration runner (src/migrate.ts), run by several deployments at    *)
(* once, killed, and run again.  A run holds one transaction at a time:    *)
(* the statements of a file and the row that records it become visible     *)
(* together, at COMMIT.  Until then the unique name, and the objects that  *)
(* most files create, keep any other run of the same file waiting.         *)
(***************************************************************************)
EXTENDS Naturals, Sequences, Functions, FiniteSetsExt

CONSTANTS
    Runs,       \* processes of `pnpm migrate`
    LastFile,   \* files are numbers, their order is that of their names
    Creating,   \* files whose statements fail on a schema that has them already
    MaxFails    \* bound: queries that throw, and runs that are killed

ASSUME MigrateAssumption ==
    /\ LastFile \in Nat /\ Creating \subseteq 1..LastFile /\ MaxFails \in Nat

VARIABLES
    disk,       \* the files in migrations/ are 1..disk
    schema,     \* the files whose statements are committed, in this order
    recorded,   \* the names in schema_migrations
    run,        \* the local state of each run
    tx,         \* what the transaction of each run has done and not committed
    fails       \* how much of MaxFails is used up

migrateVars == <<disk, schema, recorded, run, tx, fails>>

Files == 1..LastFile
RunSteps ==
    { "read",              \* CREATE TABLE IF NOT EXISTS, readdir
      "select",            \* SELECT name, and what is pending
      "sql", "row",        \* BEGIN and the file; the INSERT of its name
      "commit", "undo",    \* COMMIT, ROLLBACK
      "killed",            \* the process is gone, its transaction not yet
      "done", "failed" }   \* exit 0, exit 1

MigrateTypeOK ==
    /\ disk \in 0..LastFile
    /\ schema \in Seq(Files) /\ recorded \subseteq Files
    /\ run \in [Runs -> [at: RunSteps, listed: 0..LastFile, todo: SUBSET Files]]
    /\ tx \in [Runs -> SUBSET {"sql", "row"}]
    /\ fails \in 0..MaxFails

MigrateInit ==
    /\ disk \in 0..LastFile
    /\ schema = << >> /\ recorded = {}
    /\ run = [r \in Runs |-> [at |-> "failed", listed |-> 0, todo |-> {}]]
    /\ tx = [r \in Runs |-> {}]
    /\ fails = 0

\* Files are sorted by name, and the loop takes the pending ones in that order.
File(r) == Min(run[r].todo)
StepsTo(r, step) == run' = [run EXCEPT ![r].at = step]
Does(r, part) == tx' = [tx EXCEPT ![r] = @ \cup {part}]
Drops(r) == tx' = [tx EXCEPT ![r] = {}]

\* Another run has done this part of the same file and not yet committed it:
\* Postgres makes r wait until it has, or has not.
Waits(r, part) ==
    \E other \in Runs \ {r} : part \in tx[other] /\ File(other) = File(r)

\* The loop ends, or goes on with the next file.
NextFile(r) ==
    run' = [run EXCEPT ![r].todo = @ \ {File(r)},
                       ![r].at = IF run[r].todo = {File(r)} THEN "done" ELSE "sql"]

-----------------------------------------------------------------------------
(* Seeded mistakes, as in Queue.                                           *)

\* The catch does not throw on.
UndoAndGoOn(r) ==
    /\ run[r].at = "undo"
    /\ Drops(r) /\ NextFile(r)
    /\ UNCHANGED <<disk, schema, recorded, fails>>

\* pool.query instead of client.query: another connection, no transaction.
RecordOutside(r) ==
    /\ run[r].at = "row"
    /\ IF File(r) \in recorded THEN StepsTo(r, "undo") ELSE StepsTo(r, "commit")
    /\ recorded' = recorded \cup {File(r)}
    /\ UNCHANGED <<disk, schema, tx, fails>>

-----------------------------------------------------------------------------
(* One action per query.                                                   *)

\* A new deployment brings the next file.
AddFile ==
    /\ disk < LastFile
    /\ disk' = disk + 1
    /\ UNCHANGED <<schema, recorded, run, tx, fails>>

StartRun(r) ==
    /\ run[r].at \in {"done", "failed"}
    /\ run' = [run EXCEPT ![r] = [at |-> "read", listed |-> 0, todo |-> {}]]
    /\ UNCHANGED <<disk, schema, recorded, tx, fails>>

ReadDir(r) ==
    /\ run[r].at = "read"
    /\ run' = [run EXCEPT ![r].at = "select", ![r].listed = disk]
    /\ UNCHANGED <<disk, schema, recorded, tx, fails>>

Pending(r) == (1..run[r].listed) \ recorded

SelectNames(r) ==
    /\ run[r].at = "select"
    /\ run' = [run EXCEPT ![r].todo = Pending(r),
                          ![r].at = IF Pending(r) = {} THEN "done" ELSE "sql"]
    /\ UNCHANGED <<disk, schema, recorded, tx, fails>>

ApplyFile(r) ==
    /\ run[r].at = "sql"
    /\ File(r) \in Creating => ~Waits(r, "sql")
    /\ IF File(r) \in Creating \cap Range(schema)
         THEN StepsTo(r, "undo") /\ UNCHANGED tx
         ELSE StepsTo(r, "row") /\ Does(r, "sql")
    /\ UNCHANGED <<disk, schema, recorded, fails>>

RecordFile(r) ==
    /\ run[r].at = "row"
    /\ ~Waits(r, "row")
    /\ IF File(r) \in recorded
         THEN StepsTo(r, "undo") /\ UNCHANGED tx
         ELSE StepsTo(r, "commit") /\ Does(r, "row")
    /\ UNCHANGED <<disk, schema, recorded, fails>>

Committed(r) ==
    /\ schema' = IF "sql" \in tx[r] THEN Append(schema, File(r)) ELSE schema
    /\ recorded' = IF "row" \in tx[r] THEN recorded \cup {File(r)} ELSE recorded
    /\ Drops(r)

Commit(r) ==
    /\ run[r].at = "commit"
    /\ Committed(r) /\ NextFile(r)
    /\ UNCHANGED <<disk, fails>>

\* ROLLBACK, and the error is thrown on: no later file is tried.
Undo(r) ==
    /\ run[r].at = "undo"
    /\ Drops(r) /\ StepsTo(r, "failed")
    /\ UNCHANGED <<disk, schema, recorded, fails>>

-----------------------------------------------------------------------------
(* Failures.                                                               *)

Running(r) == run[r].at \in {"read", "select", "sql", "row", "commit"}
Fails == fails < MaxFails /\ fails' = fails + 1

QueryThrows(r) ==
    /\ Fails /\ Running(r)
    /\ StepsTo(r, IF run[r].at \in {"read", "select"} THEN "failed" ELSE "undo")
    /\ UNCHANGED <<disk, schema, recorded, tx>>

\* COMMIT is executed, but its reply is lost, and the ROLLBACK finds nothing.
CommitUnanswered(r) ==
    /\ Fails /\ run[r].at = "commit"
    /\ Committed(r) /\ StepsTo(r, "undo")
    /\ UNCHANGED disk

\* The transaction, and its locks, live on until Postgres misses the client.
Killed(r) ==
    /\ Fails /\ Running(r)
    /\ StepsTo(r, "killed")
    /\ UNCHANGED <<disk, schema, recorded, tx>>

SessionEnds(r) ==
    /\ run[r].at = "killed"
    /\ Drops(r) /\ StepsTo(r, "failed")
    /\ UNCHANGED <<disk, schema, recorded, fails>>

-----------------------------------------------------------------------------
RunGoesOn(r) ==
    \/ StartRun(r) \/ ReadDir(r) \/ SelectNames(r)
    \/ ApplyFile(r) \/ RecordFile(r) \/ Commit(r) \/ Undo(r)
    \/ SessionEnds(r)

MigrateNext ==
    \/ AddFile
    \/ \E r \in Runs : RunGoesOn(r) \/ QueryThrows(r) \/ CommitUnanswered(r) \/ Killed(r)

MigrateSpec == MigrateInit /\ [][MigrateNext]_migrateVars

\* A run goes on, Postgres notices the one that does not, and who deploys runs
\* the migrations again.
MigrateFairSpec == MigrateSpec /\ \A r \in Runs : WF_migrateVars(RunGoesOn(r))

-----------------------------------------------------------------------------
(* Properties.                                                             *)

\* "A crash can never leave the schema changed but unrecorded, or recorded but
\* unchanged" (migrate.ts:81-82), and no file is applied twice or before one it
\* may depend on, also by runs that meet and that saw different files.
SchemaIsRecorded ==
    /\ schema = [i \in 1..Len(schema) |-> i]
    /\ recorded = 1..Len(schema)

\* "Exit 0 on success, 1 on failure - so CI and shell scripts can tell"
\* (migrate.ts:107): after exit 0 everything that was on disk is applied,
\* whichever run applied it.
ExitZeroIsUpToDate ==
    \A r \in Runs : run[r].at = "done" => 1..run[r].listed \subseteq Range(schema)

\* "Re-running this script is safe" (migrate.ts:6) and gets there: runs never
\* lock one another out, and what failed once is tried again.
FilesGetApplied == \A f \in Files : disk >= f ~> f \in Range(schema)

-----------------------------------------------------------------------------
(* What makes the properties inductive.                                    *)

\* What is listed and not recorded is still to do, as long as a run has not
\* failed; a transaction that is ready to commit has both its parts.
RunsKeepTrack ==
    \A r \in Runs : LET here == run[r] IN
        /\ here.todo \subseteq 1..here.listed
        /\ here.at \in {"sql", "row", "commit"} => here.todo # {}
        /\ here.at \in {"read", "select", "done"} => here.todo = {}
        /\ here.at \in {"sql", "row", "commit", "done"} =>
              (1..here.listed) \ here.todo \subseteq recorded
        /\ here.at = "row" => "sql" \in tx[r]
        /\ here.at = "commit" => {"sql", "row"} \subseteq tx[r]

\* The unique name lets one run at a time record a file, and only once.
OneRecorder ==
    \A r \in Runs : run[r].at = "commit" =>
        /\ File(r) \notin recorded
        /\ \A other \in Runs \ {r} : run[other].at = "commit" => File(other) # File(r)
=============================================================================
