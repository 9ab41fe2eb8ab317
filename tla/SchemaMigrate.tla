--------------------------- MODULE SchemaMigrate ---------------------------
(***************************************************************************)
(* The migrations of squishy's own schema: internal/storage/migrate.go as  *)
(* the api's boot (cmd/squishy) and the squishy-migrate command call it,   *)
(* possibly at the same time and from two releases of the program.         *)
(*                                                                         *)
(* A script file is a model value: fileVersion[f] is the version parsed    *)
(* from its name and Embedded[m] the up scripts in m's binary, so that a   *)
(* file renamed between two releases is two files of one version.  What a  *)
(* script does is counted: schema[v] is how many times the effects of      *)
(* version v are in the database.                                          *)
(*                                                                         *)
(* Everything between conn.Begin and Commit is invisible to the others:    *)
(* ExecScript only remembers the script, Commit makes its effects and its  *)
(* ledger row visible together.                                            *)
(***************************************************************************)
EXTENDS Naturals, FiniteSets

CONSTANTS
    Migrators,     \* processes that may call the migrator
    Files,         \* the names of up scripts
    FileVersion,   \* the version each name starts with
    Embedded,      \* the up scripts of each migrator's binary
    HasDown,       \* the files with a down script beside them
    Nobody,        \* nobody holds the advisory lock
    MaxStarts      \* bound: calls of the migrator

ASSUME FileVersionAssumption == FileVersion \in [Files -> Nat]
ASSUME EmbeddedAssumption ==
    /\ Embedded \in [Migrators -> SUBSET Files]
    /\ \A m \in Migrators : IsFiniteSet(Embedded[m])
ASSUME NobodyAssumption == Nobody \notin Migrators
\* LoadMigrations refuses two up scripts of one version.
ASSUME LoadableAssumption ==
    \A m \in Migrators : \A f, g \in Embedded[m] : FileVersion[f] = FileVersion[g] => f = g

VARIABLES
    ledger,        \* squishy_meta._migrations: the file names recorded as applied
    schema,        \* how many times each version's effects are in the database
    lock,          \* holder of the session lock migrateLockKey
    phase,         \* where each migrator is
    command,       \* what it was asked for: boot, up, down or status
    steps,         \* N of `down N`
    todo,          \* the scripts it has still to execute
    recorded,      \* the ledger rows it read
    starts         \* calls so far

migVars == <<ledger, schema, lock, phase, command, steps, todo, recorded, starts>>

Versions == {FileVersion[f] : f \in Files}
Phases == {"idle", "waiting", "locked", "running", "inTx"}
Commands == {"boot", "up", "down", "status"}

MigTypeOK ==
    /\ ledger \in SUBSET Files
    /\ schema \in [Versions -> Nat]
    /\ lock \in Migrators \cup {Nobody}
    /\ phase \in [Migrators -> Phases]
    /\ command \in [Migrators -> Commands]
    /\ steps \in [Migrators -> Nat]
    /\ todo \in [Migrators -> SUBSET Files]
    /\ recorded \in [Migrators -> SUBSET Files]
    /\ starts \in Nat

VersionsOf(files) == {FileVersion[f] : f \in files}

\* A fresh database, or one that an earlier release has migrated.
MigInit ==
    /\ ledger \in {Embedded[m] : m \in Migrators} \cup {{}}
    /\ schema = [v \in Versions |-> IF v \in VersionsOf(ledger) THEN 1 ELSE 0]
    /\ lock = Nobody
    /\ phase = [m \in Migrators |-> "idle"]
    /\ command = [m \in Migrators |-> "boot"]
    /\ steps = [m \in Migrators |-> 1]
    /\ todo = [m \in Migrators |-> {}]
    /\ recorded = [m \in Migrators |-> {}]
    /\ starts = 0

\* storage.Open and the call of Migrate, MigrateDown or MigrationStatus.
StartMigrator(m, c, n) ==
    /\ phase[m] = "idle"
    /\ starts < MaxStarts
    /\ c = "down" => n >= 1
    /\ starts' = starts + 1
    /\ command' = [command EXCEPT ![m] = c]
    /\ steps' = [steps EXCEPT ![m] = n]
    /\ phase' = [phase EXCEPT ![m] = "waiting"]
    /\ UNCHANGED <<ledger, schema, lock, todo, recorded>>

\* SELECT pg_advisory_lock: waits until the lock is free.
AcquireLock(m) ==
    /\ phase[m] = "waiting"
    /\ lock = Nobody
    /\ lock' = m
    /\ phase' = [phase EXCEPT ![m] = "locked"]
    /\ UNCHANGED <<ledger, schema, command, steps, todo, recorded, starts>>

\* pendingMigrations: what the binary has and the ledger does not, by version.
Pending(m) == {f \in Embedded[m] : FileVersion[f] \notin VersionsOf(ledger)}

\* rollbackMigrations: the n most recent versions of the binary in the ledger.
Rollback(m, n) ==
    LET known == {f \in Embedded[m] : FileVersion[f] \in VersionsOf(ledger)}
    IN  {f \in known : Cardinality({g \in known : FileVersion[g] > FileVersion[f]}) < n}

\* CREATE TABLE IF NOT EXISTS, readLedger, and the choice of the scripts.  A
\* rollback that meets a version without a down script fails before the first.
ReadLedger(m) ==
    /\ phase[m] = "locked"
    /\ command[m] = "down" => Rollback(m, steps[m]) \subseteq HasDown
    /\ recorded' = [recorded EXCEPT ![m] = ledger]
    /\ todo' = [todo EXCEPT ![m] =
                   CASE command[m] \in {"boot", "up"} -> Pending(m)
                     [] command[m] = "down" -> Rollback(m, steps[m])
                     [] OTHER -> {}]
    /\ phase' = [phase EXCEPT ![m] = "running"]
    /\ UNCHANGED <<ledger, schema, lock, command, steps, starts>>

BugLexicalOrder(m, f) == f \in todo[m]

\* The next script of the loop: upwards by version, or downwards.
NextScript(m, f) ==
    /\ f \in todo[m]
    /\ \A g \in todo[m] :
          IF command[m] = "down" THEN FileVersion[f] >= FileVersion[g]
                                 ELSE FileVersion[f] <= FileVersion[g]

\* runScript: BEGIN and the script itself; todo keeps it until the commit.
ExecScript(m) ==
    /\ phase[m] = "running"
    /\ todo[m] # {}
    /\ phase' = [phase EXCEPT ![m] = "inTx"]
    /\ UNCHANGED <<ledger, schema, lock, command, steps, todo, recorded, starts>>

\* The ledger row of f's version, under the name it was recorded with.
LedgerFile(m, f) == {g \in recorded[m] : FileVersion[g] = FileVersion[f]}

BugRecordAfterCommit(m, f) ==
    /\ phase[m] = "inTx"
    /\ NextScript(m, f)
    /\ schema' = [schema EXCEPT ![FileVersion[f]] = IF command[m] = "down" THEN @ - 1 ELSE @ + 1]
    /\ ledger' \in {ledger, IF command[m] = "down" THEN ledger \ LedgerFile(m, f) ELSE ledger \cup {f}}
    /\ todo' = [todo EXCEPT ![m] = @ \ {f}]
    /\ phase' = [phase EXCEPT ![m] = "running"]
    /\ UNCHANGED <<lock, command, steps, recorded, starts>>

\* record and Commit: INSERT or DELETE of the ledger row with the script.
Commit(m, f) ==
    /\ phase[m] = "inTx"
    /\ NextScript(m, f)
    /\ IF command[m] = "down"
         THEN /\ schema' = [schema EXCEPT ![FileVersion[f]] = @ - 1]
              /\ ledger' = ledger \ LedgerFile(m, f)
         ELSE /\ f \notin ledger           \* filename is the primary key
              /\ schema' = [schema EXCEPT ![FileVersion[f]] = @ + 1]
              /\ ledger' = ledger \cup {f}
    /\ todo' = [todo EXCEPT ![m] = @ \ {f}]
    /\ phase' = [phase EXCEPT ![m] = "running"]
    /\ UNCHANGED <<lock, command, steps, recorded, starts>>

Leave(m) ==
    /\ lock' = IF lock = m THEN Nobody ELSE lock
    /\ todo' = [todo EXCEPT ![m] = {}]
    /\ recorded' = [recorded EXCEPT ![m] = {}]
    /\ UNCHANGED <<ledger, schema, steps, starts>>

\* All scripts done: the deferred unlock.  The command goes on to print the
\* status, which takes the lock once more; the api goes on to serve.
FinishMigrator(m) ==
    /\ phase[m] = "running"
    /\ todo[m] = {}
    /\ Leave(m)
    /\ IF command[m] \in {"up", "down"}
         THEN /\ command' = [command EXCEPT ![m] = "status"]
              /\ phase' = [phase EXCEPT ![m] = "waiting"]
         ELSE /\ phase' = [phase EXCEPT ![m] = "idle"]
              /\ UNCHANGED command

BugFailKeepsLock(m) ==
    /\ phase[m] # "idle"
    /\ phase' = [phase EXCEPT ![m] = "idle"]
    /\ todo' = [todo EXCEPT ![m] = {}]
    /\ recorded' = [recorded EXCEPT ![m] = {}]
    /\ UNCHANGED <<ledger, schema, lock, command, steps, starts>>

\* rollbackMigrations refuses: one of the versions has no down script.
RefuseRollback(m) ==
    /\ phase[m] = "locked"
    /\ command[m] = "down"
    /\ ~(Rollback(m, steps[m]) \subseteq HasDown)
    /\ Leave(m)
    /\ phase' = [phase EXCEPT ![m] = "idle"]
    /\ UNCHANGED command

\* A statement fails, the context is cancelled (the unlock runs all the same)
\* or the process dies (its session ends): the transaction is rolled back and
\* the lock is free.
FailMigrator(m) ==
    /\ phase[m] # "idle"
    /\ Leave(m)
    /\ phase' = [phase EXCEPT ![m] = "idle"]
    /\ UNCHANGED command

MigStep(m) ==
    \/ AcquireLock(m)
    \/ ReadLedger(m)
    \/ RefuseRollback(m)
    \/ ExecScript(m)
    \/ \E f \in Files : Commit(m, f)
    \/ FinishMigrator(m)

MigNext ==
    \/ \E m \in Migrators, c \in Commands, n \in {1, 2} :
          (c # "down" => n = 1) /\ StartMigrator(m, c, n)
    \/ \E m \in Migrators : MigStep(m) \/ FailMigrator(m)

MigSpec == MigInit /\ [][MigNext]_migVars

\* A migrator that has the lock goes on, and the server grants the lock in the
\* order in which it was asked for.
MigFairness ==
    \A m \in Migrators : /\ WF_migVars(ReadLedger(m))
                         /\ WF_migVars(RefuseRollback(m))
                         /\ WF_migVars(ExecScript(m))
                         /\ WF_migVars(\E f \in Files : Commit(m, f))
                         /\ WF_migVars(FinishMigrator(m))
                         /\ SF_migVars(AcquireLock(m))

-----------------------------------------------------------------------------
\* migrate.go:219 "so two migrators started concurrently never apply the same
\* script twice", and runScript's single transaction: at every moment, for
\* whoever reads the database, the ledger has exactly one row for a version
\* whose effects are there once, and none for one whose effects are not there.
LedgerTellsSchema ==
    /\ schema = [v \in Versions |-> IF v \in VersionsOf(ledger) THEN 1 ELSE 0]
    /\ \A f, g \in ledger : FileVersion[f] = FileVersion[g] => f = g

\* LoadMigrations' numeric order: a script is applied on top of every earlier
\* version of its release, and rolled back only once the later ones are gone.
ScriptsInOrder ==
    [][\A v \in Versions, m \in Migrators :
          (phase[m] = "inTx" /\ phase'[m] = "running" /\ schema'[v] # schema[v]) =>
             LET others == VersionsOf(Embedded[m])
             IN  IF schema'[v] > schema[v] THEN \A u \in others : u < v => schema[u] > 0
                                           ELSE \A u \in others : u > v => schema[u] = 0]_migVars

\* Whoever waits for the lock gets it: no path of withMigrateLock keeps it.
MigratorsFinish == \A m \in Migrators : (phase[m] = "waiting") ~> (phase[m] # "waiting")
=============================================================================
