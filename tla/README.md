# Verification of squishy

TLA+ models of squishy (MySQL / MariaDB / Oracle / DB2 to PostgreSQL
migrations), model-checked with TLC and, for the properties that matter most,
proved with TLAPS. The models are translations of the Go code and of the SQL
statements in it; `PROJECT.json` maps every definition to the lines it stands
for.

The heart of squishy is a distributed algorithm over four PostgreSQL tables
(`runs`, `steps`, `step_batches`, `jobs`). A pool of workers, an orphan
supervisor, a dispatcher, a watcher and the HTTP handlers all change them, each
with autocommit statements, without knowing of each other. That, the plan it
executes, the copy of a table and the service around it are the first half of
this project. The second half is the compiler in squishy: three parsers for
source schemas, and a translator to PostgreSQL, whose mistakes are silent.

## 1. The system

| Part | State | Operations | Interacts with |
|---|---|---|---|
| Job queue, `internal/queue/store.go` | table `jobs` | Enqueue, Claim, Succeed, Fail, RequeueOrphans, Retry | called by all parts below |
| Worker pool, `internal/worker/pool.go` | the job each goroutine holds; `steps.status` | claim a job, run its handler, report, roll the step up | queue, handlers |
| Supervisor, `Pool.Run` | none | every `OrphanCheckEvery`: RequeueOrphans | queue |
| Handlers, `internal/worker/handlers.go` | `step_batches`, the target database | one per kind of step; `hCopyTable` enqueues batches | queue, data transfer |
| Dispatcher, `dispatchLoop` in `cmd/squishy/main.go` | the rows it has read | enqueue the steps whose dependencies have succeeded | reads `steps`, `jobs`; queue |
| Watcher, `runStateLoop` in `cmd/squishy/main.go` | the counts it has read | end a run | reads `steps`; writes `runs` |
| Run API, `internal/httpapi/runs.go` | `runs`, `steps` | start, cancel, retry, playLevel/Step, replayLevel/Step | writes all four tables |
| Planner, `internal/planner/planner.go` | none (a function) | Build, assignLevels | called by startRun |
| Data transfer, `internal/dataxfer` | the target table | partition a table, copy a range | called by the handlers |
| Event bus, `internal/events` | subscribers, table `step_events` | Publish, Subscribe, ServeSSE | called by the pool and the handlers |
| Connection cache, `cmd/squishy/main.go` | open pools per migration and instance | open or reuse | called by the handlers |
| Schema migrations, `internal/storage/migrate.go` | the ledger `_migrations` | Up, Down, Status | `cmd/squishy-migrate` |
| Projects, instances, migrations, `internal/httpapi`, `internal/project` | one row each | CRUD, test, discover | |
| Dialect parsers, `internal/dialects/{mysql,oracle,db2}` | the token stream, the nodes read so far, the errors | Parse: one statement after the other, resynchronising on errors | feed the translator |
| Translator, `internal/translate` | the schema plan, pending ALTERs, names in use | tables, keys, indexes, sequences, triggers, routines, expressions, column types | planner, handlers |
| PostgreSQL writers, `internal/dialects/postgres` | none (functions) | AST to SQL text | translator |
| Value conversion, `coerce` in `internal/dataxfer/copier.go` | none (a function) | a driver's value to a target value | the copy |
| Inspection, `internal/inspect` | none | source catalog to a dump | parsers |
| MCP server, web frontend | none | proxies of the HTTP API | |

What makes it hard:

* **Interleaving.** Every update is a statement of its own. The dispatcher and
  the watcher read in one and write in a later one; `handle` reports a job in one
  and rolls its step up in two or three more; `cancelRun` and `retryRun` are two
  and three statements.
* **Reports by id.** `Succeed` and `Fail` name the job and not the attempt: a
  worker that lost its job to the supervisor or to the API still reports.
* **No heartbeat.** `locked_at` is written once, by Claim. A handler that
  outlives the TTL is executed a second time beside the first.
* **Crashes.** All of it is in one process, which may stop between any two
  statements and starts again on the same tables.
* **At-least-once execution.** Handlers must bear being executed again, on the
  tables of squishy (`hCopyTable`) and on the target (`CopyBatch`).
* **Streams that end.** A query whose connection fails in the middle ends like one
  that has returned its last row, unless somebody asks for the error.
* **Boundaries.** Attempt counters at their limit, int64 arithmetic of key
  ranges, keys with fractions, numbers that go through JSON.
* **Read, work, write.** The handlers of instances and migrations read rows, work
  for seconds on the source and write in a later statement.
* **Hand-written grammars.** The parsers test tokens one by one. A clause in an
  unusual place is skipped, or ends the statement early, and the rest is read as
  something else.
* **Two languages, one text.** Precedences, scopes, triggers, exceptions and types
  differ between the dialects. A wrong translation is usually valid SQL.

The hazards, each at its line and with the properties that would catch it, are in
`PROJECT.json`.

## 2. The modules

```
Runs                     MigrationRun
                              ^ INSTANCE
              JobQueue  <--INSTANCE--  RunEngine          Planner
                 ^  ^                     |  assumes of every plan:  |
                 |  '----INSTANCE---- Transfer   LevelsFollowDeps ---'
                 |                                 and promises it: DependencyOrder
              JobQueueProofs      RunEngineProofs   TransferProofs   PlannerProofs
              MCJobQueue          MCRunEngine       MCTransfer       MCPlanner
                                  MCReruns

Service       SchemaMigrate        EventBus        ConnCache        Catalog
              SchemaMigrateProofs  '-- SharedMemoryProofs --'        CatalogProofs
              '--------------------------- MCService ---------------------------'

Translator    Syntax <- MySQLQueries, OracleQueries <- Parsing
              Parsing <- MySQLGrammar, OracleGrammar, DB2Grammar, Bodies <- Dump
              Dump <- MCClauses <- MCQueries <- MCDump
              Triggers (MCTriggers)  TableDDL  Expr  Routines (MCRoutines)
              ColumnTypes (MCColumnTypes)
              TranslateProofs: Triggers, TableDDL
              '------------------------- MCTranslate, with MCDump --------------------'
```

**JobQueue**: table `jobs`, one action per statement that changes it. It is the
abstract specification of the queue: `RunEngine` and `Transfer` use its actions
for every change of the table, and `RunEngine` is shown to implement it. Time is
two Booleans per row, the comparisons that the statements make (`available_at >
now()`, `locked_at < now() - ttl`). `stale` is a history variable: the workers
whose row was taken from them, by the supervisor, the API or the report of
another worker. No action reads it.

**RunEngine**: `runs`, `steps`, `step_batches` and `jobs`, with the processes that
change them. `pc[w]` is the statement of `Pool.handle` that worker `w` executes
next: `start`, `exec`, `batchDone`, `succeed`, `hasBatches`, `count`, `finish` on the
good path, `fail`, `failStep` on the other. `ready` is the dispatcher's result
set, `watched` and `verdict` the watcher's, `calls` the HTTP calls between two of
their statements; a crash clears all four and leaves the tables. `Faulty` are the
steps whose handlers may return errors, `Lossy` the statements whose error the
code drops or only logs and which may fail, `MayOutlive` allows handlers longer
than the TTL. Handlers other than `hCopyTable` and `hCopyBatch` change nothing
but the target and are one action.

**MigrationRun** is the abstract specification of `runs` and `steps`, as somebody
sees them who starts a run and watches it: no jobs, workers, batches, attempts
or loops. At most one run at a time; a step makes progress only while its run is
running and after its dependencies have succeeded, and ends once; a run ends
when no step of it can go on, and nothing changes after that. `RunEngine`
implements it (`RunSpec`) as long as nobody calls cancel, retry, play or replay, the
process does not stop, no handler outlives the TTL and no Succeed gets lost.

**Planner**: `Build` and `BuildDeps` are the steps and the dependencies
`planner.Build` wires, `Levels` is `assignLevels`, and `Plan` and `Deps` are what
`filterSkipDataSteps` leaves of them. The only action executes a step whose
dependencies have been executed. Tables, history tables, views and routines are
sets, `refs` says which views the text of a view or routine mentions. Views that
refer to each other in a cycle, which no source database lets one create, are
excluded (`Acyclic`): `assignLevels` would not return.

**Transfer**: one table. `Partition` and `NumericRange` are `BuildPartitionPlan`,
one action per iteration of its loop, in int64 arithmetic (`Wrap`). A key is a
record of the integer below it and the place of its fraction, because
`IsNumericDataType` admits DECIMAL, NUMBER, FLOAT and DECFLOAT; `Readable` says when
MIN and MAX of such a column can be scanned into an int64, without which
`hCopyTable` fails. `ThroughJSON` is what a range bound goes through between `hCopyTable` and
`hCopyBatch`. `DeleteTargetRange` and `CopyRange` are the two statements of
`CopyBatch` on the target, `target[k]` counts how often the target holds row `k`,
and `Conflict` is the target's primary key. `CutShort` is a COPY whose source
connection fails after some rows: `sqlRowSource.Next` takes it for the end
(`copier.go:211`), `Err` returns the error of Scan only (`:235`), and the rows so far
are committed as the whole batch; `cut` remembers those batches. `Validate` is the
comparison of counts in `hValidate`, for this table. `Kind` selects the dialect's
query and the order of its arguments.

### The service

The four parts share no state. `MCService` composes them and follows one at a
time (`focus`): what another part does meanwhile cannot be seen from it.

**SchemaMigrate**: the ledger and the effects of every script, two migrators of two
releases, each step of `withMigrateLock` (acquire, read the ledger, execute,
commit), Up and Down, a script that fails and a process that dies anywhere.

**EventBus**: `Publish` as the insert, the read lock, the offers to one channel after
the other, and the drop when a channel is full; `Subscribe`, `cancel`, and
`ServeSSE` with its replay of stored events, all of the recent ones (`ReplayRecent`)
or those before the query failed (`ReplayCutShort`, `bus.go:155`), which nobody notices;
`unread` remembers the others.

**ConnCache**: `forRun` and `migConns.target`: each look-up and each store under the
mutex is a step, and so is each opening of a pool outside it, which may fail.

**Catalog**: an instance and its migrations. Plan, discovery, drafts of overrides
and starts hold what they have read in `planning`, `drafting`, `overriding` and
`starting` until they write.

### The parsers

A parser is a set of functions that test the current token. Each of them is
written down as a *production*: a sequence of items, one for every test and every
value that is kept (`Syntax`). `Parsing` is the machine that reads a token stream
by them. An item says what the code does when it does not find what it wants:
`Must` records an error, `May` goes on, `Loop` ends, `Within` keeps raw tokens up
to a delimiter, as `captureBalancedExpr` and its relatives do.

**MySQLGrammar**, **OracleGrammar**, **DB2Grammar**: every CREATE, ALTER and DROP function of
`parser_ddl.go`, and the statements that are passed over. **MySQLQueries**, **OracleQueries**:
expressions and SELECT, INSERT, UPDATE, DELETE, MERGE (`parser_dml.go`,
`parser_expr.go`). **Bodies**: the SQL statements of routine bodies
(`parser_plsql.go`), where a SELECT ... INTO is split in two and parsed twice.
**Dump**: `Parse` of each dialect, the loop over the statements with
`syncToDelimiter` and the recorded errors.

`MCClauses`, `MCQueries` and `MCDump` say what may be written: a statement is
made of clauses, and a clause is its words and the fields it stands for. This
is the reference: it is built from clauses put side by side and knows nothing
of productions.

### The translator

**Triggers**: `translateTrigger`, `autoRenameForOrder`, `translateAlterTrigger`,
`splitCompoundTriggerSections`, and the create_routine steps, in any order and
possibly twice. A name is a sequence of bytes, compared in lower case by
`autoRenameForOrder` and as it is by PostgreSQL. **TableDDL**: `translateTable`, `translateColumn`,
`translateAlterTable`, `translateCreateIndex`, `harmonizeFKTypes` and `buildDDL`,
followed by the execution of the two scripts on a small model of PostgreSQL's
catalog. **Expr**: the precedence climb of the parsers, the rewriters of
`mysql_visitors.go`, the writer, and PostgreSQL's own precedences. **Routines**: a
body is printed as source tokens, parsed, translated, printed, read back as
PostgreSQL does, and both trees are executed, with a cursor and the variable that
FETCH reads into. **ColumnTypes**: `parseDataType`, the
type mappers and `coerce`; integers are places among the limits that occur.

`MCTranslate` composes these and Dump; `focus` again picks one, since each is a
pass of its own.

In every module an operator named `Bug...` is a wrong form of the definition
after it: a dropped guard, a forgotten reset, an off-by-one. No specification
uses one. Put in the place of the definition it makes the property named beside
it in `PROJECT.json` ("mutants") fail, so that no property is true for want of
cases.

## 3. What the runs check

All passing runs finish within five minutes on two cores. Deadlock checking is
off where the system may stop (a run that has ended, a call bound that is used
up, a text that has been read).

| Run | Configuration | Instance | Properties |
|---|---|---|---|
| `queue` | `JobQueue.cfg` | 2 jobs, 2 workers, 2 attempts, any API call at any time | `AttemptBudget`, `ExclusiveClaim`, `SucceededIsFinal`, `Settles` |
| `run_errors` | `RunEngine_errors.cfg` | 3 steps in a chain, 2 batches, 2 attempts, every handler may fail | `DependencyOrder`, `SucceededRunIsComplete`, `QueueSpec`, `RunSpec` (refinements), `RunTerminates` |
| `run_faults` | `RunEngine_faults.cfg` | 2 steps, 2 batches, 2 attempts, a crash, handlers that outlive the TTL, batch reports that get lost | `SingleDispatch`, `NoBatchLeftBehind` |
| `run_cancel` | `RunEngine_cancel.cfg` | 2 steps, two calls of cancel or retry | `NoBatchLeftBehind` |
| `run_reruns` | `RunEngine_reruns.cfg` | either of two runs of 2 steps, auto and manual mode: one whose handlers fail, with two play calls, and one whose handlers succeed, with one play or replay of a level or a step, ids for all jobs twice | `RunningStepHasWork` |
| `plan` | `Planner.cfg` | every schema with 1-2 tables, a history table, 2 views, a routine, any references | `NeedsMet`, `LevelsFollowDeps`, `PlanCompletes` |
| `transfer` | `Transfer.cfg` | every table with keys in -1..2 and every kind of primary key; numeric keys with fractions; keys beyond the exact numbers and up to the largest int64; batches of 2, 2 workers, 2 crashes, errors or cut streams | `ExactCopy`, `ValidatedCopy`, `KeysPartitioned`, `RangeCopySucceeds` |
| `service` | `Service.cfg` | 2 migrators of 2 releases with 2 and 3 scripts, 4 starts; 2 publishers, 2 viewers, 2 events, channels of 1; 2 workers, 2 migrations of one instance, 3 jobs; 2 edits, plans and acknowledgements, 2 clients that start | `LedgerTellsSchema`, `ScriptsInOrder`, `MigratorsFinish`; `NoSendOnClosed`, `StreamHasNoGap`; `PoolsUsable`; `LaunchedWithConsent`, `UserStateSurvives` |
| `translate` | `Translate.cfg` | see below; about 940 000 states | `DisabledStaysDisabled`, `FiringOrder`, `NoTriggerLost`; `ScriptsRun`, `ForeignKeysArrive`, `NextKeyIsFresh`; `GroupingKept`; `SameEffects`; `ValuesArrive`; `DumpKept`, `ErrorsStayLocal` |
| `dead_batch` | `RunEngine_dead_batch.cfg` | 2 steps, one attempt, a crash, fairness | `DeadBatchEndsStep` is violated |
| `named_handlers` | `Routines_named.cfg` | bodies with a handler for a user-defined exception | `NamedHandlersFire` is violated |
| `upper_case_order` | `Triggers_case.cfg` | two triggers with the names M and Z | `OrderInEveryCase` is violated |

What the copy's properties say, in short. `KeysPartitioned`: a whole key lies in
one range and no other, and a key with a fraction too unless it lies behind the end of a range.
`ExactCopy`: when the last batch is reported, no row is missing but those of such keys and
those of a stream that was cut. Both losses are what the code does, so that the property
says where they end. `ValidatedCopy`: the later validate step, which compares two
counts, lets neither of them pass, nor the gaps that rounded bounds leave: with a
primary key on the target equal counts mean equal rows. Without one a lost row
and a doubled row cancel out.

What the translator's properties say, in short:

* *Triggers*: a disabled trigger stays disabled while it keeps its name; FOLLOWS
  and PRECEDES become an order of names; no trigger replaces another, however
  often and in whatever order the steps run. `FiringOrder` is about names that sort
  in lower case as they do as they are, and about an `aa_` in front of a name only
  where the other name has no capitals; `upper_case_order` is about the others.
* *Tables*: both scripts run on an empty schema; every foreign key is enforced in
  the end or reported; the first key that is generated is fresh.
* *Expressions*: the text means in PostgreSQL what it meant in the source, as far
  as grouping goes.
* *Bodies*: on the same answers to the conditions the translated body executes the
  same statements in the same order, on the same rows of its cursor, with the same
  ending. The loops over a cursor that became FOR loops are included as long as
  their bodies do not read the variable of the FETCH.
* *Types*: every value a source column can hold arrives.
* *Dumps*: what was written is what is read; a damaged statement costs only itself.

Instances of `translate`. Triggers: one of any shape, or two or three on one
table with any order clauses and states, in both dialects, named am, m, B and Z:
two in either case, one of which begins as the prefix does. Tables: two, with every foreign key
between them, to themselves and elsewhere, identity and NUMERIC keys, late
constraints, colliding index names. Expressions: every operator over every
operator, and a third level around a core of them. Bodies: statements inside
blocks, loops and handlers, with jumps and cursors, on several tapes of answers.
Types: the types of MySQL, Oracle and DB2 (LUW and z/OS), with the values at its limits. Dumps: two
statements, of which the first has up to two optional clauses in any order;
queries in a body have every expression in one place, or a few expressions in any
two places, about 1 200 statements of MySQL and 1 900 of Oracle; in a
damaged statement one word is missing or another.

Why the bounds are enough. Two workers are what a race takes: each property
speaks of two workers on one job, or of one worker against the dispatcher, the
watcher or a call. Two attempts have a first, a last and the step between them;
`run_reruns` has one, at which a failing job is dead at once (the program has three, with nothing different about the middle one; `transfer`
has three because two mishaps must leave an attempt). Two batches are the
smallest number for which "the last one" is a question. A chain of three steps
has a step with dependencies before and after it. One replay of a two-step plan
already interleaves with every statement of a worker; the second adds nothing
but ids. The keys -1..2 give ranges across zero, with gaps, with a full and a
short last batch; a fraction inside a range and one behind its end are the two
places a fraction can have; with `MaxExact` = 2 and `MaxInt` = 4 the keys 3 and 4
are rounded, and make the loop wrap. Two releases, of which one has a script the other lacks and
the same script under another name, are what a rolling upgrade has. A channel of
one is full at once, and a replay of one is too short at once. For the translator
a bound is a depth: a parser looks one or two tokens ahead, and the writer at one
operator and its operands, so that three levels, or two clauses side by side,
already show each pair of functions to each other. Symmetry is used for workers in runs that check invariants
only, and never with liveness.

Where the theorems of section 4 cover a property, no bound matters.

**Fairness.** Workers poll for ever, handlers return, the supervisor, the
dispatcher and the watcher are tickers that loop until the process ends, an HTTP
handler that has begun executes its next statement, and time passes: weak
fairness of each. The claim is fair as a whole (`some worker claims some job`),
because Claim's order gives no job a right of its own. Nothing is assumed of API
callers, crashes, errors and lost statements, which are bounded and may or may
not happen. A migrator executes its next statement (weak fairness), and the
advisory lock is granted to those who wait in their order (strong fairness of
`AcquireLock`). `Settles` holds for every job once callers are quiet, and only
then: a caller may reset a job for ever. `RunTerminates` is checked with failing
handlers and without crashes; `dead_batch` shows why a crash breaks it.

### Disagreements between the code and what is said of it

1. `dead_batch`. `store.go:173`: "Batched steps (copy_table) finalize via the
   regular step-rollup path." A batch job that dies in the orphan sweep ends its
   step on no path: the sweep excludes batch jobs, and the roll-up counts the
   batch as unfinished. The run never ends.
2. `named_handlers`. `plsql_xlate.go:2653`: "Unknown user-defined conditions fall
   back to OTHERS with a warning comment so the translation remains
   syntactically valid." The comment is put between THEN and the first statement
   of the handler, on one line: the statement becomes part of the comment.
3. `upper_case_order`. `translator.go:2594`: "Names are compared and emitted
   lowercased — Oracle identifiers fold to lowercase on the PG side and that's also
   the order PG uses to schedule trigger firing." They are compared so; what is
   emitted, between quotes, has the case of the dump. `Z PRECEDES M` becomes `aa_Z`,
   and capitals sort before "a": it fires after `M`.

### Observations

Seen with TLC by changing the constants, the inputs or the properties of a
configuration, or met while translating the code; not kept as runs. The inputs
of `translate` leave these cases out, so that the properties speak of the rest.

*Runs, plan and copy*

* `handlers.go:182` says "Idempotent on re-run: existing batches are kept; missing
  ones are created." Executed again after its transaction has committed,
  `hCopyTable` skips the batch rows (`ON CONFLICT DO NOTHING`, line 234) and then
  inserts jobs with batch ids that were never inserted. The foreign key fails, on
  this and on every further attempt.
* `runs.go:591` says that a replay clears jobs and batches and the dispatcher
  "re-runs the whole cascade". A worker that was past `Succeed` of the copy_table
  job finds no batches afterwards, takes the step for one without batches and
  marks it succeeded. Nothing is copied. A worker whose handler fails after the
  replay leaves the step stranded (`run_reruns` has no failing handlers with replays).
* `runs.go:807` says "The DAG stays connected because non-copy steps don't depend
  on copy_table." Every create_index does, and create_fk and the routines depend
  on create_ddl only through it: with `skip_data` they may come first.

* `DependencyOrder` and `SucceededRunIsComplete` fail in `RunEngine_reruns.cfg`: a
  replay between the dispatcher's query and its insert (`main.go:197`, `:233`), or
  between the watcher's count and its update (`main.go:319`), is not seen.
* `RunningStepHasWork` fails with `Operations = {"retry"}` (`runs.go:499-511`, three
  statements, a worker in between) and with `MaxCrashes = 1` (a crash between
  `Succeed` and the roll-up, `pool.go:164`, which no one repeats).
* A run may be failed while batch jobs of its failed step are still to be
  executed (`main.go:311` looks at steps only).
* A job killed by `cancelRun` becomes pending again if its worker reports a
  failure (`store.go:131`); a second run may be started while handlers of a
  cancelled one still write to the target (`runs.go:478`).
* `ExactCopy` fails with `MayOutlive = TRUE` (two executions of one key range at once),
  with `Kind = "db2"` (`copier.go:167` passes limit and offset in the order of
  MySQL, `source_dialect.go:297` takes them in the order of Oracle) and with
  `StableScan = FALSE` (offset queries of MySQL and Oracle have no ORDER BY).
* A source connection that fails while its rows are copied loses the rest of the
  batch: the rows that came are committed, the batch is reported as copied, and
  nothing executes it again (`copier.go:211`, `:235`; `rows.Err()` is never called).
  hValidate finds it by the number of rows and fails the run after everything else
  is done; it finds nothing in a table without a primary key in which as many rows were
  doubled, or when `MayOutlive` lets a worker lose rows after it has counted.
* A numeric key with a fraction between `high` of one range and `low = high + 1` of the
  next is in no range (`partitioner.go:103-113`; `source_dialect.go:170`, `:244`, `:359`
  admit such columns). If MIN or MAX has a fraction, or in MySQL any decimals,
  Scan into int64 fails and so does the copy of the table.
* An offset batch of a table without a primary key is not idempotent: executed
  twice, its rows are there twice. `ExactCopy` says so explicitly.
* Bounds beyond `MaxExact` (2^53) are rounded on their way through JSON, and rows
  between two rounded ranges are not copied. With a key within one batch of the
  end of int64 `low` wraps and the loop does not end.
* In a schema without tables create_fk depends on nothing, so that `MinTables = 0`
  breaks `NeedsMet`.
* `Build` wires no dependency from a view to a function it calls.

*Service*

* `ServeSSE` says that it returns when the run reaches a terminal state, by "closing
  the channel via a terminal Event" (`bus.go:99`); nothing closes it. Two publishers
  may deliver events in another order than the stored one.
* A replay whose query fails half way writes what it has read, in the order of the
  events, and goes on with the live ones (`bus.go:155`, no `rows.Err()`): the older of
  the recent events are missing, and the client is not told.
* `down` of an older release skips versions it does not know.
* `project.go:321` says "existing rows are left untouched", and discovery renames
  the target of rows that are already planned.

*Parsers: statements*

* MySQL: `captureBeginEnd` counts `END WHILE` and `END REPEAT` without their openers,
  which truncates the body, and `IF(` or `IF EXISTS` as openers, which swallows the
  objects that follow. A delimiter `$$` is not supported, although comments mention
  it, and the branch for DELIMITER in `Parse` is dead.
* MySQL: `DEFAULT e NOT NULL` and `ON UPDATE e NOT NULL` lose both clauses
  (`parser_ddl.go:1602`): the expression takes the NOT.
* MySQL: `UNIQUE KEY (...) USING BTREE` and COMMENT on a key end the list of elements.
  `CREATE TABLE (... constraints) AS SELECT` drops constraints and indexes.
  `ADD COLUMN (a, b)` keeps the first; ADD INDEX in ALTER is dropped. `ALTER ... SET
  DEFAULT e` reads past the ";". `CREATE SEQUENCE ... NO ;` takes the ";". A package
  of MariaDB ends at its first END.
* Oracle: "/" ends a statement wherever it stands (`parser.go:547`), in a division
  too. `ADD c NUMBER` and MODIFY without parentheses swallow the following
  statement; `MODIFY (a, b)` keeps the first although the comment near
  `parser_ddl.go:2391` says one action per column; `DROP COLUMN c` becomes the drop
  of a constraint.
* Oracle: a routine with a local subprogram ends at the first inner END; a package
  body with an initialisation block and a compound trigger without "/" swallow what
  follows; UPDATE OF columns of triggers are dropped.
* Oracle and DB2: inline REFERENCES (DB2: CHECK too) and names of inline constraints
  are dropped. DB2: parameters of procedures are dropped; a view that ends the
  script without ";" loses its SELECT; an unknown table option leaves the rest as a
  statement of its own; RENAME without COLUMN or TO is ignored.
* Damaged statements that cost more than themselves, and are left out of
  `ErrorsStayLocal`: Oracle CREATE INDEX (`parser_ddl.go:565`), MySQL PARTITION BY with
  a wrong word, Oracle's PARTITION clause before unknown options.

*Parsers: queries and expressions*

* MySQL chains comparisons left to right (`parser_ddl.go:1579`). `NOT NOT a` and
  `- -a` are not parsed; ESCAPE is dropped. Oracle groups `a || b + c` from the left,
  and drops DISTINCT of typed aggregates.
* A select item `t.a + 1` is not parsed. `(WITH ... SELECT ...)` loses its WITH, an outer
  ORDER BY replaces that of a parenthesised query, and parentheses around branches
  of a UNION are dropped.
* MySQL: `FROM t USE INDEX (a), u` takes the comma for another hint; `DELETE t.*` and
  `INSERT INTO t (SELECT ...)` are not read; ORDER BY and LIMIT of UPDATE and DELETE
  are dropped silently. A body statement that starts with WITH stays text.
* Oracle: `WITH ... SELECT ... INTO` in a body is put together again as `SELECT WITH ...`
  (`parser_plsql.go`, about 965). `:NEW.col` leaves its `.col` behind. BULK COLLECT
  wraps `a + b` as `array_agg(a +) b`. `RETURNING ... INTO` loses its variables. OFFSET
  at the end of a query is not consumed. `b(+)` without a qualifier is an error. FOR
  UPDATE behind CONNECT BY overwrites it.

*Routine bodies*

* ZERO_DIVIDE and DUP_VAL_ON_INDEX are not in the allow-list and become OTHERS;
  `RAISE NO_DATA_FOUND` raises P0001, which no NO_DATA_FOUND handler sees; SELECT
  INTO is not STRICT, so that no row sets NULL and raises nothing; `%NOTFOUND`
  becomes FOUND, read late.
* The rewriting of cursor loops (`plsql_xlate.go:3178-3229`) drops `FETCH cur INTO v`,
  "no longer needed because the FOR loop natively iterates" (line 3207). The loop reads into
  `_row`, which the body does not know: `v` keeps its initial value, NULL, in every
  iteration. `SameEffects` without `LosesFetched` fails on the smallest such body.
  It also drops every `IF c THEN LEAVE` guard, replaces every LOOP of the block, and
  drops OPEN and CLOSE of other cursors.
* A FETCH past the last row sets its variables to NULL in PostgreSQL and leaves them
  alone in the sources: what is read from them after the loop differs.
* CONTINUE with the label of a loop over a query is rejected by PostgreSQL. `FOR
  SQLEXCEPTION, SQLWARNING` and numeric conditions of handlers are not read as such.
  A DECLARE of several names is joined. `EXIT WHEN` and `CASE WHEN` in a handler are
  taken for handlers. Parse errors of Oracle bodies are dropped silently, and
  `parsePLBlockStmts` may loop on a stray ")".
* FORALL SAVE EXCEPTIONS never raises ORA-24381, although the comment near
  `plsql_xlate.go:1865` says full semantics. GOTO is dropped with a warning, the
  LIMIT of BULK COLLECT and the bounds of INDICES OF without one. PostgreSQL rolls a
  block back when one of its handlers runs, the sources do not.

*Triggers, tables, types*

* Chains of FOLLOWS and PRECEDES and unlucky names break the firing order, and a
  renamed trigger replaces one that has the new name already. Case breaks the order too: besides `upper_case_order`, `TRGA` and `TRG_A` sort one way as they are and the
  other way in lower case, because "_" lies between the two alphabets, and a name
  that needs a prefix gets none. DISABLE is lost for a trigger that was renamed or split, and
  for one with "#" in its name, which ALTER TRIGGER looks up with "_" instead
  (`translator.go:3508`). A statement trigger of Oracle becomes a row trigger.
  BEFORE DELETE triggers of Oracle return NEW, which is NULL, and suppress the DELETE.
* ALTER INDEX RENAME, RENAME TABLE, TRUNCATE, CREATE TABLE LIKE and DROP are executed
  before CREATE TABLE. ALTER TABLE ADD CONSTRAINT ignores DISABLE and NOVALIDATE. An
  index with the name of a table collides with it. The sequence of a NUMERIC
  identity starts at 2 on an empty table. Chains of foreign keys may keep different
  types (`harmonizeFKTypes`). ALTER SEQUENCE of Oracle keeps the source schema.
* FLOAT(25..53) of MySQL becomes REAL; TINYINT(1) becomes Boolean whatever it holds;
  BIT(1) 0x01 is copied as FALSE (`copier.go:405`); the year 0000 fails its CHECK; a
  TIME beyond a day and a ROWID become NULL; fractions beyond six digits are cut;
  FLOAT(126) of Oracle becomes double precision; BINARY without a length gets a CHECK
  for length 0.

## 4. What is proved

| Theorem | Property | Holds for |
|---|---|---|
| `JobQueueProofs!TypeCorrect` | `TypeOK`, for the proofs only | all jobs, workers, attempts |
| `JobQueueProofs!AttemptsBounded` | `AttemptBudget` | the same |
| `JobQueueProofs!Ownership` | `HolderOwnsRow`, for the proofs only | the same |
| `JobQueueProofs!Exclusive` | `ExclusiveClaim` | the same |
| `JobQueueProofs!SuccessIsFinal` | `SucceededIsFinal` | the same |
| `RunEngineProofs!RefinesJobQueue` | `QueueSpec` | all plans, workers, operations, faults, crashes |
| `RunEngineProofs!NoDoubleDispatch` | `SingleDispatch` | the same |
| `RunEngineProofs!BatchesComplete` | `NoBatchLeftBehind` | the same, without replays (`NoReplay`) |
| `RunEngineProofs!DependentsFollowData` | no handler works for a step before the tables the step depends on are completely copied | the same, without replays |
| `RunEngineProofs!RunningStepsAttended` | `RunningStepHasWork` | all plans and workers, failing and slow handlers, any play (`Reporting`) |
| `RunEngineProofs!DependenciesFirst` | `DependencyOrder` | all plans and workers, failing handlers, lost statements other than Succeed (`Undisturbed`) |
| `RunEngineProofs!SucceededRunsStayComplete` | `SucceededRunIsComplete` | the same |
| `RunEngineProofs!RefinesMigrationRun` | `RunSpec` | the same |
| `RunEngineProofs!EndIsFinal` | a run that has ended keeps its status, and its steps theirs | the same |
| `PlannerProofs!PlanOrder` | `NeedsMet` | all schemas with a table, without `skip_data` |
| `PlannerProofs!LevelsAreSound` | `LevelsFollowDeps` | all schemas, with `skip_data` too |
| `PlannerProofs!PlanNeverStuck` | as long as a step is left, one is left whose dependencies are executed | the same |
| `TransferProofs!RangesPartitionKeys` | `KeysPartitioned` | all tables, keys with fractions too, batch sizes, workers; whole parts up to 2^53, a batch that fits between it and the end of int64 (`BatchFits`) |
| `TransferProofs!RangesCopiedExactly` | `ExactCopy`, of tables with a numeric key | the same, any crashes, errors and cut streams, no batch that outlives the TTL |
| `TransferProofs!OffsetsCopied` | `ExactCopy`, of all other tables | all of them, repeated batches, cut streams, batches that outlive the TTL; MySQL and Oracle, scans in one order (`PlainOffsets`) |
| `TransferProofs!TablesCopiedExactly` | `ExactCopy` | the hypotheses of both |
| `TransferProofs!ValidationFindsLosses` | `ValidatedCopy` | all tables, keys, dialects, scans, faults, cut streams; no batch that outlives the TTL |
| `TransferProofs!CopyRefinesQueue` | the jobs of a copy behave as JobQueue | all tables, workers, faults |
| `SchemaMigrateProofs!LedgerAgrees` | `LedgerTellsSchema` | all migrators, releases, scripts, failures |
| `SchemaMigrateProofs!VersionOrder` | `ScriptsInOrder` | the same |
| `SharedMemoryProofs!SendsAreSafe` | `NoSendOnClosed` | all publishers, clients, events, capacities |
| `SharedMemoryProofs!NoGap` | `StreamHasNoGap` | the same, replays that fail half way too |
| `SharedMemoryProofs!CacheIsSafe` | `PoolsUsable` | all workers, jobs, migrations, instances |
| `SharedMemoryProofs!HandlersGetTheirPools` | a handler has an entry of its own migration and, unless it creates the database, an open pool on it | the same |
| `CatalogProofs!ConsentHolds` | `LaunchedWithConsent` | all schemas, prerequisites, clients, requests |
| `CatalogProofs!UserStateKept` | `UserStateSurvives` | the same |
| `TranslateProofs!DisabledAreKept` | `DisabledStaysDisabled` | all names and schemas of triggers |
| `TranslateProofs!TriggersAreKept` | `NoTriggerLost` | the same |
| `TranslateProofs!OrderIsKept` | `FiringOrder` | names in either case, before zz_ and, without capitals, behind aa_ (`OrdinaryNames`), any number of triggers |
| `TranslateProofs!KeysAreFresh` | `NextKeyIsFresh` | all tables, columns, indexes, foreign keys, contents |
| `TranslateProofs!ForeignKeysAreKept` | `ForeignKeysArrive` | the same |

The assumptions on constants are the named ASSUMEs of the modules: distinct
"nothing" values, positive bounds, plans whose dependencies lie in the same run
and on lower levels (`StepAssumption`; theorem `LevelsAreSound` says that the
planner's do), releases with finitely many scripts of distinct versions (what
`LoadMigrations` refuses otherwise), finitely many workers, schemas with finitely
many objects (`FiniteAssumption`), finitely many trigger names made of bytes other than "#"
(`TrgNamesAssumption`) that differ in lower case and from each other's prefixed names
(`CaseAssumption`), keys that are integers with a fraction (`IntAssumption`), tables whose foreign keys have a column exactly when they
have a target (`TdAssumption`). What a theorem
assumes beyond them is the hypothesis in the last column, a named definition
before it.

**The queue.** `IInv` is `TypeOK /\ AttemptBudget /\ HolderOwnsRow`. `ExclusiveClaim` is
not inductive on its own: that Claim, which takes a pending row, cannot find
another worker on it that is not stale follows from `HolderOwnsRow`, which says
that such a worker's row is running. The same fact gives `SucceededIsFinal`: a
worker whose Fail hits a succeeded row is stale. `AttemptBudget` needs its second
half to be inductive: attempts grows by one in Claim only, from a pending row.

**Refinement.** `InsertJobs` is an Enqueue of unused ids, every WHERE clause selects
a subset of the jobs, and each action of RunEngine, and of Transfer, contains one
action of JobQueue or leaves the table alone. So the theorems on the queue hold
of the whole program.

**Dispatch.** `SingleDispatch` is about the two statements of the dispatcher. Its
invariant `DispatchInv` adds that a step in the dispatcher's hands (`ready`) has no
job of its own and belongs to a run that was started, that a run not yet started
has no jobs, and that workers hold jobs of steps. The argument: only startRun
and the dispatcher insert step jobs; there is one dispatcher; startRun inserts
for a run that was not there, whose steps it therefore does not hold. Every
other action keeps or removes jobs (`ShrinkingStep`).

**Batches.** `BatchInv` holds under every fault because it speaks of facts that
never become false again once true: that a step has its batches, that a batch is
copied, that all the batches of a step are (`CopiedStays`). `Witnessed` says of each
worker which of these facts it saw before its next statement, so that the
statement is right however late it comes: between hasBatches, the count and the
final update of the step other workers, the supervisor and the API do what they
like. `JobsFollowData` and `ReadyFollowsData` carry the facts over to the steps that
depend on the table. Statuses of steps are not such facts: a worker's `FailStep`
turns a succeeded step into a failed one when it finds a dead job of the step,
and a batch job may be dead although its batch is copied (a crash between
`BatchDone` and `Succeed` on the last attempt, a cancel, a late Fail of a stale
worker). A replay deletes batches, and with them the facts: `NoReplay`.

**Attendance.** `RunningStepHasWork` is about the end of a step, when the last job is
gone and nobody may be left to roll the step up. `WorkInv` strengthens it to say who
is left: a busy worker, a worker that will count the batches after the last of
them was recorded, or one about to fail the step, which will find a dead job
(`DeadIsReported`). `Reporting` excludes crashes, lost reports, cancel, retry and
replay, each of which removes that worker or the dead job; the observations of
section 3 give the runs.

**Order.** `DependencyOrder` and `SucceededRunIsComplete` need succeeded steps to stay
succeeded. `OwnInv` says that workers own their jobs, alone, and that a report of
success is true; `FinishedJobs` of `StepInv` follows: when a step is about to succeed all of its
jobs have, so that no FailStep of a slower worker finds a dead one. Then what the
dispatcher (`ReadyIsFresh`) and the watcher (`RunsComplete`) read in one statement
still holds in the next. `Undisturbed` is what this takes: each of an API call, a
crash, a handler that outlives the TTL and a lost Succeed leads to a dead job of a step that
succeeds, as above. Under those only the weaker `DependentsFollowData` is
left, which is why it is a theorem of its own.

**The end.** For `RunSpec` every write of a status must be a move of MigrationRun,
although the code writes by id, without looking at what the row holds by then.
Most of it is `StepInv`: the step of a worker belongs to a running run and has its
dependencies succeeded. `EndInv` adds what failure needs. A failed step has a dead job, and
dead jobs stay dead, so the step never counts as done again. A run that has failed, or
that the watcher is about to fail, is stuck (`Stuck`): a step of it has failed, and of
the others that have not ended each waits for one that will not succeed. So the
verdict still holds when it is written, and no worker or dispatcher touches a
run after its end, which is `EndIsFinal`. With retry a dead job is gone, and with
cancel a run ends with workers still on it.

**The plan.** `Closed`, that the executed steps are closed under dependencies, is
inductive. `Chain` follows it from create_fk down to create_target_db, which needs
a table: `MinTables > 0`. `"filter" \notin Skips` excludes `skip_data`, for which the
theorem is false (section 3, observations).

**Levels.** `assignLevels` gives a step one more than the highest level it depends
on, a function defined by recursion over the plan. The library's induction
theorems cannot be used (they take an operator), so that the proof argues with
sets. `NoCycle`: each kind of step depends on earlier kinds only, but for views on
views, and views of a source schema have no cycle (`Acyclic`).
`LevelsExist`: take a largest set of steps, closed under dependencies, that can be
given levels; if a step is left out, one is left whose dependencies are all in it,
and the set was not the largest. `LevelsUnique`: of the steps on which two assignments
differ one depends on none of the others, so they agree on it. So the function of the model
is the one that was shown to exist, and every step is above its dependencies
(`LevelInAbove`). `filterSkipDataSteps` replaces dependencies on dropped steps by one on the root of
the plan, which has the lowest level, and keeps the levels: the inequality stays true. By `NoCycle` some step of those left depends on none of
them: `PlanNeverStuck`. That the run then gets there is `PlanCompletes`, with TLC.

**The ranges.** `LoopInv` is the loop invariant of `computeNumericRanges`: the ranges
built so far are disjoint, lie below `low` and hold every key below `low`; when the
loop ends `low` is above `maxV`. A key with a fraction lies between the integers of
one range, or behind the last of them (`SpanOrGap`). `ExactTable` and `BatchFits` keep the
bounds exact in JSON and the arithmetic below the end of int64.

**The copy by key.** `CopyInv` says that every range has one job and every job that
is worked on one worker, that the rows of a job that has succeeded and was not cut are there
once, and where between its DELETE and its report each worker's rows are. By
`LoopInv` no row lies in the ranges of two jobs, so what one worker does to its
own rows is undone by nobody. With `MayOutlive` two workers may be between DELETE
and COPY of the same rows, and the target may end without them.

**The copy by offset.** Here nothing is deleted, and `OffsetInv` needs no exclusive
workers. Rows that are there stay; with a key the second COPY of a batch fails as
a whole; without one `FirstAttempts` says that a job claimed once has at most one
execution, which finds its rows missing. `OffsetsPartition` is the arithmetic:
positions of rows are below their number, and each lies between two neighbouring
multiples of the batch size and no other two. `PlainOffsets` names the dialects that
take limit and offset in the order they are passed, and scans in one order; the
other cases are observations.

**Validation.** `ValidInv` holds whatever was lost: what is on the target is on the source
(`NoForeignRows`), and the conflict on the key keeps it from being there twice. So the
target is a subset of the source, and `EqualCounts` says that a finite subset with as
many elements is the whole. Nobody works on the table after the verdict, because
all jobs have succeeded and workers own theirs (`OneWorkerPerJob`), which is why
`MayOutlive` is excluded.

**Migrations.** `MigInv`: only the holder of the advisory lock changes ledger and
schema, so what it read before its loop stays true but for its own changes.
Upwards the scripts left are those whose versions the ledger lacks; downwards
every later version has been rolled back already. The second half matters for
`ScriptsInOrder` when two releases give one version different names.

**Events.** `MapInv`: a channel is closed only when it is out of the map, and a publisher in
the fan-out offers only to channels in the map, because changes of the map wait
for its read lock. `GapInv` is about each client and each stored event: the event
is in the stream or the channel, was dropped, aged out of the replay or was left unread by one that failed, or some publisher has
still to offer it to *this* client. Subscribing before replaying is what makes it true at first.

**Connections.** `ConnInv`: a pool is known to the cache, or to one worker that is
opening it, and never closed in the first case. Two workers that miss at the
same time open twice. `MissesBounded` counts: entries of a migration and workers
that have missed are together no more than the workers, because a worker that
finds the first entry never misses again.

**Consent.** `CatInv`: ids of instances are not used twice, so that a request that finds its
instance finds the row it read (`RowsStay`), whatever was deleted and created
in between; what a plan on its way into a run is blocked by was acknowledged
when the start was checked.

**Triggers.** `TrgInv`: each routine comes from a trigger of the dump and has its name,
renamed or with a section (`FromTrigger`); an ALTER TRIGGER finds its routine, because
all triggers are translated before (`Phases`, `AlterArrives`); what is on the target was
put there by a routine. `DisabledStaysDisabled` follows. `NoTriggerLost` needs `OneEach`,
that no two routines have one name: otherwise the later CREATE TRIGGER takes the place of the
earlier. It follows from `CaseAssumption`, which excludes a trigger `zz_t` beside
`t FOLLOWS ...`. `FiringOrder` needs `OrdinaryNames`: a prefix then moves
a name past all the names it may meet (`BeforeZZ`), and where no prefix is put the order of the
names in lower case is that of the names, by the hypothesis in the property. The
second half of `NoTriggerLost`, that a section has its own statements, is about the
positions of markers in a compound body, whatever sections it has in whatever order.

**Tables.** `TdInv` has one part per phase. `PlanInv`: what is in the plan stands in the
source, and each table is in the plan or still in the dump; it goes through
`harmonizeFKTypes`, which changes types and nothing else. `PrereqInv`: what leads out of the
schema is reported once the plan is finished. `BetweenInv`: after create_ddl, if its
script has run, every key has its sequence or identity and there is no foreign key. `DoneInv`: after create_fk the keys
are set by a statement of the plan, and the foreign keys are the plan's. A script is a
recursive function of its length (`Run`), and `UpTo` is induction over the set of
indices for which a claim holds, from `LeastNatural`. One statement is `ExecutePost`: a
foreign key that is there stays, a validated one stays validated, a set key changes only
by another setval or restart of the same key. In the script the VALIDATE of a key
stands behind its ADD (`Holds`: the statements of one foreign key are neighbours in the
flattened script), so at the end both have been executed. Both theorems speak of scripts
that have run: that they do is `ScriptsRun`.

**Only model-checked**:

* Liveness (`Settles`, `RunTerminates`, `MigratorsFinish`, `PlanCompletes`,
  `RangeCopySucceeds`), which is beyond the prover.
* `GroupingKept`, `SameEffects`, `ValuesArrive`, `DumpKept`, `ErrorsStayLocal`: Expr, Routines,
  ColumnTypes, Dump and the grammars use recursive operators over trees and
  token sequences, with which tlapm has no SMT backend.
* `ScriptsRun`. For arbitrary names it is false (an index with the name of a table,
  see the observations); that `dedupeIndexNames` finds a free suffix is an argument
  about cardinalities of a fold.

## 5. What is not modelled

* The lexers: a text is a sequence of tokens. Quoting and character sets belong to
  them.
* Of the translator: partitioning, packages, dynamic SQL (`oracle_dyn_trigger.go`
  and the EXECUTE IMMEDIATE rewrites), outer joins, temporal tables, generated
  columns, and the names and arguments of built-in functions. These are rewrites
  of text by pattern; a model would restate the patterns.
* Of the parsers: the queries and routine bodies of DB2, which the code keeps as
  text, and the inside of packages.
* Quoting and the layout of a SELECT in the writers.
* Inspection and discovery: catalog queries, whose result is the input of Planner
  and of the parsers.
* Router and authentication, connections, configuration, MCP server, frontend:
  stateless filters, pure I/O and proxies. CRUD of projects: one row, one statement.
* The statements that hInspect and hCreateTargetDB execute; the comparison of history
  tables in hValidate; the repetition of create_ddl and create_fk on a schema that
  has their objects already.
* The row that a trigger function returns, and trigger names with "#".
* The payload of events, and the driver's own conversions of values.

## 6. Plan

Done: JobQueue, MigrationRun, RunEngine, Planner and Transfer; the service (SchemaMigrate,
EventBus, ConnCache, Catalog); the translator (Triggers, TableDDL, Expr, Routines,
ColumnTypes) and the parsers (Parsing, the grammars, Bodies, Dump). Theorems for
every safety property of the first two groups, and for those of Triggers and
TableDDL but `ScriptsRun`.

Left, in this order:

1. `ScriptsRun` for names of tables, keys and indexes that cannot collide, with
   `dedupeIndexNames` as a recursive function.
2. Partitioned tables: the primary key of the target must hold the partition key.
3. Outer joins of Oracle, `(+)`, as a rewriting of the FROM clause against its
   meaning.
